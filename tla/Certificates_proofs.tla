-------------------------- MODULE Certificates_proofs --------------------------
(***************************************************************************)
(* Theorems about Certificates for every sequence of domains and every     *)
(* bound.  The inductive invariant says what the challenge records hold,   *)
(* who is at work when (provisionACME is over before the evictor starts),  *)
(* and what provisionACME has already seen cached on its way through the   *)
(* domains; GapExplained follows from it.                                  *)
(***************************************************************************)
EXTENDS Certificates, FiniteSetTheorems, SequenceTheorems, TLAPS

Orders == [pc : {"idle", "look", "lock", "validate", "cleanup", "done"},
           subject : SubjectSet \union {None},
           result : {"none", "ok", "error", "ari"}]

\* A goroutine without an order has no subject that means anything.
AcmeTypes ==
    /\ stored \in [SubjectSet -> Certs]
    /\ cached \in [SubjectSet -> Certs]
    /\ records \in [DomainSet -> Seq(Actors)]
    /\ job \in [Actors -> Orders]
    /\ \A a \in Actors : job[a].pc # "idle" => job[a].subject \in SubjectSet
    /\ provisioner \in [pc : {"off", "next", "manage", "done"}, domain : Nat \ {0},
                        successes : Nat, errors : Nat, config : {None, "acme", "selfsigned"}]
    /\ evictor \in [pc : {"off", "wait", "check", "uncache", "delete", "reissue"},
                    at : 1 .. Len(Subjects)]
    /\ disableARI \in BOOLEAN
    /\ lost \subseteq SubjectSet

-------------------------------------------------------------------------------
(* The parts of the inductive invariant. *)

Distinct(list) == \A i, j \in DOMAIN list : list[i] = list[j] => i = j
Holds(list, e) == \E i \in DOMAIN list : list[i] = e

\* a has presented its token at d's challenge name and not cleaned it up.
Ordering(a, d) == job[a].pc \in {"validate", "cleanup"} /\ ChallengeName(job[a].subject) = d

RecordsInv ==
    \A d \in DomainSet :
        Distinct(records[d]) /\ \A a \in Actors : Holds(records[d], a) <=> Ordering(a, d)

\* While provisionACME is at work there is no evictor and no config yet; each
\* of the two waits for the ManageSync it called.
PlacesInv ==
    /\ provisioner.pc # "done" => evictor.pc = "off" /\ lost = {} /\ provisioner.config = None
    /\ provisioner.pc = "manage" <=> job["provision"].pc # "idle"
    /\ evictor.pc = "reissue" <=> job["evict"].pc # "idle"
    /\ evictor.pc = "reissue" => job["evict"].subject = At

\* A ManageSync that returned without an error left its subject cached.
IssuedInv ==
    \A a \in {"provision", "evict"} :
        job[a].pc = "done" /\ job[a].result = "ok" => cached[job[a].subject] # None

BothCached(d) == cached[<<d, "apex">>] # None /\ cached[<<d, "wild">>] # None

\* provisionACME is at one domain; its wildcard comes after the domain itself.
ManagedInv ==
    provisioner.pc = "manage" =>
        /\ provisioner.domain <= Len(Domains)
        /\ \/ job["provision"].subject = <<Domains[provisioner.domain], "apex">>
           \/ /\ job["provision"].subject = <<Domains[provisioner.domain], "wild">>
              /\ cached[<<Domains[provisioner.domain], "apex">>] # None

\* As long as nothing failed, the domains behind it have their certificates.
BehindInv ==
    provisioner.pc \in {"next", "manage"} /\ provisioner.errors = 0 =>
        \A k \in 1 .. Len(Domains) : k < provisioner.domain => BothCached(Domains[k])

CertInv == /\ AcmeTypes /\ RecordsInv /\ PlacesInv
           /\ IssuedInv /\ ManagedInv /\ BehindInv /\ GapExplained

-------------------------------------------------------------------------------
(* Lemmas about the operators of AcmeCerts. *)

LEMMA DomainsType ==
    /\ Domains \in Seq(DomainSet)
    /\ Len(Domains) \in Nat \ {0} /\ DOMAIN Domains = 1 .. Len(Domains)
    /\ \A k \in 1 .. Len(Domains) : Domains[k] \in DomainSet
<1>1. Domains \in Seq(DomainSet)
    BY DomainsAssumption DEF DomainSet, ToSet
<1>2. Domains # <<>>
    BY DomainsAssumption
<1> QED BY <1>1, <1>2

\* Every subject is a domain or its wildcard, and both of each domain are there.
LEMMA SubjectsPaired ==
    /\ Len(Subjects) = 2 * Len(Domains)
    /\ \A i \in 1 .. Len(Subjects) : Subjects[i] \in SubjectSet
    /\ \A d \in DomainSet : <<d, "apex">> \in SubjectSet /\ <<d, "wild">> \in SubjectSet
    /\ \A s \in SubjectSet : \E k \in 1 .. Len(Domains) :
          s = <<Domains[k], "apex">> \/ s = <<Domains[k], "wild">>
<1> DEFINE n == Len(Domains)
           half(i) == (i + 1) \div 2
<1>1. n \in Nat /\ DOMAIN Domains = 1 .. n
    BY DomainsType
<1>2. \A i \in 1 .. 2 * n : half(i) \in 1 .. n
    BY <1>1
<1>3. \A k \in 1 .. n : /\ half(2 * k - 1) = k /\ (2 * k - 1) % 2 = 1
                        /\ half(2 * k) = k /\ (2 * k) % 2 # 1
                        /\ 2 * k - 1 \in 1 .. 2 * n /\ 2 * k \in 1 .. 2 * n
    BY <1>1
<1>4. /\ DOMAIN Subjects = 1 .. 2 * n
      /\ \A i \in 1 .. 2 * n :
            Subjects[i] = <<Domains[half(i)], IF i % 2 = 1 THEN "apex" ELSE "wild">>
    BY DEF Subjects
<1>5. Len(Subjects) = 2 * n
    <2>1. Subjects \in Seq(SubjectSet)
        <3>1. \A i \in 1 .. 2 * n : Subjects[i] \in SubjectSet
            BY <1>4 DEF SubjectSet
        <3>2. Subjects \in [1 .. 2 * n -> SubjectSet]
            BY <1>4, <3>1 DEF Subjects
        <3> QED BY <1>1, <3>2
    <2> QED BY <1>1, <1>4, <2>1
<1> HIDE DEF half
<1>6. \A k \in 1 .. n : Subjects[2 * k - 1] = <<Domains[k], "apex">>
    BY <1>3, <1>4
<1>7. \A k \in 1 .. n : Subjects[2 * k] = <<Domains[k], "wild">>
    BY <1>3, <1>4
<1>8. \A d \in DomainSet : <<d, "apex">> \in SubjectSet /\ <<d, "wild">> \in SubjectSet
    <2> SUFFICES ASSUME NEW d \in DomainSet
                 PROVE  <<d, "apex">> \in SubjectSet /\ <<d, "wild">> \in SubjectSet
        OBVIOUS
    <2>1. PICK k \in 1 .. n : Domains[k] = d
        BY <1>1 DEF DomainSet
    <2> QED BY <1>3, <1>4, <1>6, <1>7, <2>1 DEF SubjectSet
<1>9. ASSUME NEW s \in SubjectSet
      PROVE  \E k \in 1 .. n : s = <<Domains[k], "apex">> \/ s = <<Domains[k], "wild">>
    <2>1. PICK i \in 1 .. 2 * n : Subjects[i] = s
        BY <1>4 DEF SubjectSet
    <2> QED BY <1>2, <1>4, <2>1
<1>10. \A i \in 1 .. Len(Subjects) : Subjects[i] \in SubjectSet
    BY <1>4, <1>5 DEF SubjectSet
<1> QED BY <1>5, <1>8, <1>9, <1>10

LEMMA SubjectParts ==
    ASSUME NEW s \in SubjectSet
    PROVE  /\ ChallengeName(s) \in DomainSet
           /\ s[1] \in DomainSet
           /\ s = <<s[1], "apex">> \/ s = <<s[1], "wild">>
           /\ (s[2] = "apex") <=> (s = <<s[1], "apex">>)
<1>1. PICK k \in 1 .. Len(Domains) : s = <<Domains[k], "apex">> \/ s = <<Domains[k], "wild">>
    BY SubjectsPaired
<1> QED BY <1>1, DomainsType DEF ChallengeName

\* acmeStore.Add: the value is there, once, whether it was or not.
LEMMA AddRecordAdds ==
    ASSUME NEW S, NEW list \in Seq(S), NEW e \in S, Distinct(list)
    PROVE  /\ AddRecord(list, e) \in Seq(S)
           /\ Distinct(AddRecord(list, e))
           /\ \A x : Holds(AddRecord(list, e), x) <=> Holds(list, x) \/ x = e
<1>1. CASE Contains(list, e)
    BY <1>1 DEF AddRecord, Contains, Holds
<1>2. CASE ~Contains(list, e)
    <2>1. AddRecord(list, e) = Append(list, e)
        BY <1>2 DEF AddRecord
    <2> DEFINE longer == Append(list, e)
    <2>2. /\ longer \in Seq(S) /\ Len(longer) = Len(list) + 1
          /\ \A i \in 1 .. Len(list) : longer[i] = list[i]
          /\ longer[Len(list) + 1] = e
        OBVIOUS
    <2>3. \A i \in 1 .. Len(list) : list[i] # e
        BY <1>2 DEF Contains
    <2> HIDE DEF longer
    <2>4. Distinct(longer)
        BY <2>2, <2>3 DEF Distinct
    <2>5. \A x : Holds(longer, x) <=> Holds(list, x) \/ x = e
        BY <2>2 DEF Holds
    <2> QED BY <2>1, <2>2, <2>4, <2>5 DEF longer
<1> QED BY <1>1, <1>2

\* acmeStore.Delete: the value is gone and every other one is still there.
LEMMA DeleteRecordDeletes ==
    ASSUME NEW S, NEW list \in Seq(S), NEW e, Distinct(list)
    PROVE  /\ DeleteRecord(list, e) \in Seq(S)
           /\ Distinct(DeleteRecord(list, e))
           /\ \A x : Holds(DeleteRecord(list, e), x) <=> Holds(list, x) /\ x # e
<1>1. CASE ~Holds(list, e)
    BY <1>1 DEF DeleteRecord, Contains, Holds
<1>2. CASE Holds(list, e)
    <2> DEFINE k == CHOOSE i \in DOMAIN list : list[i] = e
               front == SubSeq(list, 1, k - 1)
               back == SubSeq(list, k + 1, Len(list))
               rest == front \o back
    <2>1. k \in 1 .. Len(list) /\ list[k] = e
        BY <1>2 DEF Holds
    <2>2. DeleteRecord(list, e) = rest
        <3>1. Contains(list, e)
            BY <2>1 DEF Contains
        <3> QED BY <3>1 DEF DeleteRecord, RemoveAt
    <2> HIDE DEF k
    <2>3. /\ front \in Seq(S) /\ Len(front) = k - 1
          /\ \A i \in 1 .. k - 1 : front[i] = list[i]
        BY <2>1, SubSeqProperties
    <2>4. /\ back \in Seq(S) /\ Len(back) = Len(list) - k
          /\ \A i \in 1 .. Len(list) - k : back[i] = list[i + k]
        BY <2>1, SubSeqProperties
    <2> HIDE DEF front, back
    <2>5. /\ rest \in Seq(S)
          /\ Len(rest) = Len(list) - 1
          /\ \A i \in 1 .. Len(rest) : rest[i] = IF i < k THEN list[i] ELSE list[i + 1]
        <3>1. /\ rest \in Seq(S)
              /\ Len(rest) = Len(front) + Len(back)
              /\ \A i \in 1 .. Len(front) + Len(back) :
                    rest[i] = IF i <= Len(front) THEN front[i] ELSE back[i - Len(front)]
            BY <2>3, <2>4, ConcatProperties
        <3> HIDE DEF rest
        <3>2. Len(rest) = Len(list) - 1
            BY <2>1, <2>3, <2>4, <3>1
        <3>3. ASSUME NEW i \in 1 .. Len(rest)
              PROVE  rest[i] = IF i < k THEN list[i] ELSE list[i + 1]
            <4>1. CASE i < k
                BY <2>1, <2>3, <2>4, <3>1, <3>2, <4>1
            <4>2. CASE ~(i < k)
                <5>1. rest[i] = back[i - (k - 1)]
                    BY <2>1, <2>3, <2>4, <3>1, <3>2, <4>2
                <5>2. i - (k - 1) \in 1 .. Len(list) - k
                    BY <2>1, <3>2, <4>2
                <5>3. back[i - (k - 1)] = list[(i - (k - 1)) + k]
                    BY <2>4, <5>2
                <5> QED BY <2>1, <4>2, <5>1, <5>3
            <4> QED BY <4>1, <4>2
        <3> QED BY <3>1, <3>2, <3>3
    <2> HIDE DEF rest
    <2>6. Distinct(rest)
        <3> SUFFICES ASSUME NEW i \in 1 .. Len(rest), NEW j \in 1 .. Len(rest),
                            rest[i] = rest[j]
                     PROVE  i = j
            BY <2>5 DEF Distinct
        <3> DEFINE at(n) == IF n < k THEN n ELSE n + 1
        <3>1. /\ at(i) \in DOMAIN list /\ at(j) \in DOMAIN list
              /\ list[at(i)] = list[at(j)]
            BY <2>1, <2>5
        <3>2. at(i) = at(j)
            BY <3>1 DEF Distinct
        <3> QED BY <2>1, <3>2
    <2>7. ASSUME NEW x, Holds(rest, x)
          PROVE  Holds(list, x) /\ x # e
        <3>1. PICK i \in 1 .. Len(rest) : rest[i] = x
            BY <2>5, <2>7 DEF Holds
        <3>2. CASE i < k
            BY <2>1, <2>5, <3>1, <3>2 DEF Holds, Distinct
        <3>3. CASE ~(i < k)
            BY <2>1, <2>5, <3>1, <3>3 DEF Holds, Distinct
        <3> QED BY <3>2, <3>3
    <2>8. ASSUME NEW x, Holds(list, x), x # e
          PROVE  Holds(rest, x)
        <3>1. PICK i \in 1 .. Len(list) : list[i] = x
            BY <2>8 DEF Holds
        <3>2. CASE i < k
            BY <2>1, <2>5, <3>1, <3>2 DEF Holds
        <3>3. CASE i > k
            <4>1. i - 1 \in 1 .. Len(rest) /\ rest[i - 1] = x
                BY <2>1, <2>5, <3>1, <3>3
            <4> QED BY <2>5, <4>1 DEF Holds
        <3> QED BY <2>1, <2>8, <3>1, <3>2, <3>3
    <2> QED BY <2>2, <2>5, <2>6, <2>7, <2>8
<1> QED BY <1>1, <1>2

\* A sequence without repetitions is as long as its set is large.
LEMMA DistinctLen ==
    ASSUME NEW S, NEW list \in Seq(S), Distinct(list)
    PROVE  Len(list) = Cardinality(ToSet(list))
<1>1. list \in Bijection(1 .. Len(list), ToSet(list))
    <2>1. list \in [1 .. Len(list) -> ToSet(list)]
        BY DEF ToSet
    <2>2. list \in Injection(1 .. Len(list), ToSet(list))
        BY <2>1 DEF Distinct, Injection, IsInjective
    <2>3. list \in Surjection(1 .. Len(list), ToSet(list))
        BY <2>1 DEF ToSet, Surjection
    <2> QED BY <2>2, <2>3 DEF Bijection
<1>2. IsFiniteSet(1 .. Len(list)) /\ Cardinality(1 .. Len(list)) = Len(list)
    <2>1. Len(list) \in Nat
        OBVIOUS
    <2>2. \A a, b \in Int : IsFiniteSet(a .. b)
                            /\ Cardinality(a .. b) = (IF a > b THEN 0 ELSE b - a + 1)
        BY FS_Interval
    <2> QED BY <2>1, <2>2
<1>3. ExistsBijection(1 .. Len(list), ToSet(list))
    BY <1>1 DEF ExistsBijection
<1> QED BY <1>2, <1>3, FS_Bijection

\* RecordsInv is the reason for RecordsAreOrders.
LEMMA RecordsInvSuffices == AcmeTypes /\ RecordsInv => RecordsAreOrders
<1> SUFFICES ASSUME AcmeTypes, RecordsInv, NEW d \in DomainSet
             PROVE  /\ TXTAnswer(d) = {a \in Actors : Ordering(a, d)}
                    /\ Len(records[d]) = Cardinality(TXTAnswer(d))
    BY DEF RecordsAreOrders, Ordering
<1>1. records[d] \in Seq(Actors) /\ Distinct(records[d])
    BY DEF AcmeTypes, RecordsInv
<1>2. TXTAnswer(d) = {a \in Actors : Ordering(a, d)}
    <2>1. \A a \in Actors : Holds(records[d], a) <=> Ordering(a, d)
        BY DEF RecordsInv
    <2>2. TXTAnswer(d) = {a \in Actors : Holds(records[d], a)}
        BY <1>1 DEF TXTAnswer, ToSet, Holds
    <2> QED BY <2>1, <2>2
<1>3. Len(records[d]) = Cardinality(TXTAnswer(d))
    BY <1>1, DistinctLen DEF TXTAnswer
<1> QED BY <1>2, <1>3

\* A step that leaves the records alone and takes no goroutine into or out of
\* its order keeps them right.
LEMMA RecordsStay ==
    ASSUME RecordsInv, UNCHANGED records,
           \A a \in Actors :
              \/ job'[a] = job[a]
              \/ /\ job[a].pc \notin {"validate", "cleanup"}
                 /\ job'[a].pc \notin {"validate", "cleanup"}
              \/ /\ job[a].pc \in {"validate", "cleanup"}
                 /\ job'[a].pc \in {"validate", "cleanup"}
                 /\ job'[a].subject = job[a].subject
    PROVE  RecordsInv'
<1>1. ASSUME NEW a \in Actors, NEW d \in DomainSet
      PROVE  Ordering(a, d)' <=> Ordering(a, d)
    BY DEF Ordering, ChallengeName
<1> QED BY <1>1 DEF RecordsInv

-------------------------------------------------------------------------------
(* Issuing: what a goroutine does for one subject. *)

\* What an order may do to the rest of CertInv: the caches only fill, and an
\* order of startup or evictor that ends well leaves its subject cached.
LEMMA OrderKeepsRest ==
    ASSUME NEW a \in Actors, CertInv, AcmeTypes',
           job[a].pc # "idle",
           UNCHANGED <<provisioner, evictor, lost>>,
           \A s \in SubjectSet : cached[s] # None => cached'[s] # None,
           \A b \in Actors \ {a} : job'[b] = job[b],
           job'[a].pc = "idle" => a = "renew",
           job'[a].pc # "idle" => job'[a].subject = job[a].subject,
           job'[a].pc = "done" /\ job'[a].result = "ok" => cached'[job[a].subject] # None
    PROVE  PlacesInv' /\ IssuedInv' /\ ManagedInv' /\ BehindInv' /\ GapExplained'
<1>1. /\ \A b \in Actors : job[b].pc # "idle" => job[b].subject \in SubjectSet
      /\ Actors = {"provision", "evict", "renew"}
    BY DEF CertInv, AcmeTypes, Actors
<1>2. \A b \in {"provision", "evict"} :
         /\ job'[b].pc = "idle" <=> job[b].pc = "idle"
         /\ job[b].pc # "idle" => job'[b].subject = job[b].subject
    BY <1>1
<1>3. At' = At
    BY DEF At
<1>4. PlacesInv'
    BY <1>2, <1>3 DEF CertInv, PlacesInv
<1>5. IssuedInv'
    BY <1>1, <1>2 DEF CertInv, IssuedInv
<1>6. \A d \in DomainSet : BothCached(d) => BothCached(d)'
    BY SubjectsPaired DEF BothCached
<1>7. ManagedInv'
    <2> SUFFICES ASSUME provisioner.pc = "manage"
                 PROVE  ManagedInv'
        BY DEF ManagedInv
    <2>1. job["provision"].pc # "idle"
        BY DEF CertInv, PlacesInv
    <2>2. job'["provision"].subject = job["provision"].subject
        BY <1>2, <2>1
    <2>3. provisioner.domain \in 1 .. Len(Domains)
        BY DomainsType DEF CertInv, ManagedInv, AcmeTypes
    <2>4. <<Domains[provisioner.domain], "apex">> \in SubjectSet
        BY <2>3, DomainsType, SubjectsPaired
    <2> QED BY <2>2, <2>4 DEF CertInv, ManagedInv
<1>8. BehindInv'
    BY <1>6, DomainsType DEF CertInv, BehindInv
<1>9. GapExplained'
    BY <1>3 DEF CertInv, GapExplained
<1> QED BY <1>4, <1>5, <1>7, <1>8, <1>9

LEMMA IssuingKeepsInv ==
    ASSUME NEW a \in Actors, CertInv, Issuing(a)
    PROVE  CertInv'
<1> DEFINE s == job[a].subject
           d == ChallengeName(s)
<1>1. /\ AcmeTypes /\ RecordsInv /\ IssuedInv
      /\ \A b \in Actors : job[b].pc # "idle" => job[b].subject \in SubjectSet
    BY DEF CertInv, AcmeTypes
<1>2. /\ job \in [Actors -> Orders] /\ job[a] \in Orders
      /\ cached \in [SubjectSet -> Certs] /\ stored \in [SubjectSet -> Certs]
      /\ records \in [DomainSet -> Seq(Actors)]
    BY DEF CertInv, AcmeTypes
<1>3. job[a].pc # "idle"
    BY DEF Issuing, ManageLook, Present, ValidateOk, ValidateFails, CleanUp
<1>4. s \in SubjectSet /\ d \in DomainSet /\ d = s[1]
    BY <1>1, <1>3, SubjectParts DEF ChallengeName
<1>5. {"fresh", "old"} \subseteq Certs /\ None \in Certs /\ None \notin {"fresh", "old"}
    BY NoCertAssumption DEF Certs
<1> HIDE DEF s, d
<1>6. Distinct(records[d]) /\ records[d] \in Seq(Actors)
    BY <1>1, <1>2, <1>4 DEF RecordsInv
<1>7. ASSUME AcmeTypes', RecordsInv', UNCHANGED <<provisioner, evictor, lost>>,
             \A t \in SubjectSet : cached[t] # None => cached'[t] # None,
             \A b \in Actors \ {a} : job'[b] = job[b],
             job'[a].pc = "idle" => a = "renew",
             job'[a].pc # "idle" => job'[a].subject = s,
             job'[a].pc = "done" /\ job'[a].result = "ok" => cached'[s] # None
      PROVE  CertInv'
    <2>1. PlacesInv' /\ IssuedInv' /\ ManagedInv' /\ BehindInv' /\ GapExplained'
        BY <1>3, <1>7, OrderKeepsRest DEF s
    <2> QED BY <1>7, <2>1 DEF CertInv
<1>8. ASSUME NEW pc \in {"idle", "look", "lock", "validate", "cleanup", "done"}, NEW r \in {"none", "ok", "error", "ari"}
      PROVE  Order(pc, s, r) \in Orders
    BY <1>4 DEF Order, Orders
<1>9. CASE ManageLook(a)
    <2>1. /\ UNCHANGED <<stored, records, provisioner, evictor, disableARI, lost>>
          /\ job[a].pc = "look"
          /\ cached' = IF cached[s] = None /\ stored[s] # None
                       THEN [cached EXCEPT ![s] = stored[s]] ELSE cached
          /\ job' = [job EXCEPT ![a] = IF cached[s] # None \/ stored[s] = "fresh"
                                       THEN Order("done", s, "ok") ELSE Order("lock", s, "none")]
        BY <1>9 DEF ManageLook, s
    <2>2. cached' \in [SubjectSet -> Certs]
        BY <1>2, <1>4, <2>1
    <2>3. /\ job' \in [Actors -> Orders]
          /\ \A b \in Actors \ {a} : job'[b] = job[b]
          /\ \/ cached'[s] # None /\ job'[a] = Order("done", s, "ok")
             \/ job'[a] = Order("lock", s, "none")
        BY <1>2, <1>4, <1>5, <1>8, <2>1
    <2>4. /\ job'[a].pc \in {"done", "lock"} /\ job'[a].subject = s
          /\ job'[a].pc = "done" => cached'[s] # None
        BY <2>3 DEF Order
    <2>5. AcmeTypes'
        BY <1>1, <1>4, <2>1, <2>2, <2>3, <2>4 DEF AcmeTypes
    <2>6. RecordsInv'
        BY <1>1, <2>1, <2>3, <2>4, RecordsStay
    <2>7. \A t \in SubjectSet : cached[t] # None => cached'[t] # None
        BY <1>2, <1>4, <2>1
    <2> QED BY <1>7, <2>1, <2>3, <2>4, <2>5, <2>6, <2>7
<1>10. CASE Present(a)
    <2>1. /\ UNCHANGED <<stored, provisioner, evictor, disableARI, lost>>
          /\ job[a].pc = "lock"
        BY <1>10 DEF Present
    <2>2. CASE stored[s] = "fresh"
        <3>1. /\ UNCHANGED records
              /\ cached' = [cached EXCEPT ![s] = "fresh"]
              /\ job' = [job EXCEPT ![a] = Order("done", s, "ok")]
            BY <1>10, <2>2 DEF Present, s
        <3>2. /\ job' \in [Actors -> Orders]
              /\ \A b \in Actors \ {a} : job'[b] = job[b]
              /\ job'[a] = Order("done", s, "ok")
              /\ cached' \in [SubjectSet -> Certs] /\ cached'[s] # None
            BY <1>2, <1>4, <1>5, <1>8, <3>1
        <3>3. job'[a].pc = "done" /\ job'[a].subject = s
            BY <3>2 DEF Order
        <3>4. AcmeTypes'
            BY <1>1, <1>4, <2>1, <3>1, <3>2, <3>3 DEF AcmeTypes
        <3>5. RecordsInv'
            BY <1>1, <2>1, <3>1, <3>2, <3>3, RecordsStay
        <3>6. \A t \in SubjectSet : cached[t] # None => cached'[t] # None
            BY <1>2, <1>4, <1>5, <3>1
        <3> QED BY <1>7, <2>1, <3>2, <3>3, <3>4, <3>5, <3>6
    <2>3. CASE stored[s] # "fresh"
        <3>1. /\ UNCHANGED cached
              /\ records' = [records EXCEPT ![d] = AddRecord(@, a)]
              /\ job' = [job EXCEPT ![a] = Order("validate", s, "none")]
            BY <1>10, <2>3 DEF Present, s, d
        <3>2. /\ job' \in [Actors -> Orders]
              /\ \A b \in Actors \ {a} : job'[b] = job[b]
              /\ job'[a] = Order("validate", s, "none")
            BY <1>2, <1>4, <1>8, <3>1
        <3>3. job'[a].pc = "validate" /\ job'[a].subject = s
            BY <3>2 DEF Order
        <3>4. /\ AddRecord(records[d], a) \in Seq(Actors)
              /\ Distinct(AddRecord(records[d], a))
              /\ \A x : Holds(AddRecord(records[d], a), x) <=> Holds(records[d], x) \/ x = a
            BY <1>6, AddRecordAdds
        <3>5. /\ records' \in [DomainSet -> Seq(Actors)]
              /\ records'[d] = AddRecord(records[d], a)
              /\ \A e \in DomainSet \ {d} : records'[e] = records[e]
            BY <1>2, <1>4, <3>1, <3>4
        <3>6. AcmeTypes'
            BY <1>1, <1>4, <2>1, <3>1, <3>2, <3>3, <3>5 DEF AcmeTypes
        <3>7. RecordsInv'
            <4> SUFFICES ASSUME NEW e \in DomainSet
                         PROVE  /\ Distinct(records'[e])
                                /\ \A b \in Actors : Holds(records'[e], b) <=> Ordering(b, e)'
                BY DEF RecordsInv
            <4>1. \A b \in Actors \ {a} : Ordering(b, e)' <=> Ordering(b, e)
                BY <3>2 DEF Ordering
            <4>2. (Ordering(a, e)' <=> e = d) /\ ~Ordering(a, e)
                BY <1>4, <2>1, <3>3 DEF Ordering, ChallengeName
            <4>3. /\ Distinct(records[e])
                  /\ \A b \in Actors : Holds(records[e], b) <=> Ordering(b, e)
                BY <1>1 DEF RecordsInv
            <4>4. CASE e = d
                BY <3>4, <3>5, <4>1, <4>2, <4>3, <4>4
            <4>5. CASE e # d
                BY <3>5, <4>1, <4>2, <4>3, <4>5
            <4> QED BY <4>4, <4>5
        <3> QED BY <1>7, <2>1, <3>1, <3>2, <3>3, <3>6, <3>7
    <2> QED BY <2>2, <2>3
<1>11. CASE ValidateOk(a) \/ ValidateFails(a)
    <2>1. PICK r \in {"ok", "error", "ari"} :
             job' = [job EXCEPT ![a].pc = "cleanup", ![a].result = r]
        BY <1>11 DEF ValidateOk, ValidateFails
    <2>2. /\ UNCHANGED <<stored, cached, records, provisioner, evictor, disableARI, lost>>
          /\ job[a].pc = "validate"
        BY <1>11 DEF ValidateOk, ValidateFails
    <2>3. /\ job' \in [Actors -> Orders]
          /\ \A b \in Actors \ {a} : job'[b] = job[b]
          /\ job'[a].pc = "cleanup" /\ job'[a].subject = s
        BY <1>2, <2>1 DEF Orders, s
    <2>4. AcmeTypes'
        BY <1>1, <1>4, <2>2, <2>3 DEF AcmeTypes
    <2>5. RecordsInv'
        BY <1>1, <2>2, <2>3, RecordsStay DEF s
    <2> QED BY <1>7, <2>2, <2>3, <2>4, <2>5
<1>12. CASE CleanUp(a)
    <2>1. /\ UNCHANGED <<provisioner, evictor, disableARI, lost>>
          /\ job[a].pc = "cleanup"
          /\ records' = [records EXCEPT ![d] = DeleteRecord(@, a)]
          /\ job' = [job EXCEPT ![a] = IF a = "renew" THEN NoOrder ELSE [@ EXCEPT !.pc = "done"]]
        BY <1>12 DEF CleanUp, s, d
    <2>2. /\ cached' \in [SubjectSet -> Certs] /\ stored' \in [SubjectSet -> Certs]
          /\ \A t \in SubjectSet : cached[t] # None => cached'[t] # None
          /\ job[a].result = "ok" => cached'[s] # None
        <3>1. CASE job[a].result = "ok"
            <4>1. /\ stored' = [stored EXCEPT ![s] = "fresh"]
                  /\ cached' = [cached EXCEPT ![s] = "fresh"]
                BY <1>12, <3>1 DEF CleanUp, s
            <4> QED BY <1>2, <1>4, <1>5, <4>1
        <3>2. CASE job[a].result # "ok"
            <4>1. UNCHANGED <<stored, cached>>
                BY <1>12, <3>2 DEF CleanUp
            <4> QED BY <1>2, <3>2, <4>1
        <3> QED BY <3>1, <3>2
    <2>3. NoOrder \in Orders /\ NoOrder.pc = "idle"
        BY DEF NoOrder, Order, Orders
    <2>4. [job[a] EXCEPT !.pc = "done"] \in Orders
        BY <1>2 DEF Orders
    <2>5. /\ job' \in [Actors -> Orders]
          /\ \A b \in Actors \ {a} : job'[b] = job[b]
          /\ job'[a] = IF a = "renew" THEN NoOrder ELSE [job[a] EXCEPT !.pc = "done"]
        BY <1>2, <2>1, <2>3, <2>4
    <2>6. \/ a = "renew" /\ job'[a].pc = "idle"
          \/ job'[a].pc = "done" /\ job'[a].subject = s /\ job'[a].result = job[a].result
        BY <1>2, <2>3, <2>5 DEF Orders, s
    <2>7. /\ DeleteRecord(records[d], a) \in Seq(Actors)
          /\ Distinct(DeleteRecord(records[d], a))
          /\ \A x : Holds(DeleteRecord(records[d], a), x) <=> Holds(records[d], x) /\ x # a
        BY <1>6, DeleteRecordDeletes
    <2>8. /\ records' \in [DomainSet -> Seq(Actors)]
          /\ records'[d] = DeleteRecord(records[d], a)
          /\ \A e \in DomainSet \ {d} : records'[e] = records[e]
        BY <1>2, <1>4, <2>1, <2>7
    <2>9. AcmeTypes'
        BY <1>1, <1>4, <2>1, <2>2, <2>5, <2>6, <2>8 DEF AcmeTypes
    <2>10. RecordsInv'
        <3> SUFFICES ASSUME NEW e \in DomainSet
                     PROVE  /\ Distinct(records'[e])
                            /\ \A b \in Actors : Holds(records'[e], b) <=> Ordering(b, e)'
            BY DEF RecordsInv
        <3>1. \A b \in Actors \ {a} : Ordering(b, e)' <=> Ordering(b, e)
            BY <2>5 DEF Ordering
        <3>2. (Ordering(a, e) <=> e = d) /\ ~Ordering(a, e)'
            BY <1>4, <2>1, <2>6 DEF Ordering, ChallengeName, s
        <3>3. /\ Distinct(records[e])
              /\ \A b \in Actors : Holds(records[e], b) <=> Ordering(b, e)
            BY <1>1 DEF RecordsInv
        <3>4. CASE e = d
            BY <2>7, <2>8, <3>1, <3>2, <3>3, <3>4
        <3>5. CASE e # d
            BY <2>8, <3>1, <3>2, <3>3, <3>5
        <3> QED BY <3>4, <3>5
    <2> QED BY <1>7, <2>1, <2>2, <2>5, <2>6, <2>9, <2>10
<1> QED BY <1>9, <1>10, <1>11, <1>12 DEF Issuing

-------------------------------------------------------------------------------
(* provisionACME. *)

\* A new order begins outside the CA.
LEMMA LookIsOrder ==
    ASSUME NEW s \in SubjectSet
    PROVE  /\ Order("look", s, "none") \in Orders
           /\ Order("look", s, "none").pc = "look" /\ Order("look", s, "none").subject = s
           /\ Order("lock", s, "none") \in Orders
           /\ Order("lock", s, "none").pc = "lock" /\ Order("lock", s, "none").subject = s
           /\ NoOrder \in Orders /\ NoOrder.pc = "idle"
BY DEF Order, NoOrder, Orders

LEMMA ProvisioningKeepsInv ==
    ASSUME CertInv, Provisioning
    PROVE  CertInv'
<1> DEFINE here == Domains[provisioner.domain]
<1>1. AcmeTypes /\ RecordsInv /\ PlacesInv /\ IssuedInv /\ ManagedInv /\ BehindInv /\ GapExplained
    BY DEF CertInv
<1>2. /\ job \in [Actors -> Orders] /\ "provision" \in Actors
      /\ \A b \in Actors : job[b].pc # "idle" => job[b].subject \in SubjectSet
      /\ provisioner \in [pc : {"off", "next", "manage", "done"}, domain : Nat \ {0},
                          successes : Nat, errors : Nat, config : {None, "acme", "selfsigned"}]
    BY <1>1 DEF AcmeTypes, Actors
<1>3. None # "acme" /\ None # "selfsigned"
    BY NoCertAssumption
<1>4. NoOrder \in Orders /\ NoOrder.pc = "idle"
    BY DEF NoOrder, Order, Orders
<1>5. UNCHANGED <<stored, cached, records, lost>>
    BY DEF Provisioning, ProvisionDomain, ProvisionOk, ProvisionRetry, ProvisionError, ProvisionDone
<1>6. ASSUME provisioner.domain <= Len(Domains)
      PROVE  /\ provisioner.domain \in 1 .. Len(Domains) /\ here \in DomainSet
             /\ <<here, "apex">> \in SubjectSet /\ <<here, "wild">> \in SubjectSet
    <2>1. provisioner.domain \in 1 .. Len(Domains)
        BY <1>2, <1>6, DomainsType
    <2> QED BY <2>1, DomainsType, SubjectsPaired
\* The order of provisionACME begins, ends, or goes on to another subject.
<1>7. ASSUME UNCHANGED evictor, disableARI' \in BOOLEAN,
             job["provision"].pc \in {"idle", "done"},
             NEW o \in Orders, job' = [job EXCEPT !["provision"] = o],
             o.pc \in {"idle", "look"}, o.pc = "look" => o.subject \in SubjectSet,
             provisioner' \in [pc : {"next", "manage"}, domain : Nat \ {0},
                               successes : Nat, errors : Nat, config : {None}],
             provisioner'.pc = "manage" <=> o.pc = "look",
             provisioner.pc # "done",
             ManagedInv', BehindInv'
      PROVE  CertInv'
    <2>1. /\ job' \in [Actors -> Orders] /\ job'["provision"] = o
          /\ \A b \in Actors \ {"provision"} : job'[b] = job[b]
        BY <1>2, <1>7
    <2>2. AcmeTypes'
        BY <1>1, <1>5, <1>7, <2>1 DEF AcmeTypes
    <2>3. RecordsInv'
        BY <1>1, <1>5, <1>7, <2>1, RecordsStay
    <2>4. PlacesInv'
        <3>1. At' = At /\ "evict" \in Actors \ {"provision"}
            BY <1>7 DEF At, Actors
        <3> QED BY <1>1, <1>5, <1>7, <2>1, <3>1 DEF PlacesInv
    <2>5. IssuedInv'
        BY <1>1, <1>5, <1>7, <2>1 DEF IssuedInv, Actors
    <2>6. GapExplained'
        BY <1>3, <1>7 DEF GapExplained
    <2> QED BY <1>7, <2>2, <2>3, <2>4, <2>5, <2>6 DEF CertInv
<1>8. CASE ProvisionDomain
    <2>1. /\ provisioner.pc = "next" /\ provisioner.domain <= Len(Domains)
          /\ provisioner' = [provisioner EXCEPT !.pc = "manage"]
          /\ job' = [job EXCEPT !["provision"] = Order("look", <<here, "apex">>, "none")]
          /\ UNCHANGED <<evictor, disableARI>>
        BY <1>8 DEF ProvisionDomain
    <2>2. <<here, "apex">> \in SubjectSet
        BY <1>6, <2>1
    <2> DEFINE o == Order("look", <<here, "apex">>, "none")
    <2>3. o \in Orders /\ o.pc = "look" /\ o.subject = <<here, "apex">>
        BY <2>2, LookIsOrder
    <2>4. job' = [job EXCEPT !["provision"] = o] /\ job'["provision"] = o
        BY <1>2, <2>1
    <2> HIDE DEF o
    <2>5. job["provision"].pc = "idle" /\ provisioner.config = None
        BY <1>1, <2>1 DEF PlacesInv
    <2>6. /\ provisioner' \in [pc : {"next", "manage"}, domain : Nat \ {0},
                               successes : Nat, errors : Nat, config : {None}]
          /\ provisioner'.pc = "manage" /\ provisioner'.domain = provisioner.domain
          /\ provisioner'.errors = provisioner.errors
        BY <1>2, <2>1, <2>5
    <2>7. ManagedInv'
        BY <2>1, <2>3, <2>4, <2>6 DEF ManagedInv
    <2>8. BehindInv'
        BY <1>1, <1>5, <2>1, <2>6 DEF BehindInv, BothCached
    <2>9. disableARI' \in BOOLEAN
        BY <1>1, <2>1 DEF AcmeTypes
    <2>10. provisioner.pc # "done" /\ o.subject \in SubjectSet /\ UNCHANGED evictor
        BY <2>1, <2>2, <2>3
    <2> QED BY <1>7, <2>3, <2>4, <2>5, <2>6, <2>7, <2>8, <2>9, <2>10
<1>9. ASSUME Managed
      PROVE  /\ provisioner.pc = "manage" /\ job["provision"].pc = "done"
             /\ provisioner.domain <= Len(Domains) /\ provisioner.config = None
             /\ job["provision"].subject \in SubjectSet
    BY <1>1, <1>2, <1>9 DEF Managed, PlacesInv, ManagedInv
<1>10. CASE ProvisionOk
    <2> DEFINE s == job["provision"].subject
    <2>1. /\ Managed /\ job["provision"].result = "ok"
          /\ UNCHANGED <<evictor, disableARI>>
        BY <1>10 DEF ProvisionOk
    <2>2. cached[s] # None
        BY <1>1, <1>9, <2>1 DEF IssuedInv
    <2>3. disableARI' \in BOOLEAN
        BY <1>1, <2>1 DEF AcmeTypes
    <2>4. CASE s = <<here, "apex">>
        <3>1. /\ job' = [job EXCEPT !["provision"] = Order("look", <<s[1], "wild">>, "none")]
              /\ UNCHANGED provisioner
            BY <1>10, <2>4 DEF ProvisionOk
        <3>2. s[1] = here /\ <<here, "wild">> \in SubjectSet
            BY <1>6, <1>9, <2>1, <2>4
        <3> DEFINE o == Order("look", <<here, "wild">>, "none")
        <3>3. o \in Orders /\ o.pc = "look" /\ o.subject = <<here, "wild">>
            BY <3>2, LookIsOrder
        <3>4. job' = [job EXCEPT !["provision"] = o] /\ job'["provision"] = o
            BY <1>2, <3>1, <3>2
        <3> HIDE DEF o
        <3>5. ManagedInv'
            BY <1>5, <1>9, <2>1, <2>2, <2>4, <3>1, <3>3, <3>4 DEF ManagedInv
        <3>6. BehindInv'
            BY <1>1, <1>5, <3>1 DEF BehindInv, BothCached
        <3>7. provisioner' \in [pc : {"next", "manage"}, domain : Nat \ {0},
                                successes : Nat, errors : Nat, config : {None}]
            BY <1>2, <1>9, <2>1, <3>1
        <3>8. /\ provisioner.pc # "done" /\ provisioner'.pc = "manage"
              /\ o.subject \in SubjectSet /\ UNCHANGED evictor
              /\ job["provision"].pc = "done"
            BY <1>9, <2>1, <3>1, <3>2, <3>3
        <3> QED BY <1>7, <2>3, <3>3, <3>4, <3>5, <3>6, <3>7, <3>8
    <2>5. CASE s = <<here, "wild">> /\ cached[<<here, "apex">>] # None
        <3>1. s[2] # "apex"
            BY <2>5
        <3>2. /\ job' = [job EXCEPT !["provision"] = NoOrder]
              /\ provisioner' = [provisioner EXCEPT !.pc = "next", !.domain = @ + 1, !.successes = @ + 1]
            BY <1>10, <3>1 DEF ProvisionOk
        <3>3. /\ provisioner' \in [pc : {"next", "manage"}, domain : Nat \ {0},
                                   successes : Nat, errors : Nat, config : {None}]
              /\ provisioner'.pc = "next" /\ provisioner'.domain = provisioner.domain + 1
              /\ provisioner'.errors = provisioner.errors
            <4>1. provisioner.config = None /\ provisioner.domain + 1 \in Nat \ {0}
                  /\ provisioner.successes + 1 \in Nat
                BY <1>2, <1>9, <2>1
            <4> QED BY <1>2, <3>2, <4>1
        <3>4. ManagedInv'
            BY <3>3 DEF ManagedInv
        <3>5. BehindInv'
            <4> SUFFICES ASSUME provisioner.errors = 0,
                                NEW k \in 1 .. Len(Domains), k < provisioner.domain + 1
                         PROVE  BothCached(Domains[k])'
                BY <3>3 DEF BehindInv
            <4>1. CASE k < provisioner.domain
                BY <1>1, <1>5, <1>9, <2>1, <4>1 DEF BehindInv, BothCached
            <4>2. CASE k = provisioner.domain
                BY <1>5, <2>2, <2>5, <4>2 DEF BothCached
            <4> QED BY <1>2, <4>1, <4>2, DomainsType
        <3> QED BY <1>4, <1>7, <1>9, <2>1, <2>3, <3>2, <3>3, <3>4, <3>5
    <2> QED BY <1>1, <1>9, <2>1, <2>4, <2>5 DEF ManagedInv
<1>11. CASE ProvisionRetry
    <2>1. /\ Managed
          /\ disableARI' = TRUE
          /\ job' = [job EXCEPT !["provision"] = Order("look", <<here, "apex">>, "none")]
          /\ UNCHANGED <<provisioner, evictor>>
        BY <1>11 DEF ProvisionRetry
    <2> DEFINE o == Order("look", <<here, "apex">>, "none")
    <2>2. o \in Orders /\ o.pc = "look" /\ o.subject = <<here, "apex">>
          /\ <<here, "apex">> \in SubjectSet
        BY <1>6, <1>9, <2>1, LookIsOrder
    <2>3. job' = [job EXCEPT !["provision"] = o] /\ job'["provision"] = o
        BY <1>2, <2>1
    <2> HIDE DEF o
    <2>4. ManagedInv'
        BY <1>9, <2>1, <2>2, <2>3 DEF ManagedInv
    <2>5. BehindInv'
        BY <1>1, <1>5, <2>1 DEF BehindInv, BothCached
    <2>6. provisioner' \in [pc : {"next", "manage"}, domain : Nat \ {0},
                            successes : Nat, errors : Nat, config : {None}]
        BY <1>2, <1>9, <2>1
    <2> QED BY <1>7, <1>9, <2>1, <2>2, <2>3, <2>4, <2>5, <2>6
<1>12. CASE ProvisionError
    <2>1. /\ Managed
          /\ job' = [job EXCEPT !["provision"] = NoOrder]
          /\ provisioner' = [provisioner EXCEPT !.pc = "next", !.domain = @ + 1, !.errors = @ + 1]
          /\ UNCHANGED <<evictor, disableARI>>
        BY <1>12 DEF ProvisionError
    <2>2. /\ provisioner' \in [pc : {"next", "manage"}, domain : Nat \ {0},
                               successes : Nat, errors : Nat, config : {None}]
          /\ provisioner'.pc = "next" /\ provisioner'.errors # 0
        <3>1. /\ provisioner.config = None /\ provisioner.domain + 1 \in Nat \ {0}
              /\ provisioner.errors + 1 \in Nat /\ provisioner.errors + 1 # 0
            BY <1>2, <1>9, <2>1
        <3> QED BY <1>2, <2>1, <3>1
    <2>3. ManagedInv' /\ BehindInv'
        BY <2>2 DEF ManagedInv, BehindInv
    <2>4. disableARI' \in BOOLEAN
        BY <1>1, <2>1 DEF AcmeTypes
    <2> QED BY <1>4, <1>7, <1>9, <2>1, <2>2, <2>3, <2>4
<1>13. CASE ProvisionDone
    <2>1. /\ provisioner.pc = "next" /\ provisioner.domain > Len(Domains)
          /\ evictor' = [pc |-> "wait", at |-> 1]
          /\ provisioner' = [provisioner EXCEPT !.pc = "done",
                                !.config = IF provisioner.successes = 0 THEN "selfsigned" ELSE "acme"]
          /\ disableARI' \in BOOLEAN
          /\ UNCHANGED job
        BY <1>13 DEF ProvisionDone
    <2>2. /\ provisioner' \in [pc : {"off", "next", "manage", "done"}, domain : Nat \ {0},
                               successes : Nat, errors : Nat, config : {None, "acme", "selfsigned"}]
          /\ provisioner'.pc = "done" /\ provisioner'.errors = provisioner.errors
        BY <1>2, <2>1
    <2>3. evictor' \in [pc : {"off", "wait", "check", "uncache", "delete", "reissue"},
                        at : 1 .. Len(Subjects)]
        BY <2>1, DomainsType, SubjectsPaired
    <2>4. AcmeTypes'
        BY <1>1, <1>5, <2>1, <2>2, <2>3 DEF AcmeTypes
    <2>5. RecordsInv'
        BY <1>1, <1>5, <2>1, RecordsStay
    <2>6. PlacesInv'
        BY <1>1, <2>1, <2>2 DEF PlacesInv
    <2>7. IssuedInv'
        BY <1>1, <1>5, <2>1 DEF IssuedInv
    <2>8. ManagedInv' /\ BehindInv'
        BY <2>2 DEF ManagedInv, BehindInv
    <2>9. GapExplained'
        <3> SUFFICES ASSUME provisioner.errors = 0, NEW s \in SubjectSet
                     PROVE  cached'[s] # None
            BY <2>2 DEF GapExplained
        <3>1. PICK k \in 1 .. Len(Domains) : s = <<Domains[k], "apex">> \/ s = <<Domains[k], "wild">>
            BY SubjectsPaired
        <3>2. k < provisioner.domain
            BY <1>2, <2>1, DomainsType
        <3>3. BothCached(Domains[k])
            BY <1>1, <2>1, <3>2 DEF BehindInv
        <3> QED BY <1>5, <3>1, <3>3 DEF BothCached
    <2> QED BY <2>4, <2>5, <2>6, <2>7, <2>8, <2>9 DEF CertInv
<1> QED BY <1>8, <1>10, <1>11, <1>12, <1>13 DEF Provisioning

-------------------------------------------------------------------------------
(* The evictor. *)

LEMMA EvictorPlaces ==
    ASSUME AcmeTypes
    PROVE  /\ At \in SubjectSet
           /\ evictor \in [pc : {"off", "wait", "check", "uncache", "delete", "reissue"},
                           at : 1 .. Len(Subjects)]
           /\ NextSubject.pc \in {"wait", "check"}
           /\ NextSubject \in [pc : {"off", "wait", "check", "uncache", "delete", "reissue"},
                               at : 1 .. Len(Subjects)]
<1>1. evictor \in [pc : {"off", "wait", "check", "uncache", "delete", "reissue"},
                   at : 1 .. Len(Subjects)]
    BY DEF AcmeTypes
<1>2. Len(Subjects) \in Nat \ {0}
    BY DomainsType, SubjectsPaired
<1>3. At \in SubjectSet
    BY <1>1, SubjectsPaired DEF At
<1> QED BY <1>1, <1>2, <1>3 DEF NextSubject

\* The evictor moves on without touching a cache or an order.
LEMMA EvictorMoves ==
    ASSUME CertInv, UNCHANGED <<stored, cached, records, job, provisioner, disableARI>>,
           evictor.pc \notin {"off", "reissue"},
           evictor' = [evictor EXCEPT !.pc = "uncache"] \/ evictor' = NextSubject
               \/ evictor' = [pc |-> "check", at |-> 1],
           lost' \subseteq SubjectSet, lost \subseteq lost',
           evictor.pc = "delete" => At \in lost'
    PROVE  CertInv'
<1>1. AcmeTypes /\ RecordsInv /\ PlacesInv /\ IssuedInv /\ ManagedInv /\ BehindInv /\ GapExplained
    BY DEF CertInv
<1>2. /\ evictor' \in [pc : {"off", "wait", "check", "uncache", "delete", "reissue"},
                       at : 1 .. Len(Subjects)]
      /\ evictor'.pc \in {"uncache", "wait", "check"}
    BY <1>1, EvictorPlaces, DomainsType, SubjectsPaired
<1>3. AcmeTypes'
    BY <1>1, <1>2 DEF AcmeTypes
<1>4. RecordsInv'
    BY <1>1, RecordsStay
<1>5. PlacesInv'
    BY <1>1, <1>2 DEF PlacesInv
<1>6. IssuedInv' /\ ManagedInv' /\ BehindInv'
    BY <1>1 DEF IssuedInv, ManagedInv, BehindInv, BothCached
<1>7. GapExplained'
    BY <1>1 DEF GapExplained
<1> QED BY <1>3, <1>4, <1>5, <1>6, <1>7 DEF CertInv

LEMMA EvictingKeepsInv ==
    ASSUME CertInv, Evicting
    PROVE  CertInv'
<1>1. AcmeTypes /\ RecordsInv /\ PlacesInv /\ IssuedInv /\ ManagedInv /\ BehindInv /\ GapExplained
    BY DEF CertInv
<1>2. /\ At \in SubjectSet /\ lost \subseteq SubjectSet
      /\ job \in [Actors -> Orders] /\ "evict" \in Actors
      /\ evictor \in [pc : {"off", "wait", "check", "uncache", "delete", "reissue"},
                      at : 1 .. Len(Subjects)]
      /\ stored \in [SubjectSet -> Certs] /\ cached \in [SubjectSet -> Certs] /\ None \in Certs
    BY <1>1, EvictorPlaces DEF AcmeTypes, Actors, Certs
<1>3. CASE EvictorTick \/ Check \/ CheckUnreadable \/ EvictStoredFails
    <2>1. /\ UNCHANGED <<stored, cached, records, job, provisioner, disableARI>>
          /\ evictor.pc \in {"wait", "check", "delete"}
          /\ \/ evictor' = [evictor EXCEPT !.pc = "uncache"] \/ evictor' = NextSubject
             \/ evictor' = [pc |-> "check", at |-> 1]
          /\ \/ evictor.pc # "delete" /\ UNCHANGED lost
             \/ lost' = lost \union {At}
        BY <1>3 DEF EvictorTick, Check, CheckUnreadable, EvictStoredFails
    <2>2. lost' \subseteq SubjectSet /\ lost \subseteq lost' /\ (evictor.pc = "delete" => At \in lost')
        BY <1>2, <2>1
    <2> QED BY <2>1, <2>2, EvictorMoves
\* What the evictor does at a subject happens after provisionACME.
<1>4. ASSUME evictor.pc \notin {"off"}
      PROVE  provisioner.pc = "done" /\ job["provision"].pc = "idle"
    BY <1>1, <1>4 DEF PlacesInv
<1>5. CASE EvictCached
    <2>1. /\ evictor.pc = "uncache"
          /\ cached' = [cached EXCEPT ![At] = None]
          /\ evictor' = [evictor EXCEPT !.pc = "delete"]
          /\ UNCHANGED <<stored, records, job, provisioner, disableARI, lost>>
        BY <1>5 DEF EvictCached
    <2>2. /\ cached' \in [SubjectSet -> Certs]
          /\ \A s \in SubjectSet \ {At} : cached'[s] = cached[s]
          /\ evictor' \in [pc : {"off", "wait", "check", "uncache", "delete", "reissue"},
                           at : 1 .. Len(Subjects)]
          /\ evictor'.pc = "delete" /\ At' = At
        BY <1>2, <2>1 DEF At
    <2>3. AcmeTypes'
        BY <1>1, <2>1, <2>2 DEF AcmeTypes
    <2>4. RecordsInv'
        BY <1>1, <2>1, RecordsStay
    <2>5. PlacesInv'
        BY <1>1, <2>1, <2>2 DEF PlacesInv
    <2>6. IssuedInv'
        BY <1>1, <1>4, <2>1 DEF IssuedInv, PlacesInv
    <2>7. ManagedInv' /\ BehindInv'
        BY <1>4, <2>1 DEF ManagedInv, BehindInv
    <2>8. GapExplained'
        BY <1>1, <2>1, <2>2 DEF GapExplained
    <2> QED BY <2>3, <2>4, <2>5, <2>6, <2>7, <2>8 DEF CertInv
<1>6. CASE EvictStored
    <2> DEFINE o == Order("look", At, "none")
    <2>1. /\ evictor.pc = "delete"
          /\ stored' = [stored EXCEPT ![At] = None]
          /\ evictor' = [evictor EXCEPT !.pc = "reissue"]
          /\ job' = [job EXCEPT !["evict"] = o]
          /\ UNCHANGED <<cached, records, provisioner, disableARI, lost>>
        BY <1>6 DEF EvictStored
    <2>2. o \in Orders /\ o.pc = "look" /\ o.subject = At
        BY <1>2, LookIsOrder
    <2> HIDE DEF o
    <2>3. /\ stored' \in [SubjectSet -> Certs]
          /\ job' \in [Actors -> Orders] /\ job'["evict"] = o
          /\ \A b \in Actors \ {"evict"} : job'[b] = job[b]
          /\ evictor' \in [pc : {"off", "wait", "check", "uncache", "delete", "reissue"},
                           at : 1 .. Len(Subjects)]
          /\ evictor'.pc = "reissue" /\ At' = At
        BY <1>2, <2>1, <2>2 DEF At
    <2>4. job["evict"].pc = "idle"
        BY <1>1, <2>1 DEF PlacesInv
    <2>5. AcmeTypes'
        BY <1>1, <1>2, <2>1, <2>2, <2>3 DEF AcmeTypes
    <2>6. RecordsInv'
        BY <1>1, <2>1, <2>2, <2>3, <2>4, RecordsStay
    <2>7. PlacesInv'
        BY <1>1, <1>4, <2>1, <2>2, <2>3 DEF PlacesInv, Actors
    <2>8. IssuedInv'
        BY <1>1, <2>1, <2>2, <2>3 DEF IssuedInv, Actors
    <2>9. ManagedInv' /\ BehindInv'
        BY <1>4, <2>1 DEF ManagedInv, BehindInv
    <2>10. GapExplained'
        BY <1>1, <2>1, <2>3 DEF GapExplained
    <2> QED BY <2>5, <2>6, <2>7, <2>8, <2>9, <2>10 DEF CertInv
<1>7. CASE Reissued
    <2>1. /\ evictor.pc = "reissue" /\ job["evict"].pc = "done"
          /\ lost' = IF job["evict"].result = "ok" THEN lost \ {At} ELSE lost \union {At}
          /\ job' = [job EXCEPT !["evict"] = NoOrder]
          /\ evictor' = NextSubject
          /\ UNCHANGED <<stored, cached, records, provisioner, disableARI>>
        BY <1>7 DEF Reissued
    <2>2. /\ job["evict"].subject = At
          /\ job["evict"].result = "ok" => cached[At] # None
        BY <1>1, <2>1 DEF PlacesInv, IssuedInv
    <2>3. NoOrder \in Orders /\ NoOrder.pc = "idle"
        BY DEF NoOrder, Order, Orders
    <2>4. /\ job' \in [Actors -> Orders] /\ job'["evict"] = NoOrder
          /\ \A b \in Actors \ {"evict"} : job'[b] = job[b]
          /\ lost' \subseteq SubjectSet
        BY <1>2, <2>1, <2>3
    <2>5. /\ evictor' \in [pc : {"off", "wait", "check", "uncache", "delete", "reissue"},
                           at : 1 .. Len(Subjects)]
          /\ evictor'.pc \in {"wait", "check"}
        BY <1>1, <2>1, EvictorPlaces
    <2>6. AcmeTypes'
        BY <1>1, <2>1, <2>3, <2>4, <2>5 DEF AcmeTypes
    <2>7. RecordsInv'
        BY <1>1, <2>1, <2>3, <2>4, RecordsStay
    <2>8. PlacesInv'
        BY <1>1, <1>4, <2>1, <2>3, <2>4, <2>5 DEF PlacesInv, Actors
    <2>9. IssuedInv'
        BY <1>1, <2>1, <2>3, <2>4 DEF IssuedInv, Actors
    <2>10. ManagedInv' /\ BehindInv'
        BY <1>4, <2>1 DEF ManagedInv, BehindInv
    <2>11. GapExplained'
        BY <1>1, <2>1, <2>2 DEF GapExplained
    <2> QED BY <2>6, <2>7, <2>8, <2>9, <2>10, <2>11 DEF CertInv
<1> QED BY <1>3, <1>5, <1>6, <1>7 DEF Evicting

-------------------------------------------------------------------------------
(* certmagic's maintenance, the passing of time and restarts. *)

LEMMA RenewingKeepsInv ==
    ASSUME CertInv, RenewDone \/ \E s \in SubjectSet : RenewInBackground(s)
    PROVE  CertInv'
<1>1. AcmeTypes /\ RecordsInv /\ PlacesInv /\ IssuedInv /\ ManagedInv /\ BehindInv /\ GapExplained
      /\ job \in [Actors -> Orders] /\ "renew" \in Actors
    BY DEF CertInv, AcmeTypes, Actors
<1>2. UNCHANGED <<stored, cached, records, provisioner, evictor, disableARI, lost>>
    BY DEF RenewDone, RenewInBackground
<1>3. PICK o \in Orders : /\ job' = [job EXCEPT !["renew"] = o]
                          /\ o.pc \in {"idle", "lock"}
                          /\ o.pc # "idle" => o.subject \in SubjectSet
    <2>1. CASE RenewDone
        <3>1. NoOrder \in Orders /\ NoOrder.pc = "idle"
            BY DEF NoOrder, Order, Orders
        <3> QED BY <2>1, <3>1 DEF RenewDone
    <2>2. CASE \E s \in SubjectSet : RenewInBackground(s)
        <3>1. PICK s \in SubjectSet : RenewInBackground(s)
            BY <2>2
        <3> QED BY <3>1, LookIsOrder DEF RenewInBackground
    <2> QED BY <2>1, <2>2
<1>4. job["renew"].pc \in {"idle", "done"}
    BY DEF RenewDone, RenewInBackground
<1>5. /\ job' \in [Actors -> Orders] /\ job'["renew"] = o
      /\ \A b \in Actors \ {"renew"} : job'[b] = job[b]
    BY <1>1, <1>3
<1>6. job'["provision"] = job["provision"] /\ job'["evict"] = job["evict"]
    BY <1>5 DEF Actors
<1>7. AcmeTypes'
    BY <1>1, <1>2, <1>3, <1>5 DEF AcmeTypes
<1>8. RecordsInv'
    BY <1>1, <1>2, <1>3, <1>4, <1>5, RecordsStay
<1>9. PlacesInv' /\ IssuedInv' /\ ManagedInv'
    BY <1>1, <1>2, <1>6 DEF PlacesInv, IssuedInv, ManagedInv, At
<1>10. BehindInv' /\ GapExplained'
    BY <1>1, <1>2 DEF BehindInv, BothCached, GapExplained, At
<1> QED BY <1>7, <1>8, <1>9, <1>10 DEF CertInv

LEMMA GrowsOldKeepsInv ==
    ASSUME CertInv, NEW s \in SubjectSet, GrowsOld(s)
    PROVE  CertInv'
<1>1. AcmeTypes /\ RecordsInv /\ PlacesInv /\ IssuedInv /\ ManagedInv /\ BehindInv /\ GapExplained
      /\ \A a \in Actors : job[a].pc # "idle" => job[a].subject \in SubjectSet
    BY DEF CertInv, AcmeTypes
<1>2. /\ UNCHANGED <<records, job, provisioner, evictor, disableARI, lost>>
      /\ stored' = [stored EXCEPT ![s] = "old"]
      /\ cached' = [cached EXCEPT ![s] = IF @ = "fresh" THEN "old" ELSE @]
    BY DEF GrowsOld
<1>3. /\ stored' \in [SubjectSet -> Certs] /\ cached' \in [SubjectSet -> Certs]
      /\ \A t \in SubjectSet : cached[t] = None <=> cached'[t] = None
    BY <1>1, <1>2, NoCertAssumption DEF AcmeTypes, Certs
<1>4. AcmeTypes'
    BY <1>1, <1>2, <1>3 DEF AcmeTypes
<1>5. RecordsInv'
    BY <1>1, <1>2, RecordsStay
<1>6. PlacesInv'
    BY <1>1, <1>2 DEF PlacesInv, At
<1>7. IssuedInv'
    BY <1>1, <1>2, <1>3 DEF IssuedInv, Actors
<1>8. \A d \in DomainSet : BothCached(d)' <=> BothCached(d)
    BY <1>3, SubjectsPaired DEF BothCached
<1>9. ManagedInv'
    <2>1. provisioner.pc = "manage" =>
             Domains[provisioner.domain] \in DomainSet
        BY <1>1, DomainsType DEF ManagedInv, AcmeTypes
    <2> QED BY <1>1, <1>2, <1>3, <2>1, SubjectsPaired DEF ManagedInv
<1>10. BehindInv'
    BY <1>1, <1>2, <1>8, DomainsType DEF BehindInv
<1>11. GapExplained'
    BY <1>1, <1>2, <1>3 DEF GapExplained, At
<1> QED BY <1>4, <1>5, <1>6, <1>7, <1>9, <1>10, <1>11 DEF CertInv

\* A start, the first one or after a restart, with whatever certificates are stored.
Started ==
    /\ cached = [s \in SubjectSet |-> None]
    /\ records = [d \in DomainSet |-> <<>>]
    /\ job = [a \in Actors |-> NoOrder]
    /\ provisioner \in {NotProvisioned("off"), NotProvisioned("next")}
    /\ evictor = [pc |-> "off", at |-> 1]
    /\ disableARI = FALSE
    /\ lost = {}
    /\ stored \in [SubjectSet -> Certs]

LEMMA StartHasInv == Started => CertInv
<1> SUFFICES ASSUME Started
             PROVE  CertInv
    OBVIOUS
<1>1. \A a \in Actors : job[a] = NoOrder
    BY DEF Started
<1>2. NoOrder \in Orders /\ NoOrder.pc = "idle"
    BY DEF NoOrder, Order, Orders
<1>3. /\ provisioner \in [pc : {"off", "next", "manage", "done"}, domain : Nat \ {0},
                          successes : Nat, errors : Nat, config : {None, "acme", "selfsigned"}]
      /\ provisioner.pc \in {"off", "next"} /\ provisioner.domain = 1
      /\ provisioner.config = None
    BY DEF Started, NotProvisioned
<1>4. PICK e : e = <<>>
    OBVIOUS
<1>5. e \in Seq(Actors) /\ Len(e) = 0 /\ \A d \in DomainSet : records[d] = e
    BY <1>4 DEF Started
<1>6. AcmeTypes
    <2>1. cached \in [SubjectSet -> Certs]
        BY DEF Started, Certs
    <2>2. records \in [DomainSet -> Seq(Actors)]
        BY <1>4, <1>5 DEF Started
    <2>3. job \in [Actors -> Orders]
        BY <1>2 DEF Started
    <2>4. 1 \in 1 .. Len(Subjects)
        BY DomainsType, SubjectsPaired
    <2> QED BY <1>1, <1>2, <1>3, <2>1, <2>2, <2>3, <2>4 DEF Started, AcmeTypes
<1>7. RecordsInv
    BY <1>1, <1>2, <1>5 DEF RecordsInv, Distinct, Holds, Ordering
<1>8. PlacesInv
    BY <1>1, <1>2, <1>3 DEF Started, PlacesInv, Actors
<1>9. IssuedInv /\ ManagedInv
    BY <1>1, <1>2, <1>3 DEF IssuedInv, ManagedInv, Actors
<1>10. BehindInv
    BY <1>3, DomainsType DEF BehindInv
<1>11. GapExplained
    BY <1>3, NoCertAssumption DEF GapExplained
<1> QED BY <1>6, <1>7, <1>8, <1>9, <1>10, <1>11 DEF CertInv

-------------------------------------------------------------------------------
(* The theorems. *)

LEMMA CertInvInductive ==
    /\ Init => CertInv
    /\ CertInv /\ [Next]_certVars => CertInv'
<1>1. Init => CertInv
    <2>1. AcmeInit => Started
        BY DEF AcmeInit, AcmeAt, Started, Certs
    <2>2. AcmeIdle => Started
        BY DEF AcmeIdle, AcmeAt, Started, Certs
    <2> QED BY <2>1, <2>2, StartHasInv DEF Init, FilesInit, NoFilesInit
<1>2. ASSUME CertInv, UNCHANGED acmeVars
      PROVE  CertInv'
    <2>1. AcmeTypes'
        BY <1>2 DEF CertInv, AcmeTypes, acmeVars
    <2>2. RecordsInv'
        BY <1>2 DEF CertInv, RecordsInv, Ordering, acmeVars
    <2>3. PlacesInv' /\ IssuedInv' /\ ManagedInv'
        BY <1>2 DEF CertInv, PlacesInv, IssuedInv, ManagedInv, At, acmeVars
    <2>4. BehindInv' /\ GapExplained'
        BY <1>2 DEF CertInv, BehindInv, BothCached, GapExplained, At, acmeVars
    <2> QED BY <2>1, <2>2, <2>3, <2>4 DEF CertInv
<1>3. ASSUME CertInv, AcmeRestart
      PROVE  CertInv'
    <2>1. Started'
        BY <1>3 DEF CertInv, AcmeTypes, AcmeRestart, Started
    <2>2. Started' => CertInv'
        BY StartHasInv, PTL
    <2> QED BY <2>1, <2>2
<1>4. ASSUME CertInv, AcmeNext
      PROVE  CertInv'
    BY <1>3, <1>4, IssuingKeepsInv, RenewingKeepsInv, GrowsOldKeepsInv,
       ProvisioningKeepsInv, EvictingKeepsInv DEF AcmeNext
<1>5. ASSUME CertInv, [Next]_certVars
      PROVE  CertInv'
    <2>1. CASE AcmeNext
        BY <1>4, <1>5, <2>1
    <2>2. CASE UNCHANGED acmeVars
        BY <1>2, <1>5, <2>2
    <2>3. AcmeNext \/ UNCHANGED acmeVars
        BY <1>5 DEF Next, ReloaderGone, certVars, acmeVars
    <2> QED BY <2>1, <2>2, <2>3
<1> QED BY <1>1, <1>5

\* The state of provisionACME, the evictor, their orders and the challenge
\* records stays consistent, in every interleaving with certmagic's renewal and
\* across restarts (tls.go:360-600, dns.go:112-154).
THEOREM CertInvariant == Spec => []CertInv
BY CertInvInductive, PTL DEF Spec

\* At every challenge name the DNS service answers with exactly the tokens of
\* the orders under way for it, each once: goroutines that issue for a domain
\* and its wildcard at the same time do not take each other's token away.
THEOREM RecordsStayOrders == Spec => []RecordsAreOrders
<1>1. CertInv => RecordsAreOrders
    BY RecordsInvSuffices DEF CertInv
<1> QED BY <1>1, CertInvariant, PTL

\* When provisionACME reached every domain without an error, a subject without
\* a certificate is one the evictor is replacing or failed to replace.
THEOREM GapsExplained == Spec => []GapExplained
<1>1. CertInv => GapExplained
    BY DEF CertInv
<1> QED BY <1>1, CertInvariant, PTL
===============================================================================
