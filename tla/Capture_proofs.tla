----------------------------- MODULE Capture_proofs ----------------------------
(***************************************************************************)
(* What a poll answers agrees with what its client's offsets say, and an   *)
(* answered message is with every session it mentions, once, for any       *)
(* services, messages, domains, pollers and failures.                      *)
(*                                                                         *)
(* The first argument: a copy is stored after its message is in the        *)
(* bucket, and a poll reads the buckets after it has drained the session,  *)
(* so whatever it drained is in front of the offsets it leaves.            *)
(* The second: what a session holds of a message is what its handler has   *)
(* behind it, recipient by recipient; what is missing is still pending.    *)
(***************************************************************************)
EXTENDS Capture, FiniteSetTheorems, SequenceTheorems, TLAPS

Steps == {"recipient", "wildcard", "extra", "capture", "answer"}
Parts == UNION {ToSet(a.parts) : a \in Arrivals}
Ops == {a.op : a \in Arrivals}

Handlers ==
    [service : Services, op : Ops, parts : Seq(Parts), pc : Steps, part : Nat,
     todo : Seq(IDs), matches : Seq(IDs), cids : SUBSET IDs, matched : BOOLEAN,
     present : SUBSET Sessions]

Polling ==
    [pc : {"idle", "drain", "key", "extra", "tld", "answer"}, id : IDs \union {None},
     session : Sessions \union {None}, data : Seq(Items), taken : SUBSET (Buckets \X Nat),
     at : Nat \ {0}]

CaptureTypes ==
    /\ owner \in [IDs -> Sessions \union {None}] /\ opened \subseteq Sessions
    /\ mailbox \in [Sessions -> Seq(Items)]
    /\ work \in Seq(Handlers) /\ Len(work) <= MaxMessages
    /\ log \in [Buckets -> Seq(Nat)]
    /\ offset \in [Buckets -> [IDs -> Nat]]
    /\ \A b \in Buckets, id \in IDs : offset[b][id] <= Len(log[b])
    /\ answered \in [IDs -> SUBSET (Buckets \X Nat)]
    /\ poll \in [Pollers -> Polling]

-------------------------------------------------------------------------------
(* The parts of the inductive invariant. *)

Logged(n, b) == \E i \in DOMAIN log[b] : log[b][i] = n

\* The message is in the bucket that its part belongs to.
InItsBucket(n, j) == BucketOf(n, j) # None => Logged(n, BucketOf(n, j))

\* The recipients of a mail that its domains' buckets have it for.
Passed(n) == {j \in 1 .. work[n].part : work[n].pc = "wildcard" => j < work[n].part}

HandlerInv(n) ==
    /\ work[n].part <= Len(work[n].parts)
    /\ work[n].pc \notin {"recipient", "answer"} => work[n].part # 0
    /\ \A part, other \in ToSet(work[n].parts) : part.rcpt = other.rcpt => part = other
    /\ IF Service(n) = "smtp"
       THEN /\ work[n].pc # "extra"
            /\ \A j \in Passed(n) : InItsBucket(n, j)
       ELSE /\ work[n].pc # "recipient"
            /\ work[n].pc = "wildcard" => Service(n) \notin {"ldap", "ftp"}
            /\ work[n].pc = "extra" => Service(n) \in {"ldap", "ftp"}
            /\ work[n].pc = "capture" => InItsBucket(n, work[n].part)

\* A copy that was stored is in its bucket, too.
CopyInv(e) ==
    /\ e.msg \in DOMAIN work /\ e.part \in DOMAIN work[e.msg].parts
    /\ InItsBucket(e.msg, e.part)

\* Buckets the poll has read since it drained the session.
ReadBuckets(p) ==
    (IF poll[p].pc \in {"tld", "answer"} THEN {"extra"} ELSE {})
    \union {Domains[k] : k \in {i \in DOMAIN Domains : \/ poll[p].pc = "answer"
                                                       \/ poll[p].pc = "tld" /\ i < poll[p].at}}

\* What client id read of bucket b has message n.
WasRead(n, b, id) == \E i \in 1 .. offset[b][id] : log[b][i] = n

PollInv(p) ==
    /\ poll[p].pc # "idle" =>
          /\ poll[p].id \in IDs /\ poll[p].session \in Sessions
          /\ poll[p].at \in DOMAIN Domains
    /\ poll[p].pc # "tld" => poll[p].at = 1
    /\ poll[p].pc \in {"idle", "drain", "key"} => poll[p].taken = {}
    /\ \A e \in ToSet(poll[p].data) :
          CopyInv(e) /\ (BucketOf(e.msg, e.part) \in ReadBuckets(p) \ {None} =>
                            WasRead(e.msg, BucketOf(e.msg, e.part), poll[p].id))

HandlersInv == \A n \in DOMAIN work : HandlerInv(n)
MailboxInv == \A s \in Sessions : \A e \in ToSet(mailbox[s]) : CopyInv(e)
PollsInv == \A p \in Pollers : PollInv(p)

CaptureInv == CaptureTypes /\ HandlersInv /\ MailboxInv /\ PollsInv /\ OffsetsAnswered

-------------------------------------------------------------------------------
LEMMA DomainFacts ==
    /\ Len(Domains) \in Nat \ {0} /\ DOMAIN Domains = 1 .. Len(Domains)
    /\ DomainSet = ToSet(Domains)
    /\ \A k \in DOMAIN Domains : Domains[k] \in DomainSet
    /\ DomainSet \subseteq Buckets /\ "extra" \in Buckets
<1>1. Len(Domains) \in Nat /\ DOMAIN Domains = 1 .. Len(Domains)
    BY DomainsAssumption
<1>2. Len(Domains) # 0
    BY DomainsAssumption
<1>3. DomainSet = ToSet(Domains)
    BY DEF DomainSet, ToSet
<1> QED BY <1>1, <1>2, <1>3 DEF DomainSet, Buckets

LEMMA PartFacts ==
    \A part \in Parts : part.domain \in DomainSet \union {None} /\ part.mentions \in Seq(IDs)
BY ArrivalsAssumption, DomainFacts DEF Parts

LEMMA HandlerFacts ==
    ASSUME CaptureTypes, NEW n \in DOMAIN work
    PROVE  /\ work[n] \in Handlers /\ n \in Numbers /\ work[n].parts \in Seq(Parts)
           /\ \A j \in DOMAIN work[n].parts :
                 /\ work[n].parts[j] \in Parts /\ BucketOf(n, j) \in Buckets \union {None}
<1>1. work \in Seq(Handlers) /\ Len(work) <= MaxMessages
    BY DEF CaptureTypes
<1>2. work[n] \in Handlers /\ n \in Numbers
    BY <1>1, CaptureAssumption DEF Numbers
<1>3. work[n].parts \in Seq(Parts)
    BY <1>2 DEF Handlers
<1>4. ASSUME NEW j \in DOMAIN work[n].parts
      PROVE  work[n].parts[j] \in Parts /\ BucketOf(n, j) \in Buckets \union {None}
    <2>1. work[n].parts[j] \in Parts
        BY <1>3, <1>4
    <2> QED BY <2>1, PartFacts, DomainFacts DEF BucketOf
<1> QED BY <1>2, <1>3, <1>4

\* Handlers keep their message, logs only grow, clients only read on.
Grows ==
    /\ \A n \in DOMAIN work : /\ n \in DOMAIN work'
                              /\ work'[n].service = work[n].service
                              /\ work'[n].parts = work[n].parts
    /\ \A b \in Buckets : \A i \in DOMAIN log[b] : i \in DOMAIN log'[b] /\ log'[b][i] = log[b][i]
    /\ \A b \in Buckets, id \in IDs : offset[b][id] <= offset'[b][id]

LEMMA GrowthKeeps ==
    ASSUME CaptureTypes, CaptureTypes', Grows
    PROVE  /\ \A n \in DOMAIN work : \A j \in DOMAIN work[n].parts :
                 /\ BucketOf(n, j)' = BucketOf(n, j)
                 /\ InItsBucket(n, j) => InItsBucket(n, j)'
           /\ \A n : \A b \in Buckets, id \in IDs : WasRead(n, b, id) => WasRead(n, b, id)'
           /\ \A e : CopyInv(e) => CopyInv(e)'
<1>1. ASSUME NEW n \in DOMAIN work, NEW j \in DOMAIN work[n].parts
      PROVE  BucketOf(n, j)' = BucketOf(n, j)
    BY <1>1 DEF Grows, BucketOf, Service
<1>2. ASSUME NEW n \in DOMAIN work, NEW j \in DOMAIN work[n].parts, InItsBucket(n, j),
             BucketOf(n, j)' # None
      PROVE  Logged(n, BucketOf(n, j))'
    <2>1. PICK b : b = BucketOf(n, j)
        OBVIOUS
    <2>2. BucketOf(n, j)' = b /\ b # None
        BY <1>1, <1>2, <2>1
    <2>3. b \in Buckets
        BY <2>1, <2>2, HandlerFacts
    <2>4. PICK i \in DOMAIN log[b] : log[b][i] = n
        BY <1>2, <2>1, <2>2 DEF InItsBucket, Logged
    <2>5. i \in DOMAIN log'[b] /\ log'[b][i] = n
        BY <2>3, <2>4 DEF Grows
    <2> QED BY <2>2, <2>5 DEF Logged
<1>3. ASSUME NEW n, NEW b \in Buckets, NEW id \in IDs, WasRead(n, b, id)
      PROVE  WasRead(n, b, id)'
    <2>1. /\ offset[b][id] \in Nat /\ offset'[b][id] \in Nat /\ offset[b][id] <= offset'[b][id]
          /\ offset[b][id] <= Len(log[b]) /\ log[b] \in Seq(Nat)
        BY DEF CaptureTypes, Grows
    <2>2. PICK i \in 1 .. offset[b][id] : log[b][i] = n
        BY <1>3 DEF WasRead
    <2>3. i \in DOMAIN log[b] /\ i \in 1 .. offset'[b][id]
        BY <2>1
    <2>4. log'[b][i] = n
        BY <2>2, <2>3 DEF Grows
    <2> QED BY <2>3, <2>4 DEF WasRead
<1>4. ASSUME NEW n \in DOMAIN work, NEW j \in DOMAIN work[n].parts, InItsBucket(n, j)
      PROVE  InItsBucket(n, j)'
    BY <1>2, <1>4 DEF InItsBucket
<1>5. ASSUME NEW e, CopyInv(e)
      PROVE  CopyInv(e)'
    <2>1. e.msg \in DOMAIN work /\ e.part \in DOMAIN work[e.msg].parts /\ InItsBucket(e.msg, e.part)
        BY <1>5 DEF CopyInv
    <2>2. InItsBucket(e.msg, e.part)'
        BY <1>4, <2>1
    <2>3. e.msg \in DOMAIN work' /\ e.part \in DOMAIN work'[e.msg].parts
        BY <2>1 DEF Grows
    <2> QED BY <2>2, <2>3 DEF CopyInv
<1> QED BY <1>1, <1>3, <1>4, <1>5

\* A handler that is where it was.
LEMMA HandlerStays ==
    ASSUME CaptureTypes, CaptureTypes', Grows, NEW n \in DOMAIN work, HandlerInv(n),
           work'[n].pc = work[n].pc, work'[n].part = work[n].part
    PROVE  HandlerInv(n)'
<1>1. /\ work'[n].parts = work[n].parts /\ Service(n)' = Service(n)
    BY DEF Grows, Service
<1>2. Passed(n)' = Passed(n)
    BY DEF Passed
<1>3. work[n].part \in Nat /\ work[n].parts \in Seq(Parts) /\ work[n].part <= Len(work[n].parts)
    BY HandlerFacts DEF Handlers, HandlerInv
<1>4. \A j \in Passed(n) : j \in DOMAIN work[n].parts
    BY <1>3 DEF Passed
<1>5. ASSUME Service(n) = "smtp", NEW j \in Passed(n)'
      PROVE  InItsBucket(n, j)'
    BY <1>2, <1>4, <1>5, GrowthKeeps DEF HandlerInv
<1>6. ASSUME Service(n) # "smtp", work[n].pc = "capture"
      PROVE  InItsBucket(n, work[n].part)'
    <2>1. PICK j : j = work[n].part
        OBVIOUS
    <2>2. j \in DOMAIN work[n].parts /\ InItsBucket(n, j)
        BY <1>3, <1>6, <2>1 DEF HandlerInv
    <2>3. InItsBucket(n, j)'
        BY <2>2, GrowthKeeps
    <2> QED BY <2>1, <2>3 DEF InItsBucket, BucketOf, Logged
<1> QED BY <1>1, <1>5, <1>6 DEF HandlerInv

LEMMA PollStays ==
    ASSUME CaptureTypes, CaptureTypes', Grows, NEW p \in Pollers, PollInv(p), poll'[p] = poll[p]
    PROVE  PollInv(p)'
<1>1. ReadBuckets(p)' = ReadBuckets(p)
    BY DEF ReadBuckets
<1>2. ASSUME NEW e \in ToSet(poll[p].data)
      PROVE  /\ CopyInv(e)'
             /\ BucketOf(e.msg, e.part)' \in ReadBuckets(p) \ {None} =>
                   WasRead(e.msg, BucketOf(e.msg, e.part), poll[p].id)'
    <2>1. CopyInv(e) /\ e.msg \in DOMAIN work /\ e.part \in DOMAIN work[e.msg].parts
        BY <1>2 DEF PollInv, CopyInv
    <2>2. PICK b : b = BucketOf(e.msg, e.part)
        OBVIOUS
    <2>3. BucketOf(e.msg, e.part)' = b
        BY <2>1, <2>2, GrowthKeeps
    <2>4. ASSUME b \in ReadBuckets(p) \ {None}
          PROVE  WasRead(e.msg, BucketOf(e.msg, e.part), poll[p].id)'
        <3>1. b \in Buckets
            BY <2>4, DomainFacts DEF ReadBuckets
        <3>2. poll[p].pc # "idle"
            BY <2>4 DEF ReadBuckets
        <3>3. PICK id \in IDs : id = poll[p].id
            BY <3>2 DEF PollInv
        <3>4. WasRead(e.msg, b, id)
            BY <1>2, <2>2, <2>4, <3>3 DEF PollInv
        <3>5. WasRead(e.msg, b, id)'
            BY <3>1, <3>4, GrowthKeeps
        <3> QED BY <2>3, <3>3, <3>5 DEF WasRead
    <2> QED BY <2>1, <2>3, <2>4, GrowthKeeps
<1> QED BY <1>1, <1>2 DEF PollInv

-------------------------------------------------------------------------------
LEMMA NoPollFacts ==
    /\ NoPoll \in Polling
    /\ NoPoll.pc = "idle" /\ NoPoll.taken = {} /\ NoPoll.data = <<>> /\ NoPoll.at = 1
<1>1. <<>> \in Seq(Items)
    OBVIOUS
<1> QED BY <1>1 DEF NoPoll, Polling

LEMMA CaptureInitially == Init => CaptureInv
<1> SUFFICES ASSUME Init PROVE CaptureInv
    OBVIOUS
<1> USE DEF Init, Store!Init
<1>1. /\ owner \in [IDs -> Sessions \union {None}] /\ opened \subseteq Sessions
      /\ mailbox \in [Sessions -> Seq(Items)]
    OBVIOUS
<1>2. work \in Seq(Handlers) /\ Len(work) = 0 /\ DOMAIN work = {}
    OBVIOUS
<1>3. log \in [Buckets -> Seq(Nat)] /\ offset \in [Buckets -> [IDs -> Nat]]
    OBVIOUS
<1>4. ASSUME NEW b \in Buckets, NEW id \in IDs
      PROVE  offset[b][id] = 0 /\ Len(log[b]) = 0
    BY <1>4
<1>5. poll \in [Pollers -> Polling] /\ answered \in [IDs -> SUBSET (Buckets \X Nat)]
    BY NoPollFacts
<1>6. CaptureTypes
    BY <1>1, <1>2, <1>3, <1>4, <1>5, CaptureAssumption DEF CaptureTypes
<1>7. HandlersInv
    BY <1>2 DEF HandlersInv
<1>8. MailboxInv
    BY DEF MailboxInv, ToSet
<1>9. ASSUME NEW p \in Pollers
      PROVE  PollInv(p)
    <2>1. poll[p] = NoPoll /\ ToSet(poll[p].data) = {}
        BY <1>9, NoPollFacts DEF ToSet
    <2> QED BY <2>1, NoPollFacts DEF PollInv
<1>10. ASSUME NEW id \in IDs
       PROVE  UNION {{b} \X (1 .. offset[b][id]) : b \in Buckets}
                  = answered[id] \union UNION {poll[p].taken : p \in {q \in Pollers : poll[q].id = id}}
    <2>1. \A b \in Buckets : {b} \X (1 .. offset[b][id]) = {}
        BY <1>4, <1>10
    <2>2. answered[id] = {} /\ \A p \in Pollers : poll[p].taken = {}
        BY <1>10, NoPollFacts
    <2> QED BY <2>1, <2>2
<1>11. OffsetsAnswered
    BY <1>10 DEF OffsetsAnswered
<1> QED BY <1>6, <1>7, <1>8, <1>9, <1>11 DEF CaptureInv, PollsInv

-------------------------------------------------------------------------------
(* The steps of a handler. *)

\* What moves no poll leaves the polls' part of the invariant alone.
LEMMA PollsAlone ==
    ASSUME CaptureInv, CaptureTypes', Grows, UNCHANGED <<offset, poll, answered>>
    PROVE  PollsInv' /\ OffsetsAnswered' /\ (mailbox' = mailbox => MailboxInv')
<1>1. PollsInv'
    BY PollStays DEF CaptureInv, PollsInv
<1>2. OffsetsAnswered'
    BY DEF CaptureInv, OffsetsAnswered
<1>3. ASSUME mailbox' = mailbox PROVE MailboxInv'
    BY <1>3, GrowthKeeps DEF CaptureInv, MailboxInv
<1> QED BY <1>1, <1>2, <1>3

LogGrows ==
    /\ log' \in [Buckets -> Seq(Nat)]
    /\ \A b \in Buckets : /\ Len(log[b]) <= Len(log'[b])
                          /\ \A i \in DOMAIN log[b] : log'[b][i] = log[b][i]

\* Handler n goes from work[n] to w.
Becomes(n, w) ==
    /\ w \in Handlers /\ w.service = work[n].service /\ w.parts = work[n].parts
    /\ work' = [work EXCEPT ![n] = w]

LEMMA HandlerStep ==
    ASSUME CaptureInv, NEW n \in DOMAIN work, NEW w, Becomes(n, w), LogGrows,
           UNCHANGED <<owner, opened, offset, poll, answered>>,
           mailbox' \in [Sessions -> Seq(Items)]
    PROVE  /\ CaptureTypes' /\ Grows /\ PollsInv' /\ OffsetsAnswered'
           /\ mailbox' = mailbox => MailboxInv'
           /\ work'[n] = w /\ DOMAIN work' = DOMAIN work /\ Service(n)' = Service(n)
           /\ HandlerInv(n)' => HandlersInv'
<1>1. work \in Seq(Handlers) /\ Len(work) <= MaxMessages
    BY DEF CaptureInv, CaptureTypes
<1>2. /\ work' \in Seq(Handlers) /\ Len(work') = Len(work) /\ DOMAIN work' = DOMAIN work
      /\ work'[n] = w /\ \A m \in DOMAIN work \ {n} : work'[m] = work[m]
    BY <1>1 DEF Becomes
<1>3. ASSUME NEW b \in Buckets, NEW id \in IDs
      PROVE  offset'[b][id] = offset[b][id] /\ offset'[b][id] \in Nat /\ offset'[b][id] <= Len(log'[b])
    <2>1. offset[b][id] <= Len(log[b]) /\ Len(log[b]) <= Len(log'[b]) /\ offset[b][id] \in Nat
        BY <1>3 DEF CaptureInv, CaptureTypes, LogGrows
    <2>2. log[b] \in Seq(Nat) /\ log'[b] \in Seq(Nat)
        BY <1>3 DEF CaptureInv, CaptureTypes, LogGrows
    <2> QED BY <2>1, <2>2
<1>4. CaptureTypes'
    BY <1>1, <1>2, <1>3 DEF CaptureInv, CaptureTypes, LogGrows
<1>5. ASSUME NEW b \in Buckets, NEW i \in DOMAIN log[b]
      PROVE  i \in DOMAIN log'[b] /\ log'[b][i] = log[b][i]
    <2>1. log[b] \in Seq(Nat) /\ log'[b] \in Seq(Nat) /\ Len(log[b]) <= Len(log'[b])
        BY <1>5 DEF CaptureInv, CaptureTypes, LogGrows
    <2> QED BY <2>1, <1>5 DEF LogGrows
<1>6. Grows
    BY <1>2, <1>3, <1>5 DEF Grows, Becomes
<1>7. ASSUME HandlerInv(n)'
      PROVE  HandlersInv'
    <2>1. ASSUME NEW m \in DOMAIN work, m # n
          PROVE  HandlerInv(m)'
        BY <1>2, <1>4, <1>6, <2>1, HandlerStays DEF CaptureInv, HandlersInv
    <2> QED BY <1>2, <1>7, <2>1 DEF HandlersInv
<1>8. Service(n)' = Service(n)
    BY <1>2 DEF Service, Becomes
<1> QED BY <1>2, <1>4, <1>6, <1>7, <1>8, PollsAlone DEF CaptureInv

LEMMA SameLog ==
    ASSUME CaptureInv, log' = log
    PROVE  LogGrows
<1>1. \A b \in Buckets : log[b] \in Seq(Nat)
    BY DEF CaptureInv, CaptureTypes
<1> QED BY <1>1 DEF CaptureInv, CaptureTypes, LogGrows

LEMMA LogAppended ==
    ASSUME CaptureInv, NEW b \in Buckets, NEW n \in Nat, log' = [log EXCEPT ![b] = Append(@, n)]
    PROVE  LogGrows /\ Logged(n, b)'
<1>1. PICK s \in Seq(Nat) : s = log[b]
    BY DEF CaptureInv, CaptureTypes
<1>2. /\ Append(s, n) \in Seq(Nat) /\ Len(Append(s, n)) = Len(s) + 1
      /\ \A i \in DOMAIN s : Append(s, n)[i] = s[i]
      /\ Append(s, n)[Len(s) + 1] = n /\ Len(s) + 1 \in DOMAIN Append(s, n)
    OBVIOUS
<1>3. log' \in [Buckets -> Seq(Nat)] /\ log'[b] = Append(s, n)
    BY <1>1, <1>2 DEF CaptureInv, CaptureTypes
<1>4. ASSUME NEW c \in Buckets
      PROVE  Len(log[c]) <= Len(log'[c]) /\ \A i \in DOMAIN log[c] : log'[c][i] = log[c][i]
    <2>1. CASE c = b
        BY <1>1, <1>2, <1>3, <2>1
    <2>2. CASE c # b
        <3>1. log'[c] = log[c] /\ log[c] \in Seq(Nat)
            BY <2>2 DEF CaptureInv, CaptureTypes
        <3> QED BY <3>1
    <2> QED BY <2>1, <2>2
<1>5. Logged(n, b)'
    BY <1>2, <1>3 DEF Logged
<1> QED BY <1>3, <1>4, <1>5 DEF LogGrows

\* A handler that only changes what the invariant does not look at.
LEMMA HandlerSameStep ==
    ASSUME CaptureInv, NEW n \in DOMAIN work, NEW w, Becomes(n, w),
           w.pc = work[n].pc, w.part = work[n].part,
           UNCHANGED <<owner, opened, mailbox, log, offset, poll, answered>>
    PROVE  CaptureInv'
<1>1. LogGrows /\ mailbox' \in [Sessions -> Seq(Items)]
    BY SameLog DEF CaptureInv, CaptureTypes
<1>2. HandlerInv(n)'
    BY <1>1, HandlerStep, HandlerStays DEF CaptureInv, HandlersInv
<1> QED BY <1>1, <1>2, HandlerStep DEF CaptureInv

LEMMA NextRecipientStep ==
    ASSUME CaptureInv, NEW n \in DOMAIN work, NextRecipient(n)
    PROVE  CaptureInv'
<1> DEFINE rcpt == work[n].parts[work[n].part + 1]
           skip == Repeated(n, rcpt) \/ rcpt.domain = None
<1>1. PICK w : w = [work[n] EXCEPT !.part = @ + 1, !.pc = IF skip THEN "recipient" ELSE "wildcard"]
    OBVIOUS
<1>2. CaptureTypes /\ HandlerInv(n) /\ work[n] \in Handlers /\ work[n].parts \in Seq(Parts)
    BY HandlerFacts DEF CaptureInv, HandlersInv
<1>3. work[n].pc = "recipient" /\ work[n].part \in Nat /\ work[n].part < Len(work[n].parts)
    BY <1>2 DEF NextRecipient, Handlers
<1>4. Becomes(n, w)
    <2>1. w \in Handlers /\ w.service = work[n].service /\ w.parts = work[n].parts
        <3>1. PICK pc \in Steps : pc = IF skip THEN "recipient" ELSE "wildcard"
            BY DEF Steps
        <3>2. w = [work[n] EXCEPT !.part = @ + 1, !.pc = pc] /\ work[n].part + 1 \in Nat
            BY <1>1, <1>3, <3>1
        <3> QED BY <1>2, <3>2 DEF Handlers
    <2>2. work' = [work EXCEPT ![n] = w]
        BY <1>1, <1>2 DEF NextRecipient, Handlers, CaptureTypes
    <2> QED BY <2>1, <2>2 DEF Becomes
<1>5. /\ UNCHANGED <<owner, opened, mailbox, log, offset, poll, answered>> /\ LogGrows
      /\ mailbox' \in [Sessions -> Seq(Items)]
    BY <1>2, SameLog DEF NextRecipient, storeVars, pollVars, CaptureTypes
<1>6. /\ CaptureTypes' /\ Grows /\ work'[n] = w /\ Service(n)' = Service(n)
    BY <1>4, <1>5, HandlerStep
<1>7. Service(n) = "smtp" /\ Passed(n) = 1 .. work[n].part
    BY <1>2, <1>3 DEF HandlerInv, Passed
<1>8. ASSUME NEW j \in 1 .. work[n].part
      PROVE  j \in DOMAIN work[n].parts /\ InItsBucket(n, j)
    BY <1>2, <1>3, <1>7, <1>8 DEF HandlerInv
<1>9. ASSUME skip
      PROVE  InItsBucket(n, work[n].part + 1)
    <2>1. CASE rcpt.domain = None
        BY <1>7, <2>1 DEF InItsBucket, BucketOf
    <2>2. CASE Repeated(n, rcpt)
        <3>1. PICK j \in 1 .. work[n].part : work[n].parts[j].rcpt = rcpt.rcpt
            BY <2>2 DEF Repeated, Recipients
        <3>2. j \in DOMAIN work[n].parts /\ InItsBucket(n, j) /\ work[n].part + 1 \in DOMAIN work[n].parts
            BY <1>2, <1>3, <1>8
        <3>3. work[n].parts[j] \in ToSet(work[n].parts) /\ rcpt \in ToSet(work[n].parts)
            BY <3>2 DEF ToSet
        <3>4. work[n].parts[j] = rcpt
            BY <1>2, <3>1, <3>3 DEF HandlerInv
        <3>5. BucketOf(n, work[n].part + 1) = BucketOf(n, j)
            BY <3>4 DEF BucketOf
        <3> QED BY <3>2, <3>5 DEF InItsBucket
    <2> QED BY <1>9, <2>1, <2>2
<1>10. w.part = work[n].part + 1 /\ w.pc = (IF skip THEN "recipient" ELSE "wildcard")
    BY <1>1, <1>2 DEF Handlers
<1>11. ASSUME NEW j \in Passed(n)'
       PROVE  InItsBucket(n, j)'
    <2>1. j \in 1 .. work[n].part + 1 /\ (~skip => j # work[n].part + 1)
        BY <1>3, <1>6, <1>10, <1>11 DEF Passed
    <2>2. j \in DOMAIN work[n].parts /\ InItsBucket(n, j)
        <3>1. CASE j = work[n].part + 1
            BY <1>2, <1>3, <1>9, <2>1, <3>1
        <3>2. CASE j # work[n].part + 1
            BY <1>3, <1>8, <2>1, <3>2
        <3> QED BY <3>1, <3>2
    <2> QED BY <1>2, <1>6, <2>2, GrowthKeeps
<1>12. HandlerInv(n)'
    <2>1. work'[n].part # 0 /\ work'[n].part <= Len(work'[n].parts)
        BY <1>2, <1>3, <1>4, <1>6, <1>10 DEF Becomes
    <2>2. work'[n].parts = work[n].parts /\ work'[n].pc # "extra"
        BY <1>4, <1>6, <1>10 DEF Becomes
    <2> QED BY <1>2, <1>6, <1>7, <1>11, <2>1, <2>2 DEF HandlerInv
<1> QED BY <1>4, <1>5, <1>12, HandlerStep DEF CaptureInv

\* A handler that only goes on to its next step, with no bucket left behind.
LEMMA HandlerGoesOn ==
    ASSUME CaptureInv, NEW n \in DOMAIN work, NEW w, Becomes(n, w), w.part = work[n].part,
           w.pc = "answer" \/ (w.pc = "recipient" /\ Service(n) = "smtp"), work[n].pc # "wildcard",
           UNCHANGED <<owner, opened, mailbox, offset, poll, answered>>, LogGrows
    PROVE  CaptureInv'
<1>1. CaptureTypes /\ HandlerInv(n) /\ mailbox' \in [Sessions -> Seq(Items)]
    BY DEF CaptureInv, CaptureTypes, HandlersInv
<1>2. CaptureTypes' /\ Grows /\ work'[n] = w /\ Service(n)' = Service(n) /\ w.parts = work[n].parts
    BY <1>1, HandlerStep DEF Becomes
<1>3. work[n].part \in Nat /\ work[n].parts \in Seq(Parts) /\ work[n].part <= Len(work[n].parts)
    BY <1>1, HandlerFacts DEF Handlers, HandlerInv
<1>4. ASSUME Service(n) = "smtp", NEW j \in Passed(n)'
      PROVE  InItsBucket(n, j)'
    <2>1. j \in Passed(n) /\ j \in DOMAIN work[n].parts
        BY <1>2, <1>3, <1>4 DEF Passed
    <2> QED BY <1>1, <1>2, <1>4, <2>1, GrowthKeeps DEF HandlerInv
<1>5. HandlerInv(n)'
    BY <1>1, <1>2, <1>4 DEF HandlerInv
<1> QED BY <1>1, <1>5, HandlerStep DEF CaptureInv

LEMMA NoMoreRecipientsStep ==
    ASSUME CaptureInv, NEW n \in DOMAIN work, NoMoreRecipients(n)
    PROVE  CaptureInv'
<1>1. PICK w : w = [work[n] EXCEPT !.pc = "answer"]
    OBVIOUS
<1>2. CaptureTypes /\ work[n] \in Handlers
    BY HandlerFacts DEF CaptureInv
<1>3. Becomes(n, w) /\ w.part = work[n].part /\ w.pc = "answer"
    BY <1>1, <1>2 DEF Becomes, NoMoreRecipients, Handlers, Steps, CaptureTypes
<1>4. /\ UNCHANGED <<owner, opened, mailbox, log, offset, poll, answered>> /\ LogGrows
      /\ work[n].pc = "recipient"
    BY SameLog DEF NoMoreRecipients, storeVars, pollVars
<1> QED BY <1>3, <1>4, HandlerGoesOn

LEMMA CapturedStep ==
    ASSUME CaptureInv, NEW n \in DOMAIN work, Captured(n)
    PROVE  CaptureInv'
<1>1. PICK w : w = [work[n] EXCEPT !.pc = IF Service(n) = "smtp" THEN "recipient" ELSE "answer"]
    OBVIOUS
<1>2. CaptureTypes /\ work[n] \in Handlers
    BY HandlerFacts DEF CaptureInv
<1>3. /\ Becomes(n, w) /\ w.part = work[n].part
      /\ w.pc = "answer" \/ (w.pc = "recipient" /\ Service(n) = "smtp")
    BY <1>1, <1>2 DEF Becomes, Captured, Handlers, Steps, CaptureTypes
<1>4. /\ UNCHANGED <<owner, opened, mailbox, log, offset, poll, answered>> /\ LogGrows
      /\ work[n].pc = "capture"
    BY SameLog DEF Captured, storeVars, pollVars
<1> QED BY <1>3, <1>4, HandlerGoesOn

\* A handler that leaves its buckets with the message in the one of its part.
LEMMA HandlerInBucket ==
    ASSUME CaptureInv, NEW n \in DOMAIN work, NEW w, Becomes(n, w), w.part = work[n].part,
           w.pc \in {"capture", "answer"}, work[n].pc \in {"wildcard", "extra"},
           UNCHANGED <<owner, opened, mailbox, offset, poll, answered>>, LogGrows,
           \A b \in Buckets : b = BucketOf(n, work[n].part) /\ b # None =>
              Logged(n, b) \/ Logged(n, b)'
    PROVE  CaptureInv'
<1>1. CaptureTypes /\ HandlerInv(n) /\ mailbox' \in [Sessions -> Seq(Items)]
    BY DEF CaptureInv, CaptureTypes, HandlersInv
<1>2. CaptureTypes' /\ Grows /\ work'[n] = w /\ Service(n)' = Service(n) /\ w.parts = work[n].parts
    BY <1>1, HandlerStep DEF Becomes
<1>3. work[n].part \in Nat /\ work[n].parts \in Seq(Parts) /\ work[n].part <= Len(work[n].parts)
    BY <1>1, HandlerFacts DEF Handlers, HandlerInv
<1>4. work[n].part # 0 /\ work[n].part \in DOMAIN work[n].parts
    BY <1>1, <1>3 DEF HandlerInv
<1>5. ASSUME NEW j \in DOMAIN work[n].parts, j = work[n].part
      PROVE  InItsBucket(n, j)'
    <2>1. PICK b : b = BucketOf(n, j)
        OBVIOUS
    <2>2. BucketOf(n, j)' = b
        BY <1>1, <1>2, <2>1, GrowthKeeps
    <2>3. CASE b = None
        BY <2>2, <2>3 DEF InItsBucket
    <2>. b = None \/ b \in Buckets
        BY <1>1, <2>1, HandlerFacts
    <2>4. CASE b # None /\ Logged(n, b)
        BY <1>1, <1>2, <2>1, <2>4, GrowthKeeps DEF InItsBucket
    <2>5. CASE b # None /\ Logged(n, b)'
        BY <2>2, <2>5 DEF InItsBucket, Logged
    <2> QED BY <1>5, <2>1, <2>3, <2>4, <2>5
<1>6. ASSUME Service(n) = "smtp", NEW j \in Passed(n)'
      PROVE  InItsBucket(n, j)'
    <2>1. j \in 1 .. work[n].part /\ j \in DOMAIN work[n].parts
        BY <1>2, <1>3, <1>6 DEF Passed
    <2>2. CASE j = work[n].part
        BY <1>5, <2>1, <2>2
    <2>3. CASE j # work[n].part
        <3>1. j \in Passed(n)
            BY <1>3, <2>1, <2>3 DEF Passed
        <3> QED BY <1>1, <1>2, <1>6, <2>1, <3>1, GrowthKeeps DEF HandlerInv
    <2> QED BY <2>2, <2>3
<1>7. InItsBucket(n, work[n].part)'
    <2>1. PICK j : j = work[n].part
        OBVIOUS
    <2>2. InItsBucket(n, j)' /\ work'[n].part = j
        BY <1>2, <1>4, <1>5, <2>1
    <2> QED BY <2>1, <2>2 DEF InItsBucket, BucketOf, Logged
<1>8. HandlerInv(n)'
    <2>1. /\ work'[n].parts = work[n].parts /\ work'[n].part = work[n].part
          /\ work'[n].pc \in {"capture", "answer"}
        BY <1>2
    <2> QED BY <1>1, <1>2, <1>4, <1>6, <1>7, <2>1 DEF HandlerInv
<1> QED BY <1>1, <1>8, HandlerStep DEF CaptureInv

LEMMA CaptureWildcardStep ==
    ASSUME CaptureInv, NEW n \in DOMAIN work, CaptureWildcard(n)
    PROVE  CaptureInv'
<1>. PICK domain : domain = Part(n).domain
    OBVIOUS
<1>1. PICK w : w = [work[n] EXCEPT !.pc = "capture", !.todo = Part(n).mentions]
    OBVIOUS
<1>2. /\ CaptureTypes /\ HandlerInv(n) /\ work[n] \in Handlers /\ work[n].parts \in Seq(Parts)
      /\ work[n].pc = "wildcard" /\ n \in Nat
    BY HandlerFacts DEF CaptureInv, HandlersInv, CaptureWildcard, Numbers
<1>3. work[n].part \in DOMAIN work[n].parts /\ Part(n) \in Parts
    <2>1. work[n].part \in Nat /\ work[n].part # 0 /\ work[n].part <= Len(work[n].parts)
        BY <1>2 DEF HandlerInv, Handlers
    <2>2. work[n].part \in DOMAIN work[n].parts
        BY <1>2, <2>1
    <2> QED BY <1>2, <2>2 DEF Part
<1>4. domain \in Buckets \union {None} /\ Part(n).mentions \in Seq(IDs)
    BY <1>3, PartFacts, DomainFacts
<1>5. Becomes(n, w) /\ w.part = work[n].part /\ w.pc = "capture"
    <2>1. /\ w \in Handlers /\ w.service = work[n].service /\ w.parts = work[n].parts
          /\ w.part = work[n].part /\ w.pc = "capture"
        BY <1>1, <1>2, <1>4 DEF Handlers, Steps
    <2>2. work' = [work EXCEPT ![n] = w]
        BY <1>1, <1>2 DEF CaptureWildcard, Handlers, CaptureTypes
    <2> QED BY <2>1, <2>2 DEF Becomes
<1>6. UNCHANGED <<owner, opened, mailbox, offset, poll, answered>>
    BY DEF CaptureWildcard, storeVars, pollVars
<1>7. LogGrows /\ (Wildcard /\ domain # None /\ ~InBucket(n, domain) => Logged(n, domain)')
    <2>1. CASE Wildcard /\ domain # None /\ ~InBucket(n, domain)
        <3>1. domain \in Buckets /\ log' = [log EXCEPT ![domain] = Append(@, n)]
            BY <1>4, <2>1 DEF CaptureWildcard
        <3> QED BY <1>2, <3>1, LogAppended
    <2>2. CASE ~(Wildcard /\ domain # None /\ ~InBucket(n, domain))
        <3>1. log' = log
            BY <2>2 DEF CaptureWildcard
        <3> QED BY <2>2, <3>1, SameLog
    <2> QED BY <2>1, <2>2
<1>8. ASSUME NEW b \in Buckets, b = BucketOf(n, work[n].part), b # None
      PROVE  Logged(n, b) \/ Logged(n, b)'
    <2>1. Wildcard /\ domain = b
        BY <1>2, <1>8 DEF HandlerInv, BucketOf, Part
    <2>2. CASE InBucket(n, domain)
        <3>1. Service(n) = "smtp" /\ work[n].part \in Nat
            BY <1>2, <2>2 DEF InBucket, Handlers
        <3>2. PICK j \in 1 .. work[n].part - 1 : work[n].parts[j].domain = domain
            BY <2>2 DEF InBucket, Recipients
        <3>3. j \in Passed(n)
            BY <3>1, <3>2 DEF Passed
        <3>4. BucketOf(n, j) = b
            BY <2>1, <3>1, <3>2 DEF BucketOf
        <3> QED BY <1>2, <1>8, <3>1, <3>3, <3>4 DEF HandlerInv, InItsBucket
    <2>3. CASE ~InBucket(n, domain)
        BY <1>7, <1>8, <2>1, <2>3 DEF Logged
    <2> QED BY <2>2, <2>3
<1> QED BY <1>2, <1>5, <1>6, <1>7, <1>8, HandlerInBucket

LEMMA CaptureExtraStep ==
    ASSUME CaptureInv, NEW n \in DOMAIN work, CaptureExtra(n)
    PROVE  CaptureInv'
<1> DEFINE search == work[n].op = "search"
<1>1. PICK w : w = [work[n] EXCEPT !.pc = IF search THEN "capture" ELSE "answer",
                                   !.todo = IF search THEN Part(n).mentions ELSE <<>>]
    OBVIOUS
<1>2. /\ CaptureTypes /\ HandlerInv(n) /\ work[n] \in Handlers /\ work[n].parts \in Seq(Parts)
      /\ work[n].pc = "extra" /\ n \in Nat
    BY HandlerFacts DEF CaptureInv, HandlersInv, CaptureExtra, Numbers
<1>3. work[n].part \in DOMAIN work[n].parts /\ Part(n) \in Parts
    <2>1. work[n].part \in Nat /\ work[n].part # 0 /\ work[n].part <= Len(work[n].parts)
        BY <1>2 DEF HandlerInv, Handlers
    <2>2. work[n].part \in DOMAIN work[n].parts
        BY <1>2, <2>1
    <2> QED BY <1>2, <2>2 DEF Part
<1>4. Becomes(n, w) /\ w.part = work[n].part /\ w.pc \in {"capture", "answer"}
    <2>1. PICK pc \in {"capture", "answer"} : pc = IF search THEN "capture" ELSE "answer"
        OBVIOUS
    <2>2. PICK todo \in Seq(IDs) : todo = IF search THEN Part(n).mentions ELSE <<>>
        <3>1. Part(n).mentions \in Seq(IDs) /\ <<>> \in Seq(IDs)
            BY <1>3, PartFacts
        <3> QED BY <3>1
    <2>3. w = [work[n] EXCEPT !.pc = pc, !.todo = todo]
        BY <1>1, <2>1, <2>2
    <2>4. /\ w \in Handlers /\ w.service = work[n].service /\ w.parts = work[n].parts
          /\ w.part = work[n].part /\ w.pc \in {"capture", "answer"}
        BY <1>2, <2>1, <2>2, <2>3 DEF Handlers, Steps
    <2>5. work' = [work EXCEPT ![n] = w]
        BY <1>1, <1>2 DEF CaptureExtra, Handlers, CaptureTypes
    <2> QED BY <2>4, <2>5 DEF Becomes
<1>5. UNCHANGED <<owner, opened, mailbox, offset, poll, answered>>
    BY DEF CaptureExtra, storeVars, pollVars
<1>6. BucketOf(n, work[n].part) = IF Extra THEN "extra" ELSE None
    BY <1>2 DEF HandlerInv, BucketOf
<1>7. LogGrows /\ (Extra => Logged(n, "extra")')
    <2>1. CASE Extra
        <3>1. "extra" \in Buckets /\ log' = [log EXCEPT !["extra"] = Append(@, n)]
            BY <2>1, DomainFacts DEF CaptureExtra
        <3> QED BY <1>2, <3>1, LogAppended
    <2>2. CASE ~Extra
        <3>1. log' = log
            BY <2>2 DEF CaptureExtra
        <3> QED BY <2>2, <3>1, SameLog
    <2> QED BY <2>1, <2>2
<1>8. ASSUME NEW b \in Buckets, b = BucketOf(n, work[n].part), b # None
      PROVE  Logged(n, b)'
    BY <1>6, <1>7, <1>8
<1> QED BY <1>2, <1>4, <1>5, <1>7, <1>8, HandlerInBucket

LEMMA LookUpStep ==
    ASSUME CaptureInv, NEW n \in DOMAIN work, LookUp(n)
    PROVE  CaptureInv'
<1> DEFINE id == Head(work[n].todo)
           found == id \notin ToSet(work[n].matches) /\ owner[id] # None
<1>1. CaptureTypes /\ work[n] \in Handlers /\ work[n].todo # <<>>
    BY HandlerFacts DEF CaptureInv, LookUp
<1>2. id \in IDs /\ Tail(work[n].todo) \in Seq(IDs)
    <2>1. PICK s \in Seq(IDs) : s = work[n].todo
        BY <1>1 DEF Handlers
    <2> QED BY <1>1, <2>1
<1>3. PICK matches \in Seq(IDs) :
          matches = IF found THEN Append(work[n].matches, id) ELSE work[n].matches
    <2>1. PICK s \in Seq(IDs) : s = work[n].matches
        BY <1>1 DEF Handlers
    <2>2. Append(s, id) \in Seq(IDs)
        BY <1>2
    <2> QED BY <2>1, <2>2
<1>4. PICK matched \in BOOLEAN :
          matched = (work[n].matched \/ (found /\ Service(n) \in {"dns", "http"}))
    OBVIOUS
<1>5. PICK w : w = [work[n] EXCEPT !.todo = Tail(@), !.matches = matches, !.matched = matched]
    OBVIOUS
<1>6. Becomes(n, w) /\ w.pc = work[n].pc /\ w.part = work[n].part
    <2>1. /\ w \in Handlers /\ w.service = work[n].service /\ w.parts = work[n].parts
          /\ w.pc = work[n].pc /\ w.part = work[n].part
        BY <1>1, <1>2, <1>3, <1>4, <1>5 DEF Handlers
    <2>2. work' = [work EXCEPT ![n] = w]
        BY <1>1, <1>3, <1>4, <1>5 DEF LookUp, Handlers, CaptureTypes, Service
    <2> QED BY <2>1, <2>2 DEF Becomes
<1> QED BY <1>6, HandlerSameStep DEF LookUp, storeVars, pollVars

\* What a handler that stores its next match becomes.
HasStored(n, ok, present) ==
    [work[n] EXCEPT !.matches = Tail(@), !.cids = @ \union {Head(work[n].matches)},
                    !.matched = @ \/ (ok /\ Service(n) = "smtp"), !.present = present]

LEMMA StoredFacts ==
    ASSUME CaptureInv, NEW n \in DOMAIN work, Storing(n), NEW ok \in BOOLEAN,
           NEW present \in SUBSET Sessions, NEW w, w = HasStored(n, ok, present)
    PROVE  /\ w \in Handlers /\ w.service = work[n].service /\ w.parts = work[n].parts
           /\ w.pc = work[n].pc /\ w.part = work[n].part
           /\ Head(work[n].matches) \in IDs
<1>1. work[n] \in Handlers /\ work[n].matches # <<>>
    BY HandlerFacts DEF CaptureInv, Storing
<1>2. Head(work[n].matches) \in IDs /\ Tail(work[n].matches) \in Seq(IDs)
    <2>1. PICK s \in Seq(IDs) : s = work[n].matches
        BY <1>1 DEF Handlers
    <2> QED BY <1>1, <2>1
<1>3. PICK matched \in BOOLEAN : matched = (work[n].matched \/ (ok /\ Service(n) = "smtp"))
    OBVIOUS
<1>4. PICK cids \in SUBSET IDs : cids = work[n].cids \union {Head(work[n].matches)}
    BY <1>1, <1>2 DEF Handlers
<1>5. w = [work[n] EXCEPT !.matches = Tail(@), !.cids = cids, !.matched = matched, !.present = present]
    BY <1>3, <1>4 DEF HasStored
<1> QED BY <1>1, <1>2, <1>5 DEF Handlers

LEMMA StoredBecomes ==
    ASSUME CaptureInv, NEW n \in DOMAIN work, Storing(n), NEW ok \in BOOLEAN, work' = Stored(n, ok)
    PROVE  \E w : Becomes(n, w) /\ w.pc = work[n].pc /\ w.part = work[n].part
<1>1. PICK present \in SUBSET Sessions : present = work[n].present
    BY HandlerFacts DEF CaptureInv, Handlers
<1>2. PICK w : w = HasStored(n, ok, present)
    OBVIOUS
<1>3. work' = [work EXCEPT ![n] = w]
    BY <1>1, <1>2, HandlerFacts DEF CaptureInv, CaptureTypes, Handlers, Stored, HasStored
<1>4. /\ w \in Handlers /\ w.service = work[n].service /\ w.parts = work[n].parts
      /\ w.pc = work[n].pc /\ w.part = work[n].part
    BY <1>2, StoredFacts
<1> QED BY <1>3, <1>4 DEF Becomes

LEMMA StoreGoneStep ==
    ASSUME CaptureInv, NEW n \in DOMAIN work, StoreGone(n)
    PROVE  CaptureInv'
<1>1. PICK w : Becomes(n, w) /\ w.pc = work[n].pc /\ w.part = work[n].part
    BY StoredBecomes DEF StoreGone
<1> QED BY <1>1, HandlerSameStep DEF StoreGone, storeVars, pollVars

LEMMA StoreFailsStep ==
    ASSUME CaptureInv, NEW n \in DOMAIN work, StoreFails(n)
    PROVE  CaptureInv'
<1> DEFINE gone == owner[Head(work[n].matches)]
<1>1. CaptureTypes /\ work[n] \in Handlers /\ work \in Seq(Handlers) /\ Storing(n)
    BY HandlerFacts DEF CaptureInv, StoreFails, CaptureTypes
<1>2. PICK present \in SUBSET Sessions : present = work[n].present \ {gone}
    BY <1>1 DEF Handlers
<1>3. PICK w : w = HasStored(n, FALSE, present)
    OBVIOUS
<1>4. work' = [work EXCEPT ![n] = w]
    <2>1. work' = [Stored(n, FALSE) EXCEPT ![n].present = @ \ {gone}]
        BY DEF StoreFails
    <2> QED BY <1>1, <1>2, <1>3, <2>1 DEF Stored, HasStored, Handlers
<1>5. /\ w \in Handlers /\ w.service = work[n].service /\ w.parts = work[n].parts
      /\ w.pc = work[n].pc /\ w.part = work[n].part
    BY <1>1, <1>3, StoredFacts
<1>6. Becomes(n, w)
    BY <1>4, <1>5 DEF Becomes
<1> QED BY <1>5, <1>6, HandlerSameStep DEF StoreFails, storeVars, pollVars

LEMMA StoreMatchedStep ==
    ASSUME CaptureInv, NEW n \in DOMAIN work, StoreMatched(n)
    PROVE  CaptureInv'
<1>1. PICK w : Becomes(n, w) /\ w.pc = work[n].pc /\ w.part = work[n].part
    BY StoredBecomes DEF StoreMatched
<1>2. /\ CaptureTypes /\ HandlerInv(n) /\ work[n] \in Handlers /\ work[n].parts \in Seq(Parts)
      /\ n \in Numbers /\ work[n].pc = "capture"
    BY HandlerFacts DEF CaptureInv, HandlersInv, StoreMatched, Storing
<1>3. PICK s \in Sessions : s = owner[Head(work[n].matches)]
    <2>1. PICK m \in Seq(IDs) : m = work[n].matches
        BY <1>2 DEF Handlers
    <2>2. Head(m) \in IDs
        BY <2>1 DEF StoreMatched, Storing
    <2> QED BY <1>2, <2>1, <2>2 DEF StoreMatched, CaptureTypes
<1>4. PICK item : item = [msg |-> n, part |-> work[n].part, body |-> WithBody(n, Head(work[n].matches))]
    OBVIOUS
<1>5. item \in Items /\ item.msg = n /\ item.part = work[n].part
    <2>1. WithBody(n, Head(work[n].matches)) \in BOOLEAN
        BY DEF WithBody
    <2> QED BY <1>2, <1>4, <2>1 DEF Items, Handlers
<1>6. /\ mailbox' = [mailbox EXCEPT ![s] = Append(@, item)]
      /\ UNCHANGED <<owner, opened, log, offset, poll, answered>>
    BY <1>3, <1>4 DEF StoreMatched, Store!Accept, pollVars
<1>7. PICK old \in Seq(Items) : old = mailbox[s]
    BY <1>2 DEF CaptureTypes
<1>8. Append(old, item) \in Seq(Items) /\ ToSet(Append(old, item)) = ToSet(old) \union {item}
    <2>1. /\ Append(old, item) \in Seq(Items) /\ Len(Append(old, item)) = Len(old) + 1
          /\ \A i \in 1 .. Len(old) : Append(old, item)[i] = old[i]
          /\ Append(old, item)[Len(old) + 1] = item
        BY <1>5
    <2>2. DOMAIN Append(old, item) = 1 .. Len(old) + 1 /\ DOMAIN old = 1 .. Len(old) /\ Len(old) \in Nat
        BY <2>1
    <2>3. 1 .. Len(old) + 1 = (1 .. Len(old)) \union {Len(old) + 1}
        BY <2>2
    <2> QED BY <2>1, <2>2, <2>3 DEF ToSet
<1>9. mailbox' \in [Sessions -> Seq(Items)] /\ LogGrows
    BY <1>2, <1>6, <1>7, <1>8, SameLog DEF CaptureTypes
<1>10. /\ CaptureTypes' /\ Grows /\ work'[n] = w /\ PollsInv' /\ OffsetsAnswered'
       /\ HandlerInv(n)' => HandlersInv'
    BY <1>1, <1>6, <1>9, HandlerStep
<1>11. HandlersInv'
    BY <1>1, <1>2, <1>10, HandlerStays
<1>12. CopyInv(item)
    <2>1. work[n].part \in Nat /\ work[n].part # 0 /\ work[n].part <= Len(work[n].parts)
        BY <1>2 DEF HandlerInv, Handlers
    <2>2. work[n].part \in DOMAIN work[n].parts
        BY <1>2, <2>1
    <2>3. InItsBucket(n, work[n].part)
        <3>1. CASE Service(n) = "smtp"
            <4>1. work[n].part \in Passed(n)
                BY <1>2, <2>1 DEF Passed
            <4> QED BY <1>2, <3>1, <4>1 DEF HandlerInv
        <3>2. CASE Service(n) # "smtp"
            BY <1>2, <3>2 DEF HandlerInv
        <3> QED BY <3>1, <3>2
    <2> QED BY <1>5, <2>2, <2>3 DEF CopyInv
<1>13. ASSUME NEW t \in Sessions, NEW e \in ToSet(mailbox'[t])
       PROVE  CopyInv(e)
    <2>1. CASE t = s
        BY <1>2, <1>6, <1>7, <1>8, <1>12, <1>13, <2>1 DEF CaptureInv, MailboxInv, CaptureTypes
    <2>2. CASE t # s
        BY <1>2, <1>6, <1>13, <2>2 DEF CaptureInv, MailboxInv, CaptureTypes
    <2> QED BY <2>1, <2>2
<1>14. MailboxInv'
    BY <1>2, <1>10, <1>13, GrowthKeeps DEF MailboxInv
<1> QED BY <1>10, <1>11, <1>14 DEF CaptureInv

\* Sessions come and go: handlers only forget those that went.
LEMMA RegisterStep ==
    ASSUME CaptureInv, NEW id \in IDs, Register(id)
    PROVE  CaptureInv'
<1>1. PICK s \in Sessions : s = Cardinality(opened) + 1
    BY DEF Register, Store!Open
<1>2. UNCHANGED <<mailbox, log, work, offset, poll, answered>>
    BY DEF Register, Store!Open, captureVars, pollVars
<1>3. owner' \in [IDs -> Sessions \union {None}] /\ opened' \subseteq Sessions
    <2>1. /\ owner' = [i \in IDs |-> IF i = id THEN s ELSE IF i \in {} THEN None ELSE owner[i]]
          /\ opened' = opened \union {s}
        BY <1>1 DEF Register, Store!Open
    <2> QED BY <2>1 DEF CaptureInv, CaptureTypes
<1>4. CaptureTypes'
    BY <1>2, <1>3 DEF CaptureInv, CaptureTypes
<1>5. Grows
    BY <1>2 DEF Grows, CaptureInv, CaptureTypes
<1>6. HandlersInv'
    BY <1>2, <1>4, <1>5, HandlerStays DEF CaptureInv, HandlersInv
<1> QED BY <1>2, <1>4, <1>5, <1>6, PollsAlone DEF CaptureInv

LEMMA LeaveStep ==
    ASSUME CaptureInv, NEW id \in IDs, Leave(id)
    PROVE  CaptureInv'
<1>1. UNCHANGED <<mailbox, opened, log, offset, poll, answered>>
    BY DEF Leave, Store!Close, pollVars
<1>2. owner' \in [IDs -> Sessions \union {None}]
    <2>1. owner' = [i \in IDs |-> IF i \in {id} THEN None ELSE owner[i]]
        BY DEF Leave, Store!Close
    <2> QED BY <2>1 DEF CaptureInv, CaptureTypes
<1>3. work \in Seq(Handlers) /\ Len(work) <= MaxMessages
    BY DEF CaptureInv, CaptureTypes
<1>4. ASSUME NEW n \in DOMAIN work
      PROVE  /\ work'[n] \in Handlers /\ work'[n].service = work[n].service
             /\ work'[n].parts = work[n].parts
             /\ work'[n].pc = work[n].pc /\ work'[n].part = work[n].part
    <2>1. work'[n] = [work[n] EXCEPT !.present = @ \ {owner[id]}] /\ work[n] \in Handlers
        BY <1>3, <1>4 DEF Leave
    <2> QED BY <2>1 DEF Handlers
<1>5. work' \in Seq(Handlers) /\ Len(work') = Len(work) /\ DOMAIN work' = DOMAIN work
    <2>1. work' = [n \in 1 .. Len(work) |-> work'[n]] /\ Len(work) \in Nat /\ DOMAIN work = 1 .. Len(work)
        BY <1>3 DEF Leave
    <2> QED BY <1>4, <2>1
<1>6. CaptureTypes'
    BY <1>1, <1>2, <1>3, <1>5 DEF CaptureInv, CaptureTypes
<1>7. Grows
    BY <1>1, <1>4, <1>5 DEF Grows, CaptureInv, CaptureTypes
<1>8. HandlersInv'
    BY <1>4, <1>5, <1>6, <1>7, HandlerStays DEF CaptureInv, HandlersInv
<1> QED BY <1>1, <1>6, <1>7, <1>8, PollsAlone DEF CaptureInv

LEMMA ReceiveStep ==
    ASSUME CaptureInv, NEW a \in Arrivals, Receive(a)
    PROVE  CaptureInv'
<1>. PICK n : n = Len(work) + 1
    OBVIOUS
<1>1. UNCHANGED <<owner, opened, mailbox, log, offset, poll, answered>>
    BY DEF Receive, storeVars, pollVars
<1>2. work \in Seq(Handlers) /\ Len(work) \in Nat /\ Len(work) + 1 <= MaxMessages
    BY CaptureAssumption DEF CaptureInv, CaptureTypes, Receive
<1>3. PICK w : w = [service |-> a.service, op |-> a.op, parts |-> a.parts,
                    pc |-> FirstStep(a),
                    part |-> IF a.service = "smtp" THEN 0 ELSE 1,
                    todo |-> <<>>, matches |-> <<>>, cids |-> {}, matched |-> FALSE,
                    present |-> {owner[id] : id \in IDs} \ {None}]
    OBVIOUS
<1>4. /\ a.service \in Services /\ a.parts \in Seq(Parts) /\ a.parts # <<>>
      /\ \A part, other \in ToSet(a.parts) : part.rcpt = other.rcpt => part = other
    <2>1. PICK s \in Seq(ToSet(a.parts)) : s = a.parts
        BY ArrivalsAssumption
    <2>2. ToSet(a.parts) \subseteq Parts
        BY DEF Parts
    <2>3. a.parts \in Seq(Parts)
        BY <2>1, <2>2
    <2> QED BY <2>3, ArrivalsAssumption DEF Services
<1>5. /\ FirstStep(a) \in Steps
      /\ a.service = "smtp" => FirstStep(a) = "recipient"
      /\ a.service # "smtp" => FirstStep(a) \in {"answer", "wildcard", "extra"}
      /\ FirstStep(a) = "wildcard" => a.service \notin {"ldap", "ftp"}
      /\ FirstStep(a) = "extra" => a.service \in {"ldap", "ftp"}
    BY <1>4 DEF FirstStep, Ignored, Steps, Services
<1>6. w \in Handlers
    <2>1. {owner[id] : id \in IDs} \ {None} \in SUBSET Sessions
        BY DEF CaptureInv, CaptureTypes
    <2>2. a.op \in Ops /\ <<>> \in Seq(IDs) /\ {} \in SUBSET IDs
        BY DEF Ops
    <2>3. PICK part \in Nat : part = IF a.service = "smtp" THEN 0 ELSE 1
        OBVIOUS
    <2> QED BY <1>3, <1>4, <1>5, <2>1, <2>2, <2>3 DEF Handlers
<1>7. /\ work' \in Seq(Handlers) /\ Len(work') = n /\ DOMAIN work' = DOMAIN work \union {n}
      /\ work'[n] = w /\ \A m \in DOMAIN work : work'[m] = work[m]
    <2>1. work' = Append(work, w)
        BY <1>3 DEF Receive
    <2>2. 1 .. Len(work) + 1 = (1 .. Len(work)) \union {Len(work) + 1}
        BY <1>2
    <2> QED BY <1>2, <1>6, <2>1, <2>2
<1>8. CaptureTypes'
    BY <1>1, <1>2, <1>7 DEF CaptureInv, CaptureTypes
<1>9. Grows
    BY <1>1, <1>7 DEF Grows, CaptureInv, CaptureTypes
<1>10. HandlerInv(n)'
    <2>1. work'[n] = w /\ Service(n)' = a.service
        BY <1>3, <1>7 DEF Service
    <2>2. Len(a.parts) >= 1
        BY <1>4
    <2>3. CASE a.service = "smtp"
        <3>1. w.part = 0 /\ w.parts = a.parts /\ w.pc = "recipient"
            BY <1>3, <1>5, <2>3
        <3>2. Passed(n)' = {}
            BY <2>1, <3>1 DEF Passed
        <3> QED BY <1>4, <2>1, <2>2, <2>3, <3>1, <3>2 DEF HandlerInv
    <2>4. CASE a.service # "smtp"
        <3>1. /\ w.part = 1 /\ w.parts = a.parts /\ w.pc = FirstStep(a)
            BY <1>3, <2>4
        <3> QED BY <1>4, <1>5, <2>1, <2>2, <2>4, <3>1 DEF HandlerInv
    <2> QED BY <2>3, <2>4
<1>11. HandlersInv'
    <2>1. \A m \in DOMAIN work : HandlerInv(m)'
        BY <1>7, <1>8, <1>9, HandlerStays DEF CaptureInv, HandlersInv
    <2> QED BY <1>7, <1>10, <2>1 DEF HandlersInv
<1> QED BY <1>1, <1>8, <1>9, <1>11, PollsAlone DEF CaptureInv

-------------------------------------------------------------------------------
(* The steps of a poll. *)

LEMMA AfterFacts ==
    /\ PollOrder[1] = "drain"
    /\ After("drain") = "key" /\ After("key") = "extra"
    /\ After("extra") = "tld" /\ After("tld") = "answer"
<1>1. /\ DOMAIN PollOrder = 1 .. 5 /\ PollOrder[1] = "drain" /\ PollOrder[2] = "key"
      /\ PollOrder[3] = "extra" /\ PollOrder[4] = "tld" /\ PollOrder[5] = "answer"
    BY DEF PollOrder
<1>2. ASSUME NEW pc, NEW k \in 1 .. 5, PollOrder[k] = pc, \A i \in 1 .. 5 : PollOrder[i] = pc => i = k
      PROVE  After(pc) = PollOrder[k + 1]
    <2>1. (CHOOSE i \in DOMAIN PollOrder : PollOrder[i] = pc) = k
        BY <1>1, <1>2
    <2> QED BY <2>1 DEF After
<1>3. \A i \in 1 .. 5 : i = 1 \/ i = 2 \/ i = 3 \/ i = 4 \/ i = 5
    OBVIOUS
<1>4. After("drain") = PollOrder[1 + 1]
    BY <1>1, <1>2, <1>3
<1>5. After("key") = PollOrder[2 + 1]
    BY <1>1, <1>2, <1>3
<1>6. After("extra") = PollOrder[3 + 1]
    BY <1>1, <1>2, <1>3
<1>7. After("tld") = PollOrder[4 + 1]
    BY <1>1, <1>2, <1>3
<1> QED BY <1>1, <1>4, <1>5, <1>6, <1>7

\* OffsetsAnswered for one client, entry by entry.
Accounted(id, off, ans, polling) ==
    \A x : (\E b \in Buckets : \E i \in 1 .. off[b][id] : x = <<b, i>>)
               <=> (x \in ans[id] \/ \E p \in Pollers : polling[p].id = id /\ x \in polling[p].taken)

LEMMA ByEntry ==
    ASSUME NEW id, NEW off, NEW ans, NEW polling
    PROVE  Accounted(id, off, ans, polling)
               <=> UNION {{b} \X (1 .. off[b][id]) : b \in Buckets}
                     = ans[id] \union UNION {polling[p].taken : p \in {q \in Pollers : polling[q].id = id}}
<1> DEFINE read == UNION {{b} \X (1 .. off[b][id]) : b \in Buckets}
           told == ans[id] \union UNION {polling[p].taken : p \in {q \in Pollers : polling[q].id = id}}
<1>1. ASSUME NEW x
      PROVE  x \in read <=> \E b \in Buckets : \E i \in 1 .. off[b][id] : x = <<b, i>>
    OBVIOUS
<1>2. ASSUME NEW x
      PROVE  x \in told <=> (x \in ans[id] \/ \E p \in Pollers : polling[p].id = id /\ x \in polling[p].taken)
    OBVIOUS
<1>3. (read = told) <=> \A x : x \in read <=> x \in told
    OBVIOUS
<1> QED BY <1>1, <1>2, <1>3 DEF Accounted

\* Poll p goes from poll[p] to q; nothing is captured meanwhile.
LEMMA PollStep ==
    ASSUME CaptureInv, NEW p \in Pollers, NEW q \in Polling, poll' = [poll EXCEPT ![p] = q],
           UNCHANGED <<owner, opened, work, log>>,
           mailbox' \in [Sessions -> Seq(Items)],
           offset' \in [Buckets -> [IDs -> Nat]],
           \A b \in Buckets, id \in IDs : offset[b][id] <= offset'[b][id] /\ offset'[b][id] <= Len(log[b]),
           answered' \in [IDs -> SUBSET (Buckets \X Nat)]
    PROVE  /\ CaptureTypes' /\ Grows /\ HandlersInv' /\ poll'[p] = q
           /\ \A r \in Pollers \ {p} : poll'[r] = poll[r]
           /\ PollInv(p)' => PollsInv'
           /\ mailbox' = mailbox => MailboxInv'
<1>1. poll' \in [Pollers -> Polling] /\ poll'[p] = q /\ \A r \in Pollers \ {p} : poll'[r] = poll[r]
    BY DEF CaptureInv, CaptureTypes
<1>2. CaptureTypes'
    BY <1>1 DEF CaptureInv, CaptureTypes
<1>3. Grows
    BY DEF Grows, CaptureInv, CaptureTypes
<1>4. HandlersInv'
    BY <1>2, <1>3, HandlerStays DEF CaptureInv, HandlersInv
<1>5. ASSUME PollInv(p)'
      PROVE  PollsInv'
    <2>1. ASSUME NEW r \in Pollers, r # p
          PROVE  PollInv(r)'
        BY <1>1, <1>2, <1>3, <2>1, PollStays DEF CaptureInv, PollsInv
    <2> QED BY <1>5, <2>1 DEF PollsInv
<1>6. ASSUME mailbox' = mailbox
      PROVE  MailboxInv'
    BY <1>2, <1>3, <1>6, GrowthKeeps DEF CaptureInv, MailboxInv
<1> QED BY <1>1, <1>2, <1>3, <1>4, <1>5, <1>6

\* A poll that reads no bucket and answers nothing.
LEMMA OffsetsAlone ==
    ASSUME OffsetsAnswered, NEW p \in Pollers, NEW q, poll' = [poll EXCEPT ![p] = q], poll \in [Pollers -> Polling],
           UNCHANGED <<offset, answered>>,
           \/ q.id = poll[p].id /\ q.taken = poll[p].taken
           \/ q.taken = {} /\ poll[p].taken = {}
    PROVE  OffsetsAnswered'
<1> SUFFICES ASSUME NEW id \in IDs
             PROVE  Accounted(id, offset', answered', poll')
    BY ByEntry DEF OffsetsAnswered
<1>1. Accounted(id, offset, answered, poll)
    BY ByEntry DEF OffsetsAnswered
<1>2. ASSUME NEW x
      PROVE  (\E r \in Pollers : poll[r].id = id /\ x \in poll[r].taken)
                 <=> (\E r \in Pollers : poll'[r].id = id /\ x \in poll'[r].taken)
    <2>1. poll'[p] = q /\ \A r \in Pollers \ {p} : poll'[r] = poll[r]
        OBVIOUS
    <2> QED BY <2>1
<1> QED BY <1>1, <1>2 DEF Accounted

LEMMA SameOffsets ==
    ASSUME CaptureInv, UNCHANGED <<offset, mailbox, answered>>
    PROVE  /\ mailbox' \in [Sessions -> Seq(Items)]
           /\ offset' \in [Buckets -> [IDs -> Nat]]
           /\ \A b \in Buckets, id \in IDs : offset[b][id] <= offset'[b][id] /\ offset'[b][id] <= Len(log[b])
           /\ answered' \in [IDs -> SUBSET (Buckets \X Nat)]
BY DEF CaptureInv, CaptureTypes

LEMMA PollStartStep ==
    ASSUME CaptureInv, NEW p \in Pollers, NEW id \in IDs, PollStart(p, id)
    PROVE  CaptureInv'
<1>1. PICK s \in Sessions : s = owner[id]
    BY DEF PollStart, CaptureInv, CaptureTypes
<1>2. PICK q : q = [NoPoll EXCEPT !.pc = PollOrder[1], !.id = id, !.session = s]
    OBVIOUS
<1>3. /\ q \in Polling /\ q.pc = "drain" /\ q.id = id /\ q.session = s
      /\ q.taken = {} /\ q.data = <<>> /\ q.at = 1
    BY <1>2, NoPollFacts, AfterFacts DEF Polling
<1>4. /\ UNCHANGED <<owner, opened, mailbox, log, work, offset, answered>>
      /\ poll' = [poll EXCEPT ![p] = q] /\ poll[p].pc = "idle"
    BY <1>1, <1>2 DEF PollStart, storeVars, captureVars
<1>5. /\ CaptureTypes' /\ HandlersInv' /\ MailboxInv' /\ poll'[p] = q
      /\ PollInv(p)' => PollsInv'
    BY <1>3, <1>4, SameOffsets, PollStep
<1>6. PollInv(p)'
    <2>1. ToSet(q.data) = {} /\ 1 \in DOMAIN Domains
        BY <1>3, DomainFacts DEF ToSet
    <2> QED BY <1>3, <1>5, <2>1 DEF PollInv
<1>7. OffsetsAnswered'
    <2>1. poll[p].taken = {} /\ poll \in [Pollers -> Polling] /\ OffsetsAnswered
        BY <1>4 DEF CaptureInv, PollsInv, PollInv, CaptureTypes
    <2> QED BY <1>3, <1>4, <2>1, OffsetsAlone
<1> QED BY <1>5, <1>6, <1>7 DEF CaptureInv

\* A poll that ends, having answered what it took or taken nothing.
LEMMA PollEnds ==
    ASSUME CaptureInv, NEW p \in Pollers, poll' = [poll EXCEPT ![p] = NoPoll],
           UNCHANGED <<owner, opened, work, log, mailbox, offset>>,
           answered' \in [IDs -> SUBSET (Buckets \X Nat)], OffsetsAnswered'
    PROVE  CaptureInv'
<1>1. /\ CaptureTypes' /\ HandlersInv' /\ MailboxInv' /\ poll'[p] = NoPoll
      /\ PollInv(p)' => PollsInv'
    <2>1. /\ mailbox' \in [Sessions -> Seq(Items)] /\ offset' \in [Buckets -> [IDs -> Nat]]
          /\ \A b \in Buckets, id \in IDs :
                offset[b][id] <= offset'[b][id] /\ offset'[b][id] <= Len(log[b])
        BY DEF CaptureInv, CaptureTypes
    <2> QED BY <2>1, NoPollFacts, PollStep
<1>2. PollInv(p)'
    <2>1. ToSet(NoPoll.data) = {}
        BY NoPollFacts DEF ToSet
    <2> QED BY <1>1, <2>1, NoPollFacts DEF PollInv
<1> QED BY <1>1, <1>2 DEF CaptureInv

LEMMA PollKeyFailsStep ==
    ASSUME CaptureInv, NEW p \in Pollers, PollKeyFails(p)
    PROVE  CaptureInv'
<1>1. /\ UNCHANGED <<owner, opened, mailbox, log, work, offset, answered>>
      /\ poll' = [poll EXCEPT ![p] = NoPoll] /\ poll[p].pc = "key"
    BY DEF PollKeyFails, storeVars, captureVars
<1>2. poll[p].taken = {} /\ poll \in [Pollers -> Polling] /\ OffsetsAnswered
    BY <1>1 DEF CaptureInv, PollsInv, PollInv, CaptureTypes
<1>3. OffsetsAnswered'
    BY <1>1, <1>2, NoPollFacts, OffsetsAlone
<1> QED BY <1>1, <1>3, SameOffsets, PollEnds

LEMMA PollAnswerStep ==
    ASSUME CaptureInv, NEW p \in Pollers, PollAnswer(p)
    PROVE  CaptureInv'
<1>1. /\ UNCHANGED <<owner, opened, mailbox, log, work, offset>>
      /\ poll' = [poll EXCEPT ![p] = NoPoll] /\ poll[p].pc = "answer"
      /\ answered' = [answered EXCEPT ![poll[p].id] = @ \union poll[p].taken]
    BY DEF PollAnswer, storeVars, captureVars
<1>2. /\ poll \in [Pollers -> Polling] /\ answered \in [IDs -> SUBSET (Buckets \X Nat)]
      /\ poll[p].taken \in SUBSET (Buckets \X Nat) /\ poll[p].id \in IDs
    BY <1>1 DEF CaptureInv, CaptureTypes, PollsInv, PollInv, Polling
<1>3. answered' \in [IDs -> SUBSET (Buckets \X Nat)]
    BY <1>1, <1>2
<1>4. ASSUME NEW id \in IDs
      PROVE  Accounted(id, offset', answered', poll')
    <2>1. Accounted(id, offset, answered, poll)
        BY ByEntry DEF CaptureInv, OffsetsAnswered
    <2>2. poll'[p].taken = {} /\ \A r \in Pollers \ {p} : poll'[r] = poll[r]
        BY <1>1, <1>2, NoPollFacts
    <2>3. answered'[id] = IF id = poll[p].id THEN answered[id] \union poll[p].taken ELSE answered[id]
        BY <1>1, <1>2, <1>4
    <2>4. ASSUME NEW x
          PROVE  (x \in answered[id] \/ \E r \in Pollers : poll[r].id = id /\ x \in poll[r].taken)
                     <=> (x \in answered'[id] \/ \E r \in Pollers : poll'[r].id = id /\ x \in poll'[r].taken)
        <3>1. CASE id = poll[p].id
            BY <2>2, <2>3, <3>1
        <3>2. CASE id # poll[p].id
            BY <2>2, <2>3, <3>2
        <3> QED BY <3>1, <3>2
    <2> QED BY <1>1, <2>1, <2>4 DEF Accounted
<1>5. OffsetsAnswered'
    BY <1>4, ByEntry DEF OffsetsAnswered
<1> QED BY <1>1, <1>3, <1>5, PollEnds

LEMMA PollDrainStep ==
    ASSUME CaptureInv, NEW p \in Pollers, PollDrain(p)
    PROVE  CaptureInv'
<1>1. CaptureTypes /\ PollInv(p) /\ poll[p] \in Polling /\ poll[p].pc = "drain"
    BY DEF CaptureInv, CaptureTypes, PollsInv, PollDrain
<1>2. PICK s \in Sessions : s = poll[p].session
    BY <1>1 DEF PollInv
<1>3. PICK q : q = [poll[p] EXCEPT !.pc = "key", !.data = mailbox[s]]
    OBVIOUS
<1>4. /\ q \in Polling /\ q.pc = "key" /\ q.id = poll[p].id /\ q.session = s
      /\ q.taken = {} /\ q.data = mailbox[s] /\ q.at = 1
    <2>1. mailbox[s] \in Seq(Items) /\ poll[p].taken = {} /\ poll[p].at = 1
        BY <1>1 DEF CaptureTypes, PollInv
    <2> QED BY <1>1, <1>2, <1>3, <2>1 DEF Polling
<1>5. /\ UNCHANGED <<owner, opened, log, work, offset, answered>>
      /\ mailbox' = [mailbox EXCEPT ![s] = <<>>]
    BY <1>2 DEF PollDrain, Store!Drain, captureVars
<1>6. poll' = [poll EXCEPT ![p] = q]
    <2>1. poll' = [Go(p) EXCEPT ![p].data = mailbox[s]] /\ Go(p) = [poll EXCEPT ![p].pc = "key"]
        <3>1. After(poll[p].pc) = "key"
            BY <1>1, AfterFacts
        <3> QED BY <1>1, <1>2, <3>1 DEF PollDrain, Go, CaptureTypes
    <2> QED BY <1>1, <1>3, <2>1 DEF CaptureTypes, Polling
<1>7. mailbox' \in [Sessions -> Seq(Items)]
    BY <1>1, <1>5 DEF CaptureTypes
<1>8. /\ CaptureTypes' /\ Grows /\ HandlersInv' /\ poll'[p] = q
      /\ PollInv(p)' => PollsInv'
    <2>1. /\ offset' \in [Buckets -> [IDs -> Nat]] /\ answered' \in [IDs -> SUBSET (Buckets \X Nat)]
          /\ \A b \in Buckets, id \in IDs :
                offset[b][id] <= offset'[b][id] /\ offset'[b][id] <= Len(log[b])
        BY <1>1, <1>5 DEF CaptureTypes
    <2> QED BY <1>4, <1>5, <1>6, <1>7, <2>1, PollStep
<1>9. MailboxInv'
    <2>1. ASSUME NEW t \in Sessions, NEW e \in ToSet(mailbox'[t])
          PROVE  CopyInv(e)
        <3>1. CASE t = s
            BY <1>1, <1>5, <2>1, <3>1 DEF CaptureTypes, ToSet
        <3>2. CASE t # s
            BY <1>1, <1>5, <2>1, <3>2 DEF CaptureTypes, CaptureInv, MailboxInv
        <3> QED BY <3>1, <3>2
    <2> QED BY <1>1, <1>8, <2>1, GrowthKeeps DEF MailboxInv
<1>10. PollInv(p)'
    <2>1. ReadBuckets(p)' = {}
        BY <1>4, <1>8 DEF ReadBuckets
    <2>2. \A e \in ToSet(q.data) : CopyInv(e)'
        BY <1>1, <1>4, <1>8, GrowthKeeps DEF CaptureInv, MailboxInv
    <2> QED BY <1>1, <1>2, <1>4, <1>8, <2>1, <2>2 DEF PollInv
<1>11. OffsetsAnswered'
    <2>1. q.taken = poll[p].taken /\ poll \in [Pollers -> Polling] /\ OffsetsAnswered
        BY <1>1, <1>4 DEF CaptureInv, CaptureTypes, PollInv
    <2> QED BY <1>4, <1>5, <1>6, <2>1, OffsetsAlone
<1> QED BY <1>8, <1>9, <1>10, <1>11 DEF CaptureInv

LEMMA PollKeyStep ==
    ASSUME CaptureInv, NEW p \in Pollers, PollKey(p)
    PROVE  CaptureInv'
<1>1. CaptureTypes /\ PollInv(p) /\ poll[p] \in Polling /\ poll[p].pc = "key"
    BY DEF CaptureInv, CaptureTypes, PollsInv, PollKey
<1>2. PICK q : q = [poll[p] EXCEPT !.pc = "extra"]
    OBVIOUS
<1>3. /\ q \in Polling /\ q.pc = "extra" /\ q.id = poll[p].id /\ q.session = poll[p].session
      /\ q.taken = poll[p].taken /\ q.data = poll[p].data /\ q.at = poll[p].at
    BY <1>1, <1>2 DEF Polling
<1>4. /\ UNCHANGED <<owner, opened, mailbox, log, work, offset, answered>>
      /\ poll' = [poll EXCEPT ![p] = q]
    <2>1. After(poll[p].pc) = "extra"
        BY <1>1, AfterFacts
    <2> QED BY <1>1, <1>2, <2>1 DEF PollKey, Go, storeVars, captureVars, CaptureTypes
<1>5. /\ CaptureTypes' /\ Grows /\ HandlersInv' /\ MailboxInv' /\ poll'[p] = q
      /\ PollInv(p)' => PollsInv'
    BY <1>3, <1>4, SameOffsets, PollStep
<1>6. PollInv(p)'
    <2>1. ReadBuckets(p)' = {}
        BY <1>3, <1>5 DEF ReadBuckets
    <2>2. \A e \in ToSet(q.data) : CopyInv(e)'
        BY <1>1, <1>3, <1>5, GrowthKeeps DEF PollInv
    <2> QED BY <1>1, <1>3, <1>5, <2>1, <2>2 DEF PollInv
<1>7. OffsetsAnswered'
    <2>1. poll \in [Pollers -> Polling] /\ OffsetsAnswered
        BY <1>1 DEF CaptureInv, CaptureTypes
    <2> QED BY <1>3, <1>4, <2>1, OffsetsAlone
<1> QED BY <1>5, <1>6, <1>7 DEF CaptureInv

\* A poll that reads bucket b to its end.
LEMMA ReadStep ==
    ASSUME CaptureInv, NEW p \in Pollers, NEW b \in Buckets, ReadFrom(p, b),
           poll[p].pc \in {"extra", "tld"},
           NEW q \in Polling, poll' = [poll EXCEPT ![p] = q],
           q.id = poll[p].id, q.session = poll[p].session, q.data = poll[p].data,
           q.taken = poll[p].taken \union TakenFrom(p, b),
           q.pc \in {"tld", "answer"}, q.at \in DOMAIN Domains, q.pc # "tld" => q.at = 1,
           ReadBuckets(p)' \subseteq ReadBuckets(p) \union {b}
    PROVE  CaptureInv'
<1>1. CaptureTypes /\ PollInv(p) /\ poll \in [Pollers -> Polling]
    BY DEF CaptureInv, CaptureTypes, PollsInv
<1>2. PICK me \in IDs : me = poll[p].id
    BY <1>1 DEF PollInv
<1>3. PICK end \in Nat : end = Len(log[b])
    BY <1>1 DEF CaptureTypes
<1>4. /\ UNCHANGED <<owner, opened, mailbox, log, work, answered>>
      /\ offset' = [offset EXCEPT ![b][me] = end]
    BY <1>2, <1>3 DEF ReadFrom, storeVars, captureVars
<1>5. /\ offset' \in [Buckets -> [IDs -> Nat]] /\ offset'[b][me] = end
      /\ \A c \in Buckets, id \in IDs : c # b \/ id # me => offset'[c][id] = offset[c][id]
    BY <1>1, <1>4 DEF CaptureTypes
<1>6. ASSUME NEW c \in Buckets, NEW id \in IDs
      PROVE  offset[c][id] <= offset'[c][id] /\ offset'[c][id] <= Len(log[c])
    <2>1. offset[c][id] \in Nat /\ offset[c][id] <= Len(log[c]) /\ Len(log[c]) \in Nat
        BY <1>1 DEF CaptureTypes
    <2>2. CASE c = b /\ id = me
        BY <1>3, <1>5, <2>1, <2>2
    <2>3. CASE c # b \/ id # me
        BY <1>5, <2>1, <2>3
    <2> QED BY <2>2, <2>3
<1>7. /\ CaptureTypes' /\ Grows /\ HandlersInv' /\ MailboxInv' /\ poll'[p] = q
      /\ \A r \in Pollers \ {p} : poll'[r] = poll[r]
      /\ PollInv(p)' => PollsInv'
    <2>1. /\ mailbox' \in [Sessions -> Seq(Items)]
          /\ answered' \in [IDs -> SUBSET (Buckets \X Nat)]
        BY <1>1, <1>4 DEF CaptureTypes
    <2> QED BY <1>4, <1>5, <1>6, <2>1, PollStep
<1>8. ASSUME NEW e \in ToSet(q.data), NEW c \in Buckets, c = BucketOf(e.msg, e.part),
             c \in ReadBuckets(p) \union {b}, c # None
      PROVE  WasRead(e.msg, c, me)'
    <2>1. CopyInv(e) /\ (c \in ReadBuckets(p) \ {None} => WasRead(e.msg, c, me))
        BY <1>1, <1>2, <1>8 DEF PollInv
    <2>2. CASE c \in ReadBuckets(p)
        BY <1>1, <1>7, <1>8, <2>1, <2>2, GrowthKeeps
    <2>3. CASE c = b
        <3>1. PICK i \in DOMAIN log[b] : log[b][i] = e.msg
            BY <1>8, <2>1, <2>3 DEF CopyInv, InItsBucket, Logged
        <3>2. i \in 1 .. end
            BY <1>1, <1>3 DEF CaptureTypes
        <3> QED BY <1>4, <1>5, <2>3, <3>1, <3>2 DEF WasRead
    <2> QED BY <1>8, <2>2, <2>3
<1>9. PollInv(p)'
    <2>1. ASSUME NEW e \in ToSet(q.data)
          PROVE  /\ CopyInv(e)'
                 /\ BucketOf(e.msg, e.part)' \in ReadBuckets(p)' \ {None} =>
                       WasRead(e.msg, BucketOf(e.msg, e.part), poll[p].id)'
        <3>1. CopyInv(e) /\ e.msg \in DOMAIN work /\ e.part \in DOMAIN work[e.msg].parts
            BY <1>1, <2>1 DEF PollInv, CopyInv
        <3>2. PICK c : c = BucketOf(e.msg, e.part)
            OBVIOUS
        <3>3. BucketOf(e.msg, e.part)' = c /\ CopyInv(e)' /\ c \in Buckets \union {None}
            BY <1>1, <1>7, <3>1, <3>2, GrowthKeeps, HandlerFacts
        <3>4. ASSUME c \in ReadBuckets(p)' \ {None}
              PROVE  WasRead(e.msg, c, me)'
            <4>1. c \in ReadBuckets(p) \union {b} /\ c \in Buckets /\ c # None
                BY <3>4, DomainFacts DEF ReadBuckets
            <4> QED BY <1>8, <2>1, <3>2, <4>1
        <3> QED BY <1>2, <1>7, <3>3, <3>4 DEF WasRead
    <2> QED BY <1>1, <1>7, <2>1 DEF PollInv
<1>10. OffsetsAnswered'
    <2>1. ASSUME NEW id \in IDs
          PROVE  Accounted(id, offset', answered', poll')
        <3>1. Accounted(id, offset, answered, poll)
            BY ByEntry DEF CaptureInv, OffsetsAnswered
        <3>2. ASSUME NEW x
              PROVE  (\E r \in Pollers : poll'[r].id = id /\ x \in poll'[r].taken)
                         <=> \/ \E r \in Pollers : poll[r].id = id /\ x \in poll[r].taken
                             \/ id = me /\ x \in TakenFrom(p, b)
            BY <1>2, <1>7
        <3>3. ASSUME NEW x
              PROVE  (\E c \in Buckets : \E i \in 1 .. offset'[c][id] : x = <<c, i>>)
                         <=> \/ \E c \in Buckets : \E i \in 1 .. offset[c][id] : x = <<c, i>>
                             \/ id = me /\ x \in TakenFrom(p, b)
            <4>1. CASE id # me
                BY <1>5, <2>1, <4>1
            <4>2. CASE id = me
                <5>1. offset[b][me] \in Nat /\ offset[b][me] <= end
                    BY <1>1, <1>3 DEF CaptureTypes
                <5>2. 1 .. end = (1 .. offset[b][me]) \union (offset[b][me] + 1 .. end)
                    BY <5>1
                <5>3. x \in TakenFrom(p, b) <=> \E i \in offset[b][me] + 1 .. end : x = <<b, i>>
                    BY <1>2, <1>3 DEF TakenFrom
                <5>4. (\E i \in 1 .. offset'[b][me] : x = <<b, i>>)
                          <=> (\E i \in 1 .. offset[b][me] : x = <<b, i>>) \/ x \in TakenFrom(p, b)
                    BY <1>5, <5>2, <5>3
                <5>5. \A c \in Buckets \ {b} : offset'[c][me] = offset[c][me]
                    BY <1>5
                <5> QED BY <4>2, <5>4, <5>5
            <4> QED BY <4>1, <4>2
        <3> QED BY <1>4, <3>1, <3>2, <3>3 DEF Accounted
    <2> QED BY <2>1, ByEntry DEF OffsetsAnswered
<1> QED BY <1>7, <1>9, <1>10 DEF CaptureInv

LEMMA PollExtraStep ==
    ASSUME CaptureInv, NEW p \in Pollers, PollExtra(p)
    PROVE  CaptureInv'
<1>1. CaptureTypes /\ PollInv(p) /\ poll[p] \in Polling /\ poll[p].pc = "extra"
    BY DEF CaptureInv, CaptureTypes, PollsInv, PollExtra
<1>2. /\ TakenFrom(p, "extra") \in SUBSET (Buckets \X Nat) /\ "extra" \in Buckets
      /\ poll[p].id \in IDs
    <2>1. poll[p].id \in IDs /\ "extra" \in Buckets
        BY <1>1, DomainFacts DEF PollInv
    <2>2. offset["extra"][poll[p].id] \in Nat /\ Len(log["extra"]) \in Nat
        BY <1>1, <2>1 DEF CaptureTypes
    <2> QED BY <2>1, <2>2 DEF TakenFrom
<1>3. PICK q : q = [poll[p] EXCEPT !.pc = "tld", !.taken = @ \union TakenFrom(p, "extra")]
    OBVIOUS
<1>4. /\ q \in Polling /\ q.pc = "tld" /\ q.id = poll[p].id /\ q.session = poll[p].session
      /\ q.taken = poll[p].taken \union TakenFrom(p, "extra")
      /\ q.data = poll[p].data /\ q.at = 1
    BY <1>1, <1>2, <1>3 DEF Polling, PollInv
<1>5. poll' = [poll EXCEPT ![p] = q]
    <2>1. After(poll[p].pc) = "tld"
        BY <1>1, AfterFacts
    <2> QED BY <1>1, <1>3, <2>1 DEF PollExtra, Go, CaptureTypes, Polling
<1>6. ReadBuckets(p)' \subseteq ReadBuckets(p) \union {"extra"}
    <2>1. poll'[p] = q
        BY <1>1, <1>5 DEF CaptureTypes
    <2>2. \A k \in DOMAIN Domains : ~(k < 1)
        BY DomainFacts
    <2> QED BY <1>4, <2>1, <2>2 DEF ReadBuckets
<1>7. q.at \in DOMAIN Domains
    BY <1>4, DomainFacts
<1> QED BY <1>1, <1>2, <1>4, <1>5, <1>6, <1>7, ReadStep DEF PollExtra

LEMMA PollTLDStep ==
    ASSUME CaptureInv, NEW p \in Pollers, PollTLD(p)
    PROVE  CaptureInv'
<1>1. CaptureTypes /\ PollInv(p) /\ poll[p] \in Polling /\ poll[p].pc = "tld"
    BY DEF CaptureInv, CaptureTypes, PollsInv, PollTLD
<1>2. PICK k \in DOMAIN Domains : k = poll[p].at
    BY <1>1 DEF PollInv
<1>3. PICK b \in Buckets : b = Domains[k]
    BY DomainFacts
<1>4. k \in Nat /\ k >= 1 /\ k <= Len(Domains) /\ DOMAIN Domains = 1 .. Len(Domains) /\ Len(Domains) \in Nat
    BY DomainFacts
<1>5. TakenFrom(p, b) \in SUBSET (Buckets \X Nat)
    <2>1. poll[p].id \in IDs
        BY <1>1 DEF PollInv
    <2>2. offset[b][poll[p].id] \in Nat /\ Len(log[b]) \in Nat
        BY <1>1, <2>1 DEF CaptureTypes
    <2> QED BY <2>1, <2>2 DEF TakenFrom
<1>6. PICK pc \in {"tld", "answer"} : pc = IF k = Len(Domains) THEN "answer" ELSE "tld"
    OBVIOUS
<1>7. PICK at \in DOMAIN Domains : at = IF k = Len(Domains) THEN 1 ELSE k + 1
    BY <1>4
<1>8. PICK q : q = [poll[p] EXCEPT !.taken = @ \union TakenFrom(p, b), !.pc = pc, !.at = at]
    OBVIOUS
<1>9. /\ q \in Polling /\ q.pc = pc /\ q.id = poll[p].id /\ q.session = poll[p].session
      /\ q.taken = poll[p].taken \union TakenFrom(p, b)
      /\ q.data = poll[p].data /\ q.at = at
    <2>1. at \in Nat \ {0}
        BY <1>4, <1>7
    <2> QED BY <1>1, <1>5, <1>8, <2>1 DEF Polling
<1>10. ReadFrom(p, b)
    BY <1>2, <1>3 DEF PollTLD
<1>11. poll' = [poll EXCEPT ![p] = q]
    <2>1. poll' = [poll EXCEPT ![p].taken = @ \union TakenFrom(p, b), ![p].pc = pc, ![p].at = at]
        BY <1>2, <1>3, <1>6, <1>7, AfterFacts DEF PollTLD
    <2> QED BY <1>1, <1>8, <2>1 DEF CaptureTypes, Polling
<1>12. ReadBuckets(p)' \subseteq ReadBuckets(p) \union {b}
    <2>1. poll'[p] = q
        BY <1>1, <1>11 DEF CaptureTypes
    <2>2. ASSUME NEW c \in ReadBuckets(p)', c # "extra"
          PROVE  c \in ReadBuckets(p) \union {b}
        <3>1. PICK i \in DOMAIN Domains : c = Domains[i] /\ (pc = "answer" \/ (pc = "tld" /\ i < at))
            BY <1>9, <2>1, <2>2 DEF ReadBuckets
        <3>2. i < k \/ i = k
            BY <1>4, <1>6, <1>7, <3>1
        <3> QED BY <1>1, <1>2, <1>3, <3>1, <3>2 DEF ReadBuckets
    <2>3. "extra" \in ReadBuckets(p)
        BY <1>1 DEF ReadBuckets
    <2> QED BY <2>2, <2>3
<1>13. q.pc \in {"tld", "answer"} /\ q.at \in DOMAIN Domains /\ (q.pc # "tld" => q.at = 1)
    BY <1>6, <1>7, <1>9
<1> QED BY <1>1, <1>9, <1>10, <1>11, <1>12, <1>13, ReadStep

LEMMA CaptureUnchanged ==
    ASSUME CaptureInv, UNCHANGED vars
    PROVE  CaptureInv'
<1>1. UNCHANGED <<owner, opened, mailbox, log, work, offset, poll, answered>>
    BY DEF vars, storeVars, captureVars, pollVars
<1>2. CaptureTypes' /\ Grows
    BY <1>1 DEF CaptureInv, CaptureTypes, Grows
<1>3. HandlersInv'
    BY <1>1, <1>2, HandlerStays DEF CaptureInv, HandlersInv
<1> QED BY <1>1, <1>2, <1>3, PollsAlone DEF CaptureInv

LEMMA CaptureStep == CaptureInv /\ [Next]_vars => CaptureInv'
<1> SUFFICES ASSUME CaptureInv, [Next]_vars PROVE CaptureInv'
    OBVIOUS
<1>1. ASSUME NEW a \in Arrivals, Receive(a) PROVE CaptureInv'
    BY <1>1, ReceiveStep
<1>2. ASSUME NEW n \in DOMAIN work, Handle(n) PROVE CaptureInv'
    BY <1>2, NextRecipientStep, NoMoreRecipientsStep, CaptureWildcardStep, CaptureExtraStep,
       LookUpStep, StoreMatchedStep, StoreGoneStep, StoreFailsStep, CapturedStep DEF Handle
<1>3. ASSUME NEW id \in IDs, Register(id) \/ Leave(id) PROVE CaptureInv'
    BY <1>3, RegisterStep, LeaveStep
<1>4. ASSUME NEW p \in Pollers, HandlePoll(p) PROVE CaptureInv'
    BY <1>4, PollStartStep, PollDrainStep, PollKeyStep, PollKeyFailsStep, PollExtraStep,
       PollTLDStep, PollAnswerStep DEF HandlePoll
<1>5. ASSUME Quiet \/ UNCHANGED vars PROVE CaptureInv'
    BY <1>5, CaptureUnchanged DEF Quiet
<1> QED BY <1>1, <1>2, <1>3, <1>4, <1>5 DEF Next

-------------------------------------------------------------------------------
(* CaptureInv holds in every state: a stored copy's message is in the bucket *)
(* of its part (server.go:337-348, ldap.go:122-126, smtp.go:320-345), and    *)
(* what a poll has drained is in front of the offsets it leaves behind.      *)
THEOREM CaptureInvariant == Spec => []CaptureInv
<1>1. Init => CaptureInv
    BY CaptureInitially
<1>2. CaptureInv /\ [Next]_vars => CaptureInv'
    BY CaptureStep
<1> QED BY <1>1, <1>2, PTL DEF Spec

(* What a client's offsets say it has read is in an answer to it or in one   *)
(* being made, whatever fails (handlePoll, endpoints.go:142-187).            *)
THEOREM OffsetsAlwaysAnswered == Spec => []OffsetsAnswered
<1>1. CaptureInv => OffsetsAnswered
    BY DEF CaptureInv
<1> QED BY <1>1, CaptureInvariant, PTL

LEMMA ReadAllInFront == CaptureInv => WildcardNotBehind
<1> SUFFICES ASSUME CaptureInv, NEW p \in Pollers, poll[p].pc = "answer",
                    NEW e \in ToSet(poll[p].data), BucketOf(e.msg, e.part) # None
             PROVE  \E i \in 1 .. offset[BucketOf(e.msg, e.part)][poll[p].id] :
                        log[BucketOf(e.msg, e.part)][i] = e.msg
    BY DEF WildcardNotBehind
<1>1. CaptureTypes /\ PollInv(p)
    BY DEF CaptureInv, PollsInv
<1>2. CopyInv(e)
    BY <1>1 DEF PollInv
<1>3. BucketOf(e.msg, e.part) \in Buckets
    BY <1>1, <1>2, HandlerFacts DEF CopyInv
<1>4. Buckets \subseteq ReadBuckets(p)
    BY DEF ReadBuckets, Buckets, DomainSet
<1> QED BY <1>1, <1>3, <1>4 DEF PollInv, WasRead

(* What a poll answers from its session, the client has from the buckets,    *)
(* too (endpoints.go:142-187 against server.go:337-348).                     *)
THEOREM WildcardNeverBehind == Spec => []WildcardNotBehind
BY CaptureInvariant, ReadAllInFront, PTL

-------------------------------------------------------------------------------
(* The inductive invariant of AnsweredIsCaptured and RawTextOnce: what a     *)
(* session holds of a message, against how far its handler is.               *)

\* The parts whose bucket the handler is done with.
Behind(w) == {j \in 1 .. w.part : w.pc \in {"wildcard", "extra"} => j < w.part}

Pending(w) == ToSet(w.todo) \union ToSet(w.matches)

\* What the handler remembers.
ScanInv(w) ==
    /\ IsInjective(w.matches)
    /\ w.pc # "capture" => w.todo = <<>> /\ w.matches = <<>>
    /\ \A id \in Pending(w) : id \in ToSet(w.parts[w.part].mentions)
    /\ IF w.service = "smtp"
       THEN /\ w.pc \in {"wildcard", "capture"} =>
                  /\ w.parts[w.part].domain # None
                  /\ \A j \in 1 .. w.part - 1 : w.parts[j].rcpt # w.parts[w.part].rcpt
            /\ w.pc = "answer" => w.part = Len(w.parts)
       ELSE /\ Len(w.parts) = 1 /\ w.part = 1
            /\ w.service \in {"ldap", "ftp"} /\ w.op # "search" => w.parts[1].mentions = <<>>
            /\ w.pc \in {"wildcard", "extra"} \/ w.todo # <<>> => w.cids = {}
            /\ w.cids \intersect ToSet(w.matches) = {}

\* The copies of message n in the mailbox of id's session.
CopiesInv(w, n, held, id) ==
    \A i \in Copies(held, n) :
        /\ held[i].part \in Behind(w) \intersect Due(w, id)
        /\ id \in w.cids
        /\ held[i].part = w.part => w.todo = <<>> /\ id \notin ToSet(w.matches)
        /\ \A k \in Copies(held, n) :
              w.parts[held[i].part].rcpt = w.parts[held[k].part].rcpt => i = k

\* A part is with a session that was there all the time, or is about to be.
Delivered(w, n, held, id, j) ==
    \/ \E i \in Copies(held, n) : w.parts[held[i].part].rcpt = w.parts[j].rcpt
    \/ j = w.part /\ id \in Pending(w)

PresentInv(w, n, held, id) ==
    /\ id \in w.cids => Bodies(held, n) # {}
    /\ ~Ignored(w) => \A j \in Behind(w) \intersect Due(w, id) : Delivered(w, n, held, id, j)

\* What is about one session, id's.
SessionInv(w, n, held, id, s) ==
    CopiesInv(w, n, held, id) /\ (s \in w.present => PresentInv(w, n, held, id))

OneBody(held, n) == \A i, k \in Bodies(held, n) : i = k

OneEntry(n, b) == \A i, k \in DOMAIN log[b] : log[b][i] = n /\ log[b][k] = n => i = k

\* Whether message n may be in bucket b yet.
Reached(w, b) ==
    IF w.service = "smtp" THEN \E j \in Behind(w) : w.parts[j].domain = b
    ELSE w.pc \notin {"wildcard", "extra"}

MessageInv(n) ==
    /\ ScanInv(work[n])
    /\ \A b \in Buckets : OneEntry(n, b) /\ (Logged(n, b) => Reached(work[n], b))
    /\ \A s \in work[n].present : \E id \in IDs : owner[id] = s /\ s # None
    /\ \A s \in Sessions : OneBody(Held(s), n)
    /\ \A id \in IDs : owner[id] # None =>
          SessionInv(work[n], n, Held(owner[id]), id, owner[id])

SessionsInv ==
    /\ delivered \in [Sessions -> Seq(Items)]
    /\ \A id \in IDs : owner[id] # None => owner[id] \in opened
    /\ \A id, other \in IDs : owner[id] = owner[other] /\ owner[id] # None => id = other
    /\ \A s \in Sessions \ opened : Held(s) = <<>>

\* Nothing is of a message that has not arrived.
ArrivedInv ==
    /\ \A s \in Sessions : \A i \in DOMAIN Held(s) : Held(s)[i].msg \in DOMAIN work
    /\ \A b \in Buckets : \A i \in DOMAIN log[b] : log[b][i] \in DOMAIN work

DeliveryInv == SessionsInv /\ ArrivedInv /\ \A n \in DOMAIN work : MessageInv(n)

-------------------------------------------------------------------------------
(* Lists and copies. *)

LEMMA TailFacts ==
    ASSUME NEW S, NEW list \in Seq(S), list # <<>>
    PROVE  /\ Tail(list) \in Seq(S) /\ Head(list) \in ToSet(list)
           /\ ToSet(list) = ToSet(Tail(list)) \union {Head(list)}
           /\ IsInjective(list) => IsInjective(Tail(list)) /\ Head(list) \notin ToSet(Tail(list))
<1>1. /\ Len(list) \in Nat /\ Len(list) >= 1 /\ DOMAIN list = 1 .. Len(list)
      /\ Tail(list) \in Seq(S) /\ Len(Tail(list)) = Len(list) - 1
      /\ DOMAIN Tail(list) = 1 .. Len(list) - 1
      /\ \A i \in 1 .. Len(list) - 1 : Tail(list)[i] = list[i + 1]
      /\ Head(list) = list[1]
    OBVIOUS
<1>2. ASSUME NEW i \in DOMAIN list, i # 1
      PROVE  i - 1 \in DOMAIN Tail(list) /\ Tail(list)[i - 1] = list[i]
    BY <1>1, <1>2
<1>3. \A i \in DOMAIN Tail(list) : i + 1 \in DOMAIN list /\ i + 1 # 1 /\ Tail(list)[i] = list[i + 1]
    BY <1>1
<1>4. 1 \in DOMAIN list
    BY <1>1
<1>5. ToSet(list) = ToSet(Tail(list)) \union {Head(list)}
    <2>1. ASSUME NEW x \in ToSet(list) PROVE x \in ToSet(Tail(list)) \union {Head(list)}
        <3>1. PICK i \in DOMAIN list : x = list[i]
            BY <2>1 DEF ToSet
        <3> QED BY <1>1, <1>2, <3>1 DEF ToSet
    <2>2. ASSUME NEW x \in ToSet(Tail(list)) PROVE x \in ToSet(list)
        BY <1>3, <2>2 DEF ToSet
    <2> QED BY <1>1, <1>4, <2>1, <2>2 DEF ToSet
<1>6. ASSUME IsInjective(list)
      PROVE  IsInjective(Tail(list)) /\ Head(list) \notin ToSet(Tail(list))
    <2>1. \A i, k \in DOMAIN list : list[i] = list[k] => i = k
        BY <1>6 DEF IsInjective
    <2>2. ASSUME NEW i \in DOMAIN Tail(list), NEW k \in DOMAIN Tail(list), Tail(list)[i] = Tail(list)[k]
          PROVE  i = k
        <3>1. i + 1 = k + 1
            BY <1>3, <2>1, <2>2
        <3> QED BY <1>1, <3>1
    <2>3. ASSUME NEW i \in DOMAIN Tail(list), Tail(list)[i] = list[1]
          PROVE  FALSE
        BY <1>3, <1>4, <2>1, <2>3
    <2> QED BY <1>1, <2>2, <2>3 DEF IsInjective, ToSet
<1> QED BY <1>1, <1>4, <1>5, <1>6 DEF ToSet

LEMMA AppendFacts ==
    ASSUME NEW S, NEW list \in Seq(S), NEW x \in S
    PROVE  /\ Append(list, x) \in Seq(S) /\ ToSet(Append(list, x)) = ToSet(list) \union {x}
           /\ IsInjective(list) /\ x \notin ToSet(list) => IsInjective(Append(list, x))
<1>1. /\ Append(list, x) \in Seq(S) /\ Len(list) \in Nat /\ DOMAIN list = 1 .. Len(list)
      /\ DOMAIN Append(list, x) = 1 .. Len(list) + 1
      /\ \A i \in 1 .. Len(list) : Append(list, x)[i] = list[i]
      /\ Append(list, x)[Len(list) + 1] = x
    OBVIOUS
<1>2. 1 .. Len(list) + 1 = (1 .. Len(list)) \union {Len(list) + 1} /\ Len(list) + 1 \notin 1 .. Len(list)
    BY <1>1
<1>3. ToSet(Append(list, x)) = ToSet(list) \union {x}
    BY <1>1, <1>2 DEF ToSet
<1>4. ASSUME IsInjective(list), x \notin ToSet(list)
      PROVE  IsInjective(Append(list, x))
    BY <1>1, <1>2, <1>4 DEF IsInjective, ToSet
<1> QED BY <1>1, <1>3, <1>4

LEMMA NoneListed == ToSet(<<>>) = {} /\ IsInjective(<<>>)
BY DEF ToSet, IsInjective

LEMMA CopyAppended ==
    ASSUME NEW held \in Seq(Items), NEW item \in Items
    PROVE  /\ Append(held, item) \in Seq(Items) /\ Append(held, item)[Len(held) + 1] = item
           /\ DOMAIN Append(held, item) = DOMAIN held \union {Len(held) + 1}
           /\ Len(held) + 1 \notin DOMAIN held
           /\ \A i \in DOMAIN held : Append(held, item)[i] = held[i]
<1>1. /\ Append(held, item) \in Seq(Items) /\ Len(held) \in Nat /\ DOMAIN held = 1 .. Len(held)
      /\ DOMAIN Append(held, item) = 1 .. Len(held) + 1
      /\ \A i \in 1 .. Len(held) : Append(held, item)[i] = held[i]
      /\ Append(held, item)[Len(held) + 1] = item
    OBVIOUS
<1>2. 1 .. Len(held) + 1 = (1 .. Len(held)) \union {Len(held) + 1} /\ Len(held) + 1 \notin 1 .. Len(held)
    BY <1>1
<1> QED BY <1>1, <1>2

\* A copy of one message is none of another's.
LEMMA OthersCopies ==
    ASSUME NEW held \in Seq(Items), NEW item \in Items, NEW m, item.msg # m, NEW w, NEW id, NEW s
    PROVE  /\ SessionInv(w, m, held, id, s) => SessionInv(w, m, Append(held, item), id, s)
           /\ OneBody(held, m) => OneBody(Append(held, item), m)
<1> DEFINE more == Append(held, item)
<1>1. /\ DOMAIN more = DOMAIN held \union {Len(held) + 1} /\ more[Len(held) + 1] = item
      /\ Len(held) + 1 \notin DOMAIN held
      /\ \A i \in DOMAIN held : more[i] = held[i]
    BY CopyAppended
<1> HIDE DEF more
<1>2. Copies(more, m) = Copies(held, m) /\ \A i \in Copies(held, m) : more[i] = held[i]
    BY <1>1 DEF Copies
<1>3. Bodies(more, m) = Bodies(held, m)
    BY <1>2 DEF Bodies
<1>4. CopiesInv(w, m, held, id) => CopiesInv(w, m, more, id)
    BY <1>2 DEF CopiesInv
<1>5. ASSUME NEW j, Delivered(w, m, held, id, j)
      PROVE  Delivered(w, m, more, id, j)
    BY <1>2, <1>5 DEF Delivered
<1>6. PresentInv(w, m, held, id) => PresentInv(w, m, more, id)
    BY <1>3, <1>5 DEF PresentInv
<1> QED BY <1>3, <1>4, <1>6 DEF SessionInv, OneBody, more

\* A handler that goes from v to w, and stores nothing for id meanwhile.
Moves(v, w) ==
    /\ w.service = v.service /\ w.op = v.op /\ w.parts = v.parts
    /\ w.present \subseteq v.present /\ v.cids \subseteq w.cids

LEMMA SameCopies ==
    ASSUME NEW v, NEW w, Moves(v, w), Behind(v) \subseteq Behind(w),
           NEW n, NEW held, NEW id, NEW s, SessionInv(v, n, held, id, s),
           \A i \in Copies(held, n) : held[i].part = w.part => w.todo = <<>> /\ id \notin ToSet(w.matches),
           s \in w.present => (id \in w.cids => id \in v.cids),
           s \in w.present /\ ~Ignored(w) =>
              \A j \in Behind(w) \intersect Due(w, id) : Delivered(w, n, held, id, j)
    PROVE  SessionInv(w, n, held, id, s)
<1>1. Due(w, id) = Due(v, id)
    BY DEF Due, Moves
<1>2. CopiesInv(w, n, held, id)
    BY <1>1 DEF SessionInv, CopiesInv, Moves
<1>3. ASSUME s \in w.present PROVE PresentInv(w, n, held, id)
    BY <1>3 DEF SessionInv, PresentInv, Moves
<1> QED BY <1>2, <1>3 DEF SessionInv

-------------------------------------------------------------------------------
(* A handler that stores nothing. *)

\* The buckets have at most an entry of message n more, and that where it belongs.
EntriesStep(n, w) ==
    /\ \A m \in DOMAIN work, b \in Buckets :
          /\ OneEntry(m, b)'
          /\ Logged(m, b)' => IF m = n THEN Reached(w, b) ELSE Logged(m, b)
    /\ \A b \in Buckets : \A i \in DOMAIN log'[b] : log'[b][i] \in DOMAIN work

\* Only handler n moves, to w.
Moved(n, w) ==
    /\ DOMAIN work' = DOMAIN work /\ work'[n] = w
    /\ \A m \in DOMAIN work \ {n} : work'[m] = work[m]

LEMMA HandlerBase ==
    ASSUME CaptureInv, DeliveryInv, NEW n \in DOMAIN work
    PROVE  /\ work \in Seq(Handlers) /\ work[n] \in Handlers /\ n \in Numbers
           /\ work[n].part \in 0 .. Len(work[n].parts) /\ work[n].parts \in Seq(Parts)
           /\ DOMAIN work[n].parts = 1 .. Len(work[n].parts) /\ Len(work[n].parts) \in Nat
           /\ HandlerInv(n) /\ ScanInv(work[n]) /\ MessageInv(n)
<1>1. work \in Seq(Handlers) /\ work[n] \in Handlers /\ n \in Numbers /\ work[n].parts \in Seq(Parts)
    BY HandlerFacts DEF CaptureInv, CaptureTypes
<1>2. HandlerInv(n) /\ ScanInv(work[n]) /\ MessageInv(n)
    BY DEF CaptureInv, HandlersInv, DeliveryInv, MessageInv
<1>3. work[n].part \in Nat /\ work[n].part <= Len(work[n].parts) /\ Len(work[n].parts) \in Nat
    BY <1>1, <1>2 DEF Handlers, HandlerInv
<1> QED BY <1>1, <1>2, <1>3

LEMMA HandlerMoves ==
    ASSUME CaptureInv, DeliveryInv, NEW n \in DOMAIN work, NEW w, Moved(n, w),
           UNCHANGED <<owner, opened, mailbox, delivered>>,
           w.present \subseteq work[n].present, ScanInv(w), EntriesStep(n, w),
           \A id \in IDs, s \in Sessions : \A held :
              owner[id] = s /\ SessionInv(work[n], n, held, id, s) => SessionInv(w, n, held, id, s)
    PROVE  DeliveryInv'
<1>1. \A s : Held(s)' = Held(s)
    BY DEF Held
<1>2. owner' = owner /\ opened' = opened /\ delivered' = delivered
    OBVIOUS
<1>3. SessionsInv'
    BY <1>1, <1>2 DEF DeliveryInv, SessionsInv
<1>4. ArrivedInv'
    BY <1>1 DEF DeliveryInv, ArrivedInv, Moved, EntriesStep
<1>5. owner \in [IDs -> Sessions \union {None}]
    BY DEF CaptureInv, CaptureTypes
<1>6. ASSUME NEW m \in DOMAIN work
      PROVE  MessageInv(m)'
    <2>1. MessageInv(m)
        BY <1>6 DEF DeliveryInv
    <2>2. PICK v : v = work'[m]
        OBVIOUS
    <2>3. (m = n => v = w) /\ (m # n => v = work[m]) /\ v.present \subseteq work[m].present
        BY <1>6, <2>2 DEF Moved
    <2>4. ScanInv(v)
        BY <2>1, <2>3 DEF MessageInv
    <2>5. ASSUME NEW b \in Buckets
          PROVE  OneEntry(m, b)' /\ (Logged(m, b)' => Reached(v, b))
        BY <1>6, <2>1, <2>3, <2>5 DEF MessageInv, EntriesStep
    <2>6. \A s \in v.present : \E id \in IDs : owner'[id] = s /\ s # None
        BY <1>2, <2>1, <2>3 DEF MessageInv
    <2>7. \A s \in Sessions : OneBody(Held(s)', m)
        BY <1>1, <2>1 DEF MessageInv
    <2>8. ASSUME NEW id \in IDs, owner'[id] # None
          PROVE  SessionInv(v, m, Held(owner[id])', id, owner'[id])
        <3>1. PICK s \in Sessions : s = owner[id]
            BY <1>2, <1>5, <2>8
        <3>2. PICK held : held = Held(s)
            OBVIOUS
        <3>3. Held(owner[id])' = held
            BY <1>1, <1>2, <3>1, <3>2 DEF Held
        <3>4. SessionInv(work[m], m, held, id, s)
            BY <1>2, <2>1, <2>8, <3>1, <3>2 DEF MessageInv
        <3>5. SessionInv(v, m, held, id, s)
            BY <2>3, <3>1, <3>4
        <3> QED BY <1>2, <3>1, <3>3, <3>5
    <2> QED BY <2>2, <2>4, <2>5, <2>6, <2>7, <2>8 DEF MessageInv
<1> QED BY <1>3, <1>4, <1>6 DEF DeliveryInv, Moved

LEMMA SameEntries ==
    ASSUME DeliveryInv, NEW n \in DOMAIN work, NEW w, log' = log,
           \A b \in Buckets : Reached(work[n], b) => Reached(w, b)
    PROVE  EntriesStep(n, w)
<1>1. ASSUME NEW m \in DOMAIN work, NEW b \in Buckets
      PROVE  OneEntry(m, b)' /\ (Logged(m, b)' => IF m = n THEN Reached(w, b) ELSE Logged(m, b))
    <2>1. OneEntry(m, b) /\ (Logged(m, b) => Reached(work[m], b))
        BY <1>1 DEF DeliveryInv, MessageInv
    <2>2. OneEntry(m, b)' /\ (Logged(m, b)' => Logged(m, b))
        BY <2>1 DEF OneEntry, Logged
    <2> QED BY <1>1, <2>1, <2>2
<1> QED BY <1>1 DEF EntriesStep, DeliveryInv, ArrivedInv

LEMMA NewEntry ==
    ASSUME CaptureInv, DeliveryInv, NEW n \in DOMAIN work, NEW w, NEW c \in Buckets, ~Logged(n, c),
           log' = [log EXCEPT ![c] = Append(@, n)], Reached(w, c),
           \A b \in Buckets : Reached(work[n], b) => Reached(w, b)
    PROVE  EntriesStep(n, w)
<1>1. log \in [Buckets -> Seq(Nat)] /\ n \in Nat
    BY HandlerFacts DEF CaptureInv, CaptureTypes, Numbers
<1>2. PICK s \in Seq(Nat) : s = log[c]
    BY <1>1
<1>3. log'[c] = Append(s, n) /\ \A b \in Buckets \ {c} : log'[b] = log[b]
    BY <1>1, <1>2
<1>4. /\ DOMAIN Append(s, n) = DOMAIN s \union {Len(s) + 1} /\ Append(s, n)[Len(s) + 1] = n
      /\ \A i \in DOMAIN s : Append(s, n)[i] = s[i]
    <2>1. /\ Len(s) \in Nat /\ DOMAIN s = 1 .. Len(s) /\ DOMAIN Append(s, n) = 1 .. Len(s) + 1
          /\ Append(s, n)[Len(s) + 1] = n /\ \A i \in 1 .. Len(s) : Append(s, n)[i] = s[i]
        BY <1>1
    <2>2. 1 .. Len(s) + 1 = (1 .. Len(s)) \union {Len(s) + 1}
        BY <2>1
    <2> QED BY <2>1, <2>2
<1>5. \A i \in DOMAIN s : s[i] # n
    BY <1>2 DEF Logged
<1>6. ASSUME NEW m \in DOMAIN work, NEW b \in Buckets
      PROVE  OneEntry(m, b)' /\ (Logged(m, b)' => IF m = n THEN Reached(w, b) ELSE Logged(m, b))
    <2>1. OneEntry(m, b) /\ (Logged(m, b) => Reached(work[m], b))
        BY <1>6 DEF DeliveryInv, MessageInv
    <2>2. CASE b # c
        <3>1. OneEntry(m, b)' /\ (Logged(m, b)' => Logged(m, b))
            BY <1>3, <1>6, <2>1, <2>2 DEF OneEntry, Logged
        <3> QED BY <1>6, <2>1, <3>1
    <2>3. CASE b = c
        <3>1. \A i, k \in DOMAIN s : s[i] = m /\ s[k] = m => i = k
            BY <1>2, <2>1, <2>3 DEF OneEntry
        <3>2. \A i, k \in DOMAIN Append(s, n) : Append(s, n)[i] = m /\ Append(s, n)[k] = m => i = k
            BY <1>4, <1>5, <3>1
        <3>3. OneEntry(m, b)'
            BY <1>3, <2>3, <3>2 DEF OneEntry
        <3>4. m # n /\ Logged(m, b)' => Logged(m, b)
            BY <1>2, <1>3, <1>4, <2>3 DEF Logged
        <3> QED BY <2>3, <3>3, <3>4
    <2> QED BY <2>2, <2>3
<1>7. ASSUME NEW b \in Buckets, NEW i \in DOMAIN log'[b]
      PROVE  log'[b][i] \in DOMAIN work
    <2>1. CASE b # c
        BY <1>3, <1>7, <2>1 DEF DeliveryInv, ArrivedInv
    <2>2. CASE b = c
        <3>1. \A k \in DOMAIN s : s[k] \in DOMAIN work
            BY <1>2 DEF DeliveryInv, ArrivedInv
        <3> QED BY <1>3, <1>4, <1>7, <2>2, <3>1
    <2> QED BY <2>1, <2>2
<1> QED BY <1>6, <1>7 DEF EntriesStep

\* A handler that is no less far than it was.
LEMMA ReachedStays ==
    ASSUME NEW v, NEW w, Moves(v, w), Behind(v) \subseteq Behind(w),
           v.pc \notin {"wildcard", "extra"} => w.pc \notin {"wildcard", "extra"} \/ w.service = "smtp",
           NEW b, Reached(v, b)
    PROVE  Reached(w, b)
<1>1. CASE v.service = "smtp"
    BY <1>1 DEF Moves, Reached
<1>2. CASE v.service # "smtp"
    BY <1>2 DEF Moves, Reached
<1> QED BY <1>1, <1>2

LEMMA NextRecipientDelivers ==
    ASSUME CaptureInv, DeliveryInv, NEW n \in DOMAIN work, NextRecipient(n)
    PROVE  DeliveryInv'
<1>1. PICK v : v = work[n]
    OBVIOUS
<1>2. /\ work \in Seq(Handlers) /\ v \in Handlers /\ v.part \in 0 .. Len(v.parts)
      /\ v.parts \in Seq(Parts) /\ DOMAIN v.parts = 1 .. Len(v.parts) /\ Len(v.parts) \in Nat
      /\ ScanInv(v) /\ HandlerInv(n) /\ v.pc = "recipient" /\ v.part < Len(v.parts)
    BY <1>1, HandlerBase DEF NextRecipient
<1>. PICK next : next = v.parts[v.part + 1]
    OBVIOUS
<1>. PICK skip \in BOOLEAN : skip = (Repeated(n, next) \/ next.domain = None)
    OBVIOUS
<1>3. PICK w : w = [v EXCEPT !.part = @ + 1, !.pc = IF skip THEN "recipient" ELSE "wildcard"]
    OBVIOUS
<1>4. /\ Moves(v, w) /\ w.part = v.part + 1 /\ w.pc = (IF skip THEN "recipient" ELSE "wildcard")
      /\ w.todo = v.todo /\ w.matches = v.matches /\ w.cids = v.cids /\ w.present = v.present
    BY <1>2, <1>3 DEF Handlers, Moves
<1>5. Moved(n, w)
    <2>1. work' = [work EXCEPT ![n] = w]
        BY <1>1, <1>2, <1>3 DEF NextRecipient, Handlers
    <2> QED BY <1>2, <2>1 DEF Moved
<1>6. /\ v.service = "smtp" /\ v.todo = <<>> /\ v.matches = <<>> /\ Pending(v) = {} /\ Pending(w) = {}
      /\ \A part, other \in ToSet(v.parts) : part.rcpt = other.rcpt => part = other
    BY <1>1, <1>2, <1>4, NoneListed DEF HandlerInv, Service, ScanInv, Pending
<1>7. /\ Behind(v) = 1 .. v.part /\ Behind(v) \subseteq Behind(w)
      /\ \A j \in Behind(w) : j \in Behind(v) \/ (j = v.part + 1 /\ skip)
    BY <1>2, <1>4 DEF Behind
<1>8. ScanInv(w)
    <2>1. ASSUME ~skip, NEW j \in 1 .. w.part - 1
          PROVE  next.domain # None /\ v.parts[j].rcpt # next.rcpt
        <3>1. j \in 1 .. v.part
            BY <1>2, <1>4, <2>1
        <3> QED BY <1>1, <2>1, <3>1 DEF Repeated, Recipients
    <2>2. w.pc = "wildcard" => next.domain # None
        BY <1>4
    <2> QED BY <1>4, <1>6, <2>1, <2>2, NoneListed DEF ScanInv, Moves
<1>9. ASSUME NEW held, NEW id \in IDs, NEW s, SessionInv(v, n, held, id, s)
      PROVE  SessionInv(w, n, held, id, s)
    <2>1. ASSUME NEW i \in Copies(held, n) PROVE held[i].part # w.part
        BY <1>2, <1>4, <1>7, <1>9, <2>1 DEF SessionInv, CopiesInv
    <2>2. ASSUME s \in w.present, ~Ignored(w), NEW j \in Behind(w) \intersect Due(w, id)
          PROVE  Delivered(w, n, held, id, j)
        <3>1. \A k \in Behind(v) \intersect Due(v, id) : Delivered(v, n, held, id, k)
            BY <1>4, <1>9, <2>2 DEF SessionInv, PresentInv, Ignored, Moves
        <3>2. j \in Due(v, id)
            BY <1>4, <2>2 DEF Due, Moves
        <3>3. CASE j \in Behind(v)
            BY <1>4, <1>6, <3>1, <3>2, <3>3 DEF Delivered, Moves
        <3>4. CASE j = v.part + 1 /\ skip
            <4>1. next.domain # None /\ v.parts[j] = next
                BY <1>6, <3>2, <3>4 DEF Due
            <4>2. PICK k \in 1 .. v.part : v.parts[k].rcpt = next.rcpt
                BY <1>1, <3>4, <4>1 DEF Repeated, Recipients
            <4>3. k \in DOMAIN v.parts /\ j \in DOMAIN v.parts
                BY <1>2, <3>4
            <4>4. v.parts[k] = v.parts[j]
                BY <1>6, <4>1, <4>2, <4>3 DEF ToSet
            <4>5. k \in Due(v, id)
                BY <3>2, <4>3, <4>4 DEF Due
            <4> QED BY <1>4, <1>6, <1>7, <3>1, <4>4, <4>5 DEF Delivered, Moves
        <3> QED BY <1>7, <2>2, <3>3, <3>4
    <2> QED BY <1>4, <1>7, <1>9, <2>1, <2>2, SameCopies
<1>10. log' = log /\ UNCHANGED <<owner, opened, mailbox, delivered>>
    BY DEF NextRecipient, storeVars
<1>11. \A b \in Buckets : Reached(v, b) => Reached(w, b)
    BY <1>4, <1>6, <1>7, ReachedStays DEF Moves
<1> QED BY <1>1, <1>4, <1>5, <1>8, <1>9, <1>10, <1>11, SameEntries, HandlerMoves

\* A handler with no mention left that goes on.
LEMMA GoesOnDelivers ==
    ASSUME CaptureInv, DeliveryInv, NEW n \in DOMAIN work, NEW v, v = work[n], NEW w, Moved(n, w),
           w.service = v.service, w.op = v.op, w.parts = v.parts, w.present = v.present,
           w.cids = v.cids, w.part = v.part, w.todo = v.todo, w.matches = v.matches,
           v.todo = <<>>, v.matches = <<>>, v.pc \in {"recipient", "capture"},
           w.pc \in {"recipient", "answer"},
           v.service = "smtp" /\ w.pc = "answer" => v.part = Len(v.parts),
           UNCHANGED <<owner, opened, mailbox, delivered, log>>
    PROVE  DeliveryInv'
<1>1. ScanInv(v) /\ Moves(v, w)
    BY HandlerBase DEF Moves
<1>2. Behind(w) = Behind(v) /\ Pending(v) = {} /\ Pending(w) = {}
    BY NoneListed DEF Behind, Pending
<1>3. ScanInv(w)
    BY <1>1, <1>2, NoneListed DEF ScanInv
<1>4. ASSUME NEW held, NEW id \in IDs, NEW s, SessionInv(v, n, held, id, s)
      PROVE  SessionInv(w, n, held, id, s)
    <2>1. ASSUME s \in w.present, ~Ignored(w), NEW j \in Behind(w) \intersect Due(w, id)
          PROVE  Delivered(w, n, held, id, j)
        <3>1. j \in Behind(v) \intersect Due(v, id) /\ ~Ignored(v)
            BY <1>2, <2>1 DEF Due, Ignored
        <3>2. Delivered(v, n, held, id, j)
            BY <1>4, <2>1, <3>1 DEF SessionInv, PresentInv
        <3> QED BY <1>2, <3>2 DEF Delivered
    <2> QED BY <1>1, <1>2, <1>4, <2>1, NoneListed, SameCopies
<1>5. \A b \in Buckets : Reached(v, b) => Reached(w, b)
    BY <1>1, <1>2, ReachedStays
<1> QED BY <1>1, <1>3, <1>4, <1>5, SameEntries, HandlerMoves

LEMMA NoMoreRecipientsDelivers ==
    ASSUME CaptureInv, DeliveryInv, NEW n \in DOMAIN work, NoMoreRecipients(n)
    PROVE  DeliveryInv'
<1>1. PICK v : v = work[n]
    OBVIOUS
<1>2. PICK w : w = [v EXCEPT !.pc = "answer"]
    OBVIOUS
<1>3. /\ work \in Seq(Handlers) /\ v \in Handlers /\ ScanInv(v)
      /\ v.pc = "recipient" /\ v.part = Len(v.parts)
    BY <1>1, HandlerBase DEF NoMoreRecipients
<1>4. /\ w.service = v.service /\ w.op = v.op /\ w.parts = v.parts /\ w.present = v.present
      /\ w.cids = v.cids /\ w.part = v.part /\ w.todo = v.todo /\ w.matches = v.matches
      /\ w.pc = "answer"
    BY <1>2, <1>3 DEF Handlers
<1>5. Moved(n, w)
    <2>1. work' = [work EXCEPT ![n] = w]
        BY <1>1, <1>2, <1>3 DEF NoMoreRecipients, Handlers
    <2> QED BY <1>3, <2>1 DEF Moved
<1>6. v.todo = <<>> /\ v.matches = <<>>
    BY <1>3 DEF ScanInv
<1>7. UNCHANGED <<owner, opened, mailbox, delivered, log>>
    BY DEF NoMoreRecipients, storeVars
<1> QED BY <1>1, <1>3, <1>4, <1>5, <1>6, <1>7, GoesOnDelivers

LEMMA CapturedDelivers ==
    ASSUME CaptureInv, DeliveryInv, NEW n \in DOMAIN work, Captured(n)
    PROVE  DeliveryInv'
<1>1. PICK v : v = work[n]
    OBVIOUS
<1>2. PICK w : w = [v EXCEPT !.pc = IF v.service = "smtp" THEN "recipient" ELSE "answer"]
    OBVIOUS
<1>3. /\ work \in Seq(Handlers) /\ v \in Handlers
      /\ v.pc = "capture" /\ v.todo = <<>> /\ v.matches = <<>>
    BY <1>1, HandlerBase DEF Captured
<1>4. /\ w.service = v.service /\ w.op = v.op /\ w.parts = v.parts /\ w.present = v.present
      /\ w.cids = v.cids /\ w.part = v.part /\ w.todo = v.todo /\ w.matches = v.matches
      /\ w.pc = IF v.service = "smtp" THEN "recipient" ELSE "answer"
    BY <1>2, <1>3 DEF Handlers
<1>5. Moved(n, w)
    <2>1. work' = [work EXCEPT ![n] = w]
        BY <1>1, <1>2, <1>3 DEF Captured, Handlers, Service
    <2> QED BY <1>3, <2>1 DEF Moved
<1>6. UNCHANGED <<owner, opened, mailbox, delivered, log>>
    BY DEF Captured, storeVars
<1> QED BY <1>1, <1>3, <1>4, <1>5, <1>6, GoesOnDelivers

\* A handler that is done with the bucket of its part.
LEMMA BucketDelivers ==
    ASSUME CaptureInv, DeliveryInv, NEW n \in DOMAIN work, NEW v, v = work[n], NEW w, Moved(n, w),
           w.service = v.service, w.op = v.op, w.parts = v.parts, w.present = v.present,
           w.cids = v.cids, w.part = v.part, w.matches = v.matches,
           v.pc \in {"wildcard", "extra"},
           \/ w.pc = "capture" /\ w.todo = v.parts[v.part].mentions
           \/ /\ w.pc = "answer" /\ w.todo = <<>>
              /\ v.service \in {"ldap", "ftp"} /\ v.op # "search",
           UNCHANGED <<owner, opened, mailbox, delivered>>, EntriesStep(n, w)
    PROVE  DeliveryInv'
<1>1. /\ ScanInv(v) /\ HandlerInv(n) /\ Moves(v, w) /\ v.part \in 1 .. Len(v.parts)
      /\ Len(v.parts) \in Nat /\ v.part \in DOMAIN v.parts
    <2>1. v.part \in 0 .. Len(v.parts) /\ Len(v.parts) \in Nat /\ HandlerInv(n) /\ ScanInv(v)
        BY HandlerBase
    <2>2. v.part # 0
        BY <2>1 DEF HandlerInv
    <2>3. DOMAIN v.parts = 1 .. Len(v.parts)
        BY HandlerBase
    <2> QED BY <2>1, <2>2, <2>3 DEF Moves
<1>2. /\ v.todo = <<>> /\ v.matches = <<>> /\ Pending(v) = {}
      /\ Pending(w) = ToSet(w.todo)
    BY <1>1, NoneListed DEF ScanInv, Pending
<1>3. /\ Behind(v) \subseteq Behind(w) /\ \A j \in Behind(w) : j \in Behind(v) \/ j = v.part
      /\ \A j \in Behind(v) : j # v.part
    BY <1>1 DEF Behind
<1>4. ToSet(v.parts[v.part].mentions) = ToSet(w.todo)
    BY <1>1, NoneListed DEF ScanInv
<1>5. ScanInv(w)
    <2>1. v.pc = "wildcard" \/ v.service # "smtp"
        BY <1>1 DEF HandlerInv, Service
    <2>2. CASE w.service = "smtp"
        BY <1>1, <1>2, <1>4, <2>1, <2>2, NoneListed DEF ScanInv
    <2>3. CASE w.service # "smtp"
        BY <1>1, <1>2, <1>4, <2>1, <2>3, NoneListed DEF ScanInv
    <2> QED BY <2>2, <2>3
<1>6. ASSUME NEW held, NEW id \in IDs, NEW s, SessionInv(v, n, held, id, s)
      PROVE  SessionInv(w, n, held, id, s)
    <2>1. ASSUME NEW i \in Copies(held, n) PROVE held[i].part # w.part
        BY <1>3, <1>6, <2>1 DEF SessionInv, CopiesInv
    <2>2. ASSUME s \in w.present, ~Ignored(w), NEW j \in Behind(w) \intersect Due(w, id)
          PROVE  Delivered(w, n, held, id, j)
        <3>1. j \in Due(v, id) /\ ~Ignored(v) /\ s \in v.present
            BY <2>2 DEF Due, Ignored
        <3>2. CASE j \in Behind(v)
            <4>1. Delivered(v, n, held, id, j)
                BY <1>6, <3>1, <3>2 DEF SessionInv, PresentInv
            <4> QED BY <1>2, <4>1 DEF Delivered
        <3>3. CASE j = v.part
            BY <1>2, <1>4, <3>1, <3>3 DEF Due, Delivered
        <3> QED BY <1>3, <2>2, <3>2, <3>3
    <2> QED BY <1>1, <1>3, <1>6, <2>1, <2>2, SameCopies
<1> QED BY <1>1, <1>5, <1>6, HandlerMoves

LEMMA CaptureWildcardDelivers ==
    ASSUME CaptureInv, DeliveryInv, NEW n \in DOMAIN work, CaptureWildcard(n)
    PROVE  DeliveryInv'
<1>1. PICK v : v = work[n]
    OBVIOUS
<1>2. /\ work \in Seq(Handlers) /\ v \in Handlers /\ HandlerInv(n) /\ v.pc = "wildcard"
      /\ v.part \in 1 .. Len(v.parts) /\ v.parts[v.part] \in Parts
    <2>1. /\ work \in Seq(Handlers) /\ v \in Handlers /\ HandlerInv(n) /\ v.pc = "wildcard"
          /\ v.part \in 0 .. Len(v.parts) /\ v.parts \in Seq(Parts) /\ Len(v.parts) \in Nat
        BY <1>1, HandlerBase DEF CaptureWildcard
    <2>2. v.part # 0
        BY <1>1, <2>1 DEF HandlerInv
    <2> QED BY <2>1, <2>2
<1>3. PICK domain \in Buckets \union {None} : domain = v.parts[v.part].domain
    BY <1>2, PartFacts, DomainFacts
<1>4. PICK w : w = [v EXCEPT !.pc = "capture", !.todo = v.parts[v.part].mentions]
    OBVIOUS
<1>5. /\ w.service = v.service /\ w.op = v.op /\ w.parts = v.parts /\ w.present = v.present
      /\ w.cids = v.cids /\ w.part = v.part /\ w.matches = v.matches
      /\ w.pc = "capture" /\ w.todo = v.parts[v.part].mentions
    BY <1>2, <1>4 DEF Handlers
<1>6. Moved(n, w)
    <2>1. work' = [work EXCEPT ![n] = w]
        BY <1>1, <1>2, <1>4 DEF CaptureWildcard, Handlers, Part
    <2> QED BY <1>2, <2>1 DEF Moved
<1>7. UNCHANGED <<owner, opened, mailbox, delivered>>
    BY DEF CaptureWildcard, storeVars
<1>8. /\ Behind(v) = 1 .. v.part - 1 /\ Behind(v) \subseteq Behind(w) /\ v.part \in Behind(w)
    BY <1>2, <1>5 DEF Behind
<1>9. \A b \in Buckets : Reached(v, b) => Reached(w, b)
    BY <1>5, <1>8 DEF Reached
<1>10. EntriesStep(n, w)
    <2>1. CASE Wildcard /\ domain # None /\ ~InBucket(n, domain)
        <3>1. domain \in Buckets /\ log' = [log EXCEPT ![domain] = Append(@, n)]
            BY <1>1, <1>3, <2>1 DEF CaptureWildcard, Part
        <3>2. ~Reached(v, domain)
            BY <1>1, <1>2, <1>8, <2>1 DEF Reached, InBucket, Recipients, Service
        <3>3. ~Logged(n, domain)
            BY <1>1, <3>1, <3>2 DEF DeliveryInv, MessageInv
        <3>4. Reached(w, domain)
            BY <1>3, <1>5, <1>8 DEF Reached
        <3> QED BY <1>1, <1>9, <3>1, <3>3, <3>4, NewEntry
    <2>2. CASE ~(Wildcard /\ domain # None /\ ~InBucket(n, domain))
        <3>1. log' = log
            BY <1>1, <1>3, <2>2 DEF CaptureWildcard, Part
        <3> QED BY <1>1, <1>9, <3>1, SameEntries
    <2> QED BY <2>1, <2>2
<1> QED BY <1>1, <1>2, <1>5, <1>6, <1>7, <1>10, BucketDelivers

LEMMA CaptureExtraDelivers ==
    ASSUME CaptureInv, DeliveryInv, NEW n \in DOMAIN work, CaptureExtra(n)
    PROVE  DeliveryInv'
<1>1. PICK v : v = work[n]
    OBVIOUS
<1>2. work \in Seq(Handlers) /\ v \in Handlers /\ HandlerInv(n) /\ v.pc = "extra"
    BY <1>1, HandlerBase DEF CaptureExtra
<1>3. v.service \in {"ldap", "ftp"}
    BY <1>1, <1>2 DEF HandlerInv, Service
<1>4. PICK search \in BOOLEAN : search = (v.op = "search")
    OBVIOUS
<1>5. PICK w : w = [v EXCEPT !.pc = IF search THEN "capture" ELSE "answer",
                             !.todo = IF search THEN v.parts[v.part].mentions ELSE <<>>]
    OBVIOUS
<1>6. /\ w.service = v.service /\ w.op = v.op /\ w.parts = v.parts /\ w.present = v.present
      /\ w.cids = v.cids /\ w.part = v.part /\ w.matches = v.matches
      /\ w.pc = (IF search THEN "capture" ELSE "answer")
      /\ w.todo = (IF search THEN v.parts[v.part].mentions ELSE <<>>)
    BY <1>2, <1>5 DEF Handlers
<1>7. Moved(n, w)
    <2>1. work' = [work EXCEPT ![n] = w]
        BY <1>1, <1>2, <1>4, <1>5 DEF CaptureExtra, Handlers, Part
    <2> QED BY <1>2, <2>1 DEF Moved
<1>8. UNCHANGED <<owner, opened, mailbox, delivered>>
    BY DEF CaptureExtra, storeVars
<1>9. \A b \in Buckets : ~Reached(v, b) /\ Reached(w, b)
    BY <1>2, <1>3, <1>6 DEF Reached
<1>10. EntriesStep(n, w)
    <2>1. CASE Extra
        <3>1. "extra" \in Buckets /\ log' = [log EXCEPT !["extra"] = Append(@, n)]
            BY <2>1, DomainFacts DEF CaptureExtra
        <3>2. ~Logged(n, "extra")
            BY <1>1, <1>9, <3>1 DEF DeliveryInv, MessageInv
        <3> QED BY <1>9, <3>1, <3>2, NewEntry
    <2>2. CASE ~Extra
        <3>1. log' = log
            BY <2>2 DEF CaptureExtra
        <3> QED BY <1>9, <3>1, SameEntries
    <2> QED BY <2>1, <2>2
<1>11. \/ w.pc = "capture" /\ w.todo = v.parts[v.part].mentions
       \/ w.pc = "answer" /\ w.todo = <<>> /\ v.service \in {"ldap", "ftp"} /\ v.op # "search"
    BY <1>3, <1>4, <1>6
<1> QED BY <1>1, <1>2, <1>6, <1>7, <1>8, <1>10, <1>11, BucketDelivers

LEMMA LookUpDelivers ==
    ASSUME CaptureInv, DeliveryInv, NEW n \in DOMAIN work, LookUp(n)
    PROVE  DeliveryInv'
<1>1. PICK v : v = work[n]
    OBVIOUS
<1>2. /\ work \in Seq(Handlers) /\ v \in Handlers /\ ScanInv(v)
      /\ v.pc = "capture" /\ v.todo # <<>>
    BY <1>1, HandlerBase DEF LookUp
<1>3. v.todo \in Seq(IDs) /\ v.matches \in Seq(IDs)
    BY <1>2 DEF Handlers
<1>. PICK id : id = Head(v.todo)
    OBVIOUS
<1>. PICK found \in BOOLEAN : found = (id \notin ToSet(v.matches) /\ owner[id] # None)
    OBVIOUS
<1>4. /\ id \in ToSet(v.todo) /\ ToSet(v.todo) = ToSet(Tail(v.todo)) \union {id} /\ id \in IDs
    <2>1. id \in ToSet(v.todo) /\ ToSet(v.todo) = ToSet(Tail(v.todo)) \union {id}
        BY <1>2, <1>3, TailFacts
    <2>2. id \in IDs
        BY <1>2, <1>3
    <2> QED BY <2>1, <2>2
<1>5. PICK w : w = [v EXCEPT !.todo = Tail(@), !.matches = IF found THEN Append(@, id) ELSE @,
                             !.matched = @ \/ (found /\ v.service \in {"dns", "http"})]
    OBVIOUS
<1>6. /\ w.service = v.service /\ w.op = v.op /\ w.parts = v.parts /\ w.present = v.present
      /\ w.cids = v.cids /\ w.part = v.part /\ w.pc = "capture" /\ w.todo = Tail(v.todo)
      /\ w.matches = IF found THEN Append(v.matches, id) ELSE v.matches
    BY <1>2, <1>5 DEF Handlers
<1>7. Moved(n, w) /\ Moves(v, w)
    <2>1. work' = [work EXCEPT ![n] = w]
        BY <1>1, <1>2, <1>5 DEF LookUp, Handlers, Service
    <2> QED BY <1>2, <1>6, <2>1 DEF Moved, Moves
<1>8. /\ ToSet(w.matches) = IF found THEN ToSet(v.matches) \union {id} ELSE ToSet(v.matches)
      /\ IsInjective(w.matches)
    <2>1. IsInjective(v.matches)
        BY <1>2 DEF ScanInv
    <2>2. CASE found
        <3>1. ToSet(Append(v.matches, id)) = ToSet(v.matches) \union {id}
            BY <1>3, <1>4, AppendFacts
        <3>2. IsInjective(Append(v.matches, id))
            BY <1>3, <1>4, <2>1, <2>2, AppendFacts
        <3> QED BY <1>6, <2>2, <3>1, <3>2
    <2>3. CASE ~found
        BY <1>6, <2>1, <2>3
    <2> QED BY <2>2, <2>3
<1>9. Pending(w) \subseteq Pending(v) /\ \A x \in Pending(v) : x \in Pending(w) \/ owner[x] = None
    BY <1>4, <1>6, <1>8 DEF Pending
<1>10. ScanInv(w)
    <2>1. \A x \in Pending(w) : x \in ToSet(w.parts[w.part].mentions)
        BY <1>2, <1>6, <1>9 DEF ScanInv
    <2>2. v.service # "smtp" => v.cids = {}
        BY <1>2 DEF ScanInv
    <2> QED BY <1>2, <1>6, <1>8, <2>1, <2>2 DEF ScanInv
<1>11. Behind(w) = Behind(v)
    BY <1>2, <1>6 DEF Behind
<1>12. ASSUME NEW held, NEW x \in IDs, NEW s \in Sessions, owner[x] = s, SessionInv(v, n, held, x, s)
       PROVE  SessionInv(w, n, held, x, s)
    <2>1. ASSUME NEW i \in Copies(held, n) PROVE held[i].part # w.part
        BY <1>2, <1>6, <1>12, <2>1 DEF SessionInv, CopiesInv
    <2>2. ASSUME s \in w.present, ~Ignored(w), NEW j \in Behind(w) \intersect Due(w, x)
          PROVE  Delivered(w, n, held, x, j)
        <3>1. j \in Behind(v) \intersect Due(v, x) /\ ~Ignored(v) /\ s \in v.present
            BY <1>6, <1>11, <2>2 DEF Due, Ignored
        <3>2. Delivered(v, n, held, x, j)
            BY <1>12, <3>1 DEF SessionInv, PresentInv
        <3>3. s # None
            BY <1>1, <3>1 DEF DeliveryInv, MessageInv
        <3> QED BY <1>6, <1>9, <1>12, <3>2, <3>3 DEF Delivered
    <2> QED BY <1>6, <1>7, <1>11, <1>12, <2>1, <2>2, SameCopies
<1>13. log' = log /\ UNCHANGED <<owner, opened, mailbox, delivered>>
    BY DEF LookUp, storeVars
<1>14. \A b \in Buckets : Reached(v, b) => Reached(w, b)
    BY <1>2, <1>6, <1>7, <1>11, ReachedStays
<1> QED BY <1>1, <1>6, <1>7, <1>10, <1>12, <1>13, <1>14, SameEntries, HandlerMoves

-------------------------------------------------------------------------------
(* A handler that stores its next match, or fails to. *)

\* From v to w: one match less, one correlation ID seen more.
Seen(v, w, id) ==
    /\ w.service = v.service /\ w.op = v.op /\ w.parts = v.parts /\ w.present \subseteq v.present
    /\ w.part = v.part /\ w.pc = "capture" /\ w.todo = <<>>
    /\ w.matches = Tail(v.matches) /\ w.cids = v.cids \union {id}

LEMMA SeenFacts ==
    ASSUME NEW v \in Handlers, NEW w, NEW id, Seen(v, w, id), ScanInv(v), v.pc = "capture",
           v.todo = <<>>, v.matches # <<>>, id = Head(v.matches)
    PROVE  /\ ScanInv(w) /\ Moves(v, w) /\ Behind(w) = Behind(v) /\ id \in IDs
           /\ ToSet(v.matches) = ToSet(w.matches) \union {id} /\ id \notin ToSet(w.matches)
           /\ Pending(v) = Pending(w) \union {id}
<1>1. v.matches \in Seq(IDs)
    BY DEF Handlers
<1>2. /\ ToSet(v.matches) = ToSet(w.matches) \union {id} /\ id \notin ToSet(w.matches)
      /\ IsInjective(w.matches)
    BY <1>1, TailFacts DEF Seen, ScanInv
<1>3. id \in IDs
    BY <1>1
<1>4. Pending(v) = Pending(w) \union {id}
    BY <1>2, NoneListed DEF Pending, Seen
<1>5. ScanInv(w)
    <2>1. \A x \in Pending(w) : x \in ToSet(w.parts[w.part].mentions)
        BY <1>4 DEF ScanInv, Seen
    <2>2. CASE v.service = "smtp"
        BY <1>2, <2>1, <2>2 DEF ScanInv, Seen
    <2>3. CASE v.service # "smtp"
        BY <1>2, <2>1, <2>3 DEF ScanInv, Seen
    <2> QED BY <2>2, <2>3
<1>6. Moves(v, w) /\ Behind(w) = Behind(v)
    BY DEF Moves, Behind, Seen
<1> QED BY <1>2, <1>3, <1>4, <1>5, <1>6

\* What another ID's session holds does not change.
LEMMA OthersSeen ==
    ASSUME NEW v \in Handlers, NEW w, NEW id, Seen(v, w, id), ScanInv(v), v.pc = "capture",
           v.todo = <<>>, v.matches # <<>>, id = Head(v.matches),
           NEW n, NEW held, NEW x, NEW s, SessionInv(v, n, held, x, s), x # id \/ s \notin w.present
    PROVE  SessionInv(w, n, held, x, s)
<1>1. /\ Moves(v, w) /\ Behind(w) = Behind(v)
      /\ ToSet(v.matches) = ToSet(w.matches) \union {id} /\ Pending(v) = Pending(w) \union {id}
    BY SeenFacts
<1>2. ASSUME NEW i \in Copies(held, n), held[i].part = w.part
      PROVE  w.todo = <<>> /\ x \notin ToSet(w.matches)
    BY <1>1, <1>2 DEF SessionInv, CopiesInv, Seen
<1>3. ASSUME s \in w.present, ~Ignored(w), NEW j \in Behind(w) \intersect Due(w, x)
      PROVE  Delivered(w, n, held, x, j)
    <2>1. j \in Behind(v) \intersect Due(v, x) /\ ~Ignored(v) /\ s \in v.present
        BY <1>1, <1>3 DEF Due, Ignored, Seen
    <2>2. Delivered(v, n, held, x, j)
        BY <2>1 DEF SessionInv, PresentInv
    <2> QED BY <1>1, <1>3, <2>2 DEF Delivered, Seen
<1>4. s \in w.present => (x \in w.cids => x \in v.cids)
    BY DEF Seen
<1> QED BY <1>1, <1>2, <1>3, <1>4, SameCopies

LEMMA NothingStored ==
    ASSUME CaptureInv, DeliveryInv, NEW n \in DOMAIN work, Storing(n), NEW v, v = work[n],
           NEW w, Moved(n, w), NEW id, id = Head(v.matches), Seen(v, w, id),
           owner[id] = None \/ owner[id] \notin w.present,
           UNCHANGED <<owner, opened, mailbox, delivered, log>>
    PROVE  DeliveryInv'
<1>1. v \in Handlers /\ ScanInv(v) /\ v.pc = "capture" /\ v.todo = <<>> /\ v.matches # <<>>
    BY HandlerBase DEF Storing
<1>2. ScanInv(w) /\ Moves(v, w) /\ Behind(w) = Behind(v)
    BY <1>1, SeenFacts
<1>3. ASSUME NEW held, NEW x \in IDs, NEW s \in Sessions, owner[x] = s, SessionInv(v, n, held, x, s)
      PROVE  SessionInv(w, n, held, x, s)
    <2>1. s \in w.present => s # None
        BY <1>2 DEF DeliveryInv, MessageInv, Moves
    <2>2. x # id \/ s \notin w.present
        BY <1>3, <2>1
    <2> QED BY <1>1, <1>3, <2>2, OthersSeen
<1>4. \A b \in Buckets : Reached(v, b) => Reached(w, b)
    BY <1>1, <1>2, ReachedStays DEF Seen
<1> QED BY <1>2, <1>3, <1>4, SameEntries, HandlerMoves DEF Moves

LEMMA StoreGoneDelivers ==
    ASSUME CaptureInv, DeliveryInv, NEW n \in DOMAIN work, StoreGone(n)
    PROVE  DeliveryInv'
<1>1. PICK v : v = work[n]
    OBVIOUS
<1>2. work \in Seq(Handlers) /\ v \in Handlers /\ Storing(n) /\ v.pc = "capture" /\ v.todo = <<>>
    BY <1>1, HandlerBase DEF StoreGone, Storing
<1>3. PICK id : id = Head(v.matches)
    OBVIOUS
<1>4. PICK w : w = [v EXCEPT !.matches = Tail(@), !.cids = @ \union {id},
                             !.matched = @ \/ (FALSE /\ v.service = "smtp")]
    OBVIOUS
<1>5. Moved(n, w) /\ Seen(v, w, id)
    <2>1. work' = [work EXCEPT ![n] = w]
        BY <1>1, <1>2, <1>3, <1>4 DEF StoreGone, Stored, Service, Handlers
    <2> QED BY <1>2, <1>4, <2>1 DEF Moved, Seen, Handlers
<1>6. owner[id] = None /\ UNCHANGED <<owner, opened, mailbox, delivered, log>>
    BY <1>1, <1>3 DEF StoreGone, storeVars
<1> QED BY <1>1, <1>2, <1>3, <1>5, <1>6, NothingStored

LEMMA StoreFailsDelivers ==
    ASSUME CaptureInv, DeliveryInv, NEW n \in DOMAIN work, StoreFails(n)
    PROVE  DeliveryInv'
<1>1. PICK v : v = work[n]
    OBVIOUS
<1>2. work \in Seq(Handlers) /\ v \in Handlers /\ Storing(n) /\ v.pc = "capture" /\ v.todo = <<>>
    BY <1>1, HandlerBase DEF StoreFails, Storing
<1>3. PICK id : id = Head(v.matches)
    OBVIOUS
<1>4. PICK w : w = [v EXCEPT !.matches = Tail(@), !.cids = @ \union {id},
                             !.matched = @ \/ (FALSE /\ v.service = "smtp"),
                             !.present = @ \ {owner[id]}]
    OBVIOUS
<1>5. Moved(n, w) /\ Seen(v, w, id) /\ owner[id] \notin w.present
    <2>1. work' = [Stored(n, FALSE) EXCEPT ![n].present = @ \ {owner[id]}]
        BY <1>1, <1>3 DEF StoreFails
    <2>2. work' = [work EXCEPT ![n] = w]
        BY <1>1, <1>2, <1>3, <1>4, <2>1 DEF Stored, Service, Handlers
    <2> QED BY <1>2, <1>4, <2>2 DEF Moved, Seen, Handlers
<1>6. UNCHANGED <<owner, opened, mailbox, delivered, log>>
    BY DEF StoreFails, storeVars
<1> QED BY <1>1, <1>2, <1>3, <1>5, <1>6, NothingStored

LEMMA HeldFacts ==
    ASSUME CaptureInv, DeliveryInv, NEW s \in Sessions
    PROVE  Held(s) \in Seq(Items) /\ delivered[s] \in Seq(Items) /\ mailbox[s] \in Seq(Items)
<1>1. delivered[s] \in Seq(Items) /\ mailbox[s] \in Seq(Items)
    BY DEF CaptureInv, CaptureTypes, DeliveryInv, SessionsInv
<1> QED BY <1>1 DEF Held

LEMMA HeldAccepts ==
    ASSUME CaptureInv, DeliveryInv, NEW s \in Sessions, NEW item \in Items,
           mailbox' = [mailbox EXCEPT ![s] = Append(@, item)], delivered' = delivered
    PROVE  /\ Held(s)' = Append(Held(s), item)
           /\ \A t \in Sessions \ {s} : Held(t)' = Held(t)
<1>1. PICK taken \in Seq(Items), held \in Seq(Items) : taken = delivered[s] /\ held = mailbox[s]
    BY HeldFacts
<1>2. mailbox \in [Sessions -> Seq(Items)]
    BY DEF CaptureInv, CaptureTypes
<1>3. mailbox'[s] = Append(held, item) /\ \A t \in Sessions \ {s} : mailbox'[t] = mailbox[t]
    BY <1>1, <1>2
<1>4. taken \o Append(held, item) = Append(taken \o held, item)
    <2>1. <<item>> \in Seq(Items) /\ taken \o held \in Seq(Items)
        OBVIOUS
    <2>2. Append(held, item) = held \o <<item>> /\ Append(taken \o held, item) = (taken \o held) \o <<item>>
        BY <2>1, AppendIsConcat
    <2>3. (taken \o held) \o <<item>> = taken \o (held \o <<item>>)
        BY <2>1, ConcatAssociative
    <2> QED BY <2>2, <2>3
<1>5. Held(s)' = Append(Held(s), item)
    BY <1>1, <1>3, <1>4 DEF Held
<1> QED BY <1>3, <1>5 DEF Held

\* The copy a handler stores.
LEMMA NewCopy ==
    ASSUME NEW v \in Handlers, NEW w, NEW id, Seen(v, w, id), ScanInv(v), v.pc = "capture",
           v.todo = <<>>, v.matches # <<>>, id = Head(v.matches),
           v.part \in 1 .. Len(v.parts), DOMAIN v.parts = 1 .. Len(v.parts),
           NEW n, NEW held \in Seq(Items), NEW s, SessionInv(v, n, held, id, s), OneBody(held, n),
           NEW item \in Items, item.msg = n, item.part = v.part,
           item.body = (v.service = "smtp" => id \notin v.cids)
    PROVE  SessionInv(w, n, Append(held, item), id, s) /\ OneBody(Append(held, item), n)
<1>1. PICK more, e : more = Append(held, item) /\ e = Len(held) + 1
    OBVIOUS
<1>2. /\ DOMAIN more = DOMAIN held \union {e} /\ e \notin DOMAIN held /\ more[e] = item
      /\ \A i \in DOMAIN held : more[i] = held[i]
    BY <1>1, CopyAppended
<1>3. /\ Copies(more, n) = Copies(held, n) \union {e}
      /\ \A i \in Copies(held, n) : more[i] = held[i]
    BY <1>2 DEF Copies
<1>4. Bodies(more, n) = Bodies(held, n) \union (IF item.body THEN {e} ELSE {})
    BY <1>2, <1>3 DEF Bodies, Copies
<1>5. /\ Moves(v, w) /\ Behind(w) = Behind(v) /\ id \in ToSet(v.matches) /\ id \in Pending(v)
      /\ ToSet(v.matches) = ToSet(w.matches) \union {id} /\ id \notin ToSet(w.matches)
      /\ Pending(v) = Pending(w) \union {id}
    <2>1. Moves(v, w) /\ Behind(w) = Behind(v)
        BY SeenFacts
    <2>2. ToSet(v.matches) = ToSet(w.matches) \union {id} /\ id \notin ToSet(w.matches)
        BY SeenFacts
    <2>3. Pending(v) = Pending(w) \union {id}
        BY SeenFacts
    <2> QED BY <2>1, <2>2, <2>3
<1>6. /\ v.part \in Behind(v) /\ v.part \in Due(v, id) /\ Due(w, id) = Due(v, id)
    BY <1>5 DEF Behind, Due, ScanInv, Moves
<1>7. ASSUME NEW i \in Copies(held, n)
      PROVE  /\ id \in v.cids /\ v.service = "smtp"
             /\ v.parts[held[i].part].rcpt # v.parts[v.part].rcpt
    <2>1. held[i].part \in Behind(v) /\ id \in v.cids /\ held[i].part # v.part
        BY <1>5, <1>7 DEF SessionInv, CopiesInv
    <2>2. v.service = "smtp"
        BY <1>5, <2>1 DEF ScanInv
    <2>3. held[i].part \in 1 .. v.part - 1
        BY <2>1 DEF Behind
    <2> QED BY <2>1, <2>2, <2>3 DEF ScanInv
<1>8. CopiesInv(w, n, more, id)
    <2>1. ASSUME NEW i \in Copies(more, n)
          PROVE  /\ more[i].part \in Behind(w) \intersect Due(w, id)
                 /\ id \in w.cids /\ w.todo = <<>> /\ id \notin ToSet(w.matches)
        <3>1. CASE i \in Copies(held, n)
            BY <1>3, <1>5, <1>6, <3>1 DEF SessionInv, CopiesInv, Seen
        <3>2. CASE i = e
            BY <1>2, <1>5, <1>6, <3>2 DEF Seen
        <3> QED BY <1>3, <2>1, <3>1, <3>2
    <2>2. ASSUME NEW i \in Copies(more, n), NEW k \in Copies(more, n),
                 w.parts[more[i].part].rcpt = w.parts[more[k].part].rcpt
          PROVE  i = k
        <3>1. w.parts = v.parts
            BY DEF Seen
        <3>2. CASE i \in Copies(held, n) /\ k \in Copies(held, n)
            BY <1>3, <2>2, <3>1, <3>2 DEF SessionInv, CopiesInv
        <3>3. CASE i = e /\ k \in Copies(held, n)
            BY <1>2, <1>3, <1>7, <2>2, <3>1, <3>3
        <3>4. CASE k = e /\ i \in Copies(held, n)
            BY <1>2, <1>3, <1>7, <2>2, <3>1, <3>4
        <3> QED BY <1>3, <2>2, <3>2, <3>3, <3>4
    <2> QED BY <2>1, <2>2 DEF CopiesInv
<1>9. ASSUME s \in w.present
      PROVE  PresentInv(w, n, more, id)
    <2>1. PresentInv(v, n, held, id)
        BY <1>9 DEF SessionInv, Seen
    <2>2. Bodies(more, n) # {}
        <3>1. CASE item.body
            BY <1>4, <3>1
        <3>2. CASE ~item.body
            BY <1>4, <2>1, <3>2 DEF PresentInv
        <3> QED BY <3>1, <3>2
    <2>3. ASSUME ~Ignored(w), NEW j \in Behind(w) \intersect Due(w, id)
          PROVE  Delivered(w, n, more, id, j)
        <3>1. Delivered(v, n, held, id, j)
            BY <1>5, <1>6, <2>1, <2>3 DEF PresentInv, Ignored, Seen
        <3>2. CASE \E i \in Copies(held, n) : v.parts[held[i].part].rcpt = v.parts[j].rcpt
            BY <1>3, <3>2 DEF Delivered, Seen
        <3>3. CASE j = v.part
            BY <1>2, <1>3, <3>3 DEF Delivered, Seen
        <3> QED BY <3>1, <3>2, <3>3 DEF Delivered
    <2> QED BY <2>2, <2>3 DEF PresentInv
<1>10. OneBody(more, n)
    <2>1. CASE item.body
        <3>1. Copies(held, n) = {}
            BY <1>7, <2>1
        <3> QED BY <1>4, <2>1, <3>1 DEF OneBody, Bodies
    <2>2. CASE ~item.body
        BY <1>3, <1>4, <2>2 DEF OneBody
    <2> QED BY <2>1, <2>2
<1> QED BY <1>1, <1>8, <1>9, <1>10 DEF SessionInv

LEMMA StoreMatchedDelivers ==
    ASSUME CaptureInv, DeliveryInv, NEW n \in DOMAIN work, StoreMatched(n)
    PROVE  DeliveryInv'
<1>1. PICK v : v = work[n]
    OBVIOUS
<1>2. /\ work \in Seq(Handlers) /\ v \in Handlers /\ n \in Numbers /\ ScanInv(v) /\ HandlerInv(n)
      /\ v.pc = "capture" /\ v.todo = <<>> /\ v.matches # <<>>
      /\ v.part \in 0 .. Len(v.parts) /\ DOMAIN v.parts = 1 .. Len(v.parts) /\ Len(v.parts) \in Nat
    BY <1>1, HandlerBase DEF StoreMatched, Storing
<1>3. v.part # 0 /\ v.part \in 1 .. Len(v.parts)
    <2>1. v.part # 0
        BY <1>1, <1>2 DEF HandlerInv
    <2> QED BY <1>2, <2>1
<1>4. PICK id : id = Head(v.matches)
    OBVIOUS
<1>5. PICK w : w = [v EXCEPT !.matches = Tail(@), !.cids = @ \union {id},
                             !.matched = @ \/ (TRUE /\ v.service = "smtp")]
    OBVIOUS
<1>6. Moved(n, w) /\ Seen(v, w, id)
    <2>1. work' = [work EXCEPT ![n] = w]
        BY <1>1, <1>2, <1>4, <1>5 DEF StoreMatched, Stored, Service, Handlers
    <2> QED BY <1>2, <1>5, <2>1 DEF Moved, Seen, Handlers
<1>7. /\ ScanInv(w) /\ Moves(v, w) /\ Behind(w) = Behind(v) /\ id \in IDs
    BY <1>2, <1>4, <1>6, SeenFacts
<1>8. PICK s \in Sessions : s = owner[id] /\ s # None /\ s \in opened
    <2>1. owner[id] \in Sessions \union {None} /\ owner[id] # None
        BY <1>1, <1>4, <1>7 DEF StoreMatched, CaptureInv, CaptureTypes
    <2> QED BY <1>1, <1>4, <2>1 DEF StoreMatched, Store!Accept
<1>9. PICK item : item = [msg |-> n, part |-> v.part, body |-> WithBody(n, id)]
    OBVIOUS
<1>10. /\ item \in Items /\ item.msg = n /\ item.part = v.part
       /\ item.body = (v.service = "smtp" => id \notin v.cids)
    BY <1>1, <1>2, <1>9 DEF Items, WithBody, Service
<1>11. /\ mailbox' = [mailbox EXCEPT ![s] = Append(@, item)]
       /\ UNCHANGED <<owner, opened, delivered, log>>
    BY <1>1, <1>4, <1>8, <1>9 DEF StoreMatched, Store!Accept
<1>12. Held(s)' = Append(Held(s), item) /\ \A t \in Sessions \ {s} : Held(t)' = Held(t)
    BY <1>10, <1>11, HeldAccepts
<1>13. PICK held \in Seq(Items) : held = Held(s)
    BY HeldFacts
<1>14. \A x \in IDs : owner[x] = s => x = id
    BY <1>7, <1>8 DEF DeliveryInv, SessionsInv
<1>15. SessionsInv'
    <2>1. \A t \in Sessions \ opened : Held(t)' = <<>>
        BY <1>8, <1>12 DEF DeliveryInv, SessionsInv
    <2> QED BY <1>11, <2>1 DEF DeliveryInv, SessionsInv
<1>16. ArrivedInv'
    <2>1. ASSUME NEW t \in Sessions, NEW i \in DOMAIN Held(t)'
          PROVE  Held(t)'[i].msg \in DOMAIN work
        <3>1. CASE t # s
            BY <1>12, <2>1, <3>1 DEF DeliveryInv, ArrivedInv
        <3>2. CASE t = s
            BY <1>10, <1>12, <1>13, <2>1, <3>2, CopyAppended DEF DeliveryInv, ArrivedInv
        <3> QED BY <3>1, <3>2
    <2> QED BY <1>6, <1>11, <2>1 DEF DeliveryInv, ArrivedInv, Moved
<1>17. ASSUME NEW m \in DOMAIN work
       PROVE  MessageInv(m)'
    <2>1. MessageInv(m)
        BY <1>17 DEF DeliveryInv
    <2>2. PICK u : u = work'[m]
        OBVIOUS
    <2>3. (m = n => u = w) /\ (m # n => u = work[m]) /\ u.present \subseteq work[m].present
        BY <1>1, <1>6, <1>7, <1>17, <2>2 DEF Moved, Moves
    <2>4. ScanInv(u)
        BY <1>7, <2>1, <2>3 DEF MessageInv
    <2>5. ASSUME NEW b \in Buckets
          PROVE  OneEntry(m, b)' /\ (Logged(m, b)' => Reached(u, b))
        <3>1. OneEntry(m, b)' /\ (Logged(m, b)' => Reached(work[m], b))
            BY <1>11, <2>1, <2>5 DEF MessageInv, OneEntry, Logged
        <3>2. Reached(v, b) => Reached(w, b)
            BY <1>2, <1>6, <1>7, ReachedStays DEF Seen
        <3> QED BY <1>1, <2>3, <3>1, <3>2
    <2>6. \A t \in u.present : \E x \in IDs : owner'[x] = t /\ t # None
        BY <1>11, <2>1, <2>3 DEF MessageInv
    <2>7. ASSUME NEW t \in Sessions
          PROVE  OneBody(Held(t)', m)
        <3>1. OneBody(Held(t), m)
            BY <2>1 DEF MessageInv
        <3>2. CASE t # s
            BY <1>12, <2>7, <3>1, <3>2
        <3>3. CASE t = s /\ m # n
            BY <1>10, <1>12, <1>13, <3>1, <3>3, OthersCopies
        <3>4. CASE t = s /\ m = n
            <4>1. SessionInv(v, n, held, id, s)
                BY <1>1, <1>7, <1>8, <1>13, <2>1, <3>4 DEF MessageInv
            <4>2. OneBody(Append(held, item), n)
                BY <1>2, <1>3, <1>4, <1>6, <1>10, <1>13, <3>1, <3>4, <4>1, NewCopy
            <4> QED BY <1>12, <1>13, <3>4, <4>2
        <3> QED BY <3>2, <3>3, <3>4
    <2>8. ASSUME NEW x \in IDs, owner'[x] # None
          PROVE  SessionInv(u, m, Held(owner[x])', x, owner'[x])
        <3>1. PICK t \in Sessions : t = owner[x] /\ t # None
            BY <1>11, <2>8 DEF CaptureInv, CaptureTypes
        <3>2. SessionInv(work[m], m, Held(t), x, t)
            BY <2>1, <3>1 DEF MessageInv
        <3>3. SessionInv(u, m, Held(t)', x, t)
            <4>1. CASE t = s /\ m = n
                <5>1. x = id /\ SessionInv(v, n, held, id, s) /\ OneBody(held, n)
                    BY <1>1, <1>13, <1>14, <2>1, <3>1, <3>2, <4>1 DEF MessageInv
                <5>2. SessionInv(w, n, Append(held, item), id, s)
                    BY <1>2, <1>3, <1>4, <1>6, <1>10, <5>1, NewCopy
                <5> QED BY <1>12, <1>13, <2>3, <4>1, <5>1, <5>2
            <4>2. CASE t = s /\ m # n
                <5>1. SessionInv(work[m], m, Append(held, item), x, t)
                    BY <1>10, <1>13, <3>2, <4>2, OthersCopies
                <5> QED BY <1>12, <1>13, <2>3, <4>2, <5>1
            <4>3. CASE t # s /\ m = n
                <5>1. x # id
                    BY <1>8, <3>1, <4>3
                <5>2. PICK other : other = Held(t)
                    OBVIOUS
                <5>3. SessionInv(w, n, other, x, t)
                    BY <1>1, <1>2, <1>4, <1>6, <3>2, <4>3, <5>1, <5>2, OthersSeen
                <5> QED BY <1>12, <2>3, <3>1, <4>3, <5>2, <5>3
            <4>4. CASE t # s /\ m # n
                BY <1>12, <2>3, <3>1, <3>2, <4>4
            <4> QED BY <4>1, <4>2, <4>3, <4>4
        <3>4. owner'[x] = t /\ Held(owner[x])' = Held(t)'
            BY <1>11, <3>1 DEF Held
        <3> QED BY <3>3, <3>4
    <2> QED BY <2>2, <2>4, <2>5, <2>6, <2>7, <2>8 DEF MessageInv
<1> QED BY <1>6, <1>15, <1>16, <1>17 DEF DeliveryInv, Moved

-------------------------------------------------------------------------------
(* Sessions and messages come and go; polls. *)

LEMMA RegisterDelivers ==
    ASSUME CaptureInv, DeliveryInv, NEW id \in IDs, Register(id)
    PROVE  DeliveryInv'
<1>1. PICK s \in Sessions \ opened : s = Cardinality(opened) + 1
    BY DEF Register, Store!Open
<1>2. UNCHANGED <<mailbox, delivered, log, work>>
    BY DEF Register, Store!Open, captureVars
<1>3. /\ owner' = [i \in IDs |-> IF i = id THEN s ELSE owner[i]]
      /\ opened' = opened \union {s} /\ owner[id] = None
    <2>1. /\ owner' = [i \in IDs |-> IF i = id THEN s ELSE IF i \in {} THEN None ELSE owner[i]]
          /\ opened' = opened \union {s}
        BY <1>1 DEF Register, Store!Open
    <2> QED BY <2>1 DEF Register
<1>4. \A t : Held(t)' = Held(t)
    BY <1>2 DEF Held
<1>5. SessionsInv
    BY DEF DeliveryInv
<1>6. SessionsInv'
    <2>1. \A i \in IDs : owner'[i] # None => owner'[i] \in opened'
        BY <1>3, <1>5 DEF SessionsInv
    <2>2. ASSUME NEW i \in IDs, NEW k \in IDs, owner'[i] = owner'[k], owner'[i] # None
          PROVE  i = k
        BY <1>1, <1>3, <1>5, <2>2 DEF SessionsInv
    <2>3. \A t \in Sessions \ opened' : Held(t)' = <<>>
        BY <1>3, <1>4, <1>5 DEF SessionsInv
    <2> QED BY <1>2, <1>5, <2>1, <2>2, <2>3 DEF SessionsInv
<1>7. ArrivedInv'
    BY <1>2, <1>4 DEF DeliveryInv, ArrivedInv
<1>8. ASSUME NEW m \in DOMAIN work
      PROVE  MessageInv(m)'
    <2>1. MessageInv(m) /\ work'[m] = work[m]
        BY <1>2, <1>8 DEF DeliveryInv
    <2>2. ASSUME NEW b \in Buckets
          PROVE  OneEntry(m, b)' /\ (Logged(m, b)' => Reached(work[m], b))
        BY <1>2, <2>1, <2>2 DEF MessageInv, OneEntry, Logged
    <2>3. ASSUME NEW t \in work[m].present
          PROVE  t # s /\ \E x \in IDs : owner'[x] = t /\ t # None
        <3>1. PICK x \in IDs : owner[x] = t /\ t # None
            BY <2>1, <2>3 DEF MessageInv
        <3> QED BY <1>1, <1>3, <1>5, <3>1 DEF SessionsInv
    <2>4. ASSUME NEW x \in IDs, owner'[x] # None
          PROVE  SessionInv(work[m], m, Held(owner[x])', x, owner'[x])
        <3>1. CASE x = id
            <4>1. owner'[x] = s /\ Held(owner[x])' = Held(s)
                BY <1>2, <1>3, <2>4, <3>1 DEF Held
            <4>2. Held(s) = <<>> /\ s \notin work[m].present
                BY <1>1, <1>5, <2>3 DEF SessionsInv
            <4>3. Copies(<<>>, m) = {}
                BY DEF Copies
            <4> QED BY <4>1, <4>2, <4>3 DEF SessionInv, CopiesInv
        <3>2. CASE x # id
            <4>1. owner'[x] = owner[x]
                BY <1>3, <2>4, <3>2
            <4>2. Held(owner[x])' = Held(owner[x])
                BY <1>2, <4>1 DEF Held
            <4> QED BY <2>1, <2>4, <4>1, <4>2 DEF MessageInv
        <3> QED BY <3>1, <3>2
    <2>5. \A t \in Sessions : OneBody(Held(t)', m)
        BY <1>4, <2>1 DEF MessageInv
    <2> QED BY <2>1, <2>2, <2>3, <2>4, <2>5 DEF MessageInv
<1> QED BY <1>2, <1>6, <1>7, <1>8 DEF DeliveryInv

\* A handler that forgets a session has no more to deliver.
LEMMA ForgetsSession ==
    ASSUME NEW v, NEW w, w.service = v.service, w.op = v.op, w.parts = v.parts, w.pc = v.pc,
           w.part = v.part, w.todo = v.todo, w.matches = v.matches, w.cids = v.cids,
           w.present \subseteq v.present
    PROVE  /\ ScanInv(v) => ScanInv(w)
           /\ \A b : Reached(v, b) => Reached(w, b)
           /\ \A n, held, id, s : SessionInv(v, n, held, id, s) => SessionInv(w, n, held, id, s)
<1>1. Behind(w) = Behind(v) /\ Pending(w) = Pending(v)
    BY DEF Behind, Pending
<1>2. ScanInv(v) => ScanInv(w)
    BY <1>1 DEF ScanInv
<1>3. \A b : Reached(v, b) => Reached(w, b)
    BY <1>1 DEF Reached
<1>4. ASSUME NEW n, NEW held, NEW id, NEW s, SessionInv(v, n, held, id, s)
      PROVE  SessionInv(w, n, held, id, s)
    <2>1. Due(w, id) = Due(v, id) /\ Ignored(w) = Ignored(v)
        BY DEF Due, Ignored
    <2>2. CopiesInv(w, n, held, id)
        BY <1>1, <1>4, <2>1 DEF SessionInv, CopiesInv
    <2>3. \A j : Delivered(v, n, held, id, j) => Delivered(w, n, held, id, j)
        BY <1>1 DEF Delivered
    <2>4. ASSUME s \in w.present PROVE PresentInv(w, n, held, id)
        BY <1>1, <1>4, <2>1, <2>3, <2>4 DEF SessionInv, PresentInv
    <2> QED BY <2>2, <2>4 DEF SessionInv
<1> QED BY <1>2, <1>3, <1>4

LEMMA LeaveDelivers ==
    ASSUME CaptureInv, DeliveryInv, NEW id \in IDs, Leave(id)
    PROVE  DeliveryInv'
<1>1. UNCHANGED <<mailbox, delivered, opened, log>>
    BY DEF Leave, Store!Close
<1>2. owner' = [i \in IDs |-> IF i = id THEN None ELSE owner[i]]
    <2>1. owner' = [i \in IDs |-> IF i \in {id} THEN None ELSE owner[i]]
        BY DEF Leave, Store!Close
    <2> QED BY <2>1
<1>3. \A t : Held(t)' = Held(t)
    BY <1>1 DEF Held
<1>4. work \in Seq(Handlers) /\ SessionsInv
    BY DEF CaptureInv, CaptureTypes, DeliveryInv
<1>5. DOMAIN work' = DOMAIN work /\ \A m \in DOMAIN work : work'[m] = [work[m] EXCEPT !.present = @ \ {owner[id]}]
    BY DEF Leave
<1>6. SessionsInv'
    <2>1. \A t \in Sessions \ opened' : Held(t)' = <<>>
        BY <1>1, <1>3, <1>4 DEF SessionsInv
    <2> QED BY <1>1, <1>2, <1>4, <2>1 DEF SessionsInv
<1>7. ArrivedInv'
    BY <1>1, <1>3, <1>5 DEF DeliveryInv, ArrivedInv
<1>8. ASSUME NEW m \in DOMAIN work
      PROVE  MessageInv(m)'
    <2>1. MessageInv(m) /\ work[m] \in Handlers
        BY <1>4, <1>8 DEF DeliveryInv
    <2>2. PICK v, w : v = work[m] /\ w = work'[m]
        OBVIOUS
    <2>3. /\ w.service = v.service /\ w.op = v.op /\ w.parts = v.parts /\ w.pc = v.pc
          /\ w.part = v.part /\ w.todo = v.todo /\ w.matches = v.matches /\ w.cids = v.cids
          /\ w.present = v.present \ {owner[id]}
        BY <1>5, <1>8, <2>1, <2>2 DEF Handlers
    <2>4. /\ ScanInv(w)
          /\ \A b : Reached(v, b) => Reached(w, b)
          /\ \A n, held, x, s : SessionInv(v, n, held, x, s) => SessionInv(w, n, held, x, s)
        BY <2>1, <2>2, <2>3, ForgetsSession DEF MessageInv
    <2>5. ASSUME NEW b \in Buckets
          PROVE  OneEntry(m, b)' /\ (Logged(m, b)' => Reached(w, b))
        BY <1>1, <2>1, <2>2, <2>4, <2>5 DEF MessageInv, OneEntry, Logged
    <2>6. ASSUME NEW t \in w.present
          PROVE  \E x \in IDs : owner'[x] = t /\ t # None
        <3>1. PICK x \in IDs : owner[x] = t /\ t # None
            BY <2>1, <2>2, <2>3, <2>6 DEF MessageInv
        <3>2. x # id
            BY <2>3, <2>6, <3>1
        <3> QED BY <1>2, <3>1, <3>2
    <2>7. ASSUME NEW x \in IDs, owner'[x] # None
          PROVE  SessionInv(w, m, Held(owner[x])', x, owner'[x])
        <3>1. owner'[x] = owner[x]
            BY <1>2, <2>7
        <3>2. Held(owner[x])' = Held(owner[x])
            BY <1>1, <3>1 DEF Held
        <3>3. SessionInv(v, m, Held(owner[x]), x, owner[x])
            BY <2>1, <2>2, <2>7, <3>1 DEF MessageInv
        <3> QED BY <2>4, <3>1, <3>2, <3>3
    <2>8. \A t \in Sessions : OneBody(Held(t)', m)
        BY <1>3, <2>1 DEF MessageInv
    <2> QED BY <2>2, <2>4, <2>5, <2>6, <2>7, <2>8 DEF MessageInv
<1> QED BY <1>5, <1>6, <1>7, <1>8 DEF DeliveryInv

LEMMA ReceiveDelivers ==
    ASSUME CaptureInv, DeliveryInv, NEW a \in Arrivals, Receive(a)
    PROVE  DeliveryInv'
<1>. PICK n : n = Len(work) + 1
    OBVIOUS
<1>1. UNCHANGED <<owner, opened, mailbox, delivered, log>>
    BY DEF Receive, storeVars
<1>2. \A t : Held(t)' = Held(t)
    BY <1>1 DEF Held
<1>3. work \in Seq(Handlers) /\ SessionsInv /\ DOMAIN work = 1 .. Len(work) /\ Len(work) \in Nat
    BY DEF CaptureInv, CaptureTypes, DeliveryInv
<1>4. PICK w : w = [service |-> a.service, op |-> a.op, parts |-> a.parts,
                    pc |-> FirstStep(a),
                    part |-> IF a.service = "smtp" THEN 0 ELSE 1,
                    todo |-> <<>>, matches |-> <<>>, cids |-> {}, matched |-> FALSE,
                    present |-> {owner[id] : id \in IDs} \ {None}]
    OBVIOUS
<1>5. /\ w.service = a.service /\ w.op = a.op /\ w.parts = a.parts /\ w.pc = FirstStep(a)
      /\ w.part = (IF a.service = "smtp" THEN 0 ELSE 1)
      /\ w.todo = <<>> /\ w.matches = <<>> /\ w.cids = {}
      /\ w.present = {owner[id] : id \in IDs} \ {None}
    BY <1>4
<1>6. /\ work' = Append(work, w) /\ n \notin DOMAIN work
      /\ DOMAIN work' = DOMAIN work \union {n} /\ work'[n] = w
      /\ \A m \in DOMAIN work : work'[m] = work[m]
    <2>1. work' = Append(work, w)
        BY <1>4 DEF Receive
    <2>2. 1 .. Len(work) + 1 = (1 .. Len(work)) \union {Len(work) + 1} /\ n \notin DOMAIN work
        BY <1>3
    <2> QED BY <1>3, <2>1, <2>2
<1>7. /\ a.service \in Services
      /\ a.service # "smtp" => Len(a.parts) = 1
      /\ a.service \in {"ldap", "ftp"} /\ a.op # "search" => a.parts[1].mentions = <<>>
    BY ArrivalsAssumption DEF Services
<1>8. /\ a.service = "smtp" => FirstStep(a) = "recipient"
      /\ FirstStep(a) \in {"answer", "recipient", "wildcard", "extra"}
      /\ FirstStep(a) = "answer" => Ignored(a)
    BY <1>7 DEF FirstStep, Ignored, Services
<1>9. Ignored(a) => Ignored(w)
    BY <1>5 DEF Ignored
<1>10. ScanInv(w)
    <2>1. Pending(w) = {} /\ ToSet(w.matches) = {} /\ IsInjective(w.matches)
        BY <1>5, NoneListed DEF Pending
    <2>2. CASE a.service = "smtp"
        BY <1>5, <1>8, <2>1, <2>2 DEF ScanInv
    <2>3. CASE a.service # "smtp"
        BY <1>5, <1>7, <1>8, <2>1, <2>3 DEF ScanInv
    <2> QED BY <2>2, <2>3
<1>11. ArrivedInv /\ ArrivedInv'
    BY <1>1, <1>2, <1>6 DEF DeliveryInv, ArrivedInv
<1>12. SessionsInv'
    BY <1>1, <1>2, <1>3 DEF SessionsInv
<1>13. MessageInv(n)'
    <2>1. ASSUME NEW b \in Buckets
          PROVE  OneEntry(n, b)' /\ ~Logged(n, b)'
        BY <1>1, <1>6, <1>11, <2>1 DEF ArrivedInv, OneEntry, Logged
    <2>2. \A s \in Sessions : Copies(Held(s), n) = {}
        BY <1>6, <1>11 DEF ArrivedInv, Copies
    <2>3. \A s \in Sessions : OneBody(Held(s)', n)
        BY <1>2, <2>2 DEF OneBody, Bodies
    <2>4. \A s \in w.present : \E id \in IDs : owner'[id] = s /\ s # None
        BY <1>1, <1>5
    <2>5. ASSUME NEW id \in IDs, owner'[id] # None
          PROVE  SessionInv(w, n, Held(owner[id])', id, owner'[id])
        <3>1. PICK s \in Sessions : s = owner[id]
            BY <1>1, <2>5 DEF CaptureInv, CaptureTypes
        <3>2. PICK held : held = Held(s)
            OBVIOUS
        <3>3. Held(owner[id])' = held /\ owner'[id] = s
            BY <1>1, <3>1, <3>2 DEF Held
        <3>4. CopiesInv(w, n, held, id)
            BY <2>2, <3>2 DEF CopiesInv
        <3>5. ASSUME ~Ignored(w), NEW j \in Behind(w)
              PROVE  FALSE
            <4>1. FirstStep(a) \in {"recipient", "wildcard", "extra"}
                BY <1>8, <1>9, <3>5
            <4>2. CASE a.service = "smtp"
                BY <1>5, <3>5, <4>2 DEF Behind
            <4>3. CASE a.service # "smtp"
                <5>1. FirstStep(a) # "recipient"
                    BY <1>7, <4>3 DEF FirstStep, Services
                <5> QED BY <1>5, <3>5, <4>1, <4>3, <5>1 DEF Behind
            <4> QED BY <4>2, <4>3
        <3>6. PresentInv(w, n, held, id)
            BY <1>5, <3>5 DEF PresentInv
        <3> QED BY <3>3, <3>4, <3>6 DEF SessionInv
    <2> QED BY <1>6, <1>10, <2>1, <2>3, <2>4, <2>5 DEF MessageInv
<1>14. ASSUME NEW m \in DOMAIN work
       PROVE  MessageInv(m)'
    <2>1. MessageInv(m) /\ work'[m] = work[m]
        BY <1>6, <1>14 DEF DeliveryInv
    <2>2. ASSUME NEW b \in Buckets
          PROVE  OneEntry(m, b)' /\ (Logged(m, b)' => Reached(work[m], b))
        BY <1>1, <2>1, <2>2 DEF MessageInv, OneEntry, Logged
    <2>3. \A x \in IDs : owner'[x] = owner[x] /\ Held(owner[x])' = Held(owner[x])
        BY <1>1 DEF Held
    <2>4. \A t \in Sessions : OneBody(Held(t)', m)
        BY <1>2, <2>1 DEF MessageInv
    <2> QED BY <2>1, <2>2, <2>3, <2>4 DEF MessageInv
<1> QED BY <1>6, <1>11, <1>12, <1>13, <1>14 DEF DeliveryInv

\* What a poll does leaves every session with what it was given.
LEMMA SameHeld ==
    ASSUME DeliveryInv, UNCHANGED <<owner, opened, log, work>>,
           delivered' \in [Sessions -> Seq(Items)], \A s \in Sessions : Held(s)' = Held(s),
           CaptureInv
    PROVE  DeliveryInv'
<1>1. SessionsInv'
    BY DEF DeliveryInv, SessionsInv
<1>2. ArrivedInv'
    BY DEF DeliveryInv, ArrivedInv
<1>3. ASSUME NEW m \in DOMAIN work
      PROVE  MessageInv(m)'
    <2>1. MessageInv(m)
        BY <1>3 DEF DeliveryInv
    <2>2. ASSUME NEW b \in Buckets
          PROVE  OneEntry(m, b)' /\ (Logged(m, b)' => Reached(work[m], b))
        BY <2>1, <2>2 DEF MessageInv, OneEntry, Logged
    <2>3. ASSUME NEW x \in IDs, owner[x] # None
          PROVE  Held(owner[x])' = Held(owner[x])
        <3>1. PICK s \in Sessions : s = owner[x]
            BY <2>3 DEF CaptureInv, CaptureTypes
        <3>2. Held(owner[x])' = Held(s)'
            BY <3>1 DEF Held
        <3> QED BY <3>1, <3>2
    <2> QED BY <2>1, <2>2, <2>3 DEF MessageInv
<1> QED BY <1>1, <1>2, <1>3 DEF DeliveryInv

LEMMA StoreUnchangedDelivers ==
    ASSUME CaptureInv, DeliveryInv, UNCHANGED <<storeVars, log, work>>
    PROVE  DeliveryInv'
<1>1. UNCHANGED <<owner, opened, mailbox, delivered, log, work>>
    BY DEF storeVars
<1>2. \A s \in Sessions : Held(s)' = Held(s)
    BY <1>1 DEF Held
<1>3. delivered' \in [Sessions -> Seq(Items)]
    BY <1>1 DEF DeliveryInv, SessionsInv
<1> QED BY <1>1, <1>2, <1>3, SameHeld

LEMMA PollDrainDelivers ==
    ASSUME CaptureInv, DeliveryInv, NEW p \in Pollers, PollDrain(p)
    PROVE  DeliveryInv'
<1>1. PICK s \in Sessions : s = poll[p].session
    <2>1. PollInv(p) /\ poll[p].pc = "drain"
        BY DEF CaptureInv, PollsInv, PollDrain
    <2> QED BY <2>1 DEF PollInv
<1>2. /\ delivered' = [delivered EXCEPT ![s] = @ \o mailbox[s]]
      /\ mailbox' = [mailbox EXCEPT ![s] = <<>>]
      /\ UNCHANGED <<owner, opened, log, work>>
    BY <1>1 DEF PollDrain, Store!Drain, captureVars
<1>3. delivered \in [Sessions -> Seq(Items)] /\ mailbox \in [Sessions -> Seq(Items)]
    BY DEF CaptureInv, CaptureTypes, DeliveryInv, SessionsInv
<1>4. PICK taken \in Seq(Items), held \in Seq(Items) : taken = delivered[s] /\ held = mailbox[s]
    BY <1>3
<1>5. taken \o held \in Seq(Items) /\ (taken \o held) \o <<>> = taken \o held
    <2>1. taken \o held \in Seq(Items)
        BY <1>4
    <2> QED BY <2>1, ConcatEmptySeq
<1>6. delivered'[s] = taken \o held /\ mailbox'[s] = <<>>
    BY <1>2, <1>3, <1>4
<1>7. ASSUME NEW t \in Sessions
      PROVE  Held(t)' = Held(t)
    <2>1. CASE t = s
        BY <1>4, <1>5, <1>6, <2>1 DEF Held
    <2>2. CASE t # s
        BY <1>2, <1>3, <1>7, <2>2 DEF Held
    <2> QED BY <2>1, <2>2
<1>8. delivered' \in [Sessions -> Seq(Items)]
    BY <1>2, <1>3, <1>4, <1>5
<1> QED BY <1>2, <1>7, <1>8, SameHeld

LEMMA DeliveryInitially == Init => DeliveryInv
<1> SUFFICES ASSUME Init PROVE DeliveryInv
    OBVIOUS
<1>1. /\ owner = [id \in IDs |-> None] /\ opened = {} /\ work = <<>>
      /\ mailbox = [s \in Sessions |-> <<>>] /\ delivered = [s \in Sessions |-> <<>>]
      /\ log = [b \in Buckets |-> <<>>]
    BY DEF Init, Store!Init
<1>2. DOMAIN work = {} /\ <<>> \in Seq(Items)
    BY <1>1
<1>3. ASSUME NEW s \in Sessions PROVE Held(s) = <<>>
    <2>1. delivered[s] = <<>> /\ mailbox[s] = <<>>
        BY <1>1, <1>3
    <2>2. <<>> \o <<>> = <<>>
        OBVIOUS
    <2> QED BY <2>1, <2>2 DEF Held
<1>4. SessionsInv
    BY <1>1, <1>2, <1>3 DEF SessionsInv
<1>5. ArrivedInv
    BY <1>1, <1>3 DEF ArrivedInv
<1> QED BY <1>2, <1>4, <1>5 DEF DeliveryInv

LEMMA DeliveryStep == CaptureInv /\ DeliveryInv /\ [Next]_vars => DeliveryInv'
<1> SUFFICES ASSUME CaptureInv, DeliveryInv, [Next]_vars PROVE DeliveryInv'
    OBVIOUS
<1>1. ASSUME NEW a \in Arrivals, Receive(a) PROVE DeliveryInv'
    BY <1>1, ReceiveDelivers
<1>2. ASSUME NEW n \in DOMAIN work, Handle(n) PROVE DeliveryInv'
    BY <1>2, NextRecipientDelivers, NoMoreRecipientsDelivers, CaptureWildcardDelivers,
       CaptureExtraDelivers, LookUpDelivers, StoreMatchedDelivers, StoreGoneDelivers,
       StoreFailsDelivers, CapturedDelivers DEF Handle
<1>3. ASSUME NEW id \in IDs, Register(id) \/ Leave(id) PROVE DeliveryInv'
    BY <1>3, RegisterDelivers, LeaveDelivers
<1>4. ASSUME NEW p \in Pollers, HandlePoll(p) PROVE DeliveryInv'
    <2>1. CASE PollDrain(p)
        BY <2>1, PollDrainDelivers
    <2>2. CASE ~PollDrain(p)
        <3>1. UNCHANGED <<storeVars, log, work>>
            BY <1>4, <2>2 DEF HandlePoll, PollStart, PollKey, PollKeyFails, PollExtra, PollTLD,
                ReadFrom, PollAnswer, captureVars
        <3> QED BY <3>1, StoreUnchangedDelivers
    <2> QED BY <2>1, <2>2
<1>5. ASSUME Quiet \/ UNCHANGED vars PROVE DeliveryInv'
    <2>1. UNCHANGED <<storeVars, log, work>>
        BY <1>5 DEF Quiet, vars, captureVars
    <2> QED BY <2>1, StoreUnchangedDelivers
<1> QED BY <1>1, <1>2, <1>3, <1>4, <1>5 DEF Next

-------------------------------------------------------------------------------
(* DeliveryInv holds in every state: a session's copies of a message are of  *)
(* different recipients its handler has reached, one with the raw text.      *)
THEOREM DeliveryInvariant == Spec => []DeliveryInv
<1>1. Init => DeliveryInv
    BY DeliveryInitially
<1>2. CaptureInv /\ DeliveryInv /\ [Next]_vars => DeliveryInv'
    BY DeliveryStep
<1> QED BY <1>1, <1>2, CaptureInvariant, PTL DEF Spec

LEMMA EachPartOnce == CaptureInv /\ DeliveryInv => AnsweredIsCaptured
<1> SUFFICES ASSUME CaptureInv, DeliveryInv, NEW n \in DOMAIN work, work[n].pc = "answer",
                    ~Ignored(work[n]), NEW id \in IDs, owner[id] \in work[n].present,
                    NEW held, held = Held(owner[id])
             PROVE  /\ {work[n].parts[j].rcpt : j \in Due(work[n], id)}
                           = {work[n].parts[held[i].part].rcpt : i \in Copies(held, n)}
                    /\ \A i, k \in Copies(held, n) :
                          work[n].parts[held[i].part].rcpt = work[n].parts[held[k].part].rcpt => i = k
    BY DEF AnsweredIsCaptured
<1>1. PICK v : v = work[n]
    OBVIOUS
<1>2. /\ ScanInv(v) /\ v.part \in 0 .. Len(v.parts) /\ Len(v.parts) \in Nat
      /\ DOMAIN v.parts = 1 .. Len(v.parts) /\ MessageInv(n)
    BY <1>1, HandlerBase
<1>3. owner[id] # None
    BY <1>2 DEF MessageInv
<1>4. CopiesInv(v, n, held, id) /\ PresentInv(v, n, held, id)
    BY <1>1, <1>2, <1>3 DEF MessageInv, SessionInv
<1>5. Behind(v) = DOMAIN v.parts /\ Pending(v) = {}
    BY <1>1, <1>2, NoneListed DEF ScanInv, Behind, Pending
<1>6. ASSUME NEW j \in Due(v, id)
      PROVE  \E i \in Copies(held, n) : v.parts[held[i].part].rcpt = v.parts[j].rcpt
    <2>1. Delivered(v, n, held, id, j)
        BY <1>1, <1>4, <1>5, <1>6 DEF PresentInv, Due
    <2> QED BY <1>5, <2>1 DEF Delivered
<1>7. \A i \in Copies(held, n) : held[i].part \in Due(v, id)
    BY <1>4 DEF CopiesInv
<1>8. \A i, k \in Copies(held, n) : v.parts[held[i].part].rcpt = v.parts[held[k].part].rcpt => i = k
    BY <1>4 DEF CopiesInv
<1>9. {work[n].parts[j].rcpt : j \in Due(work[n], id)}
          = {work[n].parts[held[i].part].rcpt : i \in Copies(held, n)}
    <2>1. ASSUME NEW x \in {work[n].parts[j].rcpt : j \in Due(work[n], id)}
          PROVE  x \in {work[n].parts[held[i].part].rcpt : i \in Copies(held, n)}
        <3>1. PICK j \in Due(v, id) : x = v.parts[j].rcpt
            BY <1>1, <2>1
        <3>2. PICK i \in Copies(held, n) : v.parts[held[i].part].rcpt = v.parts[j].rcpt
            BY <1>6
        <3> QED BY <1>1, <3>1, <3>2
    <2>2. ASSUME NEW x \in {work[n].parts[held[i].part].rcpt : i \in Copies(held, n)}
          PROVE  x \in {work[n].parts[j].rcpt : j \in Due(work[n], id)}
        BY <1>1, <1>7, <2>2
    <2> QED BY <2>1, <2>2
<1>10. \A i, k \in Copies(held, n) :
           work[n].parts[held[i].part].rcpt = work[n].parts[held[k].part].rcpt => i = k
    BY <1>1, <1>8
<1> QED BY <1>9, <1>10

(* When a service has answered, every part is with every session it mentions *)
(* that was there all the time, once however often a recipient was repeated  *)
(* (smtp.go:280-358, ldap.go:122, dns.go:247).                               *)
THEOREM AnsweredMeansCaptured == Spec => []AnsweredIsCaptured
BY CaptureInvariant, DeliveryInvariant, EachPartOnce, PTL

LEMMA OneTextEach == CaptureInv /\ DeliveryInv => RawTextOnce
<1> SUFFICES ASSUME CaptureInv, DeliveryInv, NEW n \in DOMAIN work
             PROVE  /\ \A b \in Buckets : OneEntry(n, b)
                    /\ \A s \in Sessions :
                          /\ OneBody(Held(s), n)
                          /\ s \in work[n].present /\ Copies(Held(s), n) # {} => Bodies(Held(s), n) # {}
    BY DEF RawTextOnce, OneEntry, OneBody
<1>1. MessageInv(n)
    BY DEF DeliveryInv
<1>2. ASSUME NEW s \in Sessions, s \in work[n].present, Copies(Held(s), n) # {}
      PROVE  Bodies(Held(s), n) # {}
    <2>1. PICK id \in IDs : owner[id] = s /\ s # None
        BY <1>1, <1>2 DEF MessageInv
    <2>2. SessionInv(work[n], n, Held(s), id, s)
        BY <1>1, <2>1 DEF MessageInv
    <2> QED BY <1>2, <2>2 DEF SessionInv, CopiesInv, PresentInv
<1> QED BY <1>1, <1>2 DEF MessageInv

(* A message is once in a bucket and its raw text once with a session, and   *)
(* once it is, not zero times (smtp.go:274-275).                             *)
THEOREM RawTextKeptOnce == Spec => []RawTextOnce
BY CaptureInvariant, DeliveryInvariant, OneTextEach, PTL
===============================================================================
