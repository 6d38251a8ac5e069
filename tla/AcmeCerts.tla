------------------------------- MODULE AcmeCerts -------------------------------
(***************************************************************************)
(* The ACME certificates of oobsrv/tls.go: provisionACME at startup, the   *)
(* evictor that runs every two hours, and certmagic's own renewal, all     *)
(* issuing through the DNS-01 records of acmeStore (dns.go).               *)
(*                                                                         *)
(* certmagic is external.  Its part here is Manage: one ManageSync of one  *)
(* subject, from the look into cache and storage to the certificate saved. *)
(* A token is named by the goroutine whose order it belongs to.  A         *)
(* certificate is "fresh", or "old": due for renewal and eviction.         *)
(***************************************************************************)
EXTENDS Naturals, Sequences, FiniteSets, SequencesExt

CONSTANTS
    Domains,     \* cfg.Domains, a sequence
    None,        \* no certificate
    MaxAges,     \* bound: certificates that become old
    MaxRestarts, \* bound: restarts of the server
    MaxFaults    \* bound: orders, reads and deletions that fail

ASSUME DomainsAssumption == Domains \in Seq(ToSet(Domains)) /\ Domains # <<>>
ASSUME FaultsAssumption == MaxAges \in Nat /\ MaxRestarts \in Nat /\ MaxFaults \in Nat
ASSUME NoCertAssumption == None \notin {"fresh", "old", "acme", "selfsigned"}

VARIABLES
    stored,      \* stored[s]: the certificate files of subject s
    cached,      \* cached[s]: what the TLS handshake finds
    records,     \* records[d]: TXT values of d's challenge name
    job,         \* job[a]: the ManageSync or renewal goroutine a is in
    provisioner, \* provisionACME: its place ("off": not used), what it counted
    evictor,     \* the evictor: its place, and the subject it is at
    disableARI,  \* cfg.DisableARI
    lost,        \* history: evicted, and the re-issue failed
    ages, restarts, faults

acmeVars == <<stored, cached, records, job, provisioner, evictor, disableARI, lost,
              ages, restarts, faults>>

Actors == {"provision", "evict", "renew"}
Certs == {None, "fresh", "old"}

\* newCertEvictor: each domain and its wildcard, in the order of the domains.
Subjects == [i \in 1 .. 2 * Len(Domains) |->
                <<Domains[(i + 1) \div 2], IF i % 2 = 1 THEN "apex" ELSE "wild">>]
SubjectSet == {Subjects[i] : i \in DOMAIN Subjects}
DomainSet == {Domains[i] : i \in DOMAIN Domains}

\* Both share one challenge name.
ChallengeName(s) == s[1]

Order(pc, s, result) == [pc |-> pc, subject |-> s, result |-> result]
NoOrder == Order("idle", None, "none")

NotProvisioned(pc) == [pc |-> pc, domain |-> 1, successes |-> 0, errors |-> 0, config |-> None]

AcmeAt(pc) ==
    /\ cached = [s \in SubjectSet |-> None]
    /\ records = [d \in DomainSet |-> <<>>]
    /\ job = [a \in Actors |-> NoOrder]
    /\ provisioner = NotProvisioned(pc)
    /\ evictor = [pc |-> "off", at |-> 1]
    /\ disableARI = FALSE
    /\ lost = {}
    /\ ages = 0 /\ restarts = 0 /\ faults = 0

\* provisionACME is called, with what an earlier run left on disk, or never is.
AcmeInit == AcmeAt("next") /\ stored \in [SubjectSet -> {None, "old"}]
AcmeIdle == AcmeAt("off") /\ stored = [s \in SubjectSet |-> None]

-------------------------------------------------------------------------------
(* acmeStore, through acmeProvider. *)

\* Faulty variant: a cleanup takes the sibling's token along.
DeleteAllRecords(values, v) == <<>>

AddRecord(values, v) == IF Contains(values, v) THEN values ELSE Append(values, v)

\* slices.DeleteFunc takes out at most one: Add keeps the values apart.
DeleteRecord(values, v) ==
    IF Contains(values, v)
    THEN RemoveAt(values, CHOOSE i \in DOMAIN values : values[i] = v)
    ELSE values

\* buildACMEResponse answers a TXT query with every value of the name.
TXTAnswer(d) == ToSet(records[d])

-------------------------------------------------------------------------------
(* One subject under certmagic's management, for goroutine a. *)

\* Nothing to do for a subject that is cached; a stored certificate is cached,
\* and renewed if it is old; else one is obtained.
ManageLook(a) ==
    LET s == job[a].subject
    IN /\ job[a].pc = "look"
       /\ IF cached[s] = None /\ stored[s] # None
          THEN cached' = [cached EXCEPT ![s] = stored[s]]
          ELSE UNCHANGED cached
       /\ job' = [job EXCEPT ![a] = IF cached[s] # None \/ stored[s] = "fresh"
                                    THEN Order("done", s, "ok")
                                    ELSE Order("lock", s, "none")]
       /\ UNCHANGED <<stored, records, provisioner, evictor, disableARI, lost, ages, restarts, faults>>

\* certmagic's lock per subject: who comes second finds what the first stored.
Unlocked(s) == \A b \in Actors : job[b].subject = s => job[b].pc \notin {"validate", "cleanup"}

Present(a) ==
    LET s == job[a].subject
        d == ChallengeName(s)
    IN /\ job[a].pc = "lock"
       /\ Unlocked(s)
       /\ IF stored[s] = "fresh"
          THEN /\ cached' = [cached EXCEPT ![s] = "fresh"]
               /\ job' = [job EXCEPT ![a] = Order("done", s, "ok")]
               /\ UNCHANGED records
          ELSE /\ records' = [records EXCEPT ![d] = AddRecord(@, a)]
               /\ job' = [job EXCEPT ![a] = Order("validate", s, "none")]
               /\ UNCHANGED cached
       /\ UNCHANGED <<stored, provisioner, evictor, disableARI, lost, ages, restarts, faults>>

\* The CA queries the challenge name: without the token the order fails.
ValidateOk(a) ==
    /\ job[a].pc = "validate"
    /\ a \in TXTAnswer(ChallengeName(job[a].subject))
    /\ job' = [job EXCEPT ![a].pc = "cleanup", ![a].result = "ok"]
    /\ UNCHANGED <<stored, cached, records, provisioner, evictor, disableARI, lost, ages, restarts, faults>>

\* Rate limits, network errors, the evictor's ten minutes are over; or the CA
\* refuses the ARI "replaces" field of a renewal.
ValidateFails(a) ==
    /\ faults < MaxFaults
    /\ faults' = faults + 1
    /\ job[a].pc = "validate"
    /\ \E result \in {"error", "ari"} :
          /\ result = "ari" => stored[job[a].subject] = "old" /\ ~disableARI
          /\ job' = [job EXCEPT ![a].pc = "cleanup", ![a].result = result]
    /\ UNCHANGED <<stored, cached, records, provisioner, evictor, disableARI, lost, ages, restarts>>

CleanUp(a) ==
    LET s == job[a].subject
        d == ChallengeName(s)
    IN /\ job[a].pc = "cleanup"
       /\ records' = [records EXCEPT ![d] = DeleteRecord(@, a)]
       /\ job' = [job EXCEPT ![a] = IF a = "renew" THEN NoOrder ELSE [@ EXCEPT !.pc = "done"]]
       /\ IF job[a].result = "ok"
          THEN /\ stored' = [stored EXCEPT ![s] = "fresh"]
               /\ cached' = [cached EXCEPT ![s] = "fresh"]
          ELSE UNCHANGED <<stored, cached>>
       /\ UNCHANGED <<provisioner, evictor, disableARI, lost, ages, restarts, faults>>

\* certmagic's maintenance renews a cached certificate that is old.
RenewInBackground(s) ==
    /\ job["renew"].pc = "idle"
    /\ cached[s] = "old"
    /\ job' = [job EXCEPT !["renew"] = Order("lock", s, "none")]
    /\ UNCHANGED <<stored, cached, records, provisioner, evictor, disableARI, lost, ages, restarts, faults>>

\* It gives up when another goroutine has issued the certificate or evicted it.
RenewDone ==
    /\ job["renew"].pc = "done"
    /\ job' = [job EXCEPT !["renew"] = NoOrder]
    /\ UNCHANGED <<stored, cached, records, provisioner, evictor, disableARI, lost, ages, restarts, faults>>

-------------------------------------------------------------------------------
(* provisionACME. *)

\* ManageSync of a domain and its wildcard begins with the domain.
ProvisionDomain ==
    /\ provisioner.pc = "next"
    /\ provisioner.domain <= Len(Domains)
    /\ provisioner' = [provisioner EXCEPT !.pc = "manage"]
    /\ job' = [job EXCEPT !["provision"] =
                  Order("look", <<Domains[provisioner.domain], "apex">>, "none")]
    /\ UNCHANGED <<stored, cached, records, evictor, disableARI, lost, ages, restarts, faults>>

Managed == provisioner.pc = "manage" /\ job["provision"].pc = "done"

\* The domain is managed, its wildcard is next; or both are.
ProvisionOk ==
    LET s == job["provision"].subject
    IN /\ Managed
       /\ job["provision"].result = "ok"
       /\ IF s[2] = "apex"
          THEN /\ job' = [job EXCEPT !["provision"] = Order("look", <<s[1], "wild">>, "none")]
               /\ UNCHANGED provisioner
          ELSE /\ job' = [job EXCEPT !["provision"] = NoOrder]
               /\ provisioner' = [provisioner EXCEPT !.pc = "next", !.domain = @ + 1,
                                                     !.successes = @ + 1]
       /\ UNCHANGED <<stored, cached, records, evictor, disableARI, lost, ages, restarts, faults>>

\* "ACME ARI replacement rejected": once more for the domain, without ARI.
ProvisionRetry ==
    /\ Managed
    /\ job["provision"].result = "ari" /\ ~disableARI
    /\ disableARI' = TRUE
    /\ job' = [job EXCEPT !["provision"] =
                  Order("look", <<Domains[provisioner.domain], "apex">>, "none")]
    /\ UNCHANGED <<stored, cached, records, provisioner, evictor, lost, ages, restarts, faults>>

ProvisionError ==
    /\ Managed
    /\ job["provision"].result \notin {"ok", "ari"} \/ (job["provision"].result = "ari" /\ disableARI)
    /\ job' = [job EXCEPT !["provision"] = NoOrder]
    /\ provisioner' = [provisioner EXCEPT !.pc = "next", !.domain = @ + 1, !.errors = @ + 1]
    /\ UNCHANGED <<stored, cached, records, evictor, disableARI, lost, ages, restarts, faults>>

\* The evictor starts whatever the result; then provisionTLS settles for the
\* ACME config or a self-signed certificate.
ProvisionDone ==
    /\ provisioner.pc = "next"
    /\ provisioner.domain > Len(Domains)
    /\ evictor' = [pc |-> "wait", at |-> 1]
    /\ provisioner' = [provisioner EXCEPT !.pc = "done",
                          !.config = IF provisioner.successes = 0 THEN "selfsigned" ELSE "acme"]
    /\ disableARI' = (disableARI /\ ~(provisioner.successes > 0 /\ provisioner.errors = 0))
    /\ UNCHANGED <<stored, cached, records, job, lost, ages, restarts, faults>>

-------------------------------------------------------------------------------
(* evictExpiring. *)

At == Subjects[evictor.at]

NextSubject == IF evictor.at = Len(Subjects) THEN [pc |-> "wait", at |-> 1]
                                             ELSE [pc |-> "check", at |-> evictor.at + 1]

EvictorTick ==
    /\ evictor.pc = "wait"
    /\ evictor' = [pc |-> "check", at |-> 1]
    /\ UNCHANGED <<stored, cached, records, job, provisioner, disableARI, lost, ages, restarts, faults>>

\* Faulty variant: a subject without need ends the round.
CheckEndsRound ==
    /\ evictor.pc = "check"
    /\ evictor' = IF stored[At] = "old" THEN [evictor EXCEPT !.pc = "uncache"]
                                        ELSE [pc |-> "wait", at |-> 1]
    /\ UNCHANGED <<stored, cached, records, job, provisioner, disableARI, lost, ages, restarts, faults>>

\* checkAndEvict: not provisioned or comfortably valid, or expiring.
Check ==
    /\ evictor.pc = "check"
    /\ evictor' = IF stored[At] = "old" THEN [evictor EXCEPT !.pc = "uncache"] ELSE NextSubject
    /\ UNCHANGED <<stored, cached, records, job, provisioner, disableARI, lost, ages, restarts, faults>>

\* The stored certificate could not be read or parsed: without a leaf the code
\* takes it for not provisioned.
CheckUnreadable ==
    /\ faults < MaxFaults
    /\ faults' = faults + 1
    /\ evictor.pc = "check"
    /\ evictor' = NextSubject
    /\ UNCHANGED <<stored, cached, records, job, provisioner, disableARI, lost, ages, restarts>>

\* evictOne: out of the cache, then out of the storage.
EvictCached ==
    /\ evictor.pc = "uncache"
    /\ cached' = [cached EXCEPT ![At] = None]
    /\ evictor' = [evictor EXCEPT !.pc = "delete"]
    /\ UNCHANGED <<stored, records, job, provisioner, disableARI, lost, ages, restarts, faults>>

\* Faulty variant: nothing is issued for what was deleted.
EvictStoredOnly ==
    /\ evictor.pc = "delete"
    /\ stored' = [stored EXCEPT ![At] = None]
    /\ evictor' = NextSubject
    /\ UNCHANGED <<cached, records, job, provisioner, disableARI, lost, ages, restarts, faults>>

\* ManageSync follows at once.
EvictStored ==
    /\ evictor.pc = "delete"
    /\ stored' = [stored EXCEPT ![At] = None]
    /\ evictor' = [evictor EXCEPT !.pc = "reissue"]
    /\ job' = [job EXCEPT !["evict"] = Order("look", At, "none")]
    /\ UNCHANGED <<cached, records, provisioner, disableARI, lost, ages, restarts, faults>>

\* The files could not be deleted: nothing is issued for them in this round.
EvictStoredFails ==
    /\ faults < MaxFaults
    /\ faults' = faults + 1
    /\ evictor.pc = "delete"
    /\ lost' = lost \union {At}
    /\ evictor' = NextSubject
    /\ UNCHANGED <<stored, cached, records, job, provisioner, disableARI, ages, restarts>>

\* "failed to re-issue certificate after eviction" is logged, no more.
Reissued ==
    /\ evictor.pc = "reissue"
    /\ job["evict"].pc = "done"
    /\ lost' = IF job["evict"].result = "ok" THEN lost \ {At} ELSE lost \union {At}
    /\ job' = [job EXCEPT !["evict"] = NoOrder]
    /\ evictor' = NextSubject
    /\ UNCHANGED <<stored, cached, records, provisioner, disableARI, ages, restarts, faults>>

-------------------------------------------------------------------------------
\* Time passes: a certificate becomes old, on disk and in memory.
GrowsOld(s) ==
    /\ ages < MaxAges
    /\ stored[s] = "fresh"
    /\ stored' = [stored EXCEPT ![s] = "old"]
    /\ cached' = [cached EXCEPT ![s] = IF @ = "fresh" THEN "old" ELSE @]
    /\ ages' = ages + 1
    /\ UNCHANGED <<records, job, provisioner, evictor, disableARI, lost, restarts, faults>>

\* The server goes down at any time and starts again; only the files stay.
AcmeRestart ==
    /\ provisioner.pc # "off"
    /\ restarts < MaxRestarts
    /\ restarts' = restarts + 1
    /\ cached' = [s \in SubjectSet |-> None]
    /\ records' = [d \in DomainSet |-> <<>>]
    /\ job' = [a \in Actors |-> NoOrder]
    /\ provisioner' = NotProvisioned("next")
    /\ evictor' = [pc |-> "off", at |-> 1]
    /\ disableARI' = FALSE
    /\ lost' = {}
    /\ UNCHANGED <<stored, ages, faults>>

Issuing(a) == ManageLook(a) \/ Present(a) \/ ValidateOk(a) \/ ValidateFails(a) \/ CleanUp(a)

Provisioning ==
    ProvisionDomain \/ ProvisionOk \/ ProvisionRetry \/ ProvisionError \/ ProvisionDone

Evicting ==
    \/ EvictorTick \/ Check \/ CheckUnreadable
    \/ EvictCached \/ EvictStored \/ EvictStoredFails \/ Reissued

AcmeNext ==
    \/ \E a \in Actors : Issuing(a)
    \/ \E s \in SubjectSet : RenewInBackground(s) \/ GrowsOld(s)
    \/ RenewDone
    \/ Provisioning
    \/ Evicting
    \/ AcmeRestart

\* Goroutines run, the ticker keeps firing, and failures are not for ever.
AcmeFairness ==
    /\ \A a \in Actors : WF_acmeVars(Issuing(a))
    /\ WF_acmeVars(Provisioning)
    /\ WF_acmeVars(Evicting)

-------------------------------------------------------------------------------
\* What the DNS service answers for a challenge name is the tokens of the orders
\* under way for it, each once: startup, evictor and renewal issue for a domain
\* and its wildcard at the same time without taking each other's token away
\* (dns.go:112-154, tls.go:83-118).
RecordsAreOrders ==
    \A d \in DomainSet :
        /\ TXTAnswer(d) = {a \in Actors : /\ job[a].pc \in {"validate", "cleanup"}
                                          /\ ChallengeName(job[a].subject) = d}
        /\ Len(records[d]) = Cardinality(TXTAnswer(d))

\* With the ACME config and no provisioning error, a subject is without a
\* certificate only while the evictor is replacing it, or after its re-issue
\* failed (tls.go:555-583).
GapExplained ==
    provisioner.config = "acme" /\ provisioner.errors = 0 =>
        \A s \in SubjectSet :
            cached[s] = None => s \in lost \/ (evictor.pc \in {"delete", "reissue"} /\ At = s)

\* An expiring stored certificate does not stay: it is renewed or evicted, also
\* when provisioning failed or another subject needs nothing (tls.go:413-416).
ExpiringHandled ==
    \A s \in SubjectSet : stored[s] = "old" ~> stored[s] # "old"

\* "periodically evicts expiring ACME certs so they get re-issued fresh"
\* (tls.go:507): what was evicted is served again some day.
EvictedIsReissued ==
    \A s \in SubjectSet :
        (evictor.pc = "reissue" /\ At = s) ~> cached[s] # None
===============================================================================
