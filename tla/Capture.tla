-------------------------------- MODULE Capture --------------------------------
(***************************************************************************)
(* From the protocol services to the answer of a poll: the capture path    *)
(* every service takes (server.go, dns.go, httpapi.go, smtp.go, ldap.go,   *)
(* ftp.go) and handlePoll (endpoints.go), over a store that keeps the      *)
(* promise of SessionStore and buckets that hand every reader every entry  *)
(* in order (SharedBucket, here without trims).                            *)
(*                                                                         *)
(* Message n is handled by goroutine n.  A message is a sequence of parts: *)
(* the recipients of a mail, else the one name that is asked for.  What a  *)
(* part's scan would find is its "mentions".                               *)
(***************************************************************************)
EXTENDS Naturals, Sequences, FiniteSets, SequencesExt

CONSTANTS
    IDs, Sessions,  \* correlation IDs; session objects
    WeakKeys,       \* sessions whose public key is too short for EncryptAESKey
    Domains,        \* cfg.Domains, a sequence
    None,
    Arrivals,       \* what may arrive: [service, op, parts]
    Pollers,        \* goroutines in handlePoll
    Wildcard,       \* cfg.Wildcard: there are tldBuckets
    Extra,          \* there is an extraBucket
    ScanEverywhere, \* cfg.ScanEverywhere
    MaxMessages,    \* bound: messages
    MaxParts,       \* bound: parts of all messages
    MaxPolls,       \* bound: polls
    MaxFaults       \* bound: appends the storage fails

ASSUME CaptureAssumption ==
    /\ Wildcard \in BOOLEAN /\ Extra \in BOOLEAN /\ ScanEverywhere \in BOOLEAN
    /\ MaxMessages \in Nat /\ MaxParts \in Nat /\ MaxPolls \in Nat /\ MaxFaults \in Nat
\* The configuration is refused without a domain (config.go).
ASSUME DomainsAssumption == Domains \in Seq(ToSet(Domains)) /\ Domains # <<>>
\* Domain and mentions of a recipient are read off its address.  Only a mail has
\* several parts; of LDAP and FTP only a search is scanned.
ASSUME ArrivalsAssumption ==
    \A a \in Arrivals :
        /\ a.service \in {"dns", "http", "smtp", "ldap", "ftp"}
        /\ a.parts \in Seq(ToSet(a.parts)) /\ a.parts # <<>>
        /\ \A part \in ToSet(a.parts) :
              part.domain \in ToSet(Domains) \union {None} /\ part.mentions \in Seq(IDs)
        /\ \A part, other \in ToSet(a.parts) : part.rcpt = other.rcpt => part = other
        /\ a.service # "smtp" => Len(a.parts) = 1
        /\ a.service \in {"ldap", "ftp"} /\ a.op # "search" => a.parts[1].mentions = <<>>

VARIABLES
    owner, opened, mailbox, delivered, \* the store, as in SessionStore
    log,       \* log[b]: what was appended to bucket b
    offset,    \* offset[b][id]: how much of it id has read
    work,      \* work[n]: the handler of message n
    counts,    \* counts[service]: the received and matched counters
    poll,      \* poll[p]: the handlePoll p is in
    answered,  \* history: answered[id], the bucket entries in answers to id
    polls, faults

storeVars == <<owner, opened, mailbox, delivered>>
captureVars == <<log, work, counts>>
pollVars == <<offset, poll, answered, polls>>
vars == <<storeVars, captureVars, pollVars, faults>>

DomainSet == {Domains[i] : i \in DOMAIN Domains}
Buckets == DomainSet \union {"extra"}
Services == {"dns", "http", "smtp", "ldap", "ftp"}
Numbers == 1 .. MaxMessages

\* A copy of a message in a mailbox: for one part, with the raw message or not.
Items == [msg : Numbers, part : Nat, body : BOOLEAN]

Store == INSTANCE SessionStore

NoPoll == [pc |-> "idle", id |-> None, session |-> None, data |-> <<>>, taken |-> {}, at |-> 1]

Init ==
    /\ Store!Init
    /\ log = [b \in Buckets |-> <<>>]
    /\ offset = [b \in Buckets |-> [id \in IDs |-> 0]]
    /\ work = <<>>
    /\ counts = [s \in Services |-> [received |-> 0, matched |-> 0]]
    /\ poll = [p \in Pollers |-> NoPoll]
    /\ answered = [id \in IDs |-> {}]
    /\ polls = 0 /\ faults = 0

-------------------------------------------------------------------------------
(* Arrival.  A handler that is at "answer" has nothing left to do but to     *)
(* send its answer, which is the last thing every service does.              *)

Part(n) == work[n].parts[work[n].part]
Service(n) == work[n].service

\* Other names than ours and ACME challenges are answered, not captured.
Ignored(a) ==
    \/ a.service = "dns" /\ (a.parts[1].domain = None \/ a.op = "acme")
    \/ a.service = "http" /\ a.parts[1].domain = None /\ ~ScanEverywhere

FirstStep(a) ==
    IF Ignored(a) THEN "answer"
    ELSE CASE a.service \in {"dns", "http"} -> "wildcard"
           [] a.service = "smtp"            -> "recipient"
           [] a.service \in {"ldap", "ftp"} -> "extra"

\* Every operation is counted, of FTP only the notification before it.
Counted(a) == a.op # "after"

Received == FoldSeq(LAMBDA w, parts : parts + Len(w.parts), 0, work)

Receive(a) ==
    /\ Len(work) < MaxMessages
    /\ Received + Len(a.parts) <= MaxParts
    /\ work' = Append(work,
          [service |-> a.service, op |-> a.op, parts |-> a.parts,
           pc |-> FirstStep(a),
           part |-> IF a.service = "smtp" THEN 0 ELSE 1,
           todo |-> <<>>, matches |-> <<>>, cids |-> {}, matched |-> FALSE,
           present |-> {owner[id] : id \in IDs} \ {None}])
    /\ counts' = IF Counted(a) THEN [counts EXCEPT ![a.service].received = @ + 1] ELSE counts
    /\ UNCHANGED <<storeVars, log, pollVars, faults>>

-------------------------------------------------------------------------------
(* The recipients of a mail (onSMTPData, captureSMTPInteraction). *)

Recipients(n, last) == {work[n].parts[j] : j \in 1 .. last}

\* Faulty variant: the second recipient of a domain is taken for a repetition.
RepeatedDomain(n, rcpt) ==
    \E earlier \in Recipients(n, work[n].part) : earlier.domain = rcpt.domain

Repeated(n, rcpt) == \E earlier \in Recipients(n, work[n].part) : earlier.rcpt = rcpt.rcpt

NextRecipient(n) ==
    /\ work[n].pc = "recipient"
    /\ work[n].part < Len(work[n].parts)
    /\ LET rcpt == work[n].parts[work[n].part + 1]
       IN work' = [work EXCEPT ![n].part = @ + 1,
                               ![n].pc = IF Repeated(n, rcpt) \/ rcpt.domain = None
                                         THEN "recipient" ELSE "wildcard"]
    /\ UNCHANGED <<storeVars, log, counts, pollVars, faults>>

NoMoreRecipients(n) ==
    /\ work[n].pc = "recipient"
    /\ work[n].part = Len(work[n].parts)
    /\ work' = [work EXCEPT ![n].pc = "answer"]
    /\ counts' = IF work[n].matched THEN [counts EXCEPT !["smtp"].matched = @ + 1] ELSE counts
    /\ UNCHANGED <<storeVars, log, pollVars, faults>>

-------------------------------------------------------------------------------
(* Buckets: captureWildcard, captureLDAPExtra, captureFTPInteraction. *)

\* A mail is in the bucket of a domain already.
InBucket(n, domain) ==
    Service(n) = "smtp" /\ \E earlier \in Recipients(n, work[n].part - 1) : earlier.domain = domain

CaptureWildcard(n) ==
    /\ work[n].pc = "wildcard"
    /\ LET domain == Part(n).domain
       IN log' = IF Wildcard /\ domain # None /\ ~InBucket(n, domain)
                 THEN [log EXCEPT ![domain] = Append(@, n)]
                 ELSE log
    /\ work' = [work EXCEPT ![n].pc = "capture", ![n].todo = Part(n).mentions]
    /\ UNCHANGED <<storeVars, counts, pollVars, faults>>

\* Only an LDAP search goes on to the sessions.
CaptureExtra(n) ==
    /\ work[n].pc = "extra"
    /\ log' = IF Extra THEN [log EXCEPT !["extra"] = Append(@, n)] ELSE log
    /\ work' = [work EXCEPT ![n].pc = IF work[n].op = "search" THEN "capture" ELSE "answer",
                            ![n].todo = IF work[n].op = "search" THEN Part(n).mentions ELSE <<>>]
    /\ UNCHANGED <<storeVars, counts, pollVars, faults>>

-------------------------------------------------------------------------------
(* Sessions: the matching scan, one look at the store per mention, then one  *)
(* AppendInteraction per match (matchesContain, seen: an ID matches once).   *)

LookUp(n) ==
    /\ work[n].pc = "capture"
    /\ work[n].todo # <<>>
    /\ LET id == Head(work[n].todo)
           found == id \notin ToSet(work[n].matches) /\ owner[id] # None
       IN work' = [work EXCEPT
              ![n].todo = Tail(@),
              ![n].matches = IF found THEN Append(@, id) ELSE @,
              ![n].matched = @ \/ (found /\ Service(n) \in {"dns", "http"})]
    /\ UNCHANGED <<storeVars, log, counts, pollVars, faults>>

\* Faulty variant: every copy of a mail has the raw message.
WithBodyAlways(n, id) == TRUE

WithBody(n, id) == Service(n) = "smtp" => id \notin work[n].cids

Storing(n) == work[n].pc = "capture" /\ work[n].todo = <<>> /\ work[n].matches # <<>>

\* The next match; a mail's correlation ID is seen before the copy is stored.
Stored(n, ok) ==
    [work EXCEPT ![n].matches = Tail(@),
                 ![n].cids = @ \union {Head(work[n].matches)},
                 ![n].matched = @ \/ (ok /\ Service(n) = "smtp")]

StoreMatched(n) ==
    /\ Storing(n)
    /\ LET id == Head(work[n].matches)
       IN /\ owner[id] # None
          /\ Store!Accept(owner[id],
                 [msg |-> n, part |-> work[n].part, body |-> WithBody(n, id)])
    /\ work' = Stored(n, TRUE)
    /\ UNCHANGED <<log, counts, pollVars, faults>>

\* "failed to store interaction": the session has left.
StoreGone(n) ==
    /\ Storing(n)
    /\ owner[Head(work[n].matches)] = None
    /\ work' = Stored(n, FALSE)
    /\ UNCHANGED <<storeVars, log, counts, pollVars, faults>>

\* "failed to store interaction": the disk could not be written.
StoreFails(n) ==
    /\ Storing(n)
    /\ owner[Head(work[n].matches)] # None
    /\ faults < MaxFaults
    /\ faults' = faults + 1
    /\ work' = [Stored(n, FALSE) EXCEPT ![n].present = @ \ {owner[Head(work[n].matches)]}]
    /\ UNCHANGED <<storeVars, log, counts, pollVars>>

Captured(n) ==
    /\ work[n].pc = "capture" /\ work[n].todo = <<>> /\ work[n].matches = <<>>
    /\ work' = [work EXCEPT ![n].pc = IF Service(n) = "smtp" THEN "recipient" ELSE "answer"]
    /\ counts' = IF work[n].matched /\ Service(n) # "smtp"
                 THEN [counts EXCEPT ![Service(n)].matched = @ + 1] ELSE counts
    /\ UNCHANGED <<storeVars, log, pollVars, faults>>

-------------------------------------------------------------------------------
(* Sessions come and go; "present" forgets those that went. *)

Register(id) ==
    /\ owner[id] = None
    /\ Store!Open(id, Cardinality(opened) + 1, {})
    /\ UNCHANGED <<captureVars, pollVars, faults>>

Leave(id) ==
    /\ owner[id] # None
    /\ Store!Close({id})
    /\ work' = [n \in DOMAIN work |-> [work[n] EXCEPT !.present = @ \ {owner[id]}]]
    /\ UNCHANGED <<log, counts, pollVars, faults>>

-------------------------------------------------------------------------------
(* handlePoll. *)

\* Faulty variants: the buckets are read before the key is encrypted, or first.
PollOrderKeyLast == <<"drain", "extra", "tld", "key", "answer">>
PollOrderBucketsFirst == <<"extra", "tld", "drain", "key", "answer">>

PollOrder == <<"drain", "key", "extra", "tld", "answer">>

After(pc) == PollOrder[(CHOOSE i \in DOMAIN PollOrder : PollOrder[i] = pc) + 1]
Go(p) == [poll EXCEPT ![p].pc = After(@)]

PollStart(p, id) ==
    /\ poll[p].pc = "idle"
    /\ polls < MaxPolls
    /\ polls' = polls + 1
    /\ owner[id] # None
    /\ poll' = [poll EXCEPT ![p] = [NoPoll EXCEPT !.pc = PollOrder[1], !.id = id,
                                                  !.session = owner[id]]]
    /\ UNCHANGED <<storeVars, captureVars, offset, answered, faults>>

PollDrain(p) ==
    /\ poll[p].pc = "drain"
    /\ Store!Drain(poll[p].session)
    /\ poll' = [Go(p) EXCEPT ![p].data = mailbox[poll[p].session]]
    /\ UNCHANGED <<captureVars, offset, answered, polls, faults>>

NeedsKey(p) == poll[p].data # <<>>

PollKey(p) ==
    /\ poll[p].pc = "key"
    /\ ~(NeedsKey(p) /\ poll[p].session \in WeakKeys)
    /\ poll' = Go(p)
    /\ UNCHANGED <<storeVars, captureVars, offset, answered, polls, faults>>

\* "encryption failed": an error instead of an answer.
PollKeyFails(p) ==
    /\ poll[p].pc = "key"
    /\ NeedsKey(p) /\ poll[p].session \in WeakKeys
    /\ poll' = [poll EXCEPT ![p] = NoPoll]
    /\ UNCHANGED <<storeVars, captureVars, offset, answered, polls, faults>>

ReadFrom(p, b) ==
    /\ offset' = [offset EXCEPT ![b][poll[p].id] = Len(log[b])]
    /\ UNCHANGED <<storeVars, captureVars, answered, polls, faults>>

TakenFrom(p, b) == {<<b, i>> : i \in offset[b][poll[p].id] + 1 .. Len(log[b])}

PollExtra(p) ==
    /\ poll[p].pc = "extra"
    /\ ReadFrom(p, "extra")
    /\ poll' = [Go(p) EXCEPT ![p].taken = @ \union TakenFrom(p, "extra")]

\* One domain's bucket after the other.
PollTLD(p) ==
    /\ poll[p].pc = "tld"
    /\ LET domain == Domains[poll[p].at]
           last == poll[p].at = Len(Domains)
       IN /\ ReadFrom(p, domain)
          /\ poll' = [poll EXCEPT ![p].taken = @ \union TakenFrom(p, domain),
                                  ![p].pc = IF last THEN After("tld") ELSE "tld",
                                  ![p].at = IF last THEN 1 ELSE @ + 1]

PollAnswer(p) ==
    /\ poll[p].pc = "answer"
    /\ answered' = [answered EXCEPT ![poll[p].id] = @ \union poll[p].taken]
    /\ poll' = [poll EXCEPT ![p] = NoPoll]
    /\ UNCHANGED <<storeVars, captureVars, offset, polls, faults>>

-------------------------------------------------------------------------------
Handle(n) ==
    \/ NextRecipient(n) \/ NoMoreRecipients(n)
    \/ CaptureWildcard(n) \/ CaptureExtra(n)
    \/ LookUp(n) \/ StoreMatched(n) \/ StoreGone(n) \/ StoreFails(n)
    \/ Captured(n)

HandlePoll(p) ==
    \/ \E id \in IDs : PollStart(p, id)
    \/ PollDrain(p) \/ PollKey(p) \/ PollKeyFails(p)
    \/ PollExtra(p) \/ PollTLD(p) \/ PollAnswer(p)

\* Nothing needs to happen: every call has returned.
Quiet ==
    /\ work # <<>>
    /\ \A n \in DOMAIN work : work[n].pc = "answer"
    /\ \A p \in Pollers : poll[p].pc = "idle"
    /\ UNCHANGED vars

Next ==
    \/ \E a \in Arrivals : Receive(a)
    \/ \E n \in DOMAIN work : Handle(n)
    \/ \E id \in IDs : Register(id) \/ Leave(id)
    \/ \E p \in Pollers : HandlePoll(p)
    \/ Quiet

Spec == Init /\ [][Next]_vars

-------------------------------------------------------------------------------
\* What was ever accepted for s, in order, and which of it are copies of n.
Held(s) == delivered[s] \o mailbox[s]
Copies(held, n) == {i \in DOMAIN held : held[i].msg = n}
Bodies(held, n) == {i \in Copies(held, n) : held[i].body}

\* The parts of which id must get a copy.
Due(w, id) ==
    {j \in DOMAIN w.parts : /\ id \in ToSet(w.parts[j].mentions)
                            /\ w.service = "smtp" => w.parts[j].domain # None}

\* The bucket the capture of a part goes to besides the sessions.
BucketOf(n, part) ==
    IF Service(n) \in {"ldap", "ftp"}
    THEN IF Extra THEN "extra" ELSE None
    ELSE IF Wildcard THEN work[n].parts[part].domain ELSE None

\* What a poll answers from the session, its client has from the buckets too,
\* in this answer or from another poll: captures write the bucket before the
\* sessions (server.go:337-348, ldap.go:122-126), polls read them in the other
\* order (endpoints.go:142-187).
WildcardNotBehind ==
    \A p \in Pollers : poll[p].pc = "answer" =>
        \A e \in ToSet(poll[p].data) :
            LET b == BucketOf(e.msg, e.part)
            IN b # None => \E i \in 1 .. offset[b][poll[p].id] : log[b][i] = e.msg

\* What a client's offsets say it has read is in an answer to it or in one
\* being made: a poll that fails with "encryption failed" takes nothing from
\* the buckets (endpoints.go:159-166).
OffsetsAnswered ==
    \A id \in IDs :
        UNION {{b} \X (1 .. offset[b][id]) : b \in Buckets}
            = answered[id] \union UNION {poll[p].taken : p \in {q \in Pollers : poll[q].id = id}}

\* When the service has answered, every part is with every session it mentions
\* that was there all the time, once however often a recipient was repeated
\* ("Capture interactions before sending response", ldap.go:122, dns.go:247).
AnsweredIsCaptured ==
    \A n \in DOMAIN work : work[n].pc = "answer" /\ ~Ignored(work[n]) =>
        \A id \in IDs : owner[id] \in work[n].present =>
            LET held == Held(owner[id])
                rcpt(i) == work[n].parts[held[i].part].rcpt
            IN /\ {work[n].parts[j].rcpt : j \in Due(work[n], id)} = {rcpt(i) : i \in Copies(held, n)}
               /\ \A i, k \in Copies(held, n) : rcpt(i) = rcpt(k) => i = k

\* One message is kept once per domain and its raw text once per correlation
\* ID (smtp.go:274-275): never twice, and not zero times for a session that was
\* there all the time.
RawTextOnce ==
    \A n \in DOMAIN work :
        /\ \A b \in Buckets : \A i, k \in DOMAIN log[b] : log[b][i] = n /\ log[b][k] = n => i = k
        /\ \A s \in Sessions :
              /\ \A i, k \in Bodies(Held(s), n) : i = k
              /\ s \in work[n].present /\ Copies(Held(s), n) # {} => Bodies(Held(s), n) # {}

===============================================================================
