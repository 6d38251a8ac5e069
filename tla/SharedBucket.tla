----------------------------- MODULE SharedBucket -----------------------------
(***************************************************************************)
(* SharedBucket of oobsrv/storage.go: the append-only buffer behind the    *)
(* "extra" and "tlddata" of a poll response, read by every client through  *)
(* an offset of its own.  All three operations run under b.mu, so each is  *)
(* one action.  The n-th interaction ever appended is the number n.        *)
(***************************************************************************)
EXTENDS Integers, Sequences, FiniteSets

CONSTANTS
    Consumers,       \* correlation IDs that poll
    MaxBuffer,       \* maxBuffer; 0 or less never trims
    EvictionTTL,     \* evictionTTL, cfg.Eviction days as configured
    CleanupInterval, \* sharedBucketCleanupInterval, one minute
    MaxAppends,      \* bound: interactions appended
    MaxTime          \* bound: clock

ASSUME BucketAssumption ==
    /\ MaxBuffer \in Int /\ EvictionTTL \in Int /\ CleanupInterval \in Nat
    /\ MaxAppends \in Nat /\ MaxTime \in Nat

VARIABLES
    clock,        \* time.Now()
    interactions, \* the buffer
    offsets,      \* offsets[c]: entries of the buffer c has read (0 if absent)
    lastSeen,     \* lastSeen[c]: time of c's last read, -1 if absent
    lastCleanup,  \* time of the last cleanup
    appended,     \* history: interactions appended so far
    received,     \* history: received[c], what c was given, in order
    forgotten     \* history: c's offset was cleaned up since it first read

bucketVars == <<clock, interactions, offsets, lastSeen, lastCleanup, appended, received, forgotten>>

BucketInit ==
    /\ clock = 0
    /\ interactions = <<>>
    /\ offsets = [c \in Consumers |-> 0]
    /\ lastSeen = [c \in Consumers |-> -1]
    /\ lastCleanup = 0
    /\ appended = 0
    /\ received = [c \in Consumers |-> <<>>]
    /\ forgotten = [c \in Consumers |-> FALSE]

Tick ==
    /\ clock < MaxTime
    /\ clock' = clock + 1
    /\ UNCHANGED <<interactions, offsets, lastSeen, lastCleanup, appended, received, forgotten>>

\* Faulty variant: a trim starts every consumer afresh.
ShiftedToStart(offset) == 0

\* The buffer grows to twice maxBuffer, then its older half goes and every
\* offset moves with it, to the start at most.
Full(buffer) == MaxBuffer > 0 /\ Len(buffer) >= 2 * MaxBuffer

Trimmed(buffer) == SubSeq(buffer, MaxBuffer + 1, Len(buffer))

Shifted(offset) == IF offset > MaxBuffer THEN offset - MaxBuffer ELSE 0

AppendInteraction ==
    LET grown == Append(interactions, appended + 1)
    IN /\ appended < MaxAppends
       /\ appended' = appended + 1
       /\ IF Full(grown)
          THEN /\ interactions' = Trimmed(grown)
               /\ offsets' = [c \in Consumers |-> Shifted(offsets[c])]
          ELSE /\ interactions' = grown
               /\ UNCHANGED offsets
       /\ UNCHANGED <<clock, lastSeen, lastCleanup, received, forgotten>>

\* cleanupStaleLocked, run at the end of a read by c: the consumers it removes.
CleanupDue == clock - lastCleanup >= CleanupInterval

SeenBy(c) == [lastSeen EXCEPT ![c] = clock]

Removed(c) ==
    {d \in Consumers : /\ CleanupDue
                       /\ SeenBy(c)[d] # -1
                       /\ clock - SeenBy(c)[d] > EvictionTTL}

Unread(c) == SubSeq(interactions, offsets[c] + 1, Len(interactions))

\* ReadFrom: everything past the offset, nothing when there is nothing new.
ReadFrom(c) ==
    /\ received' = [received EXCEPT ![c] = @ \o Unread(c)]
    /\ offsets' = [d \in Consumers |-> IF d \in Removed(c) THEN 0
                                       ELSE IF d = c THEN Len(interactions)
                                       ELSE offsets[d]]
    /\ lastSeen' = [d \in Consumers |-> IF d \in Removed(c) THEN -1 ELSE SeenBy(c)[d]]
    /\ lastCleanup' = IF CleanupDue THEN clock ELSE lastCleanup
    /\ forgotten' = [d \in Consumers |-> forgotten[d] \/ d \in Removed(c)]
    /\ UNCHANGED <<clock, interactions, appended>>

BucketNext ==
    \/ Tick
    \/ AppendInteraction
    \/ \E c \in Consumers : ReadFrom(c)

BucketSpec == BucketInit /\ [][BucketNext]_bucketVars

-------------------------------------------------------------------------------
Increasing(s) == \A i, j \in DOMAIN s : i < j => s[i] < s[j]
WasGiven(c, item) == \E j \in DOMAIN received[c] : received[c][j] = item

\* A consumer the bucket has not forgotten gets each interaction at most once, in
\* the order of capture, and nothing that is still buffered is skipped: whatever
\* trims and cleanups of other consumers came in between, its offset splits the
\* buffer into what it was given and what it was not (storage.go:495-560).
InOrderOnce ==
    \A c \in Consumers : ~forgotten[c] =>
        /\ Increasing(received[c])
        /\ \A i \in DOMAIN interactions : (i <= offsets[c]) <=> WasGiven(c, interactions[i])
===============================================================================
