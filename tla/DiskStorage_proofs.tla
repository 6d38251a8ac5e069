-------------------------- MODULE DiskStorage_proofs ---------------------------
(***************************************************************************)
(* Theorems about DiskStorage for every value of its constants.  The map   *)
(* is the one of MemoryStorage, so its inductive invariant is kept; what   *)
(* is added says which lock a process holds at each step of its LevelDB    *)
(* work, what it may assume of the record it read while it holds it, and   *)
(* where the entries of one session can be.                                *)
(***************************************************************************)
EXTENDS DiskStorage, MemoryStorage_proofs

IOSteps == {"none", "appendLock", "appendPut", "drainDelete", "onEvict"}
InIO == [step : IOSteps, data : Seq(Entry), gone : Ptr \union {None}]

DiskTypes ==
    /\ db \in [IDs -> Seq(Entry)]
    /\ mu \in [Ptr -> Procs \union {None}]
    /\ io \in [Procs -> InIO]
    /\ closed \in BOOLEAN
    /\ drained \in [Ptr -> Seq(Entry)]

\* Between its read and its write a call holds the mutex of its session.
HoldsMutex(p) == io[p].step \in {"appendPut", "drainDelete"}

\* The session an append found stays the one mapped from its ID, because every
\* change of the map waits for RLock to be given back.
HoldInv ==
    \A p \in Procs :
        /\ HoldsRLock(p) => /\ frame[p].pc = "appendStore"
                            /\ frame[p].id \in IDs
                            /\ store.sessions[frame[p].id] = frame[p].ptr
        /\ io[p].step = "drainDelete" => frame[p].pc = "handle"
        /\ HoldsMutex(p) => mu[frame[p].ptr] = p

\* What an append read is its session's, and still what the record holds, but
\* for a drain of a stale handle or a Close that emptied it.
AppendInv ==
    \A p \in Procs : io[p].step = "appendPut" =>
        /\ \A i \in DOMAIN io[p].data : io[p].data[i].key = frame[p].ptr
        /\ db[frame[p].id] \in {io[p].data, <<>>}

\* What a drain read of the session that is still mapped is what the record
\* holds, but for a drain of a stale handle.
DrainInv ==
    \A p \in Procs :
        io[p].step = "drainDelete" /\ store.sessions[frame[p].id] = frame[p].ptr =>
            db[frame[p].id] \in {io[p].data, <<>>}

\* While onEvict waits, m.mu is held: no append is under way, and the ID the
\* session had is free.
HookInv ==
    \A p \in Procs : io[p].step = "onEvict" =>
        /\ io[p].gone \in Ptr
        /\ store.sessions[heap[io[p].gone].id] = None
        /\ NoReader

ClosedInv == closed => \A id \in IDs : db[id] = <<>>

RecordInv == RecordsBelongToSession /\ AppendInv /\ DrainInv /\ ClosedInv

Mentions(list, n) == \E i \in DOMAIN list : list[i].item = n

\* Interaction n was written, read or returned somewhere.
Known(n) ==
    \/ \E id \in IDs : Mentions(db[id], n)
    \/ \E p \in Procs : Mentions(io[p].data, n)
    \/ \E s \in Ptr : Mentions(drained[s], n)

\* An interaction is written by the one append that was called with it.
FreshInv ==
    /\ \A n \in Items : Known(n) => n <= captured
    /\ \A p \in Procs : HoldsRLock(p) => frame[p].item <= captured /\ ~Known(frame[p].item)
    /\ \A p, q \in Procs :
          HoldsRLock(p) /\ HoldsRLock(q) /\ frame[p].item = frame[q].item => p = q

\* No entry of list that session s can decrypt was returned for s before.
NewFor(list, s) ==
    \A i \in DOMAIN list : list[i].key = s => ~Holds(drained[s], list[i])

OnceInv ==
    /\ \A id \in IDs : Distinct(db[id]) /\ \A s \in Ptr : NewFor(db[id], s)
    /\ \A p \in Procs : HoldsMutex(p) => /\ Distinct(io[p].data)
                                         /\ NewFor(io[p].data, frame[p].ptr)
    /\ DecryptableOnce

DiskInv ==
    /\ IInv /\ LockInv
    /\ DiskTypes /\ HoldInv /\ HookInv /\ RecordInv /\ FreshInv /\ OnceInv

-------------------------------------------------------------------------------
LEMMA DiskTypesOpen ==
    ASSUME DiskInv
    PROVE  /\ db \in [IDs -> Seq(Entry)]
           /\ mu \in [Ptr -> Procs \union {None}]
           /\ io \in [Procs -> InIO]
           /\ drained \in [Ptr -> Seq(Entry)]
           /\ frame \in [Procs -> Frame]
           /\ heap \in [Ptr -> Session]
           /\ store.sessions \in [IDs -> Ptr \union {None}]
           /\ captured \in Nat
BY BoundAssumption DEF DiskInv, DiskTypes, IInv, TypeOK, Store

LEMMA NothingKnown ==
    /\ <<>> \in Seq(Entry)
    /\ Distinct(<<>>)
    /\ \A s : NewFor(<<>>, s)
    /\ \A n : ~Mentions(<<>>, n)
    /\ DOMAIN <<>> = {}
<1>1. <<>> \in Seq(Entry)
    OBVIOUS
<1>2. DOMAIN <<>> = {}
    OBVIOUS
<1> QED BY <1>1, <1>2 DEF Distinct, NewFor, Mentions

LEMMA NoIOTyped == NoIO \in InIO
<1>1. PICK e : e = <<>>
    OBVIOUS
<1>2. e \in Seq(Entry)
    BY <1>1
<1>3. NoIO = [step |-> "none", data |-> e, gone |-> None]
    BY <1>1 DEF NoIO, AtIO
<1> QED BY <1>2, <1>3 DEF IOSteps, InIO

\* The process whose LevelDB step this is has its interaction and its session.
LEMMA OwnFrame ==
    ASSUME DiskInv, NEW p \in Procs, io[p].step \notin {"none", "onEvict"}
    PROVE  /\ frame[p].id \in IDs
           /\ frame[p].ptr \in Ptr
           /\ HoldsRLock(p) => frame[p].item \in Items /\ EntryOf(p) \in Entry
           /\ io[p].step = "drainDelete" => heap[frame[p].ptr].id = frame[p].id
<1>1. FrameOK(frame[p])
    BY DEF DiskInv, IInv, FramesOK
<1>2. \A n \in 1 .. counters.sessionsTotal : n \in Ptr
    BY Types DEF DiskInv, IInv
<1>3. io[p].step \in IOSteps
    BY DiskTypesOpen DEF InIO
<1>4. CASE io[p].step = "drainDelete"
    <2>1. frame[p].pc = "handle"
        BY <1>4 DEF DiskInv, HoldInv
    <2> QED BY <1>1, <1>2, <1>4, <2>1 DEF FrameOK, HoldsRLock
<1>5. CASE HoldsRLock(p)
    <2>1. frame[p].pc = "appendStore" /\ frame[p].id \in IDs
        BY <1>5 DEF DiskInv, HoldInv
    <2>2. frame[p].ptr \in Ptr /\ frame[p].item \in Items
        BY <1>1, <1>2, <2>1 DEF FrameOK
    <2> QED BY <1>5, <2>1, <2>2 DEF HoldsRLock, EntryOf, Entry
<1> QED BY <1>3, <1>4, <1>5 DEF HoldsRLock, IOSteps

\* A mapped session is the one that was made for its ID.
LEMMA MappedOwn ==
    ASSUME DiskInv, NEW id \in IDs, store.sessions[id] # None
    PROVE  heap[store.sessions[id]].id = id
BY FoundFrame DEF DiskInv

LEMMA RecordsKeyed ==
    ASSUME DiskInv, NEW id \in IDs, NEW i \in DOMAIN db[id]
    PROVE  db[id][i].key \in Ptr
<1>1. db[id] \in Seq(Entry)
    BY DiskTypesOpen
<1>2. db[id][i] \in Entry
    BY <1>1
<1> QED BY <1>2 DEF Entry

-------------------------------------------------------------------------------
(* Calls of memoryStorage. *)

\* A session that leaves the map is the only one to, and leaves its ID free.
RemovesOne ==
    \A id \in IDs : Leaves(id) =>
        heap' = heap /\ store'.sessions = [store.sessions EXCEPT ![id] = None]

LEMMA RemovalRemovesOne ==
    ASSUME store \in Store, NEW id \in IDs, store' = RemoveLocked(store, id), heap' = heap
    PROVE  RemovesOne
BY DEF RemoveLocked, Store, Leaves, RemovesOne

LEMMA SameSessionsRemoveNone ==
    ASSUME store'.sessions = store.sessions
    PROVE  RemovesOne
BY DEF Leaves, RemovesOne

LEMMA RegisterRemovesOne ==
    ASSUME IInv, LockInv, NEW p \in Procs, Register(p)
    PROVE  RemovesOne
<1>1. store \in Store /\ frame[p] \in Frame
    BY Types DEF IInv
<1>2. ASSUME NEW id \in IDs, NEW secret \in Secrets, RegisterMiss(p, id, secret)
      PROVE  RemovesOne
    <2>1. heap' = heap /\ (store' = store \/ store' = RemoveLocked(store, id))
        BY <1>2 DEF RegisterMiss, Swept
    <2> QED BY <1>1, <2>1, RemovalRemovesOne, SameSessionsRemoveNone
<1>3. CASE Evict(p)
    <2>1. PICK v : v = frame[p].scan.victim
        OBVIOUS
    <2>2. heap' = heap /\ (v = None \/ store' = RemoveLocked(store, v))
        BY <1>3, <2>1 DEF Evict
    <2>3. v = None => store' = store
        BY <1>3, <2>1 DEF Evict
    <2>4. v \in IDs \union {None}
        BY <1>1, <2>1 DEF Frame, Scan
    <2> QED BY <1>1, <2>2, <2>3, <2>4, RemovalRemovesOne, SameSessionsRemoveNone
<1>4. ASSUME NEW id \in IDs, NEW secret \in Secrets,
             RegisterKeepAlive(p, id, secret) \/ RegisterConflict(p, id, secret)
      PROVE  RemovesOne
    BY <1>1, <1>4, PromoteKeepsSessions, SameSessionsRemoveNone
       DEF RegisterKeepAlive, RegisterConflict
<1>5. CASE Probe(p)
    BY <1>5, ProbeCompares, SameSessionsRemoveNone
<1>6. CASE RegisterNew(p)
    <2>1. frame[p].id \notin Live(store) /\ frame[p].id \in IDs
        BY <1>6 DEF RegisterNew, LockInv, HoldsRoom, InRegister, IInv, FramesOK, FrameOK
    <2>2. PICK s : store' = Insert(store, frame[p].id, s)
        BY <1>6 DEF RegisterNew
    <2> QED BY <1>1, <2>1, <2>2 DEF Insert, Store, Leaves, Live, RemovesOne
<1>7. CASE RegisterKeyError(p)
    BY <1>7, SameSessionsRemoveNone DEF RegisterKeyError
<1> QED BY <1>2, <1>3, <1>4, <1>5, <1>6, <1>7 DEF Register

\* What a step of such a call of p does to what the invariant speaks of.
QuietStep(p) ==
    /\ Free(p)
    /\ \A q \in Procs \ {p} : frame'[q] = frame[q]
    /\ captured' = captured
    /\ UNCHANGED <<mu, closed, drained>>
    /\ \/ UNCHANGED <<store, db, io>> /\ \A s \in Ptr : heap'[s].id = heap[s].id
       \/ NoReader /\ NoHook /\ Hooks(p) /\ RemovesOne

LEMMA QuietStepKeepsLocks ==
    ASSUME DiskInv, NEW p \in Procs, QuietStep(p)
    PROVE  /\ \A q \in Procs \ {p} : io'[q] = io[q] /\ frame'[q] = frame[q]
           /\ io' \in [Procs -> InIO]
           /\ io'[p].step \in {"none", "onEvict"}
           /\ io'[p].data \in {io[p].data, <<>>}
           /\ \A q \in Procs : HoldsRLock(q)' => HoldsRLock(q) /\ q # p
           /\ \A q \in Procs : HoldsMutex(q)' => HoldsMutex(q) /\ q # p
           /\ \A id \in IDs : db'[id] = db[id] \/ db'[id] = <<>>
           /\ db' \in [IDs -> Seq(Entry)]
<1>1. Free(p) /\ \A q \in Procs \ {p} : frame'[q] = frame[q]
    BY DEF QuietStep
<1>2. CASE UNCHANGED <<store, db, io>>
    BY <1>1, <1>2, DiskTypesOpen DEF Free, HoldsRLock, HoldsMutex
<1>3. ASSUME NEW id \in IDs, Leaves(id), db' = db,
             io' = [io EXCEPT ![p] = AtIO("onEvict", <<>>, store.sessions[id])]
      PROVE  /\ \A q \in Procs \ {p} : io'[q] = io[q]
             /\ io' \in [Procs -> InIO]
             /\ io'[p].step = "onEvict" /\ io'[p].data = <<>>
    <2>1. PICK e : e = AtIO("onEvict", <<>>, store.sessions[id])
        OBVIOUS
    <2>2. e \in InIO /\ e.step = "onEvict" /\ e.data = <<>>
        <3>1. PICK d : d = <<>>
            OBVIOUS
        <3>2. d \in Seq(Entry)
            BY <3>1, NothingKnown
        <3>3. e = [step |-> "onEvict", data |-> d, gone |-> store.sessions[id]]
            BY <2>1, <3>1 DEF AtIO
        <3> QED BY <3>1, <3>2, <3>3, DiskTypesOpen DEF InIO, IOSteps
    <2> QED BY <1>3, <2>1, <2>2, DiskTypesOpen
<1>4. CASE Hooks(p)
    <2>1. CASE \E id \in IDs : Leaves(id) /\ db' = db
                  /\ io' = [io EXCEPT ![p] = AtIO("onEvict", <<>>, store.sessions[id])]
        <3>1. /\ \A q \in Procs \ {p} : io'[q] = io[q]
              /\ io' \in [Procs -> InIO]
              /\ io'[p].step = "onEvict" /\ io'[p].data = <<>> /\ db' = db
            BY <1>3, <2>1
        <3> QED BY <1>1, <3>1, DiskTypesOpen DEF HoldsRLock, HoldsMutex
    <2>2. CASE /\ io' = io
               /\ db' = [id \in IDs |-> IF store'.sessions[id] # store.sessions[id] /\ ~closed
                                        THEN <<>> ELSE db[id]]
        <3>1. \A id \in IDs : db'[id] = db[id] \/ db'[id] = <<>>
            BY <2>2
        <3>2. db' \in [IDs -> Seq(Entry)]
            <4>1. \A id \in IDs : db[id] \in Seq(Entry)
                BY DiskTypesOpen
            <4> QED BY <2>2, <4>1, NothingKnown
        <3> QED BY <1>1, <2>2, <3>1, <3>2, DiskTypesOpen DEF Free, HoldsRLock, HoldsMutex
    <2> QED BY <1>4, <2>1, <2>2 DEF Hooks
<1> QED BY <1>2, <1>4 DEF QuietStep

\* What the hooks do to the record of one ID.
LEMMA HooksKeepRecords ==
    ASSUME DiskInv, NEW p \in Procs, NoHook, Hooks(p), RemovesOne, NEW id \in IDs
    PROVE  /\ Leaves(id) => /\ io'[p].step = "onEvict" /\ io'[p].gone = store.sessions[id]
                            /\ heap' = heap
           /\ store'.sessions[id] = store.sessions[id] => db'[id] = db[id]
           /\ store'.sessions[id] \notin {store.sessions[id], None} => db'[id] = <<>>
<1>1. CASE \E x \in IDs : Leaves(x) /\ db' = db
              /\ io' = [io EXCEPT ![p] = AtIO("onEvict", <<>>, store.sessions[x])]
    <2>1. PICK x \in IDs : Leaves(x) /\ db' = db
              /\ io' = [io EXCEPT ![p] = AtIO("onEvict", <<>>, store.sessions[x])]
        BY <1>1
    <2>2. heap' = heap /\ store'.sessions = [store.sessions EXCEPT ![x] = None]
        BY <2>1 DEF RemovesOne
    <2>3. store'.sessions[id] = IF id = x THEN None ELSE store.sessions[id]
        BY <2>2, DiskTypesOpen
    <2>4. Leaves(id) => id = x
        BY <2>3 DEF Leaves
    <2>5. io'[p].step = "onEvict" /\ io'[p].gone = store.sessions[x]
        BY <2>1, DiskTypesOpen DEF AtIO
    <2> QED BY <2>1, <2>2, <2>3, <2>4, <2>5
<1>2. CASE /\ \A x \in IDs : ~Leaves(x)
           /\ db' = [x \in IDs |-> IF store'.sessions[x] # store.sessions[x] /\ ~closed
                                   THEN <<>> ELSE db[x]]
    BY <1>2 DEF DiskInv, RecordInv, ClosedInv
<1> QED BY <1>1, <1>2 DEF Hooks

LEMMA QuietStepKeepsRecordInv ==
    ASSUME DiskInv, NEW p \in Procs, QuietStep(p)
    PROVE  RecordInv'
<1>1. /\ \A q \in Procs \ {p} : io'[q] = io[q] /\ frame'[q] = frame[q]
      /\ io'[p].step \in {"none", "onEvict"}
      /\ \A id \in IDs : db'[id] = db[id] \/ db'[id] = <<>>
      /\ closed' = closed /\ Free(p)
    BY QuietStepKeepsLocks DEF QuietStep
<1>2. RecordsBelongToSession'
    <2> SUFFICES ASSUME NEW id \in IDs, NEW i \in DOMAIN db'[id]
                 PROVE  \/ db'[id][i].key = store'.sessions[id]
                        \/ /\ heap'[db'[id][i].key].id = id
                           /\ \E q \in Procs : /\ io'[q].step = "onEvict"
                                              /\ io'[q].gone = db'[id][i].key
        BY DEF RecordsBelongToSession, BeingEvicted
    <2>1. PICK key : key = db[id][i].key
        OBVIOUS
    <2>2. db'[id] = db[id] /\ i \in DOMAIN db[id]
        BY <1>1, NothingKnown
    <2>3. key \in Ptr
        BY <2>1, <2>2, RecordsKeyed
    <2>4. key = store.sessions[id] \/ BeingEvicted(id, key)
        BY <2>1, <2>2 DEF DiskInv, RecordInv, RecordsBelongToSession
    <2>5. CASE UNCHANGED <<store, db, io>> /\ \A s \in Ptr : heap'[s].id = heap[s].id
        BY <2>1, <2>2, <2>3, <2>4, <2>5 DEF BeingEvicted
    <2>6. CASE NoHook /\ Hooks(p) /\ RemovesOne
        <3>1. key = store.sessions[id] /\ key # None
            BY <2>3, <2>4, <2>6, NoneAssumption DEF BeingEvicted, NoHook
        <3>2. CASE Leaves(id)
            <4>1. io'[p].step = "onEvict" /\ io'[p].gone = key /\ heap' = heap
                BY <2>6, <3>1, <3>2, HooksKeepRecords
            <4>2. heap'[key].id = id
                BY <3>1, <4>1, MappedOwn
            <4> QED BY <2>1, <2>2, <4>1, <4>2 DEF BeingEvicted
        <3>3. CASE ~Leaves(id)
            BY <2>1, <2>2, <3>1, <3>3 DEF Leaves
        <3> QED BY <3>2, <3>3
    <2> QED BY <2>5, <2>6 DEF QuietStep
<1>3. AppendInv'
    <2>1. \A q \in Procs : io'[q].step = "appendPut" =>
              q # p /\ io'[q] = io[q] /\ frame'[q] = frame[q] /\ frame[q].id \in IDs
        BY <1>1, OwnFrame
    <2> QED BY <1>1, <2>1 DEF DiskInv, RecordInv, AppendInv
<1>4. DrainInv'
    <2> SUFFICES ASSUME NEW q \in Procs, io'[q].step = "drainDelete",
                        store'.sessions[frame'[q].id] = frame'[q].ptr
                 PROVE  db'[frame'[q].id] \in {io'[q].data, <<>>}
        BY DEF DrainInv
    <2>1. q # p /\ io'[q] = io[q] /\ frame'[q] = frame[q]
        BY <1>1
    <2>2. frame[q].id \in IDs /\ frame[q].ptr \in Ptr
        BY <2>1, OwnFrame
    <2>3. CASE store.sessions[frame[q].id] = frame[q].ptr
        BY <1>1, <2>1, <2>2, <2>3 DEF DiskInv, RecordInv, DrainInv
    <2>4. CASE store.sessions[frame[q].id] # frame[q].ptr
        <3>1. NoHook /\ Hooks(p) /\ RemovesOne
            BY <2>1, <2>4 DEF QuietStep
        <3>2. store'.sessions[frame[q].id] \notin {store.sessions[frame[q].id], None}
            BY <2>1, <2>2, <2>4, NoneAssumption
        <3> QED BY <2>1, <2>2, <3>1, <3>2, HooksKeepRecords
    <2> QED BY <2>3, <2>4
<1>5. ClosedInv'
    BY <1>1 DEF DiskInv, RecordInv, ClosedInv
<1> QED BY <1>2, <1>3, <1>4, <1>5 DEF RecordInv

LEMMA QuietStepKeepsHookInv ==
    ASSUME DiskInv, NEW p \in Procs, QuietStep(p)
    PROVE  HookInv'
<1>1. CASE UNCHANGED <<store, db, io>> /\ \A s \in Ptr : heap'[s].id = heap[s].id
    BY <1>1 DEF DiskInv, HookInv, NoReader, HoldsRLock
<1>2. CASE NoReader /\ NoHook /\ Hooks(p) /\ RemovesOne
    <2>1. \A q \in Procs : ~HoldsRLock(q)'
        BY <1>2, QuietStepKeepsLocks DEF NoReader
    <2>2. ASSUME NEW q \in Procs, io'[q].step = "onEvict"
          PROVE  io'[q].gone \in Ptr /\ store'.sessions[heap'[io'[q].gone].id] = None
        <3>1. q = p /\ io' # io
            BY <1>2, <2>2, QuietStepKeepsLocks DEF NoHook
        <3>2. PICK id \in IDs : Leaves(id)
            BY <1>2, <3>1 DEF Hooks
        <3>3. io'[p].gone = store.sessions[id] /\ heap' = heap
            BY <1>2, <3>2, HooksKeepRecords
        <3>4. store.sessions[id] \in Ptr /\ heap[store.sessions[id]].id = id
            BY <3>2, MappedOwn, DiskTypesOpen DEF Leaves
        <3>5. store'.sessions[id] = None
            BY <1>2, <3>2, DiskTypesOpen DEF RemovesOne
        <3> QED BY <3>1, <3>3, <3>4, <3>5
    <2> QED BY <2>1, <2>2 DEF HookInv, NoReader
<1> QED BY <1>1, <1>2 DEF QuietStep

LEMMA QuietStepKeepsDiskInv ==
    ASSUME DiskInv, NEW p \in Procs, QuietStep(p), IInv', LockInv'
    PROVE  DiskInv'
<1>1. /\ captured' = captured /\ mu' = mu /\ closed' = closed /\ drained' = drained
      /\ \A q \in Procs \ {p} : io'[q] = io[q] /\ frame'[q] = frame[q]
      /\ io' \in [Procs -> InIO]
      /\ io'[p].step \in {"none", "onEvict"}
      /\ io'[p].data \in {io[p].data, <<>>}
      /\ \A q \in Procs : HoldsRLock(q)' => HoldsRLock(q) /\ q # p
      /\ \A q \in Procs : HoldsMutex(q)' => HoldsMutex(q) /\ q # p
      /\ \A id \in IDs : db'[id] = db[id] \/ db'[id] = <<>>
      /\ db' \in [IDs -> Seq(Entry)]
    BY QuietStepKeepsLocks DEF QuietStep
<1>2. DiskTypes'
    BY <1>1 DEF DiskInv, DiskTypes
<1>3. HoldInv'
    <2>1. ASSUME NEW q \in Procs, HoldsRLock(q)'
          PROVE  store' = store
        BY <1>1, <2>1 DEF QuietStep, NoReader
    <2>2. \A q \in Procs : io'[q].step = "drainDelete" => q # p
        BY <1>1
    <2> QED BY <1>1, <2>1, <2>2 DEF DiskInv, HoldInv
<1>4. RecordInv' /\ HookInv'
    BY QuietStepKeepsRecordInv, QuietStepKeepsHookInv
<1>5. FreshInv'
    <2>1. \A n : Known(n)' => Known(n)
        BY <1>1, NothingKnown DEF Known, Mentions
    <2> QED BY <1>1, <2>1 DEF DiskInv, FreshInv
<1>6. OnceInv'
    <2>1. \A id \in IDs : Distinct(db'[id]) /\ \A s \in Ptr : NewFor(db[id], s) /\ NewFor(db'[id], s)
        BY <1>1, NothingKnown DEF DiskInv, OnceInv
    <2>2. \A id \in IDs, s \in Ptr : NewFor(db[id], s)'
        BY <1>1, <2>1 DEF NewFor, Holds
    <2>3. ASSUME NEW q \in Procs, HoldsMutex(q)'
          PROVE  Distinct(io[q].data)' /\ NewFor(io[q].data, frame[q].ptr)'
        <3>1. io'[q] = io[q] /\ frame'[q] = frame[q] /\ HoldsMutex(q)
            BY <1>1, <2>3
        <3>2. Distinct(io[q].data) /\ NewFor(io[q].data, frame[q].ptr)
            BY <3>1 DEF DiskInv, OnceInv
        <3> QED BY <1>1, <3>1, <3>2 DEF NewFor, Holds, Distinct
    <2>4. DecryptableOnce'
        BY <1>1 DEF DiskInv, OnceInv, DecryptableOnce
    <2> QED BY <2>1, <2>2, <2>3, <2>4 DEF OnceInv
<1> QED BY <1>2, <1>3, <1>4, <1>5, <1>6 DEF DiskInv

LEMMA LockedCallKeepsDiskInv ==
    ASSUME DiskInv, NEW p \in Procs, LockedCall(p)
    PROVE  DiskInv'
<1>1. IInv /\ LockInv /\ store \in Store
    BY Types DEF DiskInv, IInv
<1>2. /\ Free(p) /\ NoReader /\ NoHook /\ Hooks(p)
      /\ UNCHANGED <<mu, closed, drained>>
    BY DEF LockedCall
<1>3. IInv' /\ LockInv'
    <2>1. CASE Register(p)
        BY <1>1, <2>1, RegisterKeepsIInv, RegisterKeepsLockInv
    <2>2. CASE GetPromote(p) \/ GetRecheck(p)
        BY <1>1, <2>2, GetPromoteKeepsIInv, GetRecheckKeepsIInv, PollKeepsLockInv DEF Poll
    <2>3. CASE HasRecheck(p)
        BY <1>1, <2>3, HasRecheckKeepsIInv, RestKeepsLockInv DEF Lookup
    <2>4. ASSUME NEW id \in IDs, NEW secret \in Secrets, Delete(p, id, secret)
          PROVE  IInv' /\ LockInv'
        BY <1>1, <2>4, DeleteKeepsIInv, RestKeepsLockInv
    <2> QED BY <2>1, <2>2, <2>3, <2>4 DEF LockedCall
<1>4. captured' = captured /\ \A q \in Procs \ {p} : frame'[q] = frame[q]
    <2> DEFINE Rest == captured' = captured /\ \A q \in Procs \ {p} : frame'[q] = frame[q]
    <2>1. CASE Register(p)
        <3>1. ASSUME NEW id \in IDs, NEW secret \in Secrets,
                     RegisterKeepAlive(p, id, secret) \/ RegisterConflict(p, id, secret)
              PROVE  Rest
            BY <3>1 DEF RegisterKeepAlive, RegisterConflict
        <3>3. ASSUME NEW id \in IDs, NEW secret \in Secrets, RegisterMiss(p, id, secret)
              PROVE  Rest
            <4>1. captured' = captured /\ \E f : frame' = [frame EXCEPT ![p] = f]
                BY <3>3 DEF RegisterMiss
            <4> QED BY <4>1, DiskTypesOpen
        <3>2. CASE Probe(p) \/ Evict(p) \/ RegisterNew(p) \/ RegisterKeyError(p)
            BY <3>2, DiskTypesOpen DEF Probe, Evict, RegisterNew, RegisterKeyError, Return
        <3> QED BY <2>1, <3>1, <3>2, <3>3 DEF Register
    <2>2. CASE GetPromote(p)
        BY <2>2, DiskTypesOpen DEF GetPromote, Goto
    <2>3. CASE GetRecheck(p)
        BY <2>3, DiskTypesOpen DEF GetRecheck, Return
    <2>4. CASE HasRecheck(p)
        BY <2>4, DiskTypesOpen DEF HasRecheck, Return
    <2>5. ASSUME NEW id \in IDs, NEW secret \in Secrets, Delete(p, id, secret)
          PROVE  Rest
        BY <2>5 DEF Delete
    <2> QED BY <2>1, <2>2, <2>3, <2>4, <2>5 DEF LockedCall
<1>5. RemovesOne
    <2>1. CASE GetPromote(p)
        <3>1. frame[p].id \in IDs
            BY <1>1, <2>1 DEF GetPromote, IInv, FramesOK, FrameOK
        <3> QED BY <1>1, <2>1, <3>1, PromoteKeepsSessions, SameSessionsRemoveNone DEF GetPromote
    <2>2. CASE GetRecheck(p)
        <3>1. frame[p].id \in IDs
            BY <1>1, <2>2 DEF GetRecheck, IInv, FramesOK, FrameOK
        <3>2. /\ heap' = heap
              /\ \/ store' = store
                 \/ store' = RemoveLocked(store, frame[p].id)
                 \/ store' = PromoteLRU(store, frame[p].id)
            BY <2>2 DEF GetRecheck
        <3> QED BY <1>1, <3>1, <3>2, PromoteKeepsSessions, SameSessionsRemoveNone,
                   RemovalRemovesOne
    <2>3. CASE HasRecheck(p)
        <3>1. frame[p].id \in IDs
            BY <1>1, <2>3 DEF HasRecheck, IInv, FramesOK, FrameOK
        <3>2. heap' = heap /\ (store' = store \/ store' = RemoveLocked(store, frame[p].id))
            BY <2>3 DEF HasRecheck
        <3> QED BY <1>1, <3>1, <3>2, SameSessionsRemoveNone, RemovalRemovesOne
    <2>4. ASSUME NEW id \in IDs, NEW secret \in Secrets, Delete(p, id, secret)
          PROVE  RemovesOne
        <3>1. heap' = heap /\ (store' = store \/ store' = RemoveLocked(store, id))
            BY <2>4 DEF Delete
        <3> QED BY <1>1, <3>1, SameSessionsRemoveNone, RemovalRemovesOne
    <2> QED BY <1>1, <2>1, <2>2, <2>3, <2>4, RegisterRemovesOne DEF LockedCall
<1> QED BY <1>2, <1>3, <1>4, <1>5, QuietStepKeepsDiskInv DEF QuietStep

LEMMA SharedCallKeepsDiskInv ==
    ASSUME DiskInv, NEW p \in Procs, SharedCall(p)
    PROVE  DiskInv'
<1>1. IInv /\ LockInv
    BY DEF DiskInv
<1>2. /\ Free(p)
      /\ UNCHANGED <<db, mu, io, closed, drained>>
    BY DEF SharedCall, diskVars
<1>3. IInv' /\ LockInv'
    <2>1. \/ \E id \in IDs, secret \in Secrets : GetSession(p, id, secret)
          \/ \E id \in IDs : HasCorrelationID(p, id)
          \/ GetTouch(p)
        BY DEF SharedCall
    <2> QED BY <1>1, <2>1, GetSessionKeepsIInv, GetTouchKeepsIInv, HasCorrelationIDKeepsIInv,
               PollKeepsLockInv, RestKeepsLockInv DEF Poll, Lookup
<1>4. /\ store' = store /\ captured' = captured
      /\ \A q \in Procs \ {p} : frame'[q] = frame[q]
      /\ \A s \in Ptr : heap'[s].id = heap[s].id
    <2> DEFINE Rest == /\ store' = store /\ captured' = captured
                       /\ \A q \in Procs \ {p} : frame'[q] = frame[q]
                       /\ \A s \in Ptr : heap'[s].id = heap[s].id
    <2>1. ASSUME NEW id \in IDs, NEW secret \in Secrets, GetSession(p, id, secret)
          PROVE  Rest
        BY <2>1, DiskTypesOpen DEF GetSession
    <2>2. CASE GetTouch(p)
        <3>1. frame[p].ptr \in Ptr
            BY <1>1, <2>2, Types DEF IInv, FramesOK, FrameOK, GetTouch
        <3>2. SameIdentity
            BY <1>1, <2>2, <3>1, TouchTyped DEF GetTouch
        <3> QED BY <2>2, <3>2, DiskTypesOpen DEF GetTouch, Goto, SameIdentity
    <2>3. ASSUME NEW id \in IDs, HasCorrelationID(p, id)
          PROVE  Rest
        BY <2>3, DiskTypesOpen DEF HasCorrelationID
    <2> QED BY <2>1, <2>2, <2>3 DEF SharedCall
<1> QED BY <1>2, <1>3, <1>4, QuietStepKeepsDiskInv DEF QuietStep

\* The clock, and steps of nobody.
LEMMA IdleStepKeepsDiskInv ==
    ASSUME DiskInv, IInv', LockInv',
           UNCHANGED <<store, heap, frame, captured, db, mu, io, closed, drained>>
    PROVE  DiskInv'
<1>1. DiskTypes' /\ HoldInv' /\ HookInv'
    BY DEF DiskInv, DiskTypes, HoldInv, HookInv, NoReader, HoldsRLock, HoldsMutex
<1>2. RecordInv'
    BY DEF DiskInv, RecordInv, RecordsBelongToSession, BeingEvicted, AppendInv, DrainInv,
           ClosedInv
<1>3. FreshInv'
    BY DEF DiskInv, FreshInv, Known, Mentions, HoldsRLock
<1>4. OnceInv'
    BY DEF DiskInv, OnceInv, NewFor, Holds, HoldsMutex, DecryptableOnce
<1> QED BY <1>1, <1>2, <1>3, <1>4 DEF DiskInv

-------------------------------------------------------------------------------
(* AppendInteraction. *)

LEMMA DiskAppendKeepsIInv ==
    ASSUME DiskInv, NEW p \in Procs, NEW id \in IDs, DiskAppend(p, id)
    PROVE  IInv' /\ LockInv' /\ SameIdentity
<1> DEFINE s == store.sessions[id]
<1>1. /\ captured < MaxInteractions /\ captured' = captured + 1
      /\ history' = [history EXCEPT !.calls = @ + 1]
      /\ UNCHANGED <<now, store, delivered>>
    BY DEF DiskAppend
<1>2. IInv
    BY DEF DiskInv
<1>3. captured' \in 0 .. MaxInteractions /\ captured + 1 \in Items
    BY <1>1, DiskTypesOpen, BoundAssumption DEF Items
<1>4. history' \in History /\ history'.deleted = history.deleted
    BY <1>1, <1>2, HistoryTyped, Types DEF IInv
<1>5. CASE s = None
    <2>1. counters' = [counters EXCEPT !.misses = @ + 1] /\ frame' = frame /\ heap' = heap
        BY <1>5 DEF DiskAppend
    <2>2. counters' \in Counters /\ SameCounts /\ SameIdentity
        BY <1>2, <1>4, <2>1, CountersTyped, Types DEF IInv, SameCounts, SameIdentity
    <2>3. PICK f : f = frame[p]
        OBVIOUS
    <2>4. frame' = [frame EXCEPT ![p] = f] /\ f \in Frame /\ FrameOK(f)
        BY <1>2, <2>1, <2>3, Types DEF IInv, FramesOK
    <2>5. IInv'
        BY <1>1, <1>2, <1>3, <1>4, <2>1, <2>2, <2>4, MoveOnKeepsIInv, Types DEF IInv
    <2>6. LockInv'
        BY <1>1, <1>2, <2>1, SameFramesOutside, SameTimesForward, OutsideKeepsLockInv DEF DiskInv
    <2> QED BY <2>2, <2>5, <2>6
<1>6. CASE s # None
    <2>1. /\ counters' = [counters EXCEPT !.hits = @ + 1]
          /\ Touch(s)
          /\ frame' = [frame EXCEPT ![p] = Call("appendStore", id, None, s, captured + 1)]
        BY <1>6 DEF DiskAppend
    <2>2. s \in Ptr /\ s \in 1 .. counters.sessionsTotal
        BY <1>2, <1>6, FoundFrame
    <2>3. PICK f : f = Call("appendStore", id, None, s, captured + 1)
        OBVIOUS
    <2>4. f \in Frame /\ FrameOK(f)
        BY <1>3, <2>2, <2>3, StartTyped DEF Call, Frame, PCs, FrameOK
    <2>7. f.pc \notin {"probe", "create"}
        BY <2>3 DEF Call
    <2>5. counters' \in Counters /\ SameCounts /\ frame' = [frame EXCEPT ![p] = f]
        BY <1>2, <1>4, <2>1, <2>3, CountersTyped, Types DEF IInv, SameCounts
    <2>6. heap' \in [Ptr -> Session] /\ SameIdentity
        BY <1>2, <2>1, <2>2, TouchTyped
    <2>8. IInv'
        BY <1>1, <1>2, <1>3, <1>4, <2>4, <2>5, <2>6, MoveOnKeepsIInv, Types DEF IInv
    <2>9. LockInv'
        BY <1>1, <1>2, <2>1, <2>2, <2>5, <2>7, MovesOutside, TouchForward, OutsideKeepsLockInv
           DEF DiskInv
    <2> QED BY <2>6, <2>8, <2>9
<1> QED BY <1>5, <1>6

LEMMA DiskAppendKeepsDiskInv ==
    ASSUME DiskInv, NEW p \in Procs, NEW id \in IDs, DiskAppend(p, id)
    PROVE  DiskInv'
<1> DEFINE s == store.sessions[id]
<1>1. IInv' /\ LockInv' /\ \A t \in Ptr : heap'[t].id = heap[t].id
    BY DiskAppendKeepsIInv DEF SameIdentity
<1>2. /\ Free(p) /\ NoHook /\ captured' = captured + 1 /\ captured < MaxInteractions
      /\ UNCHANGED <<store, db, mu, closed, drained>>
      /\ \A q \in Procs \ {p} : frame'[q] = frame[q] /\ io'[q] = io[q]
      /\ io'[p].data = io[p].data
    BY DiskTypesOpen DEF DiskAppend, InIO
<1>3. \/ io' = io
      \/ /\ io' = [io EXCEPT ![p].step = "appendLock"]
         /\ frame'[p] = Call("appendStore", id, None, s, captured + 1)
    BY DiskTypesOpen DEF DiskAppend
<1>4. DiskTypes'
    <2>1. io' \in [Procs -> InIO]
        BY <1>3, DiskTypesOpen DEF IOSteps, InIO
    <2> QED BY <1>2, <2>1 DEF DiskInv, DiskTypes
<1>5. \A q \in Procs : io'[q].step # "none" =>
          \/ frame'[q] = frame[q] /\ io'[q] = io[q] /\ q # p
          \/ /\ q = p /\ io'[q].step = "appendLock"
             /\ frame'[q] = Call("appendStore", id, None, s, captured + 1)
    BY <1>2, <1>3, DiskTypesOpen DEF Free, InIO
<1>10. HookInv'
    BY <1>2, <1>5 DEF HookInv, NoHook
<1>6. HoldInv'
    BY <1>2, <1>5 DEF DiskInv, HoldInv, HoldsRLock, HoldsMutex, Call
<1>7. RecordInv'
    <2>1. RecordsBelongToSession' /\ ClosedInv'
        BY <1>2 DEF DiskInv, RecordInv, RecordsBelongToSession, BeingEvicted, NoHook, ClosedInv
    <2>2. AppendInv' /\ DrainInv'
        BY <1>2, <1>5 DEF DiskInv, RecordInv, AppendInv, DrainInv
    <2> QED BY <2>1, <2>2 DEF RecordInv
<1>8. FreshInv'
    <2>1. \A n : Known(n)' <=> Known(n)
        BY <1>2 DEF Known, Mentions
    <2>2. captured \in Nat /\ captured + 1 \in Items
        BY <1>2, DiskTypesOpen, BoundAssumption DEF Items
    <2>3. \A n \in Items : Known(n)' => n <= captured'
        BY <1>2, <2>1, <2>2 DEF DiskInv, FreshInv, Items
    <2>4. ~Known(captured + 1)
        BY <2>2 DEF DiskInv, FreshInv
    <2>5. \A q \in Procs : HoldsRLock(q)' =>
              \/ q # p /\ HoldsRLock(q) /\ frame'[q] = frame[q] /\ frame[q].item \in Items
              \/ q = p /\ frame'[q].item = captured + 1
        BY <1>5, OwnFrame DEF HoldsRLock, Call
    <2>6. \A q \in Procs : HoldsRLock(q)' => frame'[q].item <= captured' /\ ~Known(frame'[q].item)
        BY <1>2, <2>2, <2>4, <2>5 DEF DiskInv, FreshInv, Items
    <2>7. \A q, r \in Procs : HoldsRLock(q)' /\ HoldsRLock(r)'
                              /\ frame'[q].item = frame'[r].item => q = r
        BY <2>2, <2>5 DEF DiskInv, FreshInv, Items
    <2> QED BY <2>1, <2>3, <2>6, <2>7 DEF FreshInv
<1>9. OnceInv'
    <2>1. \A q \in Procs : HoldsMutex(q)' => HoldsMutex(q) /\ frame'[q] = frame[q] /\ io'[q] = io[q]
        BY <1>5 DEF HoldsMutex
    <2>2. \A r \in IDs : Distinct(db[r])' /\ \A t \in Ptr : NewFor(db[r], t)'
        BY <1>2 DEF DiskInv, OnceInv, NewFor, Holds, Distinct
    <2>3. \A q \in Procs : HoldsMutex(q)' =>
              Distinct(io[q].data)' /\ NewFor(io[q].data, frame[q].ptr)'
        BY <1>2, <2>1 DEF DiskInv, OnceInv, NewFor, Holds, Distinct
    <2>4. DecryptableOnce'
        BY <1>2 DEF DiskInv, OnceInv, DecryptableOnce
    <2> QED BY <2>2, <2>3, <2>4 DEF OnceInv
<1> QED BY <1>1, <1>4, <1>6, <1>7, <1>8, <1>9, <1>10 DEF DiskInv

-------------------------------------------------------------------------------
(* The steps of p inside LevelDB: no other process moves, nothing but the
   record and the locks changes, and a call that is over leaves its frame. *)

LevelDBStep(p) ==
    /\ frame' = frame \/ Return(p)
    /\ \A q \in Procs \ {p} : io'[q] = io[q]
    /\ UNCHANGED <<now, store, heap, counters, captured, delivered, history>>

LEMMA LevelDBStepKeepsIInv ==
    ASSUME DiskInv, NEW p \in Procs, LevelDBStep(p)
    PROVE  /\ IInv' /\ LockInv'
           /\ \A q \in Procs \ {p} : frame'[q] = frame[q]
<1>1. IInv /\ frame \in [Procs -> Frame]
    BY DiskTypesOpen DEF DiskInv
<1>2. /\ UNCHANGED <<now, store, heap, counters, captured, delivered, history>>
      /\ SameIdentity /\ SameCounts
    BY DEF LevelDBStep, SameIdentity, SameCounts
<1>3. PICK f : f = IF frame' = frame THEN frame[p] ELSE Idle
    OBVIOUS
<1>4. f \in Frame /\ FrameOK(f) /\ frame' = [frame EXCEPT ![p] = f]
    BY <1>1, <1>3, IdleTyped, IdleFrame DEF LevelDBStep, Return, IInv, FramesOK
<1>5. IInv'
    BY <1>1, <1>2, <1>4, MoveOnKeepsIInv, Types DEF IInv
<1>6. LockInv'
    BY <1>1, <1>2, SameFramesOutside, ReturnsOutside, SameTimesForward, OutsideKeepsLockInv
       DEF LevelDBStep, DiskInv
<1> QED BY <1>1, <1>4, <1>5, <1>6

\* The lock is had and the record was not read: the call is over.
LEMMA GiveUpKeepsDiskInv ==
    ASSUME DiskInv, NEW p \in Procs, LevelDBStep(p), ~HoldsMutex(p), io[p].step # "onEvict",
           UNCHANGED <<db, mu, closed, drained>>,
           (io' = io /\ Free(p)) \/ io' = [io EXCEPT ![p] = NoIO]
    PROVE  DiskInv'
<1>1. IInv' /\ LockInv' /\ \A q \in Procs \ {p} : frame'[q] = frame[q]
    BY LevelDBStepKeepsIInv
<1>2. /\ store' = store /\ captured' = captured /\ heap' = heap
      /\ \A q \in Procs \ {p} : io'[q] = io[q]
      /\ io'[p].step = "none"
      /\ io'[p].data = io[p].data \/ io'[p].data = <<>>
    BY DiskTypesOpen DEF LevelDBStep, NoIO, AtIO, Free
<1>3. \A q \in Procs : io'[q].step # "none" => q # p /\ frame'[q] = frame[q] /\ io'[q] = io[q]
    BY <1>1, <1>2
<1>4. DiskTypes'
    <2>1. io' \in [Procs -> InIO]
        BY DiskTypesOpen, NoIOTyped
    <2> QED BY <2>1 DEF DiskInv, DiskTypes
<1>5. HoldInv'
    BY <1>2, <1>3 DEF DiskInv, HoldInv, HoldsRLock, HoldsMutex
<1>9. HookInv'
    BY <1>2, <1>3 DEF DiskInv, HookInv, NoReader, HoldsRLock
<1>6. RecordInv'
    <2>1. RecordsBelongToSession' /\ ClosedInv'
        <3>1. \A r \in IDs, s \in Ptr : BeingEvicted(r, s) => BeingEvicted(r, s)'
            BY <1>2 DEF BeingEvicted
        <3> QED BY <1>2, <3>1, RecordsKeyed
                DEF DiskInv, RecordInv, RecordsBelongToSession, BeingEvicted, ClosedInv
    <2>2. AppendInv' /\ DrainInv'
        BY <1>2, <1>3 DEF DiskInv, RecordInv, AppendInv, DrainInv
    <2> QED BY <2>1, <2>2 DEF RecordInv
<1>7. FreshInv'
    <2>1. \A n : Known(n)' => Known(n)
        BY <1>2, NothingKnown DEF Known, Mentions
    <2>2. \A q \in Procs : HoldsRLock(q)' => HoldsRLock(q) /\ frame'[q] = frame[q]
        BY <1>3 DEF HoldsRLock
    <2> QED BY <1>2, <2>1, <2>2 DEF DiskInv, FreshInv
<1>8. OnceInv'
    <2>1. \A r \in IDs : Distinct(db[r])' /\ \A t \in Ptr : NewFor(db[r], t)'
        BY DEF DiskInv, OnceInv, NewFor, Holds, Distinct
    <2>2. \A q \in Procs : HoldsMutex(q)' =>
              Distinct(io[q].data)' /\ NewFor(io[q].data, frame[q].ptr)'
        BY <1>3 DEF DiskInv, OnceInv, NewFor, Holds, Distinct, HoldsMutex
    <2>3. DecryptableOnce'
        BY DEF DiskInv, OnceInv, DecryptableOnce
    <2> QED BY <2>1, <2>2, <2>3 DEF OnceInv
<1> QED BY <1>1, <1>4, <1>5, <1>6, <1>7, <1>8, <1>9 DEF DiskInv

\* session.mu is taken and the record read.
LEMMA ReadKeepsDiskInv ==
    ASSUME DiskInv, NEW p \in Procs, LevelDBStep(p), UNCHANGED <<frame, db, closed, drained>>,
           NEW step, \/ step = "appendPut" /\ io[p].step = "appendLock"
                     \/ step = "drainDelete" /\ Free(p) /\ frame[p].pc = "handle",
           NEW id \in IDs, id = frame[p].id, NEW s \in Ptr, s = frame[p].ptr,
           mu[s] = None, mu' = [mu EXCEPT ![s] = p],
           io' = [io EXCEPT ![p] = AtIO(step, db[id], None)]
    PROVE  DiskInv'
<1>1. IInv' /\ LockInv' /\ store' = store /\ heap' = heap /\ captured' = captured
    BY LevelDBStepKeepsIInv DEF LevelDBStep
<1>2. /\ io'[p].step = step /\ io'[p].data = db[id]
      /\ \A q \in Procs \ {p} : io'[q] = io[q]
      /\ mu'[s] = p /\ \A t \in Ptr \ {s} : mu'[t] = mu[t]
      /\ step \in IOSteps /\ step # "onEvict" /\ io[p].step # "onEvict"
      /\ AtIO(step, db[id], None) \in InIO
    BY DiskTypesOpen DEF IOSteps, AtIO, InIO, Free
<1>3. \A q \in Procs \ {p} : HoldsMutex(q) => frame[q].ptr # s /\ frame[q].ptr \in Ptr
    BY OwnFrame, ProcsAssumption DEF DiskInv, HoldInv, HoldsMutex
<1>4. HoldsRLock(p)' <=> HoldsRLock(p)
    BY <1>2 DEF HoldsRLock, Free
<1>5. DiskTypes'
    <2>1. io' \in [Procs -> InIO]
        BY <1>2, DiskTypesOpen
    <2>2. mu' \in [Ptr -> Procs \union {None}]
        BY DiskTypesOpen
    <2> QED BY <2>1, <2>2 DEF DiskInv, DiskTypes
<1>6. HoldInv'
    <2> SUFFICES ASSUME NEW q \in Procs
                 PROVE  /\ HoldsRLock(q)' => /\ frame'[q].pc = "appendStore"
                                             /\ frame'[q].id \in IDs
                                             /\ store'.sessions[frame'[q].id] = frame'[q].ptr
                        /\ io'[q].step = "drainDelete" => frame'[q].pc = "handle"
                        /\ HoldsMutex(q)' => mu'[frame'[q].ptr] = q
        BY DEF HoldInv
    <2>1. CASE q = p
        BY <1>1, <1>2, <1>4, <2>1 DEF DiskInv, HoldInv
    <2>2. CASE q # p
        BY <1>1, <1>2, <1>3, <2>2 DEF DiskInv, HoldInv, HoldsRLock, HoldsMutex
    <2> QED BY <2>1, <2>2
<1>10. HookInv'
    <2>1. \A q \in Procs : HoldsRLock(q)' <=> HoldsRLock(q)
        BY <1>2, <1>4 DEF HoldsRLock
    <2> QED BY <1>1, <1>2, <2>1 DEF DiskInv, HookInv, NoReader
<1>7. RecordInv'
    <2>1. RecordsBelongToSession' /\ ClosedInv'
        <3>1. \A r \in IDs, t \in Ptr : BeingEvicted(r, t) => BeingEvicted(r, t)'
            BY <1>1, <1>2 DEF BeingEvicted
        <3> QED BY <1>1, <3>1, RecordsKeyed
                DEF DiskInv, RecordInv, RecordsBelongToSession, BeingEvicted, ClosedInv
    <2>2. ASSUME step = "appendPut"
          PROVE  \A i \in DOMAIN db[id] : db[id][i].key = s
        <3>1. store.sessions[id] = s /\ HoldsRLock(p)
            BY <2>2 DEF DiskInv, HoldInv, HoldsRLock
        <3>2. \A q \in Procs : io[q].step # "onEvict"
            BY <3>1 DEF DiskInv, HookInv, NoReader
        <3> QED BY <3>1, <3>2 DEF DiskInv, RecordInv, RecordsBelongToSession, BeingEvicted
    <2>3. AppendInv' /\ DrainInv'
        BY <1>1, <1>2, <2>2 DEF DiskInv, RecordInv, AppendInv, DrainInv
    <2> QED BY <2>1, <2>3 DEF RecordInv
<1>8. FreshInv'
    <2>1. \A n : Known(n)' => Known(n)
        BY <1>2 DEF Known, Mentions
    <2>2. \A q \in Procs : HoldsRLock(q)' => HoldsRLock(q)
        BY <1>2, <1>4 DEF HoldsRLock
    <2> QED BY <1>1, <2>1, <2>2 DEF DiskInv, FreshInv
<1>9. OnceInv'
    <2>1. \A r \in IDs : Distinct(db[r])' /\ \A t \in Ptr : NewFor(db[r], t)'
        BY DEF DiskInv, OnceInv, NewFor, Holds, Distinct
    <2>2. ASSUME NEW q \in Procs \ {p}, HoldsMutex(q)'
          PROVE  Distinct(io[q].data)' /\ NewFor(io[q].data, frame[q].ptr)'
        <3>1. io'[q] = io[q] /\ frame'[q] = frame[q] /\ HoldsMutex(q)
            BY <1>2, <2>2 DEF HoldsMutex
        <3>2. Distinct(io[q].data) /\ NewFor(io[q].data, frame[q].ptr)
            BY <3>1 DEF DiskInv, OnceInv
        <3> QED BY <3>1, <3>2 DEF NewFor, Holds, Distinct
    <2>3. Distinct(io[p].data)' /\ NewFor(io[p].data, frame[p].ptr)'
        BY <1>2 DEF DiskInv, OnceInv, NewFor, Holds, Distinct
    <2>4. DecryptableOnce'
        BY DEF DiskInv, OnceInv, DecryptableOnce
    <2> QED BY <2>1, <2>2, <2>3, <2>4 DEF OnceInv
<1> QED BY <1>1, <1>5, <1>6, <1>7, <1>8, <1>9, <1>10 DEF DiskInv

LEMMA DiskAppendGetKeepsDiskInv ==
    ASSUME DiskInv, NEW p \in Procs, DiskAppendGet(p)
    PROVE  DiskInv'
<1>1. /\ io[p].step = "appendLock" /\ mu[frame[p].ptr] = None
      /\ UNCHANGED <<now, store, heap, counters, captured, delivered, history,
                     db, closed, drained>>
    BY DEF DiskAppendGet
<1>2. frame[p].id \in IDs /\ frame[p].ptr \in Ptr
    BY <1>1, OwnFrame
<1>3. CASE closed
    <2>1. io' = [io EXCEPT ![p] = NoIO] /\ Return(p) /\ mu' = mu
        BY <1>3 DEF DiskAppendGet
    <2>2. LevelDBStep(p) /\ ~HoldsMutex(p)
        BY <1>1, <2>1, DiskTypesOpen DEF LevelDBStep, HoldsMutex
    <2> QED BY <1>1, <2>1, <2>2, GiveUpKeepsDiskInv
<1>4. CASE ~closed
    <2>1. /\ io' = [io EXCEPT ![p] = AtIO("appendPut", db[frame[p].id], None)]
          /\ mu' = [mu EXCEPT ![frame[p].ptr] = p]
          /\ frame' = frame
        BY <1>4 DEF DiskAppendGet
    <2>2. LevelDBStep(p)
        BY <1>1, <2>1, DiskTypesOpen DEF LevelDBStep
    <2> QED BY <1>1, <1>2, <2>1, <2>2, ReadKeepsDiskInv
<1> QED BY <1>3, <1>4

LEMMA DrainGetKeepsDiskInv ==
    ASSUME DiskInv, NEW p \in Procs, DrainGet(p)
    PROVE  DiskInv'
<1>1. /\ frame[p].pc = "handle" /\ Free(p) /\ mu[frame[p].ptr] = None
      /\ UNCHANGED <<now, store, heap, counters, captured, delivered, history,
                     db, closed, drained>>
    BY DEF DrainGet
<1>2. frame[p].id \in IDs /\ frame[p].ptr \in Ptr
    BY <1>1, Types DEF DiskInv, IInv, FramesOK, FrameOK
<1>3. CASE closed \/ db[frame[p].id] = <<>>
    <2>1. Return(p) /\ mu' = mu /\ io' = io
        BY <1>3 DEF DrainGet
    <2>2. LevelDBStep(p) /\ ~HoldsMutex(p) /\ io[p].step # "onEvict"
        BY <1>1, <2>1 DEF LevelDBStep, HoldsMutex, Free
    <2> QED BY <1>1, <2>1, <2>2, GiveUpKeepsDiskInv
<1>4. CASE ~(closed \/ db[frame[p].id] = <<>>)
    <2>1. /\ io' = [io EXCEPT ![p] = AtIO("drainDelete", db[frame[p].id], None)]
          /\ mu' = [mu EXCEPT ![frame[p].ptr] = p]
          /\ frame' = frame
        BY <1>4 DEF DrainGet
    <2>2. LevelDBStep(p)
        BY <1>1, <2>1, DiskTypesOpen DEF LevelDBStep
    <2> QED BY <1>1, <1>2, <2>1, <2>2, ReadKeepsDiskInv
<1> QED BY <1>3, <1>4

-------------------------------------------------------------------------------
(* The two steps that write. *)

\* db.Put of what was read and one entry more.
LEMMA AppendedEntry ==
    ASSUME NEW data \in Seq(Entry), NEW e \in Entry
    PROVE  /\ Append(data, e) \in Seq(Entry)
           /\ \A i \in DOMAIN Append(data, e) :
                 \/ i \in DOMAIN data /\ Append(data, e)[i] = data[i]
                 \/ i = Len(data) + 1 /\ Append(data, e)[i] = e
           /\ \A n : Mentions(Append(data, e), n) => Mentions(data, n) \/ n = e.item
           /\ Distinct(data) /\ ~Mentions(data, e.item) => Distinct(Append(data, e))
<1> DEFINE list == Append(data, e)
<1>1. /\ list \in Seq(Entry)
      /\ \A i \in 1 .. Len(data) : list[i] = data[i]
      /\ list[Len(data) + 1] = e
      /\ DOMAIN list = 1 .. Len(data) + 1
      /\ DOMAIN data = 1 .. Len(data)
      /\ Len(data) \in Nat
    BY AppendProperties
<1> HIDE DEF list
<1>2. \A i \in DOMAIN list : \/ i \in DOMAIN data /\ list[i] = data[i]
                             \/ i = Len(data) + 1 /\ list[i] = e
    BY <1>1
<1>3. \A n : Mentions(list, n) => Mentions(data, n) \/ n = e.item
    BY <1>2 DEF Mentions
<1>4. ASSUME Distinct(data), ~Mentions(data, e.item)
      PROVE  Distinct(list)
    <2>1. \A i \in DOMAIN data : data[i] # e
        BY <1>4 DEF Mentions
    <2> QED BY <1>2, <1>4, <2>1 DEF Distinct
<1> QED BY <1>1, <1>2, <1>3, <1>4 DEF list

LEMMA DiskAppendPutKeepsDiskInv ==
    ASSUME DiskInv, NEW p \in Procs, DiskAppendPut(p)
    PROVE  DiskInv'
<1>1. PICK id, s, data, e, list : /\ id = frame[p].id /\ s = frame[p].ptr
                                  /\ data = io[p].data /\ e = EntryOf(p)
                                  /\ list = Append(data, e)
    OBVIOUS
<1>2. /\ io[p].step = "appendPut"
      /\ db' = IF closed THEN db ELSE [db EXCEPT ![id] = list]
      /\ mu' = [mu EXCEPT ![s] = None]
      /\ io' = [io EXCEPT ![p] = NoIO]
      /\ Return(p)
      /\ UNCHANGED <<now, store, heap, counters, captured, delivered, history,
                     closed, drained>>
    BY <1>1 DEF DiskAppendPut
<1>3. HoldsRLock(p) /\ HoldsMutex(p)
    BY <1>2 DEF HoldsRLock, HoldsMutex
<1>4. id \in IDs /\ s \in Ptr /\ e \in Entry /\ data \in Seq(Entry) /\ frame[p].item \in Items
    BY <1>1, <1>2, <1>3, OwnFrame, DiskTypesOpen DEF InIO
<1>5. e.item = frame[p].item /\ e.key = s
    BY <1>1 DEF EntryOf
<1>6. /\ list \in Seq(Entry)
      /\ \A i \in DOMAIN list : \/ i \in DOMAIN data /\ list[i] = data[i]
                                \/ i = Len(data) + 1 /\ list[i] = e
      /\ \A n : Mentions(list, n) => Mentions(data, n) \/ n = e.item
      /\ Distinct(data) /\ ~Mentions(data, e.item) => Distinct(list)
    BY <1>1, <1>4, AppendedEntry
<1>7. IInv' /\ LockInv' /\ \A q \in Procs \ {p} : frame'[q] = frame[q] /\ io'[q] = io[q]
    <2>1. LevelDBStep(p)
        BY <1>2, DiskTypesOpen DEF LevelDBStep
    <2> QED BY <2>1, LevelDBStepKeepsIInv DEF LevelDBStep
<1>8. \A r \in IDs : db'[r] = db[r] \/ (r = id /\ db'[r] = list /\ ~closed)
    <2>1. CASE closed
        <3>1. db' = db
            BY <1>2, <2>1
        <3> QED BY <3>1
    <2>2. CASE ~closed
        <3>1. db' = [db EXCEPT ![id] = list]
            BY <1>2, <2>2
        <3>2. \A r \in IDs : db'[r] = IF r = id THEN list ELSE db[r]
            BY <3>1, DiskTypesOpen
        <3> QED BY <2>2, <3>2
    <2> QED BY <2>1, <2>2
<1>9. io'[p].step = "none" /\ io'[p].data = <<>>
    BY <1>2, DiskTypesOpen DEF NoIO, AtIO
<1>10. \A q \in Procs : io'[q].step # "none" => q # p /\ frame'[q] = frame[q] /\ io'[q] = io[q]
    BY <1>7, <1>9
<1>11. store.sessions[id] = s /\ mu[s] = p
    BY <1>1, <1>3 DEF DiskInv, HoldInv
<1>12. \A q \in Procs \ {p} : HoldsMutex(q) => frame[q].ptr # s
    BY <1>11 DEF DiskInv, HoldInv
<1>13. DiskTypes'
    <2>1. db' \in [IDs -> Seq(Entry)]
        BY <1>2, <1>6, DiskTypesOpen
    <2>2. mu' \in [Ptr -> Procs \union {None}]
        BY <1>2, DiskTypesOpen
    <2>3. io' \in [Procs -> InIO]
        BY <1>2, NoIOTyped, DiskTypesOpen
    <2> QED BY <1>2, <2>1, <2>2, <2>3 DEF DiskInv, DiskTypes
<1>14. HoldInv'
    <2>1. \A q \in Procs \ {p} : HoldsMutex(q) => mu'[frame[q].ptr] = mu[frame[q].ptr]
        BY <1>2, <1>12, OwnFrame, DiskTypesOpen DEF HoldsMutex
    <2> QED BY <1>2, <1>10, <2>1 DEF DiskInv, HoldInv, HoldsRLock, HoldsMutex
<1>15. RecordInv'
    <2>1. \A i \in DOMAIN list : list[i].key = s
        BY <1>1, <1>2, <1>5, <1>6 DEF DiskInv, RecordInv, AppendInv
    <2>2. RecordsBelongToSession'
        <3>1. \A r \in IDs, t \in Ptr : BeingEvicted(r, t) => BeingEvicted(r, t)'
            BY <1>2, <1>7 DEF BeingEvicted
        <3> QED BY <1>2, <1>8, <1>11, <2>1, <3>1, RecordsKeyed
                DEF DiskInv, RecordInv, RecordsBelongToSession, BeingEvicted
    <2>3. ClosedInv'
        BY <1>2, <1>8 DEF DiskInv, RecordInv, ClosedInv
    <2>4. ASSUME NEW q \in Procs, io'[q].step = "appendPut"
          PROVE  /\ \A i \in DOMAIN io'[q].data : io'[q].data[i].key = frame'[q].ptr
                 /\ db'[frame'[q].id] \in {io'[q].data, <<>>}
        <3>1. q # p /\ frame'[q] = frame[q] /\ io'[q] = io[q]
            BY <1>10, <2>4
        <3>2. HoldsMutex(q) /\ HoldsRLock(q) /\ frame[q].ptr # s
            BY <1>12, <2>4, <3>1 DEF HoldsMutex, HoldsRLock
        <3>3. frame[q].id \in IDs /\ frame[q].id # id
            BY <1>11, <3>2 DEF DiskInv, HoldInv
        <3>4. db'[frame[q].id] = db[frame[q].id]
            BY <1>8, <3>3
        <3> QED BY <2>4, <3>1, <3>4 DEF DiskInv, RecordInv, AppendInv
    <2>5. AppendInv'
        BY <2>4 DEF AppendInv
    <2>6. ASSUME NEW q \in Procs, io'[q].step = "drainDelete",
                 store'.sessions[frame'[q].id] = frame'[q].ptr
          PROVE  db'[frame'[q].id] \in {io'[q].data, <<>>}
        <3>1. q # p /\ frame'[q] = frame[q] /\ io'[q] = io[q]
            BY <1>10, <2>6
        <3>2. HoldsMutex(q) /\ frame[q].ptr # s /\ frame[q].id \in IDs
            BY <1>12, <2>6, <3>1, OwnFrame DEF HoldsMutex
        <3>3. frame[q].id # id
            BY <1>2, <1>11, <2>6, <3>1, <3>2
        <3>4. db'[frame[q].id] = db[frame[q].id]
            BY <1>8, <3>2, <3>3
        <3> QED BY <1>2, <2>6, <3>1, <3>4 DEF DiskInv, RecordInv, DrainInv
    <2>7. DrainInv'
        BY <2>6 DEF DrainInv
    <2> QED BY <2>2, <2>3, <2>5, <2>7 DEF RecordInv
<1>18. HookInv'
    BY <1>2, <1>10 DEF DiskInv, HookInv, NoReader, HoldsRLock
<1>16. FreshInv'
    <2>1. \A n : Known(n)' => Known(n) \/ n = e.item
        <3> SUFFICES ASSUME NEW n, Known(n)', n # e.item PROVE Known(n)
            OBVIOUS
        <3>1. \A r \in IDs : Mentions(db'[r], n) => Mentions(db[r], n) \/ Mentions(data, n)
            BY <1>6, <1>8
        <3>2. \A q \in Procs : Mentions(io'[q].data, n) => Mentions(io[q].data, n)
            BY <1>7, <1>9, NothingKnown
        <3>3. \/ \E r \in IDs : Mentions(db'[r], n)
              \/ \E q \in Procs : Mentions(io'[q].data, n)
              \/ \E t \in Ptr : Mentions(drained[t], n)
            BY <1>2 DEF Known, Mentions
        <3> QED BY <1>1, <3>1, <3>2, <3>3 DEF Known
    <2>2. \A q \in Procs : HoldsRLock(q)' => q # p /\ HoldsRLock(q) /\ frame'[q] = frame[q]
        BY <1>10 DEF HoldsRLock
    <2>3. e.item <= captured
        BY <1>3, <1>5 DEF DiskInv, FreshInv
    <2>4. \A q \in Procs \ {p} : HoldsRLock(q) => frame[q].item # e.item
        BY <1>3, <1>5 DEF DiskInv, FreshInv
    <2>5. \A n \in Items : Known(n)' => n <= captured'
        BY <1>2, <2>1, <2>3 DEF DiskInv, FreshInv
    <2>6. \A q \in Procs, n \in Items : HoldsRLock(q)' /\ n = frame'[q].item =>
              n <= captured' /\ ~Known(n)'
        <3> SUFFICES ASSUME NEW q \in Procs, NEW n \in Items, HoldsRLock(q)', n = frame'[q].item
                     PROVE  n <= captured' /\ ~Known(n)'
            OBVIOUS
        <3>1. q # p /\ HoldsRLock(q) /\ n = frame[q].item
            BY <2>2
        <3>2. n # e.item
            BY <2>4, <3>1
        <3>3. n <= captured /\ ~Known(n)
            BY <3>1 DEF DiskInv, FreshInv
        <3> QED BY <1>2, <2>1, <3>2, <3>3
    <2>8. \A q \in Procs : HoldsRLock(q)' => frame'[q].item \in Items
        BY <2>2, OwnFrame DEF HoldsRLock
    <2>7. \A q, r \in Procs : HoldsRLock(q)' /\ HoldsRLock(r)' /\ frame'[q].item = frame'[r].item
                              => q = r
        BY <2>2 DEF DiskInv, FreshInv
    <2>9. \A q \in Procs : HoldsRLock(q)' =>
              (frame[q].item)' <= captured' /\ ~Known(frame[q].item)'
        BY <2>6, <2>8
    <2> QED BY <2>5, <2>7, <2>9 DEF FreshInv
<1>17. OnceInv'
    <2>1. ~Known(e.item) /\ ~Mentions(data, e.item) /\ \A t \in Ptr : ~Mentions(drained[t], e.item)
        BY <1>1, <1>3, <1>5 DEF DiskInv, FreshInv, Known
    <2>2. Distinct(data) /\ NewFor(data, s)
        BY <1>1, <1>3 DEF DiskInv, OnceInv
    <2>3. \A t \in Ptr : NewFor(list, t)
        <3> SUFFICES ASSUME NEW t \in Ptr, NEW i \in DOMAIN list, list[i].key = t
                     PROVE  ~Holds(drained[t], list[i])
            BY DEF NewFor
        <3>1. CASE i \in DOMAIN data /\ list[i] = data[i]
            <4>1. t = s
                BY <1>1, <1>2, <3>1 DEF DiskInv, RecordInv, AppendInv
            <4> QED BY <2>2, <3>1, <4>1 DEF NewFor
        <3>2. CASE list[i] = e
            BY <2>1, <3>2 DEF Holds, Mentions
        <3> QED BY <1>6, <3>1, <3>2
    <2>4. \A r \in IDs : Distinct(db'[r]) /\ \A t \in Ptr : NewFor(db'[r], t)
        BY <1>6, <1>8, <2>1, <2>2, <2>3 DEF DiskInv, OnceInv
    <2>5. \A r \in IDs : Distinct(db[r])' /\ \A t \in Ptr : NewFor(db[r], t)'
        BY <1>2, <2>4 DEF NewFor, Holds, Distinct
    <2>6. \A q \in Procs : HoldsMutex(q)' =>
              Distinct(io[q].data)' /\ NewFor(io[q].data, frame[q].ptr)'
        <3> SUFFICES ASSUME NEW q \in Procs, HoldsMutex(q)'
                     PROVE  Distinct(io[q].data)' /\ NewFor(io[q].data, frame[q].ptr)'
            OBVIOUS
        <3>1. frame'[q] = frame[q] /\ io'[q] = io[q] /\ HoldsMutex(q)
            BY <1>10 DEF HoldsMutex
        <3>2. Distinct(io[q].data) /\ NewFor(io[q].data, frame[q].ptr)
            BY <3>1 DEF DiskInv, OnceInv
        <3> QED BY <1>2, <3>1, <3>2 DEF NewFor, Holds, Distinct
    <2>7. DecryptableOnce'
        BY <1>2 DEF DiskInv, OnceInv, DecryptableOnce
    <2> QED BY <2>5, <2>6, <2>7 DEF OnceInv
<1> QED BY <1>7, <1>13, <1>14, <1>15, <1>16, <1>17, <1>18 DEF DiskInv

\* What a drain returns goes behind what was returned before.
LEMMA JoinedEntries ==
    ASSUME NEW a \in Seq(Entry), NEW b \in Seq(Entry)
    PROVE  /\ a \o b \in Seq(Entry)
           /\ \A i \in DOMAIN (a \o b) :
                 \/ i \in DOMAIN a /\ (a \o b)[i] = a[i]
                 \/ i - Len(a) \in DOMAIN b /\ i \in Nat /\ (a \o b)[i] = b[i - Len(a)]
           /\ \A n : Mentions(a \o b, n) => Mentions(a, n) \/ Mentions(b, n)
           /\ \A x : Holds(a \o b, x) => Holds(a, x) \/ Holds(b, x)
<1> DEFINE list == a \o b
<1>1. /\ list \in Seq(Entry)
      /\ Len(list) = Len(a) + Len(b)
      /\ \A i \in 1 .. Len(a) + Len(b) :
            list[i] = IF i <= Len(a) THEN a[i] ELSE b[i - Len(a)]
      /\ DOMAIN a = 1 .. Len(a) /\ DOMAIN b = 1 .. Len(b) /\ DOMAIN list = 1 .. Len(list)
      /\ Len(a) \in Nat /\ Len(b) \in Nat
    BY ConcatProperties
<1> HIDE DEF list
<1>2. \A i \in DOMAIN list :
          \/ i \in DOMAIN a /\ list[i] = a[i]
          \/ i - Len(a) \in DOMAIN b /\ i \in Nat /\ list[i] = b[i - Len(a)]
    BY <1>1
<1>3. \A n : Mentions(list, n) => Mentions(a, n) \/ Mentions(b, n)
    BY <1>2 DEF Mentions
<1>4. \A x : Holds(list, x) => Holds(a, x) \/ Holds(b, x)
    BY <1>2 DEF Holds
<1> QED BY <1>1, <1>2, <1>3, <1>4 DEF list

LEMMA DrainDeleteKeepsDiskInv ==
    ASSUME DiskInv, NEW p \in Procs, DrainDelete(p)
    PROVE  DiskInv'
<1>1. PICK id, s, data, list : /\ id = frame[p].id /\ s = frame[p].ptr
                               /\ data = io[p].data /\ list = drained[s] \o data
    OBVIOUS
<1>2. /\ io[p].step = "drainDelete"
      /\ db' = IF closed THEN db ELSE [db EXCEPT ![id] = <<>>]
      /\ mu' = [mu EXCEPT ![s] = None]
      /\ drained' = [drained EXCEPT ![s] = list]
      /\ io' = [io EXCEPT ![p] = NoIO]
      /\ Return(p)
      /\ UNCHANGED <<now, store, heap, counters, captured, delivered, history, closed>>
    BY <1>1 DEF DrainDelete
<1>3. HoldsMutex(p) /\ ~HoldsRLock(p)
    BY <1>2 DEF HoldsRLock, HoldsMutex
<1>4. id \in IDs /\ s \in Ptr /\ data \in Seq(Entry) /\ heap[s].id = id
      /\ drained[s] \in Seq(Entry)
    BY <1>1, <1>2, OwnFrame, DiskTypesOpen DEF InIO
<1>5. /\ list \in Seq(Entry)
      /\ \A i \in DOMAIN list :
            \/ i \in DOMAIN drained[s] /\ list[i] = drained[s][i]
            \/ /\ i - Len(drained[s]) \in DOMAIN data /\ i \in Nat
               /\ list[i] = data[i - Len(drained[s])]
      /\ \A n : Mentions(list, n) => Mentions(drained[s], n) \/ Mentions(data, n)
      /\ \A x : Holds(list, x) => Holds(drained[s], x) \/ Holds(data, x)
    <2>1. PICK before \in Seq(Entry) : before = drained[s]
        BY <1>4
    <2>2. list = before \o data
        BY <1>1, <2>1
    <2>3. /\ list \in Seq(Entry)
          /\ \A i \in DOMAIN list :
                \/ i \in DOMAIN before /\ list[i] = before[i]
                \/ i - Len(before) \in DOMAIN data /\ i \in Nat /\ list[i] = data[i - Len(before)]
          /\ \A n : Mentions(list, n) => Mentions(before, n) \/ Mentions(data, n)
          /\ \A x : Holds(list, x) => Holds(before, x) \/ Holds(data, x)
        BY <1>4, <2>2, JoinedEntries
    <2> QED BY <2>1, <2>3
<1>6. IInv' /\ LockInv' /\ \A q \in Procs \ {p} : frame'[q] = frame[q] /\ io'[q] = io[q]
    <2>1. LevelDBStep(p)
        BY <1>2, DiskTypesOpen DEF LevelDBStep
    <2> QED BY <2>1, LevelDBStepKeepsIInv DEF LevelDBStep
<1>7. /\ \A r \in IDs : db'[r] = db[r] \/ db'[r] = <<>>
      /\ db'[id] = <<>>
      /\ db' \in [IDs -> Seq(Entry)]
    <2>1. CASE closed
        <3>1. db' = db
            BY <1>2, <2>1
        <3> QED BY <1>4, <2>1, <3>1, DiskTypesOpen DEF DiskInv, RecordInv, ClosedInv
    <2>2. CASE ~closed
        <3>1. PICK e : e = <<>>
            OBVIOUS
        <3>2. db' = [db EXCEPT ![id] = e]
            BY <1>2, <2>2, <3>1
        <3>3. e \in Seq(Entry)
            BY <3>1, NothingKnown
        <3> QED BY <1>4, <3>1, <3>2, <3>3, DiskTypesOpen
    <2> QED BY <2>1, <2>2
<1>8. drained'[s] = list /\ \A t \in Ptr \ {s} : drained'[t] = drained[t]
    BY <1>2, <1>4, DiskTypesOpen
<1>9. io'[p].step = "none" /\ io'[p].data = <<>>
    BY <1>2, DiskTypesOpen DEF NoIO, AtIO
<1>10. \A q \in Procs : io'[q].step # "none" => q # p /\ frame'[q] = frame[q] /\ io'[q] = io[q]
    BY <1>6, <1>9
<1>11. \A q \in Procs \ {p} : HoldsMutex(q) => frame[q].ptr \in Ptr \ {s}
    <2>1. mu[s] = p
        BY <1>1, <1>3 DEF DiskInv, HoldInv
    <2> QED BY <2>1, OwnFrame DEF DiskInv, HoldInv, HoldsMutex
<1>12. DiskTypes'
    <2>1. drained' \in [Ptr -> Seq(Entry)]
        BY <1>2, <1>5, DiskTypesOpen
    <2>2. mu' \in [Ptr -> Procs \union {None}]
        BY <1>2, DiskTypesOpen
    <2>3. io' \in [Procs -> InIO]
        BY <1>2, NoIOTyped, DiskTypesOpen
    <2> QED BY <1>2, <1>7, <2>1, <2>2, <2>3 DEF DiskInv, DiskTypes
<1>13. HoldInv'
    <2>1. \A q \in Procs \ {p} : HoldsMutex(q) => mu'[frame[q].ptr] = mu[frame[q].ptr]
        BY <1>2, <1>11, DiskTypesOpen
    <2> QED BY <1>2, <1>10, <2>1 DEF DiskInv, HoldInv, HoldsRLock, HoldsMutex
<1>14. RecordInv'
    <2>1. RecordsBelongToSession'
        <3>1. \A r \in IDs, t \in Ptr : BeingEvicted(r, t) => BeingEvicted(r, t)'
            BY <1>2, <1>6 DEF BeingEvicted
        <3> QED BY <1>2, <1>7, <3>1, NothingKnown, RecordsKeyed
                DEF DiskInv, RecordInv, RecordsBelongToSession, BeingEvicted
    <2>2. ClosedInv'
        BY <1>2, <1>7 DEF DiskInv, RecordInv, ClosedInv
    <2>3. ASSUME NEW q \in Procs, io'[q].step = "appendPut"
          PROVE  /\ \A i \in DOMAIN io'[q].data : io'[q].data[i].key = frame'[q].ptr
                 /\ db'[frame'[q].id] \in {io'[q].data, <<>>}
        <3>1. frame'[q] = frame[q] /\ io'[q] = io[q]
            BY <1>10, <2>3
        <3>2. frame[q].id \in IDs
            BY <2>3, <3>1, OwnFrame
        <3> QED BY <1>7, <2>3, <3>1, <3>2 DEF DiskInv, RecordInv, AppendInv
    <2>4. AppendInv'
        BY <2>3 DEF AppendInv
    <2>5. DrainInv'
        <3>1. \A q \in Procs : io'[q].step = "drainDelete" =>
                  frame'[q] = frame[q] /\ io'[q] = io[q] /\ frame[q].id \in IDs
            BY <1>10, OwnFrame
        <3> QED BY <1>2, <1>7, <3>1 DEF DiskInv, RecordInv, DrainInv
    <2> QED BY <2>1, <2>2, <2>4, <2>5 DEF RecordInv
<1>17. HookInv'
    BY <1>2, <1>10 DEF DiskInv, HookInv, NoReader, HoldsRLock
<1>15. FreshInv'
    <2>1. \A n : Known(n)' => Known(n)
        <3> SUFFICES ASSUME NEW n, Known(n)' PROVE Known(n)
            OBVIOUS
        <3>1. \A r \in IDs : Mentions(db'[r], n) => Mentions(db[r], n)
            BY <1>7, NothingKnown
        <3>2. \A q \in Procs : Mentions(io'[q].data, n) => Mentions(io[q].data, n)
            BY <1>6, <1>9, NothingKnown
        <3>3. \A t \in Ptr : Mentions(drained'[t], n) => Mentions(drained[t], n) \/ Mentions(io[p].data, n)
            BY <1>1, <1>5, <1>8
        <3>4. \/ \E r \in IDs : Mentions(db'[r], n)
              \/ \E q \in Procs : Mentions(io'[q].data, n)
              \/ \E t \in Ptr : Mentions(drained'[t], n)
            BY DEF Known, Mentions
        <3> QED BY <3>1, <3>2, <3>3, <3>4 DEF Known
    <2>2. \A q \in Procs : HoldsRLock(q)' => HoldsRLock(q) /\ frame'[q] = frame[q]
        BY <1>10 DEF HoldsRLock
    <2> QED BY <1>2, <2>1, <2>2 DEF DiskInv, FreshInv
<1>16. OnceInv'
    <2>1. Distinct(data) /\ NewFor(data, s)
        BY <1>1, <1>3 DEF DiskInv, OnceInv
    <2>2. \A r \in IDs : Distinct(db[r])'
        BY <1>7, NothingKnown DEF DiskInv, OnceInv, Distinct
    <2>3. ASSUME NEW r \in IDs, NEW t \in Ptr
          PROVE  NewFor(db[r], t)'
        <3> SUFFICES ASSUME NEW i \in DOMAIN db'[r], db'[r][i].key = t
                     PROVE  ~Holds(drained'[t], db'[r][i])
            BY DEF NewFor, Holds
        <3>1. db'[r] = db[r] /\ r # id
            BY <1>7, NothingKnown
        <3>2. store.sessions[r] = t \/ heap[t].id = r
            BY <3>1 DEF DiskInv, RecordInv, RecordsBelongToSession, BeingEvicted
        <3>3. t # s
            BY <1>4, <3>1, <3>2, MappedOwn, NoneAssumption
        <3> QED BY <1>8, <3>1, <3>3 DEF DiskInv, OnceInv, NewFor
    <2>4. \A q \in Procs : HoldsMutex(q)' =>
              Distinct(io[q].data)' /\ NewFor(io[q].data, frame[q].ptr)'
        <3> SUFFICES ASSUME NEW q \in Procs, HoldsMutex(q)'
                     PROVE  Distinct(io[q].data)' /\ NewFor(io[q].data, frame[q].ptr)'
            OBVIOUS
        <3>1. frame'[q] = frame[q] /\ io'[q] = io[q] /\ HoldsMutex(q) /\ q # p
            BY <1>10 DEF HoldsMutex
        <3>2. Distinct(io[q].data) /\ NewFor(io[q].data, frame[q].ptr)
            BY <3>1 DEF DiskInv, OnceInv
        <3>3. drained'[frame[q].ptr] = drained[frame[q].ptr]
            BY <1>8, <1>11, <3>1
        <3> QED BY <3>1, <3>2, <3>3 DEF NewFor, Holds, Distinct
    <2>5. ASSUME NEW i \in DOMAIN list, NEW j \in DOMAIN list, list[i].key = s, list[j] = list[i]
          PROVE  i = j
        <3> DEFINE old(n) == n \in DOMAIN drained[s] /\ list[n] = drained[s][n]
                   new(n) == /\ n - Len(drained[s]) \in DOMAIN data /\ n \in Nat
                             /\ list[n] = data[n - Len(drained[s])]
        <3>1. \A m, n \in DOMAIN list : old(m) /\ new(n) /\ list[m] = list[n] => list[n].key # s
            BY <2>1 DEF NewFor, Holds
        <3>2. CASE old(i) /\ old(j)
            BY <1>4, <2>5, <3>2 DEF DiskInv, OnceInv, DecryptableOnce
        <3>3. CASE new(i) /\ new(j)
            <4>1. i - Len(drained[s]) = j - Len(drained[s])
                BY <2>1, <2>5, <3>3 DEF Distinct
            <4>2. Len(drained[s]) \in Nat
                BY <1>4
            <4> QED BY <3>3, <4>1, <4>2
        <3> QED BY <1>5, <2>5, <3>1, <3>2, <3>3
    <2>6. DecryptableOnce'
        BY <1>8, <2>5 DEF DiskInv, OnceInv, DecryptableOnce
    <2> QED BY <2>2, <2>3, <2>4, <2>6 DEF OnceInv
<1> QED BY <1>6, <1>12, <1>13, <1>14, <1>15, <1>16, <1>17 DEF DiskInv

LEMMA OnEvictKeepsDiskInv ==
    ASSUME DiskInv, NEW p \in Procs, OnEvict(p)
    PROVE  DiskInv'
<1>1. PICK s, id : s = io[p].gone /\ id = heap[s].id
    OBVIOUS
<1>2. /\ io[p].step = "onEvict"
      /\ db' = IF closed THEN db ELSE [db EXCEPT ![id] = <<>>]
      /\ io' = [io EXCEPT ![p] = NoIO]
      /\ UNCHANGED vars /\ UNCHANGED <<mu, closed, drained>>
    BY <1>1 DEF OnEvict
<1>3. UNCHANGED <<now, store, heap, counters, frame, captured, delivered, history>>
    BY <1>2 DEF vars
<1>4. IInv' /\ LockInv' /\ \A q \in Procs \ {p} : io'[q] = io[q]
    <2>1. LevelDBStep(p)
        BY <1>2, <1>3, DiskTypesOpen DEF LevelDBStep
    <2> QED BY <2>1, LevelDBStepKeepsIInv DEF LevelDBStep
<1>5. /\ \A r \in IDs : db'[r] = db[r] \/ db'[r] = <<>>
      /\ id \in IDs => db'[id] = <<>>
      /\ db' \in [IDs -> Seq(Entry)]
    <2>1. CASE closed
        <3>1. db' = db
            BY <1>2, <2>1
        <3> QED BY <2>1, <3>1, DiskTypesOpen DEF DiskInv, RecordInv, ClosedInv
    <2>2. CASE ~closed
        <3>1. PICK e : e = <<>>
            OBVIOUS
        <3>2. db' = [db EXCEPT ![id] = e]
            BY <1>2, <2>2, <3>1
        <3>3. e \in Seq(Entry)
            BY <3>1, NothingKnown
        <3> QED BY <3>1, <3>2, <3>3, DiskTypesOpen
    <2> QED BY <2>1, <2>2
<1>6. io'[p].step = "none" /\ io'[p].data = <<>>
    BY <1>2, DiskTypesOpen DEF NoIO, AtIO
<1>7. \A q \in Procs : io'[q].step # "none" => q # p /\ io'[q] = io[q]
    BY <1>4, <1>6
<1>8. /\ \A q \in Procs : HoldsRLock(q)' => HoldsRLock(q)
      /\ \A q \in Procs : HoldsMutex(q)' => HoldsMutex(q) /\ io'[q] = io[q]
    BY <1>7 DEF HoldsRLock, HoldsMutex
<1>9. DiskTypes'
    <2>1. io' \in [Procs -> InIO]
        BY <1>2, NoIOTyped, DiskTypesOpen
    <2> QED BY <1>2, <1>5, <2>1 DEF DiskInv, DiskTypes
<1>10. HoldInv' /\ HookInv'
    BY <1>2, <1>3, <1>7, <1>8 DEF DiskInv, HoldInv, HookInv, NoReader
<1>11. RecordsBelongToSession'
    <2> SUFFICES ASSUME NEW r \in IDs, NEW i \in DOMAIN db'[r], NEW key, key = db'[r][i].key
                 PROVE  \/ key = store'.sessions[r]
                        \/ /\ heap'[key].id = r
                           /\ \E q \in Procs : io'[q].step = "onEvict" /\ io'[q].gone = key
        BY DEF RecordsBelongToSession, BeingEvicted
    <2>1. db'[r] = db[r] /\ r # id
        BY <1>5, NothingKnown
    <2>2. key = store.sessions[r] \/ BeingEvicted(r, key)
        BY <2>1 DEF DiskInv, RecordInv, RecordsBelongToSession
    <2>3. BeingEvicted(r, key) => key # s
        BY <1>1, <2>1 DEF BeingEvicted
    <2> QED BY <1>1, <1>3, <1>4, <2>2, <2>3 DEF BeingEvicted
<1>12. RecordInv'
    <2>1. \A q \in Procs : io'[q].step \in {"appendPut", "drainDelete"} =>
              io'[q] = io[q] /\ frame[q].id \in IDs
        BY <1>7, OwnFrame
    <2>2. AppendInv' /\ DrainInv' /\ ClosedInv'
        BY <1>2, <1>3, <1>5, <2>1 DEF DiskInv, RecordInv, AppendInv, DrainInv, ClosedInv
    <2> QED BY <1>11, <2>2 DEF RecordInv
<1>13. FreshInv'
    <2>1. \A n : Known(n)' => Known(n)
        BY <1>2, <1>4, <1>5, <1>6, NothingKnown DEF Known, Mentions
    <2> QED BY <1>3, <1>8, <2>1 DEF DiskInv, FreshInv
<1>14. OnceInv'
    <2>1. \A r \in IDs : Distinct(db[r])' /\ \A t \in Ptr : NewFor(db[r], t)'
        BY <1>2, <1>5, NothingKnown DEF DiskInv, OnceInv, NewFor, Holds, Distinct
    <2>2. ASSUME NEW q \in Procs, HoldsMutex(q)'
          PROVE  Distinct(io[q].data)' /\ NewFor(io[q].data, frame[q].ptr)'
        <3>1. Distinct(io[q].data) /\ NewFor(io[q].data, frame[q].ptr)
            BY <1>8, <2>2 DEF DiskInv, OnceInv
        <3> QED BY <1>2, <1>3, <1>8, <2>2, <3>1 DEF NewFor, Holds, Distinct
    <2>3. DecryptableOnce'
        BY <1>2 DEF DiskInv, OnceInv, DecryptableOnce
    <2> QED BY <2>1, <2>2, <2>3 DEF OnceInv
<1> QED BY <1>4, <1>9, <1>10, <1>12, <1>13, <1>14 DEF DiskInv

-------------------------------------------------------------------------------
(* Close and Restart. *)

LEMMA CloseKeepsDiskInv ==
    ASSUME DiskInv, Close
    PROVE  DiskInv'
<1>1. /\ closed' = TRUE
      /\ db' = [id \in IDs |-> <<>>]
      /\ UNCHANGED vars
      /\ UNCHANGED <<mu, io, drained>>
    BY DEF Close
<1>2. IInv' /\ LockInv'
    BY <1>1, NextKeepsIInv, NextKeepsLockInv DEF DiskInv, FullInv
<1>3. UNCHANGED <<store, heap, frame, captured>>
    BY <1>1 DEF vars
<1>4. \A id \in IDs : db'[id] = <<>>
    BY <1>1
<1>5. DiskTypes'
    <2>1. db' \in [IDs -> Seq(Entry)]
        BY <1>1, NothingKnown
    <2> QED BY <1>1, <2>1 DEF DiskInv, DiskTypes
<1>6. HoldInv' /\ HookInv'
    BY <1>1, <1>3 DEF DiskInv, HoldInv, HookInv, NoReader, HoldsRLock, HoldsMutex
<1>7. RecordInv'
    <2>1. \A p \in Procs : io[p].step \in {"appendPut", "drainDelete"} => frame[p].id \in IDs
        BY OwnFrame
    <2>2. RecordsBelongToSession' /\ ClosedInv'
        BY <1>4, NothingKnown DEF RecordsBelongToSession, ClosedInv
    <2>3. AppendInv' /\ DrainInv'
        BY <1>1, <1>3, <1>4, <2>1 DEF DiskInv, RecordInv, AppendInv, DrainInv
    <2> QED BY <2>2, <2>3 DEF RecordInv
<1>8. FreshInv'
    <2>1. \A n : Known(n)' => Known(n)
        BY <1>1, <1>4, NothingKnown DEF Known, Mentions
    <2> QED BY <1>1, <1>3, <2>1 DEF DiskInv, FreshInv, HoldsRLock
<1>9. OnceInv'
    <2>1. \A id \in IDs : Distinct(db[id])' /\ \A s \in Ptr : NewFor(db[id], s)'
        BY <1>4, NothingKnown DEF Distinct, NewFor
    <2>2. \A q \in Procs : HoldsMutex(q)' =>
              Distinct(io[q].data)' /\ NewFor(io[q].data, frame[q].ptr)'
        BY <1>1, <1>3 DEF DiskInv, OnceInv, HoldsMutex, NewFor, Holds, Distinct
    <2>3. DecryptableOnce'
        BY <1>1 DEF DiskInv, OnceInv, DecryptableOnce
    <2> QED BY <2>1, <2>2, <2>3 DEF OnceInv
<1> QED BY <1>2, <1>5, <1>6, <1>7, <1>8, <1>9 DEF DiskInv

\* The state no call is in: no record, no lock, no step inside LevelDB.
NothingStored ==
    /\ db = [id \in IDs |-> <<>>]
    /\ mu = [s \in Ptr |-> None]
    /\ io = [p \in Procs |-> NoIO]
    /\ closed = FALSE

\* What was returned so far stays true of it.
DrainedRight ==
    /\ drained \in [Ptr -> Seq(Entry)]
    /\ DecryptableOnce
    /\ \A s \in Ptr : \A n \in Items : Mentions(drained[s], n) => n <= captured

LEMMA NothingStoredDiskInv == NothingStored /\ FullInv /\ DrainedRight => DiskInv
<1> SUFFICES ASSUME NothingStored, IInv, LockInv, DrainedRight PROVE DiskInv
    BY DEF FullInv
<1>1. \A p \in Procs : io[p].step = "none" /\ io[p].data = <<>>
    BY DEF NothingStored, NoIO, AtIO
<1>2. \A id \in IDs : db[id] = <<>>
    BY DEF NothingStored
<1>3. DiskTypes
    <2>1. db \in [IDs -> Seq(Entry)]
        BY NothingKnown DEF NothingStored
    <2>2. io \in [Procs -> InIO]
        BY NoIOTyped DEF NothingStored
    <2> QED BY <2>1, <2>2 DEF DiskTypes, NothingStored, DrainedRight
<1>4. HoldInv /\ HookInv
    BY <1>1 DEF HoldInv, HookInv, HoldsRLock, HoldsMutex
<1>5. RecordInv
    BY <1>1, <1>2, NothingKnown DEF RecordInv, RecordsBelongToSession, AppendInv, DrainInv,
                                   ClosedInv
<1>6. FreshInv
    <2>1. \A n : Known(n) => \E s \in Ptr : Mentions(drained[s], n)
        BY <1>1, <1>2, NothingKnown DEF Known
    <2> QED BY <1>1, <2>1 DEF FreshInv, HoldsRLock, DrainedRight
<1>7. OnceInv
    BY <1>1, <1>2, NothingKnown DEF OnceInv, HoldsMutex, DrainedRight
<1> QED BY <1>3, <1>4, <1>5, <1>6, <1>7 DEF DiskInv

LEMMA InitDiskInv == DiskInit => DiskInv
<1> SUFFICES ASSUME DiskInit PROVE DiskInv
    OBVIOUS
<1>1. FullInv
    BY InitIInv, InitLockInv DEF DiskInit, FullInv
<1>2. \A s \in Ptr : drained[s] = <<>>
    BY DEF DiskInit
<1>3. drained \in [Ptr -> Seq(Entry)]
    BY NothingKnown DEF DiskInit
<1>4. DecryptableOnce
    BY <1>2, NothingKnown DEF DecryptableOnce
<1>5. NothingStored
    BY DEF DiskInit, NothingStored
<1>6. \A s \in Ptr : \A n \in Items : Mentions(drained[s], n) => n <= captured
    BY <1>2, NothingKnown
<1> QED BY <1>1, <1>3, <1>4, <1>5, <1>6, NothingStoredDiskInv DEF DrainedRight

LEMMA NothingStoredNext == NothingStored' /\ FullInv' /\ DrainedRight' => DiskInv'
BY NothingStoredDiskInv, PTL

LEMMA RestartKeepsIInv ==
    ASSUME DiskInv, Restart
    PROVE  IInv'
<1>1. /\ store' = [sessions |-> [id \in IDs |-> None], lruList |-> <<>>,
                   lruMap |-> [id \in IDs |-> None]]
      /\ counters' = [counters EXCEPT !.hits = 0, !.misses = 0, !.evictions = 0]
      /\ frame' = [p \in Procs |-> Idle]
      /\ history' = [history EXCEPT !.deleted = counters.sessionsTotal]
      /\ UNCHANGED <<now, heap, captured, delivered>>
    BY DEF Restart
<1>2. TypeOK /\ counters \in Counters /\ history \in History
    BY Types DEF DiskInv, IInv
<1>3. /\ counters' = [hits |-> 0, misses |-> 0, evictions |-> 0,
                      sessionsTotal |-> counters.sessionsTotal]
      /\ counters.sessionsTotal \in 0 .. MaxSessions /\ counters.sessionsTotal \in Nat
    BY <1>1, <1>2, Types DEF Counters
<1>4. /\ counters' \in Counters /\ counters'.evictions = 0
      /\ counters'.sessionsTotal = counters.sessionsTotal
    BY <1>3 DEF Counters
<1>5. history' \in History /\ history'.deleted = counters.sessionsTotal
    BY <1>1, <1>2, <1>3 DEF History
<1>6. store' \in Store
    <2>1. PICK none : none = [id \in IDs |-> None]
        OBVIOUS
    <2>2. none \in [IDs -> Ptr \union {None}]
        BY <2>1
    <2>3. PICK empty : empty = <<>>
        OBVIOUS
    <2>4. empty \in Seq(Ptr)
        BY <2>3
    <2>5. store' = [sessions |-> none, lruList |-> empty, lruMap |-> none]
        BY <1>1, <2>1, <2>3
    <2> QED BY <2>2, <2>4, <2>5 DEF Store
<1>7. Idle \in Frame /\ frame' \in [Procs -> Frame]
    BY <1>1, IdleTyped
<1>8. TypeOK'
    BY <1>1, <1>2, <1>4, <1>5, <1>6, <1>7 DEF TypeOK
<1>9. FramesOK'
    <2>1. \A p \in Procs : FrameOK(frame[p])'
        BY <1>1, IdleFrame DEF FrameOK
    <2> QED BY <2>1 DEF FramesOK
<1>10. Live(store') = {}
    BY <1>1 DEF Live
<1>11. StoreInv'
    <2>1. store'.lruMap = store'.sessions /\ store'.lruList = <<>>
        BY <1>1
    <2>2. Coherent(store')
        BY <1>6, <1>10, <2>1 DEF Coherent, OneToOne, Distinct, Holds
    <2>3. Cardinality(Live(store')) = 0
        BY <1>10, FS_EmptySet
    <2>4. MapOwnsSessions' /\ CapacityRespected'
        BY <1>10, <2>3, CapacityAssumption DEF MapOwnsSessions, CapacityRespected
    <2>5. SessionConservation'
        BY <1>3, <1>4, <1>5, <2>3 DEF SessionConservation
    <2> QED BY <2>2, <2>4, <2>5 DEF StoreInv
<1> QED BY <1>8, <1>9, <1>11 DEF IInv

LEMMA RestartKeepsDiskInv ==
    ASSUME DiskInv, Restart
    PROVE  DiskInv'
<1>1. FullInv'
    <2>1. \A p \in Procs : ~InRegister(p)'
        BY DEF Restart, Idle, Call, InRegister
    <2>2. LockInv'
        BY <2>1 DEF Restart, DiskInv, LockInv, HoldsRoom, InRegister
    <2> QED BY <2>2, RestartKeepsIInv DEF FullInv
<1>2. NothingStored' /\ captured' = captured /\ drained' = drained
    BY DEF Restart, NothingStored
<1>3. DrainedRight
    BY DiskTypesOpen DEF DiskInv, OnceInv, FreshInv, Known, DrainedRight
<1>4. DrainedRight'
    BY <1>2, <1>3 DEF DrainedRight, DecryptableOnce, Mentions
<1> QED BY <1>1, <1>2, <1>4, NothingStoredNext

-------------------------------------------------------------------------------
(* The theorems. *)

\* One step of the store.
LEMMA NextKeepsDiskInv == DiskInv /\ [DiskNext]_allVars => DiskInv'
<1> SUFFICES ASSUME DiskInv, [DiskNext]_allVars PROVE DiskInv'
    OBVIOUS
<1>1. CASE UNCHANGED allVars
    <2>1. UNCHANGED vars /\ UNCHANGED <<store, heap, frame, captured, db, mu, io, closed, drained>>
        BY <1>1 DEF allVars, vars
    <2> QED BY <2>1, NextKeepsIInv, NextKeepsLockInv, IdleStepKeepsDiskInv DEF DiskInv, FullInv
<1>2. CASE Tick /\ UNCHANGED diskVars
    <2>1. IInv' /\ LockInv'
        BY <1>2, NextKeepsIInv, NextKeepsLockInv DEF DiskInv, FullInv, Next
    <2> QED BY <1>2, <2>1, IdleStepKeepsDiskInv DEF Tick, diskVars
<1>3. ASSUME NEW p \in Procs,
             \/ LockedCall(p) \/ OnEvict(p) \/ SharedCall(p)
             \/ \E id \in IDs : DiskAppend(p, id)
      PROVE  DiskInv'
    BY <1>3, LockedCallKeepsDiskInv, OnEvictKeepsDiskInv, SharedCallKeepsDiskInv, DiskAppendKeepsDiskInv
<1>4. ASSUME NEW p \in Procs, DiskAppendGet(p) \/ DiskAppendPut(p)
      PROVE  DiskInv'
    BY <1>4, DiskAppendGetKeepsDiskInv, DiskAppendPutKeepsDiskInv
<1>5. ASSUME NEW p \in Procs, DrainGet(p) \/ DrainDelete(p)
      PROVE  DiskInv'
    BY <1>5, DrainGetKeepsDiskInv, DrainDeleteKeepsDiskInv
<1> QED BY <1>1, <1>2, <1>3, <1>4, <1>5, CloseKeepsDiskInv, RestartKeepsDiskInv DEF DiskNext

\* The inductive invariant holds in every reachable state: the types, the map
\* of memoryStorage and what each process may rely on (storage.go:71-720).
THEOREM DiskInvariant == DiskSpec => []DiskInv
<1>1. DiskInit => DiskInv
    BY InitDiskInv
<1>2. DiskInv /\ [DiskNext]_allVars => DiskInv'
    BY NextKeepsDiskInv
<1> QED BY <1>1, <1>2, PTL DEF DiskSpec

\* However appends, evictions and re-registrations are interleaved, a record
\* holds entries of the session its ID is mapped to, and of no other
\* (storage.go:582-597).
THEOREM RecordsAlwaysBelong == DiskSpec => []RecordsBelongToSession
<1>1. DiskInv => RecordsBelongToSession
    BY DEF DiskInv, RecordInv
<1> QED BY <1>1, DiskInvariant, PTL

\* No interaction is handed twice to the client whose key it is encrypted with,
\* although handles of replaced sessions drain the same record under another
\* mutex, and whatever crashes (storage.go:655-685).
THEOREM DecryptableAtMostOnce == DiskSpec => []DecryptableOnce
<1>1. DiskInv => DecryptableOnce
    BY DEF DiskInv, OnceInv
<1> QED BY <1>1, DiskInvariant, PTL

\* The hooks and the LevelDB work leave the embedded map as memoryStorage keeps
\* it: within capacity, its sessions accounted for, and its handles held by who
\* presented the secret (storage.go:245-247, 349-353, 461-470).
THEOREM DiskKeepsTheMap ==
    DiskSpec => [](CapacityRespected /\ SessionConservation /\ HandleAuthorised)
<1>1. DiskInv => CapacityRespected /\ SessionConservation /\ HandleAuthorised
    <2> SUFFICES ASSUME DiskInv
                 PROVE  CapacityRespected /\ SessionConservation /\ HandleAuthorised
        OBVIOUS
    <2>1. CapacityRespected /\ SessionConservation
        BY DEF DiskInv, IInv, StoreInv
    <2>2. HandleAuthorised
        BY DEF DiskInv, IInv, FramesOK, FrameOK, HandleAuthorised
    <2> QED BY <2>1, <2>2
<1> QED BY <1>1, DiskInvariant, PTL

LEMMA PrefixItself ==
    ASSUME NEW list \in Seq(Entry)
    PROVE  IsPrefix(list, list)
BY LenProperties DEF IsPrefix

LEMMA PrefixOfAppend ==
    ASSUME NEW list \in Seq(Entry), NEW e \in Entry, NEW before,
           before \in {list, <<>>}
    PROVE  IsPrefix(before, Append(list, e))
<1>1. CASE before = <<>>
    <2>1. Len(before) = 0 /\ Len(Append(list, e)) \in Nat
        BY <1>1, AppendProperties, LenProperties
    <2>2. SubSeq(before, 1, 0) = <<>> /\ SubSeq(Append(list, e), 1, 0) = <<>>
        BY <1>1
    <2> QED BY <2>1, <2>2 DEF IsPrefix
<1>2. CASE before = list
    <2>1. /\ Append(list, e) \in Seq(Entry) /\ Len(Append(list, e)) = Len(list) + 1
          /\ Len(list) \in Nat
          /\ \A i \in 1 .. Len(list) : Append(list, e)[i] = list[i]
        BY AppendProperties, LenProperties
    <2>2. SubSeq(list, 1, Len(list)) = SubSeq(Append(list, e), 1, Len(list))
        BY <2>1
    <2> QED BY <1>2, <2>1, <2>2 DEF IsPrefix
<1> QED BY <1>1, <1>2

RecordStays(id) == IsPrefix(db[id], db'[id]) \/ HandedOver(id)

SessionStays(id) ==
    store.sessions[id] # None /\ store'.sessions[id] = store.sessions[id] /\ ~closed'

LEMMA StepKeepsRecord ==
    ASSUME DiskInv, [DiskNext]_allVars, NEW id \in IDs, SessionStays(id)
    PROVE  RecordStays(id)
<1>1. db[id] \in Seq(Entry)
    BY DiskTypesOpen
<1>2. CASE db'[id] = db[id]
    BY <1>1, <1>2, PrefixItself DEF RecordStays
<1>3. CASE UNCHANGED allVars
    BY <1>2, <1>3 DEF allVars
<1>4. CASE Tick /\ UNCHANGED diskVars
    BY <1>2, <1>4 DEF diskVars
<1>5. ASSUME NEW p \in Procs, LockedCall(p)
      PROVE  RecordStays(id)
    BY <1>2, <1>5 DEF LockedCall, Hooks, SessionStays
<1>10. ASSUME NEW p \in Procs, OnEvict(p)
       PROVE  RecordStays(id)
    <2>1. /\ io[p].step = "onEvict"
          /\ db' = db \/ db' = [db EXCEPT ![heap[io[p].gone].id] = <<>>]
        BY <1>10 DEF OnEvict
    <2>2. heap[io[p].gone].id # id
        BY <2>1 DEF DiskInv, HookInv, SessionStays
    <2>3. db'[id] = db[id]
        BY <2>1, <2>2, DiskTypesOpen
    <2> QED BY <1>2, <2>3
<1>6. ASSUME NEW p \in Procs,
             \/ SharedCall(p) \/ (\E r \in IDs : DiskAppend(p, r))
             \/ DiskAppendGet(p) \/ DrainGet(p)
      PROVE  RecordStays(id)
    BY <1>2, <1>6 DEF SharedCall, diskVars, DiskAppend, DiskAppendGet, DrainGet
<1>7. ASSUME NEW p \in Procs, DiskAppendPut(p)
      PROVE  RecordStays(id)
    <2>1. io[p].step = "appendPut" /\ HoldsRLock(p)
        BY <1>7 DEF DiskAppendPut, HoldsRLock
    <2>2. frame[p].id \in IDs /\ EntryOf(p) \in Entry /\ io[p].data \in Seq(Entry)
        BY <2>1, OwnFrame, DiskTypesOpen DEF InIO
    <2>3. \/ db' = db
          \/ db' = [db EXCEPT ![frame[p].id] = Append(io[p].data, EntryOf(p))]
        BY <1>7 DEF DiskAppendPut
    <2>4. db[frame[p].id] \in {io[p].data, <<>>}
        BY <2>1 DEF DiskInv, RecordInv, AppendInv
    <2>5. IsPrefix(db[frame[p].id], Append(io[p].data, EntryOf(p)))
        BY <2>2, <2>4, PrefixOfAppend
    <2>6. db'[id] = db[id] \/ IsPrefix(db[id], db'[id])
        BY <2>2, <2>3, <2>5, DiskTypesOpen
    <2> QED BY <1>2, <2>6 DEF RecordStays
<1>8. ASSUME NEW p \in Procs, DrainDelete(p)
      PROVE  RecordStays(id)
    <2>1. io[p].step = "drainDelete"
        BY <1>8 DEF DrainDelete
    <2>4. io'[p].step = "none"
        BY <1>8, DiskTypesOpen DEF DrainDelete, NoIO, AtIO
    <2>2. CASE frame[p].id = id
        <3>1. CASE db[id] = <<>>
            <4>1. db'[id] = db[id]
                BY <1>8, <2>2, <3>1, DiskTypesOpen DEF DrainDelete
            <4> QED BY <1>2, <4>1
        <3>2. CASE db[id] # <<>> /\ frame[p].ptr = store.sessions[id]
            <4>1. db[id] = io[p].data
                BY <2>1, <2>2, <3>2 DEF DiskInv, RecordInv, DrainInv
            <4>2. frame[p].ptr \in Ptr
                BY <2>1, OwnFrame
            <4>3. drained'[frame[p].ptr] = drained[frame[p].ptr] \o db[id]
                BY <1>8, <4>1, <4>2, DiskTypesOpen DEF DrainDelete
            <4> QED BY <2>1, <2>2, <2>4, <4>3 DEF RecordStays, HandedOver
        <3>3. CASE frame[p].ptr # store.sessions[id]
            BY <2>1, <2>2, <2>4, <3>3 DEF RecordStays, HandedOver
        <3> QED BY <3>1, <3>2, <3>3
    <2>3. CASE frame[p].id # id
        <3>1. db' = db \/ db' = [db EXCEPT ![frame[p].id] = <<>>]
            BY <1>8 DEF DrainDelete
        <3>2. db'[id] = db[id]
            BY <2>3, <3>1, DiskTypesOpen
        <3> QED BY <1>2, <3>2
    <2> QED BY <2>2, <2>3
<1>9. ~Close /\ ~Restart
    BY DEF Close, Restart, SessionStays
<1> QED BY <1>3, <1>4, <1>5, <1>6, <1>7, <1>8, <1>9, <1>10 DEF DiskNext

\* While a session stays mapped and the store open, what its record holds stays
\* a prefix of what it holds next, or a poll of that session returns all of it:
\* an append read under the mutex never overwrites what another wrote, and a
\* drain deletes no more than it read (storage.go:602-638, 655-673).  Only a
\* handle of a session that was replaced, which holds another mutex, is excepted.
THEOREM RecordsKeptUntilDrained == DiskSpec => RecordKeptUntilDrained
<1>1. DiskInv /\ [DiskNext]_allVars =>
          \A id \in IDs :
              store.sessions[id] # None /\ store'.sessions[id] = store.sessions[id] /\ ~closed' =>
                  IsPrefix(db[id], db'[id]) \/ HandedOver(id)
    BY StepKeepsRecord DEF RecordStays, SessionStays
<1> QED BY <1>1, DiskInvariant, PTL DEF DiskSpec, RecordKeptUntilDrained
===============================================================================
