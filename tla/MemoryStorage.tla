---------------------------- MODULE MemoryStorage -----------------------------
(***************************************************************************)
(* The in-memory session store of interactsh-srv (oobsrv/storage.go).      *)
(*                                                                         *)
(* A call is split where the code releases m.mu: what one Lock or RLock    *)
(* section does is one action, and what follows the unlock (hit counters,  *)
(* the lock-free touch of lastAccess, the LRU promotion, the append under  *)
(* session.mu) is a later action of the same process, so that other calls  *)
(* run in between with the session pointer already read.  Only a           *)
(* registration is split while it holds m.mu: evictLRU loads lastAccess    *)
(* session by session, and touches, which take no lock, fall in between.   *)
(*                                                                         *)
(* A session object (and the AES key made for it) is named by the order of *)
(* its creation, 1 .. sessionsTotal, and stays in the heap after it left   *)
(* the map: a process may still hold the pointer.  The list element that   *)
(* registerInternal pushes for a session is named by the same number.      *)
(***************************************************************************)
EXTENDS Naturals, Sequences, FiniteSets, SequencesExt

CONSTANTS
    IDs,              \* correlation IDs
    Secrets,          \* secret keys presented by clients
    Procs,            \* goroutines serving requests
    None,             \* nil pointer, absent map entry
    MaxCacheCapacity, \* maxCacheCapacity, 2 500 000 in the code
    MaxProbe,         \* maxProbe of evictLRU, 8 in the code
    TTL,              \* ttl, in ticks of the model's clock
    NoEviction,       \* noEviction
    SlidingTTL,       \* slidingTTL: expire after access, else after creation
    MaxSessions,      \* bound: session objects ever created
    MaxTime,          \* bound: clock
    MaxCalls,         \* bound: calls that count a hit or a miss
    MaxInteractions   \* bound: interactions captured

Ptr == 1 .. MaxSessions
Items == 1 .. MaxInteractions

ASSUME IDsAssumption == IsFiniteSet(IDs)
ASSUME NoneAssumption == None \notin Ptr /\ None \notin IDs /\ None \notin Secrets
ASSUME CapacityAssumption == MaxCacheCapacity \in Nat \ {0} /\ MaxProbe \in Nat \ {0}
ASSUME ModeAssumption == TTL \in Nat /\ NoEviction \in BOOLEAN /\ SlidingTTL \in BOOLEAN
ASSUME BoundAssumption == /\ MaxSessions \in Nat /\ MaxTime \in Nat
                          /\ MaxCalls \in Nat /\ MaxInteractions \in Nat

VARIABLES
    now,        \* m.now()
    store,      \* what m.mu guards: sessions, lruList and lruMap
    heap,       \* the Session objects
    counters,   \* hits, misses, evictions, sessionsTotal
    frame,      \* frame[p]: where process p is in its call, and its locals
    captured,   \* interactions handed to AppendInteraction so far
    delivered,  \* history: what the drains of a session returned, in order
    history     \* history: calls started, refusals, deletions

vars == <<now, store, heap, counters, frame, captured, delivered, history>>

Session == [id : IDs \union {None}, secret : Secrets \union {None},
            createdAt : Nat, lastAccess : Nat, interactions : Seq(Items)]

Store == [sessions : [IDs -> Ptr \union {None}],
          lruList : Seq(Ptr),
          lruMap : [IDs -> Ptr \union {None}]]

Counters == [hits : Nat, misses : Nat, evictions : Nat, sessionsTotal : 0 .. MaxSessions]
History == [calls : Nat, refused : Nat, deleted : Nat]

PCs == {"idle", "getTouch", "getPromote", "getRecheck", "getRefreshed", "handle",
        "appendTouch", "appendStore", "hasRecheck", "probe", "create"}

\* Locals of evictLRU: the position of elem, the rounds left, victimID and
\* victimTime.
Scan == [elem : Nat, left : 0 .. MaxProbe, victim : IDs \union {None}, time : Nat]
StartOfScan == [elem |-> 1, left |-> MaxProbe, victim |-> None, time |-> 0]

Frame == [pc : PCs, id : IDs \union {None}, secret : Secrets \union {None},
          ptr : Ptr \union {None}, item : Items \union {0}, scan : Scan]

Call(pc, id, secret, ptr, item) ==
    [pc |-> pc, id |-> id, secret |-> secret, ptr |-> ptr, item |-> item, scan |-> StartOfScan]

Idle == Call("idle", None, None, None, 0)

-------------------------------------------------------------------------------
(* Expiry, and the operations on the map and the LRU list under the lock. *)

Live(c) == {id \in IDs : c.sessions[id] # None}

IsExpired(s) ==
    /\ ~NoEviction
    /\ IF SlidingTTL THEN now > s.lastAccess + TTL ELSE now > s.createdAt + TTL

\* container/list Remove: elements are unique, so at most one goes.
Unlink(list, e) ==
    IF \E i \in DOMAIN list : list[i] = e
    THEN RemoveAt(list, CHOOSE i \in DOMAIN list : list[i] = e)
    ELSE list

\* Faulty variant: the list element is forgotten.
RemoveLockedKeepsElement(c, id) ==
    [c EXCEPT !.sessions[id] = None, !.lruMap[id] = None]

RemoveLocked(c, id) ==
    [sessions |-> [c.sessions EXCEPT ![id] = None],
     lruList  |-> Unlink(c.lruList, c.lruMap[id]),
     lruMap   |-> [c.lruMap EXCEPT ![id] = None]]

PromoteLRU(c, id) ==
    IF c.lruMap[id] = None THEN c
    ELSE [c EXCEPT !.lruList = Append(Unlink(@, c.lruMap[id]), c.lruMap[id])]

Insert(c, id, p) ==
    [sessions |-> [c.sessions EXCEPT ![id] = p],
     lruList  |-> Append(c.lruList, p),
     lruMap   |-> [c.lruMap EXCEPT ![id] = p]]

ExpiredHolder(id) ==
    store.sessions[id] # None /\ IsExpired(heap[store.sessions[id]])

\* The map after a registration has removed the expired holder of its ID.
Swept(id) == IF ExpiredHolder(id) THEN RemoveLocked(store, id) ELSE store

\* Faulty variant: the expired holder is not counted.
SweepUncounted(id) == 0

\* evictions.Add(1) for it.
Sweep(id) == IF ExpiredHolder(id) THEN 1 ELSE 0

\* Faulty variant: off by one.
BeyondCapacity(c) == Cardinality(Live(c)) > MaxCacheCapacity

AtCapacity(c) == Cardinality(Live(c)) >= MaxCacheCapacity

-------------------------------------------------------------------------------
Init ==
    /\ now = 0
    /\ store = [sessions |-> [id \in IDs |-> None],
                lruList  |-> <<>>,
                lruMap   |-> [id \in IDs |-> None]]
    /\ heap = [p \in Ptr |-> [id |-> None, secret |-> None, createdAt |-> 0,
                              lastAccess |-> 0, interactions |-> <<>>]]
    /\ counters = [hits |-> 0, misses |-> 0, evictions |-> 0, sessionsTotal |-> 0]
    /\ frame = [p \in Procs |-> Idle]
    /\ captured = 0
    /\ delivered = [p \in Ptr |-> <<>>]
    /\ history = [calls |-> 0, refused |-> 0, deleted |-> 0]

Tick ==
    /\ now < MaxTime
    /\ now' = now + 1
    /\ UNCHANGED <<store, heap, counters, frame, captured, delivered, history>>

\* A process takes up a call that counts a hit or a miss.
Starts(p) == frame[p].pc = "idle" /\ history.calls < MaxCalls

Goto(p, pc) == frame' = [frame EXCEPT ![p].pc = pc]
Return(p) == frame' = [frame EXCEPT ![p] = Idle]

\* m.mu is free: no registration is in the middle of its critical section.
InRegister(p) == frame[p].pc \in {"probe", "create"}
Unlocked == \A p \in Procs : ~InRegister(p)

\* touchSession on a hit, when ttl slides.
Touch(p) == heap' = IF SlidingTTL THEN [heap EXCEPT ![p].lastAccess = now] ELSE heap

\* Faulty variant: the secret is not looked at.
AuthorisedUnchecked(s, secret) == s \in Ptr

\* subtle.ConstantTimeCompare of the session's secret and the one presented.
Authorised(s, secret) == heap[s].secret = secret

-------------------------------------------------------------------------------
(* Register: one critical section, and in it one step per load of evictLRU. *)

RegisterKeepAlive(p, id, secret) ==
    /\ Starts(p) /\ Unlocked
    /\ store.sessions[id] # None /\ ~ExpiredHolder(id)
    /\ Authorised(store.sessions[id], secret)
    /\ counters' = [counters EXCEPT !.hits = @ + 1]
    /\ Touch(store.sessions[id])
    /\ store' = PromoteLRU(store, id)
    /\ history' = [history EXCEPT !.calls = @ + 1]
    /\ UNCHANGED <<now, frame, captured, delivered>>

\* "correlation-id provided already exists"; counted as a hit.
RegisterConflict(p, id, secret) ==
    /\ Starts(p) /\ Unlocked
    /\ store.sessions[id] # None /\ ~ExpiredHolder(id)
    /\ ~Authorised(store.sessions[id], secret)
    /\ counters' = [counters EXCEPT !.hits = @ + 1]
    /\ history' = [history EXCEPT !.calls = @ + 1]
    /\ UNCHANGED <<now, store, heap, frame, captured, delivered>>

\* The ID is free or becomes so; from here the process holds m.mu.
RegisterMiss(p, id, secret) ==
    /\ Starts(p) /\ Unlocked
    /\ store.sessions[id] = None \/ ExpiredHolder(id)
    /\ store' = Swept(id)
    /\ counters' = [counters EXCEPT !.misses = @ + 1, !.evictions = @ + Sweep(id)]
    /\ frame' = [frame EXCEPT ![p] =
           Call(IF AtCapacity(Swept(id)) THEN "probe" ELSE "create", id, secret, None, 0)]
    /\ history' = [history EXCEPT !.calls = @ + 1]
    /\ UNCHANGED <<now, heap, captured, delivered>>

\* Faulty variant: the comparison is the wrong way round.
ComparedNewest(scan, id, t) ==
    LET wins == scan.victim = None \/ t > scan.time
    IN [elem |-> scan.elem + 1, left |-> scan.left - 1,
        victim |-> IF wins THEN id ELSE scan.victim,
        time |-> IF wins THEN t ELSE scan.time]

\* A session probed with lastAccess t: strictly older wins.
Compared(scan, id, t) ==
    LET wins == scan.victim = None \/ t < scan.time
    IN [elem |-> scan.elem + 1, left |-> scan.left - 1,
        victim |-> IF wins THEN id ELSE scan.victim,
        time |-> IF wins THEN t ELSE scan.time]

ScanOver(scan) == scan.left = 0 \/ scan.elem > Len(store.lruList)

\* One round of the loop of evictLRU: an element without a session is dropped,
\* and its successor takes its place.
Probe(p) ==
    LET scan == frame[p].scan
        id == heap[store.lruList[scan.elem]].id
    IN /\ frame[p].pc = "probe" /\ ~ScanOver(scan)
       /\ IF store.sessions[id] = None
          THEN /\ store' = [store EXCEPT !.lruList = RemoveAt(@, scan.elem), !.lruMap[id] = None]
               /\ frame' = [frame EXCEPT ![p].scan.left = @ - 1]
          ELSE /\ frame' = [frame EXCEPT ![p].scan =
                      Compared(scan, id, heap[store.sessions[id]].lastAccess)]
               /\ UNCHANGED store
       /\ UNCHANGED <<now, heap, counters, captured, delivered, history>>

\* The loop has ended.
Evict(p) ==
    LET scan == frame[p].scan
    IN /\ frame[p].pc = "probe" /\ ScanOver(scan)
       /\ IF scan.victim = None
          THEN UNCHANGED <<store, counters>>
          ELSE /\ store' = RemoveLocked(store, scan.victim)
               /\ counters' = [counters EXCEPT !.evictions = @ + 1]
       /\ frame' = [frame EXCEPT ![p] = Call("create", frame[p].id, frame[p].secret, None, 0)]
       /\ UNCHANGED <<now, heap, captured, delivered, history>>

RegisterNew(p) ==
    LET s == counters.sessionsTotal + 1
        id == frame[p].id
    IN /\ frame[p].pc = "create"
       /\ s \in Ptr
       /\ heap' = [heap EXCEPT ![s] = [id |-> id, secret |-> frame[p].secret, createdAt |-> now,
                                       lastAccess |-> now, interactions |-> <<>>]]
       /\ store' = Insert(store, id, s)
       /\ counters' = [counters EXCEPT !.sessionsTotal = s]
       /\ Return(p)
       /\ UNCHANGED <<now, captured, delivered, history>>

\* GenerateAESKey or aes.NewCipher fails: room was made, nothing is inserted.
RegisterKeyError(p) ==
    /\ frame[p].pc = "create"
    /\ Return(p)
    /\ UNCHANGED <<now, store, heap, counters, captured, delivered, history>>

-------------------------------------------------------------------------------
(* GetSession, then GetAndClearInteractions on the handle. *)

\* The section under RLock.
GetSession(p, id, secret) ==
    LET s == store.sessions[id]
    IN /\ Starts(p) /\ Unlocked
       /\ \/ /\ s = None
             /\ counters' = [counters EXCEPT !.misses = @ + 1]
             /\ history' = [history EXCEPT !.calls = @ + 1]
             /\ UNCHANGED frame
          \/ /\ s # None /\ ~IsExpired(heap[s])
             /\ ~Authorised(s, secret)
             /\ history' = [history EXCEPT !.calls = @ + 1, !.refused = @ + 1]
             /\ UNCHANGED <<counters, frame>>
          \/ /\ s # None /\ ~IsExpired(heap[s])
             /\ Authorised(s, secret)
             /\ frame' = [frame EXCEPT ![p] = Call("getTouch", id, secret, s, 0)]
             /\ history' = [history EXCEPT !.calls = @ + 1]
             /\ UNCHANGED counters
          \/ /\ s # None /\ IsExpired(heap[s])
             /\ frame' = [frame EXCEPT ![p] = Call("getRecheck", id, secret, None, 0)]
             /\ history' = [history EXCEPT !.calls = @ + 1]
             /\ UNCHANGED counters
       /\ UNCHANGED <<now, store, heap, captured, delivered>>

\* After the unlock: the hit and the touch, by the pointer read before.
GetTouch(p) ==
    /\ frame[p].pc \in {"getTouch", "getRefreshed"}
    /\ counters' = [counters EXCEPT !.hits = @ + 1]
    /\ Touch(frame[p].ptr)
    /\ Goto(p, IF frame[p].pc = "getTouch" THEN "getPromote" ELSE "handle")
    /\ UNCHANGED <<now, store, captured, delivered, history>>

\* Under the lock again, by correlation ID.
GetPromote(p) ==
    /\ frame[p].pc = "getPromote" /\ Unlocked
    /\ store' = PromoteLRU(store, frame[p].id)
    /\ Goto(p, "handle")
    /\ UNCHANGED <<now, heap, counters, captured, delivered, history>>

\* The session looked expired under RLock: look again under Lock.
GetRecheck(p) ==
    LET id == frame[p].id
        s == store.sessions[id]
    IN /\ frame[p].pc = "getRecheck" /\ Unlocked
       /\ \/ /\ s = None
             /\ counters' = [counters EXCEPT !.misses = @ + 1]
             /\ Return(p)
             /\ UNCHANGED <<store, history>>
          \/ /\ s # None /\ IsExpired(heap[s])
             /\ store' = RemoveLocked(store, id)
             /\ counters' = [counters EXCEPT !.misses = @ + 1, !.evictions = @ + 1]
             /\ Return(p)
             /\ UNCHANGED history
          \/ /\ s # None /\ ~IsExpired(heap[s])
             /\ ~Authorised(s, frame[p].secret)
             /\ history' = [history EXCEPT !.refused = @ + 1]
             /\ Return(p)
             /\ UNCHANGED <<store, counters>>
          \/ /\ s # None /\ ~IsExpired(heap[s])
             /\ Authorised(s, frame[p].secret)
             /\ store' = PromoteLRU(store, id)
             /\ frame' = [frame EXCEPT ![p] = Call("getRefreshed", id, frame[p].secret, s, 0)]
             /\ UNCHANGED <<counters, history>>
       /\ UNCHANGED <<now, heap, captured, delivered>>

\* Faulty variant: the buffer is handed out and kept.
GetInteractionsKeepsBuffer(p) ==
    /\ frame[p].pc = "handle"
    /\ delivered' = [delivered EXCEPT ![frame[p].ptr] = @ \o heap[frame[p].ptr].interactions]
    /\ Return(p)
    /\ UNCHANGED <<now, store, heap, counters, captured, history>>

\* The whole buffer, under session.mu.
GetAndClearInteractions(p) ==
    LET s == frame[p].ptr
    IN /\ frame[p].pc = "handle"
       /\ delivered' = [delivered EXCEPT ![s] = @ \o heap[s].interactions]
       /\ heap' = [heap EXCEPT ![s].interactions = <<>>]
       /\ Return(p)
       /\ UNCHANGED <<now, store, counters, captured, history>>

-------------------------------------------------------------------------------
(* AppendInteraction: lookup, touch, append.  No expiry check anywhere. *)

AppendInteraction(p, id) ==
    LET s == store.sessions[id]
    IN /\ Starts(p) /\ Unlocked
       /\ captured < MaxInteractions
       /\ captured' = captured + 1
       /\ history' = [history EXCEPT !.calls = @ + 1]
       /\ \/ /\ s = None
             /\ counters' = [counters EXCEPT !.misses = @ + 1]
             /\ UNCHANGED frame
          \/ /\ s # None
             /\ frame' = [frame EXCEPT ![p] = Call("appendTouch", None, None, s, captured + 1)]
             /\ UNCHANGED counters
       /\ UNCHANGED <<now, store, heap, delivered>>

AppendTouch(p) ==
    /\ frame[p].pc = "appendTouch"
    /\ counters' = [counters EXCEPT !.hits = @ + 1]
    /\ Touch(frame[p].ptr)
    /\ Goto(p, "appendStore")
    /\ UNCHANGED <<now, store, captured, delivered, history>>

AppendStore(p) ==
    /\ frame[p].pc = "appendStore"
    /\ heap' = [heap EXCEPT ![frame[p].ptr].interactions = Append(@, frame[p].item)]
    /\ Return(p)
    /\ UNCHANGED <<now, store, counters, captured, delivered, history>>

-------------------------------------------------------------------------------
(* Delete does not look at expiry, and a deletion is not an eviction. *)

Delete(p, id, secret) ==
    LET s == store.sessions[id]
    IN /\ Starts(p) /\ Unlocked
       /\ \/ /\ s = None
             /\ counters' = [counters EXCEPT !.misses = @ + 1]
             /\ history' = [history EXCEPT !.calls = @ + 1]
             /\ UNCHANGED store
          \/ /\ s # None
             /\ ~Authorised(s, secret)
             /\ counters' = [counters EXCEPT !.hits = @ + 1]
             /\ history' = [history EXCEPT !.calls = @ + 1]
             /\ UNCHANGED store
          \/ /\ s # None
             /\ Authorised(s, secret)
             /\ counters' = [counters EXCEPT !.hits = @ + 1]
             /\ store' = RemoveLocked(store, id)
             /\ history' = [history EXCEPT !.calls = @ + 1, !.deleted = @ + 1]
       /\ UNCHANGED <<now, heap, frame, captured, delivered>>

\* HasCorrelationID counts nothing; only an expired session leads to a step
\* under the lock that can change anything.
HasCorrelationID(p, id) ==
    /\ frame[p].pc = "idle" /\ Unlocked
    /\ ExpiredHolder(id)
    /\ frame' = [frame EXCEPT ![p] = Call("hasRecheck", id, None, None, 0)]
    /\ UNCHANGED <<now, store, heap, counters, captured, delivered, history>>

\* Faulty variant: expiry is not looked at again under the lock.
HasRecheckTrustsFirstLook(p) ==
    /\ frame[p].pc = "hasRecheck" /\ Unlocked
    /\ IF store.sessions[frame[p].id] # None
       THEN /\ store' = RemoveLocked(store, frame[p].id)
            /\ counters' = [counters EXCEPT !.evictions = @ + 1]
       ELSE UNCHANGED <<store, counters>>
    /\ Return(p)
    /\ UNCHANGED <<now, heap, captured, delivered, history>>

HasRecheck(p) ==
    /\ frame[p].pc = "hasRecheck" /\ Unlocked
    /\ IF ExpiredHolder(frame[p].id)
       THEN /\ store' = RemoveLocked(store, frame[p].id)
            /\ counters' = [counters EXCEPT !.evictions = @ + 1]
       ELSE UNCHANGED <<store, counters>>
    /\ Return(p)
    /\ UNCHANGED <<now, heap, captured, delivered, history>>

-------------------------------------------------------------------------------
Register(p) ==
    \/ \E id \in IDs, secret \in Secrets :
          \/ RegisterKeepAlive(p, id, secret)
          \/ RegisterConflict(p, id, secret)
          \/ RegisterMiss(p, id, secret)
    \/ Probe(p)
    \/ Evict(p)
    \/ RegisterNew(p)
    \/ RegisterKeyError(p)

Poll(p) ==
    \/ \E id \in IDs, secret \in Secrets : GetSession(p, id, secret)
    \/ GetTouch(p)
    \/ GetPromote(p)
    \/ GetRecheck(p)
    \/ GetAndClearInteractions(p)

Capture(p) ==
    \/ \E id \in IDs : AppendInteraction(p, id)
    \/ AppendTouch(p)
    \/ AppendStore(p)

Lookup(p) == HasRecheck(p) \/ \E id \in IDs : HasCorrelationID(p, id)

Next ==
    \/ Tick
    \/ \E p \in Procs :
          \/ Register(p)
          \/ Poll(p)
          \/ Capture(p)
          \/ \E id \in IDs, secret \in Secrets : Delete(p, id, secret)
          \/ Lookup(p)

Spec == Init /\ [][Next]_vars
-------------------------------------------------------------------------------
(* What makes the store correct. *)

\* Type correctness of the whole state, and bounds of the allocation cursor.
TypeOK ==
    /\ now \in Nat
    /\ store \in Store
    /\ heap \in [Ptr -> Session]
    /\ counters \in Counters
    /\ frame \in [Procs -> Frame]
    /\ captured \in 0 .. MaxInteractions
    /\ delivered \in [Ptr -> Seq(Items)]
    /\ history \in History

\* The map, the LRU list and the element index describe the same sessions, each
\* once (storage.go:160-213): evictLRU never meets an element without a session
\* and never runs past a session it should have seen.
LRUCoherent ==
    /\ store.lruMap = store.sessions
    /\ \A i, j \in DOMAIN store.lruList : store.lruList[i] = store.lruList[j] => i = j
    /\ \A i \in DOMAIN store.lruList :
          \E id \in IDs : store.sessions[id] = store.lruList[i]
    /\ \A id \in Live(store) :
          \E i \in DOMAIN store.lruList : store.lruList[i] = store.sessions[id]

\* A mapped session is one that was created, under the ID it is mapped from, so
\* two IDs never share a session object.
MapOwnsSessions ==
    \A id \in Live(store) :
        /\ store.sessions[id] <= counters.sessionsTotal
        /\ heap[store.sessions[id]].id = id

\* The map never holds more than maxCacheCapacity sessions, in whatever order
\* expiries, failed registrations and evictions happen (storage.go:245-247).
CapacityRespected == Cardinality(Live(store)) <= MaxCacheCapacity

\* Every session ever created is live, was evicted (once, on whichever of the
\* four paths found it expired or needed room) or was deleted: the metrics
\* SessionsTotal, SessionCount and EvictionCount agree (storage.go:461-470).
SessionConservation ==
    counters.sessionsTotal =
        Cardinality(Live(store)) + counters.evictions + history.deleted

\* A poll that got past validation holds a session of the ID it asked for whose
\* secret it presented, also when the session was replaced by another client's
\* between the first look and the second (storage.go:349-353).
HandleAuthorised ==
    \A p \in Procs :
        frame[p].pc \in {"getTouch", "getPromote", "getRefreshed", "handle"} =>
            /\ heap[frame[p].ptr].id = frame[p].id
            /\ heap[frame[p].ptr].secret = frame[p].secret

\* id loses its session in this step.
Leaves(id) == store.sessions[id] # None /\ store'.sessions[id] # store.sessions[id]

Evicted(id) == Leaves(id) /\ history'.deleted = history.deleted

\* The session of id was accessed after evictLRU loaded its lastAccess.
TouchedSinceProbed(id) ==
    \E p \in Procs : /\ frame[p].pc = "probe"
                     /\ heap[store.sessions[id]].lastAccess > frame[p].scan.time

\* The session of id is in the probing window, and none of the window was
\* accessed before it.
OldestProbed(id) ==
    LET window == {i \in DOMAIN store.lruList : i <= MaxProbe}
    IN /\ \E i \in window : store.lruList[i] = store.sessions[id]
       /\ \/ TouchedSinceProbed(id)
          \/ \A i \in window : heap[store.sessions[id]].lastAccess
                                   <= heap[store.lruList[i]].lastAccess

\* A session is only ever evicted because it expired (the look taken before the
\* lock was upgraded never evicts one that a concurrent touch or registration
\* refreshed), or from a full map as the oldest of the probing window, unless it
\* was accessed while evictLRU was still probing (storage.go:160-188, 334-347,
\* 432-441).
EvictionJustified ==
    [][\A id \in IDs : Evicted(id) =>
          \/ IsExpired(heap[store.sessions[id]])
          \/ AtCapacity(store) /\ OldestProbed(id)]_vars

\* Pushed out for room: evicted although not expired.
PushedOut(id) == Evicted(id) /\ ~IsExpired(heap[store.sessions[id]])

\* Some other session was accessed at the same time or later.
NotMostRecent(id) ==
    \E other \in Live(store) \ {id} :
        heap[store.sessions[id]].lastAccess <= heap[store.sessions[other]].lastAccess

\* The probing window makes up for list positions that are behind lastAccess:
\* with a window of at least two, the session that was accessed last of all is
\* only pushed out if that access came after evictLRU had probed it
\* (storage.go:160-188).
VictimNotMostRecent ==
    [][\A id \in IDs : PushedOut(id) => NotMostRecent(id) \/ TouchedSinceProbed(id)]_vars

\* Every call the code makes is one the store's promise allows: interactions
\* stay in the mailbox of the session they were looked up for, in order, and
\* are drained once.
Promise == INSTANCE SessionStore
    WITH Sessions  <- Ptr,
         owner     <- store.sessions,
         opened    <- 1 .. counters.sessionsTotal,
         mailbox   <- [s \in Ptr |-> heap[s].interactions]

KeepsPromise == Promise!Spec
===============================================================================
