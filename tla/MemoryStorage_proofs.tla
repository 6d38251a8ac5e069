------------------------- MODULE MemoryStorage_proofs -------------------------
(***************************************************************************)
(* Theorems about MemoryStorage for every value of its constants.  The     *)
(* map, the LRU list and the element index are described by one predicate  *)
(* on the record m.mu guards, Coherent; the helpers called under the lock  *)
(* preserve it and change the set of live IDs by exactly what their names  *)
(* say.  The inductive invariant adds the types and what each process may  *)
(* assume about its locals between two critical sections.                  *)
(***************************************************************************)
EXTENDS MemoryStorage, FiniteSetTheorems, SequenceTheorems, TLAPS

\* list holds each of its elements once.
Distinct(list) == \A i, j \in DOMAIN list : list[i] = list[j] => i = j

Holds(list, e) == \E i \in DOMAIN list : list[i] = e

\* container/list Remove takes e out of the list and leaves the rest as it is.
LEMMA UnlinkRemoves ==
    ASSUME NEW S, NEW list \in Seq(S), NEW e, Distinct(list)
    PROVE  /\ Unlink(list, e) \in Seq(S)
           /\ Distinct(Unlink(list, e))
           /\ \A x : Holds(Unlink(list, e), x) <=> Holds(list, x) /\ x # e
<1>1. CASE ~Holds(list, e)
    BY <1>1 DEF Unlink, Holds
<1>2. CASE Holds(list, e)
    <2> DEFINE k == CHOOSE i \in DOMAIN list : list[i] = e
               front == SubSeq(list, 1, k - 1)
               back == SubSeq(list, k + 1, Len(list))
               rest == front \o back
    <2>1. k \in 1 .. Len(list) /\ list[k] = e
        BY <1>2 DEF Holds
    <2>2. Unlink(list, e) = rest
        BY <1>2 DEF Unlink, Holds, RemoveAt
    <2> HIDE DEF k
    <2>3. /\ front \in Seq(S) /\ Len(front) = k - 1
          /\ \A i \in 1 .. k - 1 : front[i] = list[i]
        BY <2>1, SubSeqProperties
    <2>4. /\ back \in Seq(S) /\ Len(back) = Len(list) - k
          /\ \A i \in 1 .. Len(list) - k : back[i] = list[i + k]
        BY <2>1, SubSeqProperties
    <2> HIDE DEF front, back
    <2>5. /\ rest \in Seq(S)
          /\ Len(rest) = Len(list) - 1
          /\ \A i \in 1 .. Len(rest) : rest[i] = IF i < k THEN list[i] ELSE list[i + 1]
        <3>1. /\ rest \in Seq(S)
              /\ Len(rest) = Len(front) + Len(back)
              /\ \A i \in 1 .. Len(front) + Len(back) :
                    rest[i] = IF i <= Len(front) THEN front[i] ELSE back[i - Len(front)]
            BY <2>3, <2>4, ConcatProperties
        <3> HIDE DEF rest
        <3>2. Len(rest) = Len(list) - 1
            BY <2>1, <2>3, <2>4, <3>1
        <3>3. ASSUME NEW i \in 1 .. Len(rest)
              PROVE  rest[i] = IF i < k THEN list[i] ELSE list[i + 1]
            <4>1. CASE i < k
                BY <2>1, <2>3, <2>4, <3>1, <3>2, <4>1
            <4>2. CASE ~(i < k)
                <5>1. rest[i] = back[i - (k - 1)]
                    BY <2>1, <2>3, <2>4, <3>1, <3>2, <4>2
                <5>2. i - (k - 1) \in 1 .. Len(list) - k
                    BY <2>1, <3>2, <4>2
                <5>3. back[i - (k - 1)] = list[(i - (k - 1)) + k]
                    BY <2>4, <5>2
                <5> QED BY <2>1, <4>2, <5>1, <5>3
            <4> QED BY <4>1, <4>2
        <3> QED BY <3>1, <3>2, <3>3
    <2> HIDE DEF rest
    <2>6. Distinct(rest)
        <3> SUFFICES ASSUME NEW i \in 1 .. Len(rest), NEW j \in 1 .. Len(rest),
                            rest[i] = rest[j]
                     PROVE  i = j
            BY <2>5 DEF Distinct
        <3> DEFINE at(n) == IF n < k THEN n ELSE n + 1
        <3>1. /\ at(i) \in DOMAIN list /\ at(j) \in DOMAIN list
              /\ list[at(i)] = list[at(j)]
            BY <2>1, <2>5
        <3>2. at(i) = at(j)
            BY <3>1 DEF Distinct
        <3> QED BY <2>1, <3>2
    <2>7. ASSUME NEW x, Holds(rest, x)
          PROVE  Holds(list, x) /\ x # e
        <3>1. PICK i \in 1 .. Len(rest) : rest[i] = x
            BY <2>5, <2>7 DEF Holds
        <3>2. CASE i < k
            BY <2>1, <2>5, <3>1, <3>2 DEF Holds, Distinct
        <3>3. CASE ~(i < k)
            BY <2>1, <2>5, <3>1, <3>3 DEF Holds, Distinct
        <3> QED BY <3>2, <3>3
    <2>8. ASSUME NEW x, Holds(list, x), x # e
          PROVE  Holds(rest, x)
        <3>1. PICK i \in 1 .. Len(list) : list[i] = x
            BY <2>8 DEF Holds
        <3>2. CASE i < k
            BY <2>1, <2>5, <3>1, <3>2 DEF Holds
        <3>3. CASE i > k
            <4>1. i - 1 \in 1 .. Len(rest) /\ rest[i - 1] = x
                BY <2>1, <2>5, <3>1, <3>3
            <4> QED BY <2>5, <4>1 DEF Holds
        <3> QED BY <2>1, <2>8, <3>1, <3>2, <3>3
    <2> QED BY <2>2, <2>5, <2>6, <2>7, <2>8
<1> QED BY <1>1, <1>2

-------------------------------------------------------------------------------
(* The map, the list and the element index describe the same sessions. *)

\* No two IDs share a session object.
OneToOne(c) == \A i, j \in Live(c) : c.sessions[i] = c.sessions[j] => i = j

Coherent(c) ==
    /\ c \in Store
    /\ c.lruMap = c.sessions
    /\ OneToOne(c)
    /\ Distinct(c.lruList)
    /\ \A e : Holds(c.lruList, e) <=> \E id \in Live(c) : c.sessions[id] = e

\* Every mapped session was created for the ID it is mapped from.
Owned(c) == \A id \in Live(c) : heap[c.sessions[id]].id = id

\* removeLocked takes exactly one ID out of the map.
LEMMA RemoveLockedCoherent ==
    ASSUME NEW c, Coherent(c), NEW id \in IDs
    PROVE  /\ Coherent(RemoveLocked(c, id))
           /\ Live(RemoveLocked(c, id)) = Live(c) \ {id}
           /\ RemoveLocked(c, id).sessions = [c.sessions EXCEPT ![id] = None]
<1> DEFINE e == c.lruMap[id]
           d == RemoveLocked(c, id)
<1>1. c \in Store
    BY DEF Coherent
<1>2. /\ d.sessions = [c.sessions EXCEPT ![id] = None]
      /\ d.lruList = Unlink(c.lruList, e)
      /\ d.lruMap = [c.lruMap EXCEPT ![id] = None]
    BY DEF RemoveLocked
<1>3. /\ Unlink(c.lruList, e) \in Seq(Ptr)
      /\ Distinct(Unlink(c.lruList, e))
      /\ \A x : Holds(Unlink(c.lruList, e), x) <=> Holds(c.lruList, x) /\ x # e
    BY <1>1, UnlinkRemoves DEF Coherent, Store
<1>4. d \in Store
    BY <1>1, <1>3 DEF Store, RemoveLocked
<1>5. Live(d) = Live(c) \ {id}
    BY <1>1, <1>2 DEF Live, Store
<1>6. \A x : Holds(d.lruList, x) <=> \E i \in Live(d) : d.sessions[i] = x
    <2>1. ASSUME NEW x, Holds(d.lruList, x)
          PROVE  \E i \in Live(d) : d.sessions[i] = x
        <3>1. Holds(c.lruList, x) /\ x # e
            BY <1>2, <1>3, <2>1
        <3>2. PICK i \in Live(c) : c.sessions[i] = x
            BY <3>1 DEF Coherent
        <3>3. i # id
            BY <3>1, <3>2 DEF Coherent
        <3> QED BY <1>1, <1>2, <1>5, <3>2, <3>3 DEF Live, Store
    <2>2. ASSUME NEW i \in Live(d)
          PROVE  Holds(d.lruList, d.sessions[i])
        <3>1. i \in Live(c) /\ i # id /\ d.sessions[i] = c.sessions[i]
            BY <1>1, <1>2, <1>5 DEF Live, Store
        <3>2. Holds(c.lruList, c.sessions[i])
            BY <3>1 DEF Coherent
        <3>3. c.sessions[i] # e
            BY <3>1 DEF Coherent, OneToOne, Live
        <3> QED BY <1>2, <1>3, <3>1, <3>2, <3>3
    <2> QED BY <2>1, <2>2
<1>7. OneToOne(d)
    BY <1>1, <1>2, <1>5 DEF Coherent, OneToOne, Live, Store
<1>8. d.lruMap = d.sessions
    BY <1>2 DEF Coherent
<1>9. Distinct(d.lruList)
    BY <1>2, <1>3
<1> QED BY <1>2, <1>4, <1>5, <1>6, <1>7, <1>8, <1>9 DEF Coherent

\* promoteLRU moves one element and leaves the map alone.
LEMMA PromoteLRUCoherent ==
    ASSUME NEW c, Coherent(c), NEW id \in IDs
    PROVE  /\ Coherent(PromoteLRU(c, id))
           /\ PromoteLRU(c, id).sessions = c.sessions
<1>1. c \in Store
    BY DEF Coherent
<1>2. CASE c.lruMap[id] = None
    BY <1>2 DEF PromoteLRU
<1>3. CASE c.lruMap[id] # None
    <2> DEFINE e == c.lruMap[id]
               list == Unlink(c.lruList, e)
               d == PromoteLRU(c, id)
    <2>1. /\ list \in Seq(Ptr)
          /\ Distinct(list)
          /\ \A x : Holds(list, x) <=> Holds(c.lruList, x) /\ x # e
        BY <1>1, UnlinkRemoves DEF Coherent, Store
    <2>2. e \in Ptr
        BY <1>1, <1>3 DEF Store
    <2>3. d = [c EXCEPT !.lruList = Append(list, e)]
        BY <1>3 DEF PromoteLRU
    <2> HIDE DEF list, e, d
    <2>4. d \in Store /\ d.sessions = c.sessions /\ d.lruMap = c.lruMap
          /\ d.lruList = Append(list, e)
        <3>1. Append(list, e) \in Seq(Ptr)
            BY <2>1, <2>2, AppendProperties
        <3> QED BY <1>1, <2>3, <3>1 DEF Store
    <2>5. /\ Distinct(d.lruList)
          /\ \A x : Holds(d.lruList, x) <=> Holds(list, x) \/ x = e
        <3>1. /\ Len(d.lruList) = Len(list) + 1
              /\ \A i \in 1 .. Len(list) : d.lruList[i] = list[i]
              /\ d.lruList[Len(list) + 1] = e
              /\ DOMAIN d.lruList = 1 .. Len(list) + 1
              /\ DOMAIN list = 1 .. Len(list)
              /\ Len(list) \in Nat
            BY <2>1, <2>2, <2>4, AppendProperties
        <3>2. \A x : Holds(d.lruList, x) <=> Holds(list, x) \/ x = e
            BY <3>1 DEF Holds
        <3>3. \A i \in 1 .. Len(list) : list[i] # e
            BY <2>1, <3>1 DEF Holds
        <3>4. Distinct(d.lruList)
            BY <2>1, <3>1, <3>3 DEF Distinct
        <3> QED BY <3>2, <3>4
    <2>6. Holds(c.lruList, e)
        BY <1>1, <1>3 DEF Coherent, Live, e
    <2>7. \A x : Holds(d.lruList, x) <=> Holds(c.lruList, x)
        BY <2>1, <2>5, <2>6
    <2>8. Live(d) = Live(c)
        BY <2>4 DEF Live
    <2>9. OneToOne(d)
        BY <2>4, <2>8 DEF Coherent, OneToOne
    <2>10. /\ d.lruMap = d.sessions
           /\ \A x : Holds(d.lruList, x) <=> \E i \in Live(d) : d.sessions[i] = x
        BY <2>4, <2>7, <2>8 DEF Coherent
    <2>11. Coherent(d)
        BY <2>4, <2>5, <2>9, <2>10 DEF Coherent
    <2> QED BY <2>4, <2>11 DEF d
<1> QED BY <1>2, <1>3

\* An insertion under a free ID, of a session no ID has, adds just that ID.
LEMMA InsertCoherent ==
    ASSUME NEW c, Coherent(c), NEW id \in IDs, id \notin Live(c),
           NEW s \in Ptr, \A i \in Live(c) : c.sessions[i] # s
    PROVE  /\ Coherent(Insert(c, id, s))
           /\ Live(Insert(c, id, s)) = Live(c) \union {id}
           /\ Insert(c, id, s).sessions = [c.sessions EXCEPT ![id] = s]
<1> DEFINE d == Insert(c, id, s)
<1>1. c \in Store /\ s # None
    BY NoneAssumption DEF Coherent
<1>2. /\ d.sessions = [c.sessions EXCEPT ![id] = s]
      /\ d.lruList = Append(c.lruList, s)
      /\ d.lruMap = [c.lruMap EXCEPT ![id] = s]
      /\ d \in Store
    BY <1>1 DEF Insert, Store
<1>3. Live(d) = Live(c) \union {id}
    BY <1>1, <1>2 DEF Live, Store
<1>4. OneToOne(d)
    BY <1>1, <1>2, <1>3 DEF Coherent, OneToOne, Live, Store
<1>5. ~Holds(c.lruList, s)
    BY DEF Coherent
<1>6. /\ Distinct(d.lruList)
      /\ \A x : Holds(d.lruList, x) <=> Holds(c.lruList, x) \/ x = s
    <2> DEFINE list == c.lruList
    <2>1. list \in Seq(Ptr) /\ Distinct(list)
        BY <1>1 DEF Store, Coherent
    <2>2. /\ \A i \in 1 .. Len(list) : d.lruList[i] = list[i]
          /\ d.lruList[Len(list) + 1] = s
          /\ DOMAIN d.lruList = 1 .. Len(list) + 1
          /\ DOMAIN list = 1 .. Len(list)
          /\ Len(list) \in Nat
        BY <1>2, <2>1, AppendProperties
    <2> HIDE DEF d
    <2>3. \A x : Holds(d.lruList, x) <=> Holds(list, x) \/ x = s
        BY <2>2 DEF Holds
    <2>4. \A i \in 1 .. Len(list) : list[i] # s
        BY <1>5, <2>2 DEF Holds
    <2>5. Distinct(d.lruList)
        BY <2>1, <2>2, <2>4 DEF Distinct
    <2> QED BY <2>3, <2>5
<1>7. \A x : Holds(d.lruList, x) <=> \E i \in Live(d) : d.sessions[i] = x
    <2> HIDE DEF d
    <2>1. \A i \in Live(c) : i # id /\ d.sessions[i] = c.sessions[i]
        BY <1>1, <1>2 DEF Live, Store
    <2>2. d.sessions[id] = s
        BY <1>1, <1>2 DEF Store
    <2>3. \A x : Holds(c.lruList, x) <=> \E i \in Live(c) : c.sessions[i] = x
        BY DEF Coherent
    <2> QED BY <1>3, <1>6, <2>1, <2>2, <2>3
<1>8. d.lruMap = d.sessions
    BY <1>2 DEF Coherent
<1> QED BY <1>2, <1>3, <1>4, <1>6, <1>7, <1>8 DEF Coherent
-------------------------------------------------------------------------------
(* The set of live IDs, counted. *)

LEMMA LiveFinite ==
    ASSUME NEW c
    PROVE  IsFiniteSet(Live(c)) /\ Cardinality(Live(c)) \in Nat
BY IDsAssumption, FS_Subset, FS_CardinalityType DEF Live

\* removeLocked takes one from the count of sessions.
LEMMA RemoveLockedCounts ==
    ASSUME NEW c, Coherent(c), NEW id \in Live(c)
    PROVE  Cardinality(Live(c)) = Cardinality(Live(RemoveLocked(c, id))) + 1
<1>1. id \in IDs
    BY DEF Live
<1>2. Live(RemoveLocked(c, id)) = Live(c) \ {id}
    BY <1>1, RemoveLockedCoherent
<1>3. IsFiniteSet(Live(c)) /\ Cardinality(Live(c)) \in Nat
    BY LiveFinite
<1>4. Cardinality(Live(c) \ {id}) = Cardinality(Live(c)) - 1
    BY <1>3, FS_RemoveElement
<1> QED BY <1>2, <1>3, <1>4

\* What holds of a store derived from another by removing sessions only.
Shrinks(c, d) ==
    /\ Coherent(d)
    /\ Owned(d)
    /\ Live(d) \subseteq Live(c)
    /\ \A id \in Live(d) : d.sessions[id] = c.sessions[id]

LEMMA RemoveLockedShrinks ==
    ASSUME NEW c, Coherent(c), Owned(c), NEW id \in IDs
    PROVE  Shrinks(c, RemoveLocked(c, id))
<1> DEFINE d == RemoveLocked(c, id)
<1>1. /\ Coherent(d)
      /\ Live(d) = Live(c) \ {id}
      /\ d.sessions = [c.sessions EXCEPT ![id] = None]
    BY RemoveLockedCoherent
<1>2. c \in Store
    BY DEF Coherent
<1> HIDE DEF d
<1>3. \A i \in Live(d) : d.sessions[i] = c.sessions[i]
    BY <1>1, <1>2 DEF Live, Store
<1>4. Owned(d)
    BY <1>1, <1>3 DEF Owned
<1> QED BY <1>1, <1>3, <1>4 DEF Shrinks, d

\* The first removal: the expired holder of the ID.
LEMMA SweptShrinks ==
    ASSUME Coherent(store), Owned(store), NEW id \in IDs,
           store.sessions[id] = None \/ ExpiredHolder(id)
    PROVE  /\ Shrinks(store, Swept(id))
           /\ id \notin Live(Swept(id))
           /\ Live(Swept(id)) = Live(store) \ {id}
           /\ Cardinality(Live(store)) =
                 Cardinality(Live(Swept(id))) + Sweep(id)
           /\ Sweep(id) \in Nat
<1>1. CASE ExpiredHolder(id)
    <2>1. Swept(id) = RemoveLocked(store, id) /\ id \in Live(store)
        BY <1>1 DEF Swept, ExpiredHolder, Live
    <2>2. Shrinks(store, RemoveLocked(store, id))
        BY RemoveLockedShrinks
    <2>3. Live(RemoveLocked(store, id)) = Live(store) \ {id}
        BY RemoveLockedCoherent
    <2>4. Cardinality(Live(store)) = Cardinality(Live(RemoveLocked(store, id))) + 1
        BY <2>1, RemoveLockedCounts
    <2> QED BY <1>1, <2>1, <2>2, <2>3, <2>4 DEF Sweep
<1>2. CASE ~ExpiredHolder(id)
    <2>1. Swept(id) = store /\ id \notin Live(store)
        BY <1>2 DEF Swept, Live
    <2> QED BY <1>2, <2>1, LiveFinite DEF Shrinks, Sweep
<1> QED BY <1>1, <1>2

-------------------------------------------------------------------------------
(* The counters and the history, as calls change them. *)

\* The parts of TypeOK, for steps that touch few of them.
LEMMA Types ==
    ASSUME TypeOK
    PROVE  /\ now \in Nat /\ store \in Store /\ heap \in [Ptr -> Session]
           /\ counters \in Counters
           /\ frame \in [Procs -> Frame]
           /\ captured \in 0 .. MaxInteractions
           /\ delivered \in [Ptr -> Seq(Items)]
           /\ history \in History
           /\ counters.sessionsTotal \in Nat /\ counters.sessionsTotal <= MaxSessions
           /\ counters.evictions \in Nat /\ history.deleted \in Nat
           /\ \A n \in 1 .. counters.sessionsTotal : n \in Ptr
BY BoundAssumption DEF TypeOK, Ptr, Counters, History

LEMMA CountersTyped ==
    ASSUME NEW c \in Counters
    PROVE  /\ [c EXCEPT !.hits = @ + 1] \in Counters
           /\ [c EXCEPT !.hits = @ + 1].sessionsTotal = c.sessionsTotal
           /\ [c EXCEPT !.hits = @ + 1].evictions = c.evictions
           /\ [c EXCEPT !.misses = @ + 1] \in Counters
           /\ [c EXCEPT !.misses = @ + 1].sessionsTotal = c.sessionsTotal
           /\ [c EXCEPT !.misses = @ + 1].evictions = c.evictions
BY DEF Counters

LEMMA EvictionsTyped ==
    ASSUME NEW c \in Counters, NEW n \in Nat, NEW d,
           d = [c EXCEPT !.misses = @ + 1, !.evictions = @ + n]
    PROVE  /\ d \in Counters
           /\ d.sessionsTotal = c.sessionsTotal
           /\ d.evictions = c.evictions + n
<1>1. d = [hits |-> c.hits, misses |-> c.misses + 1, evictions |-> c.evictions + n,
           sessionsTotal |-> c.sessionsTotal]
    BY DEF Counters
<1> QED BY <1>1 DEF Counters

LEMMA RegisteredTyped ==
    ASSUME NEW c \in Counters, NEW s \in 0 .. MaxSessions, NEW d,
           d = [c EXCEPT !.sessionsTotal = s]
    PROVE  d \in Counters /\ d.sessionsTotal = s /\ d.evictions = c.evictions
BY DEF Counters

LEMMA HistoryTyped ==
    ASSUME NEW h \in History
    PROVE  /\ [h EXCEPT !.calls = @ + 1] \in History
           /\ [h EXCEPT !.calls = @ + 1].deleted = h.deleted
           /\ [h EXCEPT !.refused = @ + 1] \in History
           /\ [h EXCEPT !.refused = @ + 1].deleted = h.deleted
BY DEF History

LEMMA RefusedTyped ==
    ASSUME NEW h \in History, NEW d,
           d = [h EXCEPT !.calls = @ + 1, !.refused = @ + 1]
    PROVE  d \in History /\ d.deleted = h.deleted
<1>1. d = [calls |-> h.calls + 1, refused |-> h.refused + 1, deleted |-> h.deleted]
    BY DEF History
<1> QED BY <1>1 DEF History

LEMMA DeletedTyped ==
    ASSUME NEW h \in History, NEW d,
           d = [h EXCEPT !.calls = @ + 1, !.deleted = @ + 1]
    PROVE  d \in History /\ d.deleted = h.deleted + 1
<1>1. d = [calls |-> h.calls + 1, refused |-> h.refused, deleted |-> h.deleted + 1]
    BY DEF History
<1> QED BY <1>1 DEF History

-------------------------------------------------------------------------------
(* The inductive invariant: the store part. *)

StoreInv ==
    /\ Coherent(store)
    /\ MapOwnsSessions
    /\ CapacityRespected
    /\ SessionConservation

\* No session changes its ID or its secret.
SameIdentity ==
    \A s \in Ptr : heap'[s].id = heap[s].id /\ heap'[s].secret = heap[s].secret

SameCounts ==
    /\ counters'.sessionsTotal = counters.sessionsTotal
    /\ counters'.evictions = counters.evictions
    /\ history'.deleted = history.deleted

LEMMA LiveTyped ==
    ASSUME NEW c, c \in Store
    PROVE  \A id \in Live(c) : id \in IDs /\ c.sessions[id] \in Ptr
BY DEF Live, Store

LEMMA OwnedStore ==
    ASSUME StoreInv
    PROVE  Owned(store)
BY DEF StoreInv, MapOwnsSessions, Owned

\* Steps that may reorder the list but leave the map as it is.
LEMMA SameSessionsKeepStoreInv ==
    ASSUME StoreInv, TypeOK, SameIdentity, SameCounts,
           Coherent(store'), store'.sessions = store.sessions
    PROVE  StoreInv'
<1>1. Live(store') = Live(store)
    BY DEF Live
<1>2. store \in Store
    BY DEF TypeOK
<1>3. \A id \in Live(store) : store.sessions[id] \in Ptr
    BY <1>2, LiveTyped
<1>4. MapOwnsSessions'
    BY <1>1, <1>3 DEF StoreInv, MapOwnsSessions, SameIdentity, SameCounts
<1>5. CapacityRespected' /\ SessionConservation'
    BY <1>1 DEF StoreInv, CapacityRespected, SessionConservation, SameCounts
<1> QED BY <1>4, <1>5 DEF StoreInv

LEMMA SameStoreKeepsStoreInv ==
    ASSUME StoreInv, TypeOK, SameIdentity, SameCounts, store' = store
    PROVE  StoreInv'
BY SameSessionsKeepStoreInv DEF StoreInv

\* A session leaves, and is counted as evicted or deleted.
LEMMA RemovalKeepsStoreInv ==
    ASSUME StoreInv, TypeOK, SameIdentity, NEW id \in Live(store),
           store' = RemoveLocked(store, id),
           counters'.sessionsTotal = counters.sessionsTotal,
           counters'.evictions + history'.deleted = counters.evictions + history.deleted + 1,
           counters'.evictions \in Nat, history'.deleted \in Nat
    PROVE  StoreInv'
<1>1. Coherent(store) /\ Owned(store) /\ id \in IDs
    BY OwnedStore DEF StoreInv, Live
<1>2. Shrinks(store, store')
    BY <1>1, RemoveLockedShrinks
<1>3. Cardinality(Live(store)) = Cardinality(Live(store')) + 1
    BY <1>1, RemoveLockedCounts
<1>4. Cardinality(Live(store)) \in Nat /\ Cardinality(Live(store')) \in Nat
    BY LiveFinite
<1>5. store \in Store /\ counters.evictions \in Nat /\ history.deleted \in Nat
      /\ counters.sessionsTotal \in Nat
    BY BoundAssumption DEF TypeOK, Counters, History
<1>6. MapOwnsSessions'
    BY <1>2, <1>5, LiveTyped DEF Shrinks, StoreInv, MapOwnsSessions, SameIdentity
<1>7. CapacityRespected'
    BY <1>3, <1>4, CapacityAssumption DEF StoreInv, CapacityRespected
<1>8. SessionConservation'
    BY <1>3, <1>4, <1>5 DEF StoreInv, SessionConservation
<1> QED BY <1>2, <1>6, <1>7, <1>8 DEF StoreInv, Shrinks

\* The sweep that opens a registration.
LEMMA SweepKeepsStoreInv ==
    ASSUME StoreInv, TypeOK, SameIdentity, NEW id \in IDs,
           store.sessions[id] = None \/ ExpiredHolder(id),
           store' = Swept(id),
           counters'.sessionsTotal = counters.sessionsTotal,
           counters'.evictions = counters.evictions + Sweep(id),
           history'.deleted = history.deleted
    PROVE  StoreInv'
<1>1. /\ Shrinks(store, store')
      /\ Cardinality(Live(store)) = Cardinality(Live(store')) + Sweep(id)
      /\ Sweep(id) \in Nat
    BY OwnedStore, SweptShrinks DEF StoreInv
<1>2. Cardinality(Live(store)) \in Nat /\ Cardinality(Live(store')) \in Nat
    BY LiveFinite
<1>3. MapOwnsSessions'
    BY <1>1, Types, LiveTyped DEF Shrinks, StoreInv, MapOwnsSessions, SameIdentity
<1>4. CapacityRespected'
    BY <1>1, <1>2, CapacityAssumption DEF StoreInv, CapacityRespected
<1>5. SessionConservation'
    BY <1>1, <1>2, Types DEF StoreInv, SessionConservation
<1> QED BY <1>1, <1>3, <1>4, <1>5 DEF StoreInv, Shrinks

\* The new session takes an ID that is free, in a map with room.
LEMMA RegisterNewKeepsStoreInv ==
    ASSUME StoreInv, TypeOK, NEW p \in Procs, RegisterNew(p), frame[p].id \in IDs,
           frame[p].id \notin Live(store), ~AtCapacity(store)
    PROVE  StoreInv'
<1> DEFINE s == counters.sessionsTotal + 1
           id == frame[p].id
<1>1. /\ s \in Ptr
      /\ store' = Insert(store, id, s)
      /\ heap' = [heap EXCEPT ![s] = [id |-> id, secret |-> frame[p].secret, createdAt |-> now,
                                      lastAccess |-> now, interactions |-> <<>>]]
      /\ counters' = [counters EXCEPT !.sessionsTotal = s]
      /\ history' = history
    BY DEF RegisterNew
<1>2. /\ store \in Store /\ heap \in [Ptr -> Session]
      /\ counters \in Counters
      /\ history \in History
    BY DEF TypeOK
<1>3. Cardinality(Live(store)) \in Nat /\ Cardinality(Live(store)) < MaxCacheCapacity
    BY LiveFinite, CapacityAssumption DEF AtCapacity
<1>4. \A i \in Live(store) : /\ store.sessions[i] \in Ptr
                             /\ store.sessions[i] <= counters.sessionsTotal
                             /\ heap[store.sessions[i]].id = i
    BY <1>2, LiveTyped DEF StoreInv, MapOwnsSessions
<1>5. \A i \in Live(store) : store.sessions[i] # s
    BY <1>4, Types
<1>6. /\ Coherent(store')
      /\ Live(store') = Live(store) \union {id}
      /\ store'.sessions = [store.sessions EXCEPT ![id] = s]
    BY <1>1, <1>5, InsertCoherent DEF StoreInv
<1>7. Cardinality(Live(store')) = Cardinality(Live(store)) + 1
    BY <1>6, LiveFinite, FS_AddElement
<1>8. /\ counters'.sessionsTotal = s
      /\ counters'.evictions = counters.evictions
      /\ history'.deleted = history.deleted
    BY <1>1, <1>2 DEF Counters
<1>9. MapOwnsSessions'
    <2> SUFFICES ASSUME NEW i \in Live(store')
                 PROVE  store'.sessions[i] <= counters'.sessionsTotal
                        /\ heap'[store'.sessions[i]].id = i
        BY DEF MapOwnsSessions
    <2>1. store.sessions \in [IDs -> Ptr \union {None}] /\ i \in IDs
        BY <1>2 DEF Store, Live
    <2>2. CASE i = id
        BY <1>1, <1>2, <1>6, <1>8, <2>1, <2>2, Types
    <2>3. CASE i # id
        <3>1. i \in Live(store) /\ store'.sessions[i] = store.sessions[i]
            BY <1>6, <2>1, <2>3
        <3>2. heap'[store.sessions[i]] = heap[store.sessions[i]]
            BY <1>1, <1>2, <1>4, <1>5, <3>1
        <3> QED BY <1>2, <1>4, <1>8, <3>1, <3>2, Types, BoundAssumption DEF Ptr
    <2> QED BY <2>2, <2>3
<1>10. CapacityRespected'
    BY <1>3, <1>7, CapacityAssumption DEF CapacityRespected
<1>11. SessionConservation'
    <2>1. /\ counters.sessionsTotal =
               Cardinality(Live(store)) + counters.evictions + history.deleted
          /\ counters.evictions \in Nat /\ history.deleted \in Nat
        BY Types DEF StoreInv, SessionConservation
    <2> QED BY <1>3, <1>7, <1>8, <2>1 DEF SessionConservation
<1> QED BY <1>6, <1>9, <1>10, <1>11 DEF StoreInv
-------------------------------------------------------------------------------
(* The inductive invariant: what a process may assume about its locals. *)

\* Locals left by a lookup that found a session, and the session they name.
FrameOK(f) ==
    /\ f.pc \in {"getTouch", "getPromote", "getRefreshed", "handle"} =>
          /\ f.id \in IDs
          /\ f.ptr \in 1 .. counters.sessionsTotal
          /\ heap[f.ptr].id = f.id
          /\ heap[f.ptr].secret = f.secret
    /\ f.pc \in {"getRecheck", "hasRecheck"} => f.id \in IDs
    /\ f.pc \in {"appendTouch", "appendStore"} =>
          f.ptr \in 1 .. counters.sessionsTotal /\ f.item \in Items
    /\ f.pc \in {"probe", "create"} => f.id \in IDs /\ f.secret \in Secrets

FramesOK == \A p \in Procs : FrameOK(frame[p])

IInv == TypeOK /\ FramesOK /\ StoreInv

\* The loop of evictLRU has seen the first elem - 1 elements: victim is one of
\* them, and time is not after the last access of any of them.
Scanned(scan) ==
    /\ scan.elem \in 1 .. Len(store.lruList) + 1
    /\ scan.elem + scan.left = MaxProbe + 1
    /\ scan.elem = 1 => scan.victim = None
    /\ scan.elem > 1 =>
          /\ scan.victim \in Live(store)
          /\ \E k \in 1 .. scan.elem - 1 : store.lruList[k] = store.sessions[scan.victim]
          /\ \A j \in 1 .. scan.elem - 1 : scan.time <= heap[store.lruList[j]].lastAccess

\* What the registration that holds m.mu found stays true until it lets go.
HoldsRoom(p) ==
    /\ InRegister(p) => frame[p].id \notin Live(store)
    /\ frame[p].pc = "create" => ~AtCapacity(store)
    /\ frame[p].pc = "probe" => AtCapacity(store) /\ Scanned(frame[p].scan)

LockInv ==
    /\ \A p, q \in Procs : InRegister(p) /\ InRegister(q) => p = q
    /\ \A p \in Procs : HoldsRoom(p)
    /\ \A s \in Ptr : heap[s].lastAccess <= now

\* IInv is inductive together with LockInv.
FullInv == IInv /\ LockInv

\* Sessions are only added, and keep their identity.
SessionsKept ==
    /\ counters'.sessionsTotal \in Nat
    /\ counters'.sessionsTotal >= counters.sessionsTotal
    /\ \A s \in 1 .. counters.sessionsTotal :
          heap'[s].id = heap[s].id /\ heap'[s].secret = heap[s].secret

LEMMA FrameKept ==
    ASSUME TypeOK, SessionsKept, NEW f, FrameOK(f)
    PROVE  FrameOK(f)'
<1>1. \A s \in 1 .. counters.sessionsTotal : s \in 1 .. counters'.sessionsTotal
    BY Types DEF SessionsKept
<1> QED BY <1>1 DEF FrameOK, SessionsKept

LEMMA FramesKept ==
    ASSUME TypeOK, FramesOK, SessionsKept, NEW p \in Procs,
           \A q \in Procs \ {p} : frame'[q] = frame[q],
           FrameOK(frame[p])'
    PROVE  FramesOK'
BY FrameKept DEF FramesOK

LEMMA StartTyped == StartOfScan \in Scan
BY CapacityAssumption DEF StartOfScan, Scan

LEMMA IdleFrame == FrameOK(Idle) /\ FrameOK(Idle)'
BY DEF FrameOK, Idle, Call

LEMMA InitIInv == Init => IInv
<1> SUFFICES ASSUME Init PROVE IInv
    OBVIOUS
<1> USE BoundAssumption
<1>1. <<>> \in Seq(Ptr) /\ <<>> \in Seq(Items)
    OBVIOUS
<1>2. Idle \in Frame
    BY StartTyped DEF Idle, Call, Frame, PCs
<1>3. TypeOK
    BY <1>1, <1>2 DEF Init, TypeOK, Store, Session, Counters, History
<1>4. FramesOK
    BY IdleFrame DEF Init, FramesOK
<1>5. Live(store) = {}
    BY DEF Init, Live
<1>6. StoreInv
    <2>1. store \in Store
        BY <1>3 DEF TypeOK
    <2>2. /\ store.lruMap = store.sessions /\ store.lruList = <<>>
          /\ counters.sessionsTotal = 0 /\ counters.evictions = 0 /\ history.deleted = 0
        BY DEF Init
    <2>3. Coherent(store)
        BY <1>5, <2>1, <2>2 DEF Coherent, OneToOne, Distinct, Holds
    <2>4. Cardinality(Live(store)) = 0
        BY <1>5, FS_EmptySet
    <2> QED BY <1>5, <2>2, <2>3, <2>4, CapacityAssumption
            DEF StoreInv, MapOwnsSessions, CapacityRespected, SessionConservation
<1> QED BY <1>3, <1>4, <1>6 DEF IInv

-------------------------------------------------------------------------------
(* Steps, one lemma per action. *)

LEMMA TouchTyped ==
    ASSUME IInv, NEW s \in Ptr, Touch(s)
    PROVE  heap' \in [Ptr -> Session] /\ SameIdentity
<1>1. now \in Nat /\ heap \in [Ptr -> Session]
    BY DEF IInv, TypeOK
<1>2. [heap EXCEPT ![s].lastAccess = now] \in [Ptr -> Session]
    BY <1>1 DEF Session
<1> QED BY <1>1, <1>2 DEF Touch, SameIdentity, Session

LEMMA SameIdentityKeepsSessions ==
    ASSUME IInv, SameIdentity, counters'.sessionsTotal = counters.sessionsTotal
    PROVE  SessionsKept
BY Types DEF IInv, SameIdentity, SessionsKept

LEMMA TickKeepsIInv ==
    ASSUME IInv, Tick
    PROVE  IInv'
<1>1. /\ now' = now + 1
      /\ UNCHANGED <<store, heap, counters, frame, captured, delivered, history>>
    BY DEF Tick
<1>2. TypeOK'
    BY <1>1 DEF IInv, TypeOK
<1>3. FramesOK'
    BY <1>1 DEF IInv, FramesOK, FrameOK
<1>4. StoreInv'
    BY <1>1, SameStoreKeepsStoreInv DEF IInv, SameIdentity, SameCounts
<1> QED BY <1>2, <1>3, <1>4 DEF IInv

LEMMA RegisterKeepAliveKeepsIInv ==
    ASSUME IInv, NEW p \in Procs, NEW id \in IDs, NEW secret \in Secrets,
           RegisterKeepAlive(p, id, secret)
    PROVE  IInv'
<1> DEFINE s == store.sessions[id]
<1>1. /\ s # None
      /\ counters' = [counters EXCEPT !.hits = @ + 1]
      /\ Touch(s)
      /\ store' = PromoteLRU(store, id)
      /\ history' = [history EXCEPT !.calls = @ + 1]
      /\ UNCHANGED <<now, frame, captured, delivered>>
    BY DEF RegisterKeepAlive
<1>2. s \in Ptr
    BY <1>1, Types DEF IInv, Store
<1>3. heap' \in [Ptr -> Session] /\ SameIdentity
    BY <1>1, <1>2, TouchTyped
<1>4. SameCounts
    BY <1>1, Types DEF IInv, SameCounts
<1>5. StoreInv'
    BY <1>1, <1>3, <1>4, PromoteLRUCoherent, SameSessionsKeepStoreInv DEF IInv, StoreInv
<1>6. TypeOK'
    <2>1. store' \in Store
        BY <1>5 DEF StoreInv, Coherent
    <2>2. counters' \in Counters /\ history' \in History
        BY <1>1, Types, CountersTyped, HistoryTyped DEF IInv
    <2> QED BY <1>1, <1>3, <2>1, <2>2, Types DEF IInv, TypeOK
<1>7. FramesOK'
    BY <1>1, <1>3, <1>4, SameIdentityKeepsSessions, FrameKept
       DEF IInv, FramesOK, SameCounts
<1> QED BY <1>5, <1>6, <1>7 DEF IInv

LEMMA RegisterConflictKeepsIInv ==
    ASSUME IInv, NEW p \in Procs, NEW id \in IDs, NEW secret \in Secrets,
           RegisterConflict(p, id, secret)
    PROVE  IInv'
<1>1. /\ counters' = [counters EXCEPT !.hits = @ + 1]
      /\ history' = [history EXCEPT !.calls = @ + 1]
      /\ UNCHANGED <<now, store, heap, frame, captured, delivered>>
    BY DEF RegisterConflict
<1>2. SameIdentity /\ SameCounts
    BY <1>1, Types DEF IInv, SameIdentity, SameCounts
<1>3. StoreInv'
    BY <1>1, <1>2, SameStoreKeepsStoreInv DEF IInv
<1>4. TypeOK'
    <2>2. counters' \in Counters /\ history' \in History
        BY <1>1, Types, CountersTyped, HistoryTyped DEF IInv
    <2> QED BY <1>1, <2>2, Types DEF IInv, TypeOK
<1>5. FramesOK'
    BY <1>1, <1>2, SameIdentityKeepsSessions, FrameKept DEF IInv, FramesOK, SameCounts
<1> QED BY <1>3, <1>4, <1>5 DEF IInv

\* One process moves on to the frame f.
LEMMA FrameSet ==
    ASSUME IInv, SessionsKept, NEW p \in Procs, NEW f \in Frame, FrameOK(f)',
           frame' = [frame EXCEPT ![p] = f]
    PROVE  frame' \in [Procs -> Frame] /\ FramesOK'
<1>1. frame \in [Procs -> Frame]
    BY Types DEF IInv
<1>2. frame' \in [Procs -> Frame] /\ frame'[p] = f /\ \A q \in Procs \ {p} : frame'[q] = frame[q]
    BY <1>1
<1>3. FrameOK(frame[p])'
    BY <1>2 DEF FrameOK
<1> QED BY <1>2, <1>3, FramesKept DEF IInv

LEMMA IdleTyped == Idle \in Frame
BY StartTyped DEF Idle, Call, Frame, PCs

\* A call that found a session takes its pointer along.
LEMMA FoundFrame ==
    ASSUME IInv, NEW id \in IDs, store.sessions[id] # None
    PROVE  /\ store.sessions[id] \in Ptr
           /\ store.sessions[id] \in 1 .. counters.sessionsTotal
           /\ heap[store.sessions[id]].id = id
<1>1. id \in Live(store) /\ store.sessions[id] \in Ptr
    BY Types DEF IInv, Live, Store
<1> QED BY <1>1, Types DEF IInv, StoreInv, MapOwnsSessions, Ptr

LEMMA GetSessionKeepsIInv ==
    ASSUME IInv, NEW p \in Procs, NEW id \in IDs, NEW secret \in Secrets,
           GetSession(p, id, secret)
    PROVE  IInv'
<1> DEFINE s == store.sessions[id]
<1>1. UNCHANGED <<now, store, heap, captured, delivered>>
    BY DEF GetSession
<1>2. counters' \in Counters /\ history' \in History /\ SameCounts
    <2>1. counters \in Counters /\ history \in History
        BY Types DEF IInv
    <2>2. counters' = counters \/ counters' = [counters EXCEPT !.misses = @ + 1]
        BY DEF GetSession
    <2>3. \/ history' = [history EXCEPT !.calls = @ + 1]
          \/ history' = [history EXCEPT !.calls = @ + 1, !.refused = @ + 1]
        BY DEF GetSession
    <2>4. counters' \in Counters /\ counters'.sessionsTotal = counters.sessionsTotal
          /\ counters'.evictions = counters.evictions
        BY <2>1, <2>2, CountersTyped
    <2>5. history' \in History /\ history'.deleted = history.deleted
        BY <2>1, <2>3, HistoryTyped, RefusedTyped
    <2> QED BY <2>4, <2>5 DEF SameCounts
<1>3. SameIdentity /\ SessionsKept
    BY <1>1, <1>2, SameIdentityKeepsSessions DEF SameIdentity, SameCounts
<1>4. StoreInv'
    BY <1>1, <1>2, <1>3, SameStoreKeepsStoreInv DEF IInv
<1>5. frame' \in [Procs -> Frame] /\ FramesOK'
    <2>1. CASE frame' = frame
        BY <1>3, <2>1, FrameKept, Types DEF IInv, FramesOK
    <2>2. CASE /\ s # None /\ heap[s].secret = secret
               /\ frame' = [frame EXCEPT ![p] = Call("getTouch", id, secret, s, 0)]
        <3>1. PICK f : f = Call("getTouch", id, secret, s, 0)
            OBVIOUS
        <3>2. frame' = [frame EXCEPT ![p] = f]
            BY <2>2, <3>1
        <3>3. s \in Ptr /\ s \in 1 .. counters.sessionsTotal /\ heap[s].id = id
            BY <2>2, FoundFrame
        <3>4. f \in Frame
            BY <3>1, <3>3, StartTyped DEF Call, Frame, PCs
        <3>5. FrameOK(f)
            BY <2>2, <3>1, <3>3 DEF Call, FrameOK, Authorised
        <3> QED BY <1>3, <3>2, <3>4, <3>5, FrameKept, FrameSet DEF IInv
    <2>3. CASE frame' = [frame EXCEPT ![p] = Call("getRecheck", id, secret, None, 0)]
        <3>1. PICK f : f = Call("getRecheck", id, secret, None, 0)
            OBVIOUS
        <3>2. frame' = [frame EXCEPT ![p] = f]
            BY <2>3, <3>1
        <3>3. f \in Frame /\ FrameOK(f)
            BY <3>1, StartTyped DEF Call, Frame, PCs, FrameOK
        <3> QED BY <1>3, <3>2, <3>3, FrameKept, FrameSet DEF IInv
    <2> QED BY <2>1, <2>2, <2>3 DEF GetSession, Authorised
<1>6. TypeOK'
    BY <1>1, <1>2, <1>5, Types DEF IInv, TypeOK
<1> QED BY <1>4, <1>5, <1>6 DEF IInv

\* Steps that only count, touch and move one process on, or append or drain.
LEMMA MoveOnKeepsIInv ==
    ASSUME IInv, NEW p \in Procs, NEW f \in Frame,
           now' = now, store' = store, captured' \in 0 .. MaxInteractions,
           heap' \in [Ptr -> Session], SameIdentity,
           counters' \in Counters, history' \in History, SameCounts,
           delivered' \in [Ptr -> Seq(Items)],
           frame' = [frame EXCEPT ![p] = f], FrameOK(f)
    PROVE  IInv'
<1>1. SessionsKept
    BY SameIdentityKeepsSessions DEF SameCounts
<1>2. FrameOK(f)'
    BY <1>1, FrameKept DEF IInv
<1>3. frame' \in [Procs -> Frame] /\ FramesOK'
    BY <1>1, <1>2, FrameSet
<1>4. StoreInv'
    BY SameStoreKeepsStoreInv DEF IInv
<1>5. TypeOK'
    BY <1>3, Types DEF IInv, TypeOK
<1> QED BY <1>3, <1>4, <1>5 DEF IInv

\* The frame a process moves to when only its pc changes.
LEMMA GotoFrame ==
    ASSUME IInv, NEW p \in Procs, NEW pc \in PCs, Goto(p, pc)
    PROVE  /\ frame' = [frame EXCEPT ![p] = [frame[p] EXCEPT !.pc = pc]]
           /\ [frame[p] EXCEPT !.pc = pc] \in Frame
BY Types DEF IInv, Goto, Frame

LEMMA GetTouchKeepsIInv ==
    ASSUME IInv, NEW p \in Procs, GetTouch(p)
    PROVE  IInv'
<1> DEFINE s == frame[p].ptr
           next == IF frame[p].pc = "getTouch" THEN "getPromote" ELSE "handle"
<1>1. /\ frame[p].pc \in {"getTouch", "getRefreshed"}
      /\ counters' = [counters EXCEPT !.hits = @ + 1]
      /\ Touch(s)
      /\ Goto(p, next)
      /\ UNCHANGED <<now, store, captured, delivered, history>>
    BY DEF GetTouch
<1>2. FrameOK(frame[p])
    BY DEF IInv, FramesOK
<1>3. s \in Ptr
    BY <1>1, <1>2, Types DEF IInv, FrameOK
<1>4. heap' \in [Ptr -> Session] /\ SameIdentity
    BY <1>1, <1>3, TouchTyped
<1>5. counters' \in Counters /\ SameCounts
    BY <1>1, CountersTyped, Types DEF IInv, SameCounts
<1>6. next \in PCs
    BY DEF PCs
<1> HIDE DEF next
<1>7. PICK f : f = [frame[p] EXCEPT !.pc = next]
    OBVIOUS
<1>8. frame' = [frame EXCEPT ![p] = f] /\ f \in Frame
    BY <1>1, <1>6, <1>7, GotoFrame
<1>9. FrameOK(f)
    BY <1>1, <1>2, <1>7, Types DEF IInv, Frame, FrameOK, next
<1> QED BY <1>1, <1>4, <1>5, <1>8, <1>9, MoveOnKeepsIInv, Types DEF IInv

LEMMA GetPromoteKeepsIInv ==
    ASSUME IInv, NEW p \in Procs, GetPromote(p)
    PROVE  IInv'
<1>1. /\ frame[p].pc = "getPromote"
      /\ store' = PromoteLRU(store, frame[p].id)
      /\ Goto(p, "handle")
      /\ UNCHANGED <<now, heap, counters, captured, delivered, history>>
    BY DEF GetPromote
<1>2. FrameOK(frame[p])
    BY DEF IInv, FramesOK
<1>3. frame[p].id \in IDs
    BY <1>1, <1>2 DEF FrameOK
<1>4. SameIdentity /\ SameCounts /\ SessionsKept
    BY <1>1, SameIdentityKeepsSessions DEF SameIdentity, SameCounts
<1>5. StoreInv'
    BY <1>1, <1>3, <1>4, PromoteLRUCoherent, SameSessionsKeepStoreInv DEF IInv, StoreInv
<1>6. PICK f : f = [frame[p] EXCEPT !.pc = "handle"]
    OBVIOUS
<1>7. frame' = [frame EXCEPT ![p] = f] /\ f \in Frame
    BY <1>1, <1>6, GotoFrame DEF PCs
<1>8. FrameOK(f)
    BY <1>1, <1>2, <1>6, Types DEF IInv, Frame, FrameOK
<1>9. frame' \in [Procs -> Frame] /\ FramesOK'
    BY <1>4, <1>7, <1>8, FrameKept, FrameSet DEF IInv
<1>10. TypeOK'
    <2>1. store' \in Store
        BY <1>5 DEF StoreInv, Coherent
    <2> QED BY <1>1, <1>9, <2>1, Types DEF IInv, TypeOK
<1> QED BY <1>5, <1>9, <1>10 DEF IInv

\* Steps that take id out of the map and end the call.
LEMMA RemoveAndReturnKeepsIInv ==
    ASSUME IInv, NEW p \in Procs, NEW id \in IDs, store.sessions[id] # None,
           store' = RemoveLocked(store, id),
           UNCHANGED <<now, heap, captured, delivered>>,
           counters' \in Counters, history' \in History,
           counters'.sessionsTotal = counters.sessionsTotal,
           counters'.evictions + history'.deleted = counters.evictions + history.deleted + 1,
           frame' = frame \/ Return(p)
    PROVE  IInv'
<1>1. SameIdentity /\ SessionsKept
    BY SameIdentityKeepsSessions DEF SameIdentity
<1>2. id \in Live(store) /\ counters'.evictions \in Nat /\ history'.deleted \in Nat
    BY DEF Live, Counters, History
<1>3. StoreInv'
    BY <1>1, <1>2, RemovalKeepsStoreInv DEF IInv
<1>4. frame' \in [Procs -> Frame] /\ FramesOK'
    <2>1. CASE frame' = frame
        BY <1>1, <2>1, FrameKept, Types DEF IInv, FramesOK
    <2>2. CASE Return(p)
        BY <1>1, <2>2, IdleFrame, IdleTyped, FrameSet DEF Return
    <2> QED BY <2>1, <2>2
<1>5. TypeOK'
    <2>1. store' \in Store
        BY <1>3 DEF StoreInv, Coherent
    <2> QED BY <1>4, <2>1, Types DEF IInv, TypeOK
<1> QED BY <1>3, <1>4, <1>5 DEF IInv

LEMMA GetRecheckKeepsIInv ==
    ASSUME IInv, NEW p \in Procs, GetRecheck(p)
    PROVE  IInv'
<1> DEFINE id == frame[p].id
           s == store.sessions[id]
<1>1. frame[p].pc = "getRecheck" /\ UNCHANGED <<now, heap, captured, delivered>>
    BY DEF GetRecheck
<1>2. FrameOK(frame[p]) /\ id \in IDs
    BY <1>1 DEF IInv, FramesOK, FrameOK
<1>3. counters \in Counters /\ history \in History
    BY Types DEF IInv
<1>4. CASE s = None
    <2>1. counters' = [counters EXCEPT !.misses = @ + 1] /\ Return(p)
          /\ UNCHANGED <<store, history>>
        BY <1>4 DEF GetRecheck
    <2>2. counters' \in Counters /\ SameIdentity /\ SameCounts
        BY <1>1, <1>3, <2>1, CountersTyped DEF SameIdentity, SameCounts
    <2> QED BY <1>1, <1>3, <2>1, <2>2, IdleTyped, IdleFrame, MoveOnKeepsIInv, Types
            DEF IInv, Return
<1>5. CASE s # None /\ IsExpired(heap[s])
    <2>1. /\ store' = RemoveLocked(store, id)
          /\ counters' = [counters EXCEPT !.misses = @ + 1, !.evictions = @ + 1]
          /\ Return(p) /\ history' = history
        BY <1>5 DEF GetRecheck
    <2>2. /\ counters' \in Counters
          /\ counters'.sessionsTotal = counters.sessionsTotal
          /\ counters'.evictions = counters.evictions + 1
        BY <1>3, <2>1, EvictionsTyped
    <2>3. counters'.evictions + history'.deleted = counters.evictions + history.deleted + 1
        BY <2>1, <2>2, Types DEF IInv
    <2> QED BY <1>1, <1>2, <1>3, <1>5, <2>1, <2>2, <2>3, RemoveAndReturnKeepsIInv
<1>6. CASE s # None /\ ~IsExpired(heap[s]) /\ heap[s].secret # frame[p].secret
    <2>1. history' = [history EXCEPT !.refused = @ + 1] /\ Return(p)
          /\ UNCHANGED <<store, counters>>
        BY <1>6 DEF GetRecheck, Authorised
    <2>2. history' \in History /\ SameIdentity /\ SameCounts
        BY <1>1, <1>3, <2>1, HistoryTyped DEF SameIdentity, SameCounts
    <2> QED BY <1>1, <1>3, <2>1, <2>2, IdleTyped, IdleFrame, MoveOnKeepsIInv, Types
            DEF IInv, Return
<1>7. CASE s # None /\ ~IsExpired(heap[s]) /\ heap[s].secret = frame[p].secret
    <2>1. /\ store' = PromoteLRU(store, id)
          /\ frame' = [frame EXCEPT ![p] = Call("getRefreshed", id, frame[p].secret, s, 0)]
          /\ UNCHANGED <<counters, history>>
        BY <1>7 DEF GetRecheck, Authorised
    <2>2. SameIdentity /\ SameCounts /\ SessionsKept
        BY <1>1, <2>1, SameIdentityKeepsSessions DEF SameIdentity, SameCounts
    <2>3. StoreInv'
        BY <1>2, <2>1, <2>2, PromoteLRUCoherent, SameSessionsKeepStoreInv DEF IInv, StoreInv
    <2>4. s \in Ptr /\ s \in 1 .. counters.sessionsTotal /\ heap[s].id = id
        BY <1>2, <1>7, FoundFrame
    <2>5. PICK f : f = Call("getRefreshed", id, frame[p].secret, s, 0)
        OBVIOUS
    <2>6. frame[p] \in Frame /\ frame \in [Procs -> Frame]
        BY Types DEF IInv
    <2>7. f \in Frame
        BY <1>2, <2>4, <2>5, <2>6, StartTyped DEF Call, Frame, PCs
    <2>8. frame' = [frame EXCEPT ![p] = f]
        BY <2>1, <2>5
    <2>9. FrameOK(f)
        BY <1>2, <1>7, <2>4, <2>5 DEF Call, FrameOK, Authorised
    <2>10. frame' \in [Procs -> Frame] /\ FramesOK'
        BY <2>2, <2>7, <2>8, <2>9, FrameKept, FrameSet DEF IInv
    <2>11. TypeOK'
        <3>1. store' \in Store
            BY <2>3 DEF StoreInv, Coherent
        <3> QED BY <1>1, <2>1, <2>10, <3>1, Types DEF IInv, TypeOK
    <2> QED BY <2>3, <2>10, <2>11 DEF IInv
<1> QED BY <1>4, <1>5, <1>6, <1>7

LEMMA GetAndClearKeepsIInv ==
    ASSUME IInv, NEW p \in Procs, GetAndClearInteractions(p)
    PROVE  IInv'
<1> DEFINE s == frame[p].ptr
<1>1. /\ frame[p].pc = "handle"
      /\ delivered' = [delivered EXCEPT ![s] = @ \o heap[s].interactions]
      /\ heap' = [heap EXCEPT ![s].interactions = <<>>]
      /\ frame' = [frame EXCEPT ![p] = Idle]
      /\ UNCHANGED <<now, store, counters, captured, history>>
    BY DEF GetAndClearInteractions, Return
<1>2. s \in Ptr
    BY <1>1, Types DEF IInv, FramesOK, FrameOK
<1>3. heap \in [Ptr -> Session] /\ delivered \in [Ptr -> Seq(Items)]
    BY Types DEF IInv
<1>4. heap[s].interactions \in Seq(Items)
    BY <1>2, <1>3 DEF Session
<1>5. delivered[s] \o heap[s].interactions \in Seq(Items)
    BY <1>2, <1>3, <1>4, ConcatProperties
<1>6. delivered' \in [Ptr -> Seq(Items)]
    BY <1>1, <1>3, <1>5
<1>7. heap' \in [Ptr -> Session] /\ SameIdentity
    <2>1. [heap[s] EXCEPT !.interactions = <<>>] \in Session
        <3>1. <<>> \in Seq(Items)
            OBVIOUS
        <3> QED BY <1>2, <1>3, <3>1 DEF Session
    <2>2. heap' = [heap EXCEPT ![s] = [heap[s] EXCEPT !.interactions = <<>>]]
        BY <1>1
    <2>3. heap' \in [Ptr -> Session]
        BY <1>3, <2>1, <2>2
    <2>4. SameIdentity
        BY <1>3, <2>2 DEF SameIdentity, Session
    <2> QED BY <2>3, <2>4
<1> QED BY <1>1, <1>6, <1>7, IdleTyped, IdleFrame, MoveOnKeepsIInv, Types
        DEF IInv, SameCounts

LEMMA AppendInteractionKeepsIInv ==
    ASSUME IInv, NEW p \in Procs, NEW id \in IDs, AppendInteraction(p, id)
    PROVE  IInv'
<1> DEFINE s == store.sessions[id]
<1>1. /\ captured < MaxInteractions /\ captured' = captured + 1
      /\ history' = [history EXCEPT !.calls = @ + 1]
      /\ UNCHANGED <<now, store, heap, delivered>>
    BY DEF AppendInteraction
<1>2. captured' \in 0 .. MaxInteractions /\ captured + 1 \in Items
    BY <1>1, BoundAssumption, Types DEF IInv, Items
<1>3. history' \in History /\ history'.deleted = history.deleted /\ SameIdentity
    BY <1>1, HistoryTyped, Types DEF IInv, SameIdentity
<1>4. CASE s = None
    <2>1. counters' = [counters EXCEPT !.misses = @ + 1] /\ frame' = frame
        BY <1>4 DEF AppendInteraction
    <2>2. counters' \in Counters /\ SameCounts
        BY <1>3, <2>1, CountersTyped, Types DEF IInv, SameCounts
    <2>3. PICK f : f = frame[p]
        OBVIOUS
    <2>4. frame' = [frame EXCEPT ![p] = f] /\ f \in Frame /\ FrameOK(f)
        BY <2>1, <2>3, Types DEF IInv, FramesOK
    <2> QED BY <1>1, <1>2, <1>3, <2>2, <2>4, MoveOnKeepsIInv, Types DEF IInv
<1>5. CASE s # None
    <2>1. frame' = [frame EXCEPT ![p] = Call("appendTouch", None, None, s, captured + 1)]
          /\ counters' = counters
        BY <1>5 DEF AppendInteraction
    <2>2. s \in Ptr /\ s \in 1 .. counters.sessionsTotal
        BY <1>5, FoundFrame
    <2>3. PICK f : f = Call("appendTouch", None, None, s, captured + 1)
        OBVIOUS
    <2>4. f \in Frame /\ FrameOK(f)
        BY <1>2, <2>2, <2>3, StartTyped DEF Call, Frame, PCs, FrameOK
    <2>5. SameCounts /\ frame' = [frame EXCEPT ![p] = f]
        BY <1>3, <2>1, <2>3 DEF SameCounts
    <2> QED BY <1>1, <1>2, <1>3, <2>1, <2>4, <2>5, MoveOnKeepsIInv, Types DEF IInv
<1> QED BY <1>4, <1>5

LEMMA AppendTouchKeepsIInv ==
    ASSUME IInv, NEW p \in Procs, AppendTouch(p)
    PROVE  IInv'
<1> DEFINE s == frame[p].ptr
<1>1. /\ frame[p].pc = "appendTouch"
      /\ counters' = [counters EXCEPT !.hits = @ + 1]
      /\ Touch(s)
      /\ Goto(p, "appendStore")
      /\ UNCHANGED <<now, store, captured, delivered, history>>
    BY DEF AppendTouch
<1>2. FrameOK(frame[p])
    BY DEF IInv, FramesOK
<1>3. s \in Ptr
    BY <1>1, <1>2, Types DEF IInv, FrameOK
<1>4. heap' \in [Ptr -> Session] /\ SameIdentity
    BY <1>1, <1>3, TouchTyped
<1>5. counters' \in Counters /\ SameCounts
    BY <1>1, CountersTyped, Types DEF IInv, SameCounts
<1>6. PICK f : f = [frame[p] EXCEPT !.pc = "appendStore"]
    OBVIOUS
<1>7. frame' = [frame EXCEPT ![p] = f] /\ f \in Frame
    BY <1>1, <1>6, GotoFrame DEF PCs
<1>8. FrameOK(f)
    BY <1>1, <1>2, <1>6, Types DEF IInv, Frame, FrameOK
<1> QED BY <1>1, <1>4, <1>5, <1>7, <1>8, MoveOnKeepsIInv, Types DEF IInv

LEMMA AppendStoreKeepsIInv ==
    ASSUME IInv, NEW p \in Procs, AppendStore(p)
    PROVE  IInv'
<1> DEFINE s == frame[p].ptr
           list == Append(heap[s].interactions, frame[p].item)
<1>1. /\ frame[p].pc = "appendStore"
      /\ heap' = [heap EXCEPT ![s] = [heap[s] EXCEPT !.interactions = list]]
      /\ frame' = [frame EXCEPT ![p] = Idle]
      /\ UNCHANGED <<now, store, counters, captured, delivered, history>>
    BY DEF AppendStore, Return
<1>2. s \in Ptr /\ frame[p].item \in Items
    BY <1>1, Types DEF IInv, FramesOK, FrameOK
<1>3. heap \in [Ptr -> Session]
    BY Types DEF IInv
<1>4. list \in Seq(Items)
    <2>1. heap[s].interactions \in Seq(Items)
        BY <1>2, <1>3 DEF Session
    <2> QED BY <1>2, <2>1, AppendProperties
<1> HIDE DEF list
<1>5. heap' \in [Ptr -> Session] /\ SameIdentity
    <2>1. [heap[s] EXCEPT !.interactions = list] \in Session
        BY <1>2, <1>3, <1>4 DEF Session
    <2>2. heap' \in [Ptr -> Session]
        BY <1>1, <1>3, <2>1
    <2>3. SameIdentity
        BY <1>1, <1>3 DEF SameIdentity, Session
    <2> QED BY <2>2, <2>3
<1> QED BY <1>1, <1>5, IdleTyped, IdleFrame, MoveOnKeepsIInv, Types DEF IInv, SameCounts

LEMMA DeleteKeepsIInv ==
    ASSUME IInv, NEW p \in Procs, NEW id \in IDs, NEW secret \in Secrets,
           Delete(p, id, secret)
    PROVE  IInv'
<1> DEFINE s == store.sessions[id]
<1>1. UNCHANGED <<now, heap, frame, captured, delivered>>
    BY DEF Delete
<1>2. counters \in Counters /\ history \in History /\ SameIdentity
    BY <1>1, Types DEF IInv, SameIdentity
<1>3. CASE store' = store /\ history' = [history EXCEPT !.calls = @ + 1]
           /\ \/ counters' = [counters EXCEPT !.misses = @ + 1]
              \/ counters' = [counters EXCEPT !.hits = @ + 1]
    <2>1. counters' \in Counters /\ history' \in History /\ SameCounts
        BY <1>2, <1>3, CountersTyped, HistoryTyped DEF SameCounts
    <2>2. PICK f : f = frame[p]
        OBVIOUS
    <2>3. frame' = [frame EXCEPT ![p] = f] /\ f \in Frame /\ FrameOK(f)
        BY <1>1, <2>2, Types DEF IInv, FramesOK
    <2> QED BY <1>1, <1>2, <1>3, <2>1, <2>3, MoveOnKeepsIInv, Types DEF IInv
<1>4. CASE /\ s # None /\ store' = RemoveLocked(store, id)
           /\ counters' = [counters EXCEPT !.hits = @ + 1]
           /\ history' = [history EXCEPT !.calls = @ + 1, !.deleted = @ + 1]
    <2>1. /\ counters' \in Counters /\ counters'.sessionsTotal = counters.sessionsTotal
          /\ counters'.evictions = counters.evictions
        BY <1>2, <1>4, CountersTyped
    <2>2. history' \in History /\ history'.deleted = history.deleted + 1
        BY <1>2, <1>4, DeletedTyped
    <2>3. counters'.evictions + history'.deleted = counters.evictions + history.deleted + 1
        BY <2>1, <2>2, Types DEF IInv
    <2> QED BY <1>1, <1>4, <2>1, <2>2, <2>3, RemoveAndReturnKeepsIInv
<1> QED BY <1>3, <1>4 DEF Delete

LEMMA HasCorrelationIDKeepsIInv ==
    ASSUME IInv, NEW p \in Procs, NEW id \in IDs, HasCorrelationID(p, id)
    PROVE  IInv'
<1>1. /\ frame' = [frame EXCEPT ![p] = Call("hasRecheck", id, None, None, 0)]
      /\ UNCHANGED <<now, store, heap, counters, captured, delivered, history>>
    BY DEF HasCorrelationID
<1>2. PICK f : f = Call("hasRecheck", id, None, None, 0)
    OBVIOUS
<1>3. f \in Frame /\ FrameOK(f) /\ frame' = [frame EXCEPT ![p] = f]
    BY <1>1, <1>2, StartTyped DEF Call, Frame, PCs, FrameOK
<1> QED BY <1>1, <1>3, MoveOnKeepsIInv, Types DEF IInv, SameIdentity, SameCounts

LEMMA HasRecheckKeepsIInv ==
    ASSUME IInv, NEW p \in Procs, HasRecheck(p)
    PROVE  IInv'
<1> DEFINE id == frame[p].id
<1>1. frame[p].pc = "hasRecheck" /\ Return(p)
      /\ UNCHANGED <<now, heap, captured, delivered, history>>
    BY DEF HasRecheck
<1>2. id \in IDs
    BY <1>1 DEF IInv, FramesOK, FrameOK
<1>3. counters \in Counters /\ history \in History
    BY Types DEF IInv
<1>4. CASE ExpiredHolder(id)
    <2>1. store' = RemoveLocked(store, id) /\ counters' = [counters EXCEPT !.evictions = @ + 1]
          /\ store.sessions[id] # None
        BY <1>4 DEF HasRecheck, ExpiredHolder
    <2>2. /\ counters' \in Counters /\ counters'.sessionsTotal = counters.sessionsTotal
          /\ counters'.evictions = counters.evictions + 1
        BY <1>3, <2>1 DEF Counters
    <2>3. counters'.evictions + history'.deleted = counters.evictions + history.deleted + 1
        BY <1>1, <2>2, Types DEF IInv
    <2> QED BY <1>1, <1>2, <1>3, <2>1, <2>2, <2>3, RemoveAndReturnKeepsIInv
<1>5. CASE ~ExpiredHolder(id)
    <2>1. UNCHANGED <<store, counters>>
        BY <1>5 DEF HasRecheck
    <2> QED BY <1>1, <2>1, IdleTyped, IdleFrame, MoveOnKeepsIInv, Types
            DEF IInv, Return, SameIdentity, SameCounts
<1> QED BY <1>4, <1>5

-------------------------------------------------------------------------------
(* A registration that holds m.mu. *)

LEMMA RegisterMissKeepsIInv ==
    ASSUME IInv, NEW p \in Procs, NEW id \in IDs, NEW secret \in Secrets,
           RegisterMiss(p, id, secret)
    PROVE  IInv'
<1>1. PICK pc \in {"probe", "create"} :
          /\ store.sessions[id] = None \/ ExpiredHolder(id)
          /\ store' = Swept(id)
          /\ counters' = [counters EXCEPT !.misses = @ + 1, !.evictions = @ + Sweep(id)]
          /\ frame' = [frame EXCEPT ![p] = Call(pc, id, secret, None, 0)]
          /\ history' = [history EXCEPT !.calls = @ + 1]
          /\ UNCHANGED <<now, heap, captured, delivered>>
    BY DEF RegisterMiss
<1>2. Sweep(id) \in Nat
    BY DEF Sweep
<1>3. /\ counters' \in Counters
      /\ counters'.sessionsTotal = counters.sessionsTotal
      /\ counters'.evictions = counters.evictions + Sweep(id)
      /\ history' \in History /\ history'.deleted = history.deleted
    BY <1>1, <1>2, EvictionsTyped, HistoryTyped, Types DEF IInv
<1>4. SameIdentity /\ SessionsKept
    BY <1>1, <1>3, SameIdentityKeepsSessions DEF SameIdentity
<1>5. StoreInv'
    BY <1>1, <1>3, <1>4, SweepKeepsStoreInv DEF IInv
<1>6. PICK f : f = Call(pc, id, secret, None, 0)
    OBVIOUS
<1>7. f \in Frame /\ FrameOK(f)
    BY <1>6, StartTyped DEF Call, Frame, PCs, FrameOK
<1>8. frame' \in [Procs -> Frame] /\ FramesOK'
    BY <1>1, <1>4, <1>6, <1>7, FrameKept, FrameSet DEF IInv
<1>9. TypeOK'
    <2>1. store' \in Store
        BY <1>5 DEF StoreInv, Coherent
    <2> QED BY <1>1, <1>3, <1>8, <2>1, Types DEF IInv, TypeOK
<1> QED BY <1>5, <1>8, <1>9 DEF IInv

\* Every element of the list has a session.
LEMMA ListedLive ==
    ASSUME IInv
    PROVE  /\ store.lruList \in Seq(Ptr)
           /\ DOMAIN store.lruList = 1 .. Len(store.lruList) /\ Len(store.lruList) \in Nat
           /\ \A i \in DOMAIN store.lruList :
                 /\ store.lruList[i] \in Ptr
                 /\ heap[store.lruList[i]].id \in Live(store)
                 /\ store.sessions[heap[store.lruList[i]].id] = store.lruList[i]
<1>1. /\ store.lruList \in Seq(Ptr)
      /\ DOMAIN store.lruList = 1 .. Len(store.lruList) /\ Len(store.lruList) \in Nat
    BY Types DEF IInv, Store
<1>2. ASSUME NEW i \in DOMAIN store.lruList
      PROVE  /\ heap[store.lruList[i]].id \in Live(store)
             /\ store.sessions[heap[store.lruList[i]].id] = store.lruList[i]
    <2>1. PICK id \in Live(store) : store.sessions[id] = store.lruList[i]
        BY DEF IInv, StoreInv, Coherent, Holds
    <2> QED BY <2>1, OwnedStore DEF IInv, Owned
<1> QED BY <1>1, <1>2

\* The loop never meets a stale element: each round compares one session.
LEMMA ProbeCompares ==
    ASSUME IInv, LockInv, NEW p \in Procs, Probe(p)
    PROVE  /\ frame[p].pc = "probe" /\ frame[p] \in Frame
           /\ frame[p].scan.elem \in DOMAIN store.lruList
           /\ frame[p].scan.left \in 1 .. MaxProbe
           /\ store' = store
           /\ frame' = [frame EXCEPT ![p].scan =
                           Compared(frame[p].scan,
                                    heap[store.lruList[frame[p].scan.elem]].id,
                                    heap[store.lruList[frame[p].scan.elem]].lastAccess)]
           /\ UNCHANGED <<now, heap, counters, captured, delivered, history>>
<1> DEFINE scan == frame[p].scan
<1>1. frame[p].pc = "probe" /\ ~ScanOver(scan) /\ frame[p] \in Frame
    BY Types DEF IInv, Probe
<1>2. scan \in Scan /\ Scanned(scan)
    BY <1>1 DEF LockInv, HoldsRoom, Frame
<1>3. scan.elem \in DOMAIN store.lruList /\ scan.left \in 1 .. MaxProbe
    BY <1>1, <1>2, ListedLive, CapacityAssumption DEF ScanOver, Scan, Scanned
<1>4. store.sessions[heap[store.lruList[scan.elem]].id] = store.lruList[scan.elem]
      /\ store.lruList[scan.elem] # None
    BY <1>3, ListedLive, NoneAssumption
<1> QED BY <1>1, <1>3, <1>4 DEF Probe

LEMMA ProbeKeepsIInv ==
    ASSUME IInv, LockInv, NEW p \in Procs, Probe(p)
    PROVE  IInv'
<1> DEFINE scan == frame[p].scan
           e == store.lruList[scan.elem]
           next == Compared(scan, heap[e].id, heap[e].lastAccess)
<1>1. /\ frame[p].pc = "probe" /\ frame[p] \in Frame
      /\ scan.elem \in DOMAIN store.lruList /\ scan.left \in 1 .. MaxProbe
      /\ store' = store
      /\ frame' = [frame EXCEPT ![p].scan = next]
      /\ UNCHANGED <<now, heap, counters, captured, delivered, history>>
    BY ProbeCompares
<1>2. /\ scan \in Scan /\ heap[e].id \in IDs /\ heap[e].lastAccess \in Nat
    BY <1>1, ListedLive, Types DEF IInv, Frame, Live, Session
<1> HIDE DEF e
<1>3. next \in Scan
    BY <1>1, <1>2, CapacityAssumption DEF Compared, Scan
<1> HIDE DEF next
<1>4. PICK f : f = [frame[p] EXCEPT !.scan = next]
    OBVIOUS
<1>5. frame' = [frame EXCEPT ![p] = f] /\ f \in Frame
    BY <1>1, <1>3, <1>4, Types DEF IInv, Frame
<1>6. FrameOK(f)
    BY <1>1, <1>4 DEF IInv, FramesOK, FrameOK, Frame
<1> QED BY <1>1, <1>5, <1>6, MoveOnKeepsIInv, Types DEF IInv, SameIdentity, SameCounts

\* The probing window.
Window == {i \in DOMAIN store.lruList : i <= MaxProbe}

\* When the loop is over it has seen the whole window, and has a victim.
LEMMA EvictFinds ==
    ASSUME IInv, LockInv, NEW p \in Procs, Evict(p)
    PROVE  /\ AtCapacity(store)
           /\ frame[p].scan.victim \in Live(store)
           /\ \E k \in Window : store.lruList[k] = store.sessions[frame[p].scan.victim]
           /\ \A j \in Window : frame[p].scan.time <= heap[store.lruList[j]].lastAccess
           /\ store' = RemoveLocked(store, frame[p].scan.victim)
           /\ counters' = [counters EXCEPT !.evictions = @ + 1]
<1> DEFINE scan == frame[p].scan
<1>1. frame[p].pc = "probe" /\ ScanOver(scan) /\ frame[p] \in Frame
    BY Types DEF IInv, Evict
<1>2. scan \in Scan /\ Scanned(scan) /\ AtCapacity(store)
    BY <1>1 DEF LockInv, HoldsRoom, Frame
<1>3. Len(store.lruList) >= 1
    <2>1. Live(store) # {}
        BY <1>2, FS_EmptySet, CapacityAssumption DEF AtCapacity
    <2>2. PICK id \in Live(store) : TRUE
        BY <2>1
    <2>3. Holds(store.lruList, store.sessions[id])
        BY DEF IInv, StoreInv, Coherent
    <2> QED BY <2>3, ListedLive DEF Holds
<1>4. scan.elem > 1 /\ 1 .. scan.elem - 1 = Window
    <2>1. scan.elem \in Nat /\ scan.left \in Nat
        BY <1>2 DEF Scan
    <2>2. CASE scan.left = 0
        <3>1. /\ scan.elem = MaxProbe + 1 /\ MaxProbe \in Nat \ {0}
              /\ scan.elem \in 1 .. Len(store.lruList) + 1
            BY <1>2, <2>1, <2>2, CapacityAssumption DEF Scanned
        <3>2. DOMAIN store.lruList = 1 .. Len(store.lruList) /\ Len(store.lruList) \in Nat
            BY ListedLive
        <3>3. Window = 1 .. MaxProbe
            BY <3>1, <3>2 DEF Window
        <3> QED BY <3>1, <3>3
    <2>3. CASE scan.elem > Len(store.lruList)
        <3>1. /\ scan.elem = Len(store.lruList) + 1
              /\ Len(store.lruList) \in Nat /\ Len(store.lruList) <= MaxProbe
            BY <1>2, <2>1, <2>3, CapacityAssumption, ListedLive DEF Scanned
        <3>2. Window = 1 .. Len(store.lruList)
            BY <3>1, ListedLive, CapacityAssumption DEF Window
        <3> QED BY <1>3, <3>1, <3>2
    <2> QED BY <1>1, <2>2, <2>3 DEF ScanOver
<1>5. /\ scan.victim \in Live(store)
      /\ \E k \in Window : store.lruList[k] = store.sessions[scan.victim]
      /\ \A j \in Window : scan.time <= heap[store.lruList[j]].lastAccess
    BY <1>2, <1>4 DEF Scanned
<1>6. scan.victim # None
    BY <1>5, NoneAssumption DEF Live
<1> QED BY <1>2, <1>5, <1>6 DEF Evict

LEMMA EvictKeepsIInv ==
    ASSUME IInv, LockInv, NEW p \in Procs, Evict(p)
    PROVE  IInv'
<1> DEFINE v == frame[p].scan.victim
<1>1. /\ v \in Live(store)
      /\ store' = RemoveLocked(store, v)
      /\ counters' = [counters EXCEPT !.evictions = @ + 1]
    BY EvictFinds
<1>2. /\ frame[p].pc = "probe"
      /\ frame' = [frame EXCEPT ![p] = Call("create", frame[p].id, frame[p].secret, None, 0)]
      /\ UNCHANGED <<now, heap, captured, delivered, history>>
    BY DEF Evict
<1>3. /\ counters' \in Counters
      /\ counters'.sessionsTotal = counters.sessionsTotal
      /\ counters'.evictions = counters.evictions + 1
      /\ counters'.evictions \in Nat /\ history'.deleted \in Nat
    BY <1>1, <1>2, Types DEF IInv, Counters
<1>4. SameIdentity /\ SessionsKept
    BY <1>2, <1>3, SameIdentityKeepsSessions DEF SameIdentity
<1>5. StoreInv'
    <2>1. counters'.evictions + history'.deleted = counters.evictions + history.deleted + 1
        <3>1. counters.evictions \in Nat /\ history.deleted \in Nat
            BY Types DEF IInv
        <3> QED BY <1>2, <1>3, <3>1
    <2> HIDE DEF v
    <2> QED BY <1>1, <1>3, <1>4, <2>1, RemovalKeepsStoreInv DEF IInv
<1>6. PICK f : f = Call("create", frame[p].id, frame[p].secret, None, 0)
    OBVIOUS
<1>7. frame[p].id \in IDs /\ frame[p].secret \in Secrets
    BY <1>2 DEF IInv, FramesOK, FrameOK
<1>8. f \in Frame /\ FrameOK(f)
    BY <1>6, <1>7, StartTyped DEF Call, Frame, PCs, FrameOK
<1>9. frame' \in [Procs -> Frame] /\ FramesOK'
    BY <1>2, <1>4, <1>6, <1>8, FrameKept, FrameSet DEF IInv
<1>10. TypeOK'
    <2>1. store' \in Store
        BY <1>5 DEF StoreInv, Coherent
    <2> QED BY <1>2, <1>3, <1>9, <2>1, Types DEF IInv, TypeOK
<1> QED BY <1>5, <1>9, <1>10 DEF IInv

LEMMA RegisterNewKeepsIInv ==
    ASSUME IInv, LockInv, NEW p \in Procs, RegisterNew(p)
    PROVE  IInv'
<1> DEFINE s == counters.sessionsTotal + 1
           new == [id |-> frame[p].id, secret |-> frame[p].secret, createdAt |-> now,
                   lastAccess |-> now, interactions |-> <<>>]
<1>1. /\ frame[p].pc = "create"
      /\ s \in Ptr
      /\ heap' = [heap EXCEPT ![s] = new]
      /\ counters' = [counters EXCEPT !.sessionsTotal = s]
      /\ frame' = [frame EXCEPT ![p] = Idle]
      /\ UNCHANGED <<now, captured, delivered, history>>
    BY DEF RegisterNew, Return
<1>2. frame[p].id \in IDs /\ frame[p].secret \in Secrets
    BY <1>1 DEF IInv, FramesOK, FrameOK
<1>3. StoreInv'
    BY <1>1, <1>2, RegisterNewKeepsStoreInv DEF IInv, LockInv, HoldsRoom, InRegister
<1>4. new \in Session
    BY <1>2, Types DEF IInv, Session
<1> HIDE DEF new
<1>5. heap \in [Ptr -> Session] /\ counters \in Counters
    BY Types DEF IInv
<1>6. heap' \in [Ptr -> Session]
    BY <1>1, <1>4, <1>5
<1>7. counters' \in Counters /\ counters'.sessionsTotal = s
    <2>1. s \in 0 .. MaxSessions
        BY <1>1, BoundAssumption DEF Ptr
    <2> HIDE DEF s
    <2> QED BY <1>1, <1>5, <2>1, RegisteredTyped
<1>8. SessionsKept
    <2>1. \A n \in 1 .. counters.sessionsTotal : heap'[n] = heap[n]
        BY <1>1, <1>5, Types DEF IInv
    <2> QED BY <1>7, <2>1, Types DEF IInv, SessionsKept
<1>9. frame' \in [Procs -> Frame] /\ FramesOK'
    BY <1>1, <1>8, IdleFrame, IdleTyped, FrameSet
<1>10. TypeOK'
    <2>1. store' \in Store
        BY <1>3 DEF StoreInv, Coherent
    <2> QED BY <1>1, <1>6, <1>7, <1>9, <2>1, Types DEF IInv, TypeOK
<1> QED BY <1>3, <1>9, <1>10 DEF IInv

LEMMA RegisterKeyErrorKeepsIInv ==
    ASSUME IInv, NEW p \in Procs, RegisterKeyError(p)
    PROVE  IInv'
BY IdleTyped, IdleFrame, MoveOnKeepsIInv, Types
   DEF RegisterKeyError, Return, IInv, SameIdentity, SameCounts

LEMMA RegisterKeepsIInv ==
    ASSUME IInv, LockInv, NEW p \in Procs, Register(p)
    PROVE  IInv'
BY RegisterKeepAliveKeepsIInv, RegisterConflictKeepsIInv, RegisterMissKeepsIInv,
   ProbeKeepsIInv, EvictKeepsIInv, RegisterNewKeepsIInv, RegisterKeyErrorKeepsIInv
   DEF Register

-------------------------------------------------------------------------------
(* The lock: no call gets at the map while a registration holds it, and the
   touches that need no lock only move lastAccess forward. *)

\* No process enters the critical section of a registration, and one that is in
\* it does not move.
Outside ==
    \A q \in Procs : InRegister(q)' => InRegister(q) /\ frame'[q] = frame[q]

Forward ==
    \A s \in Ptr : /\ heap'[s].lastAccess \in Nat
                   /\ heap[s].lastAccess <= heap'[s].lastAccess
                   /\ heap'[s].lastAccess <= now'

LEMMA OutsideKeepsLockInv ==
    ASSUME IInv, LockInv, Outside, Forward, Unlocked \/ store' = store
    PROVE  LockInv'
<1>1. \A s \in Ptr : heap'[s].lastAccess <= now'
    BY DEF Forward
<1>2. CASE Unlocked
    <2>1. \A q \in Procs : ~InRegister(q)'
        BY <1>2 DEF Outside, Unlocked
    <2> QED BY <1>1, <2>1 DEF LockInv, HoldsRoom, InRegister
<1>3. CASE store' = store
    <2>1. ASSUME NEW p \in Procs
          PROVE  HoldsRoom(p)'
        <3>1. CASE ~InRegister(p)'
            BY <3>1 DEF HoldsRoom, InRegister
        <3>2. CASE InRegister(p)'
            <4>1. HoldsRoom(p) /\ frame'[p] = frame[p] /\ InRegister(p)
                BY <3>2 DEF Outside, LockInv
            <4>2. CASE frame[p].pc = "create"
                BY <1>3, <4>1, <4>2 DEF HoldsRoom, InRegister, AtCapacity, Live
            <4>3. CASE frame[p].pc = "probe"
                <5> DEFINE scan == frame[p].scan
                <5>1. scan \in Scan /\ Scanned(scan) /\ AtCapacity(store)
                    BY <4>1, <4>3, Types DEF IInv, HoldsRoom, Frame
                <5>2. \A j \in 1 .. scan.elem - 1 :
                          scan.time <= heap[store.lruList[j]].lastAccess =>
                              scan.time <= heap'[store.lruList[j]].lastAccess
                    <6> SUFFICES ASSUME NEW j \in 1 .. scan.elem - 1,
                                        scan.time <= heap[store.lruList[j]].lastAccess
                                 PROVE  scan.time <= heap'[store.lruList[j]].lastAccess
                        OBVIOUS
                    <6>1. j \in DOMAIN store.lruList
                        BY <5>1, ListedLive DEF Scanned
                    <6>2. store.lruList[j] \in Ptr
                        BY <6>1, ListedLive
                    <6>3. heap[store.lruList[j]].lastAccess \in Nat /\ scan.time \in Nat
                        BY <5>1, <6>2, Types DEF IInv, Session, Scan
                    <6> QED BY <6>2, <6>3 DEF Forward
                <5>3. Scanned(scan)'
                    BY <1>3, <4>1, <5>1, <5>2 DEF Scanned, Live
                <5> QED BY <1>3, <4>1, <4>3, <5>1, <5>3 DEF HoldsRoom, InRegister, AtCapacity, Live
            <4> QED BY <4>1, <4>2, <4>3 DEF InRegister
        <3> QED BY <3>1, <3>2
    <2>2. \A p, q \in Procs : InRegister(p)' /\ InRegister(q)' => p = q
        BY DEF Outside, LockInv
    <2> QED BY <1>1, <2>1, <2>2 DEF LockInv, InRegister
<1> QED BY <1>2, <1>3

LEMMA MovesOutside ==
    ASSUME IInv, NEW p \in Procs, NEW f, frame' = [frame EXCEPT ![p] = f],
           f.pc \notin {"probe", "create"}
    PROVE  Outside
BY Types DEF IInv, Outside, InRegister

LEMMA GoesOutside ==
    ASSUME IInv, NEW p \in Procs, NEW pc, Goto(p, pc), pc \notin {"probe", "create"}
    PROVE  Outside
BY Types DEF IInv, Outside, InRegister, Goto, Frame

LEMMA ReturnsOutside ==
    ASSUME IInv, NEW p \in Procs, Return(p)
    PROVE  Outside
BY MovesOutside DEF Return, Idle, Call

LEMMA SameFramesOutside ==
    ASSUME frame' = frame
    PROVE  Outside
BY DEF Outside, InRegister

LEMMA SameTimesForward ==
    ASSUME IInv, LockInv, \A s \in Ptr : heap'[s].lastAccess = heap[s].lastAccess,
           now' = now \/ now' = now + 1
    PROVE  Forward
BY Types DEF IInv, LockInv, Forward, Session

LEMMA TouchForward ==
    ASSUME IInv, LockInv, NEW s \in Ptr, Touch(s), now' = now
    PROVE  Forward
<1>1. heap \in [Ptr -> Session] /\ now \in Nat /\ \A q \in Ptr : heap[q].lastAccess <= now
    BY Types DEF IInv, LockInv
<1> QED BY <1>1 DEF Touch, Forward, Session

LEMMA RegisterMissKeepsLockInv ==
    ASSUME IInv, LockInv, NEW p \in Procs, NEW id \in IDs, NEW secret \in Secrets,
           RegisterMiss(p, id, secret)
    PROVE  LockInv'
<1>1. PICK pc \in {"probe", "create"} :
          /\ pc = IF AtCapacity(Swept(id)) THEN "probe" ELSE "create"
          /\ store.sessions[id] = None \/ ExpiredHolder(id)
          /\ store' = Swept(id) /\ Unlocked
          /\ frame' = [frame EXCEPT ![p] = Call(pc, id, secret, None, 0)]
          /\ UNCHANGED <<now, heap>>
    BY DEF RegisterMiss
<1>2. /\ frame'[p] = Call(pc, id, secret, None, 0)
      /\ \A q \in Procs \ {p} : frame'[q] = frame[q]
    BY <1>1, Types DEF IInv
<1>3. frame'[p].pc = pc /\ frame'[p].id = id /\ frame'[p].scan = StartOfScan
    BY <1>2 DEF Call
<1>4. \A q \in Procs : q # p => ~InRegister(q)'
    BY <1>1, <1>2 DEF Unlocked, InRegister
<1>5. id \notin Live(store')
    BY <1>1, SweptShrinks, OwnedStore DEF IInv, StoreInv
<1>6. Scanned(StartOfScan)'
    <2>1. store' \in Store
        BY RegisterMissKeepsIInv, Types DEF IInv, TypeOK
    <2> QED BY <2>1, CapacityAssumption DEF Scanned, StartOfScan, Store
<1>7. HoldsRoom(p)'
    BY <1>1, <1>3, <1>5, <1>6 DEF HoldsRoom, InRegister, AtCapacity, Live
<1>8. \A q \in Procs : HoldsRoom(q)'
    BY <1>4, <1>7 DEF HoldsRoom, InRegister
<1> QED BY <1>1, <1>4, <1>8 DEF LockInv

\* Who holds m.mu, when it is not let go in this step.
LEMMA StaysAlone ==
    ASSUME IInv, LockInv, NEW p \in Procs, InRegister(p),
           NEW f, frame' = [frame EXCEPT ![p] = f]
    PROVE  frame'[p] = f /\ \A q \in Procs : q # p => ~InRegister(q)'
BY Types DEF IInv, LockInv, InRegister

LEMMA ProbeKeepsLockInv ==
    ASSUME IInv, LockInv, NEW p \in Procs, Probe(p)
    PROVE  LockInv'
<1> DEFINE scan == frame[p].scan
           e == store.lruList[scan.elem]
           id == heap[e].id
           t == heap[e].lastAccess
           next == Compared(scan, id, t)
<1>1. /\ frame[p].pc = "probe" /\ frame[p] \in Frame
      /\ scan.elem \in DOMAIN store.lruList /\ scan.left \in 1 .. MaxProbe
      /\ store' = store
      /\ frame' = [frame EXCEPT ![p] = [frame[p] EXCEPT !.scan = next]]
      /\ UNCHANGED <<now, heap>>
    BY ProbeCompares
<1>2. /\ scan \in Scan /\ Scanned(scan) /\ AtCapacity(store) /\ frame[p].id \notin Live(store)
    BY <1>1 DEF LockInv, HoldsRoom, InRegister, Frame
<1>3. id \in Live(store) /\ store.sessions[id] = e /\ e \in Ptr /\ t \in Nat
    BY <1>1, ListedLive, Types DEF IInv, Session
<1>4. /\ scan.elem \in Nat /\ scan.elem >= 1 /\ scan.elem <= Len(store.lruList)
      /\ Len(store.lruList) \in Nat /\ scan.time \in Nat
    BY <1>1, <1>2, ListedLive DEF Scan
<1> HIDE DEF t, id, scan
<1>5. /\ next.elem = scan.elem + 1 /\ next.left = scan.left - 1
      /\ \/ next.victim = id /\ next.time = t
            /\ (scan.victim = None \/ t < scan.time)
         \/ next.victim = scan.victim /\ next.time = scan.time
            /\ scan.victim # None /\ ~(t < scan.time)
    BY DEF Compared
<1>6. \A j \in 1 .. scan.elem - 1 : heap[store.lruList[j]].lastAccess \in Nat
    <2> SUFFICES ASSUME NEW j \in 1 .. scan.elem - 1
                 PROVE  heap[store.lruList[j]].lastAccess \in Nat
        OBVIOUS
    <2>1. store.lruList[j] \in Ptr
        BY <1>4, ListedLive
    <2> QED BY <2>1, Types DEF IInv, Session
<1>7. store.lruList[scan.elem] = e /\ heap[e].lastAccess = t
    BY DEF scan, t
<1> HIDE DEF e, next
<1>8. Scanned(next)
    <2>1. CASE scan.elem = 1
        <3>1. next.victim = id /\ next.time = t
            BY <1>2, <1>5, <2>1 DEF Scanned
        <3> QED BY <1>1, <1>2, <1>3, <1>4, <1>5, <1>7, <2>1, <3>1 DEF Scanned
    <2>2. CASE scan.elem > 1
        <3>1. /\ scan.victim \in Live(store) /\ scan.victim # None
              /\ \E k \in 1 .. scan.elem - 1 : store.lruList[k] = store.sessions[scan.victim]
              /\ \A j \in 1 .. scan.elem - 1 : scan.time <= heap[store.lruList[j]].lastAccess
            BY <1>2, <2>2, NoneAssumption DEF Scanned, Live
        <3>2. next.victim \in Live(store)
            BY <1>3, <1>5, <3>1
        <3>3. \E k \in 1 .. scan.elem : store.lruList[k] = store.sessions[next.victim]
            <4>1. CASE next.victim = id
                <5>1. store.lruList[scan.elem] = store.sessions[next.victim]
                    BY <1>3, <1>7, <4>1
                <5> QED BY <1>4, <5>1
            <4>2. CASE next.victim = scan.victim
                <5>1. PICK k \in 1 .. scan.elem - 1 :
                          store.lruList[k] = store.sessions[scan.victim]
                    BY <3>1
                <5>2. k \in 1 .. scan.elem
                    BY <1>4
                <5> QED BY <4>2, <5>1, <5>2
            <4> QED BY <1>5, <4>1, <4>2
        <3>4. next.time \in Nat /\ next.time <= t /\ next.time <= scan.time
            BY <1>3, <1>4, <1>5, <3>1
        <3>5. \A j \in 1 .. scan.elem : next.time <= heap[store.lruList[j]].lastAccess
            <4> SUFFICES ASSUME NEW j \in 1 .. scan.elem
                         PROVE  next.time <= heap[store.lruList[j]].lastAccess
                OBVIOUS
            <4>1. CASE j = scan.elem
                BY <1>7, <3>4, <4>1
            <4>2. CASE j \in 1 .. scan.elem - 1
                BY <1>4, <1>6, <3>1, <3>4, <4>2
            <4> QED BY <1>4, <4>1, <4>2
        <3>6. 1 .. next.elem - 1 = 1 .. scan.elem /\ next.elem \in 1 .. Len(store.lruList) + 1
              /\ next.elem + next.left = MaxProbe + 1 /\ next.elem # 1
            <4>1. scan.elem + scan.left = MaxProbe + 1 /\ scan.left \in Nat /\ MaxProbe \in Nat
                BY <1>2, CapacityAssumption DEF Scanned, Scan
            <4>2. next.elem = scan.elem + 1 /\ next.left = scan.left - 1
                BY <1>5
            <4> QED BY <1>4, <4>1, <4>2
        <3> QED BY <3>2, <3>3, <3>5, <3>6 DEF Scanned
    <2> QED BY <1>4, <2>1, <2>2
<1>9. PICK f : f = [frame[p] EXCEPT !.scan = next]
    OBVIOUS
<1>10. frame'[p] = f /\ \A q \in Procs : q # p => ~InRegister(q)'
    BY <1>1, <1>9, StaysAlone DEF InRegister
<1>11. f.pc = "probe" /\ f.id = frame[p].id /\ f.scan = next
    BY <1>1, <1>9 DEF Frame
<1>12. HoldsRoom(p)'
    BY <1>1, <1>2, <1>8, <1>10, <1>11 DEF HoldsRoom, InRegister, AtCapacity, Live, Scanned
<1>13. \A q \in Procs : HoldsRoom(q)'
    BY <1>10, <1>12 DEF HoldsRoom, InRegister
<1> QED BY <1>1, <1>10, <1>13 DEF LockInv

LEMMA EvictKeepsLockInv ==
    ASSUME IInv, LockInv, NEW p \in Procs, Evict(p)
    PROVE  LockInv'
<1> DEFINE v == frame[p].scan.victim
<1>1. /\ v \in Live(store) /\ store' = RemoveLocked(store, v)
    BY EvictFinds
<1>2. /\ frame[p].pc = "probe"
      /\ frame' = [frame EXCEPT ![p] = Call("create", frame[p].id, frame[p].secret, None, 0)]
      /\ UNCHANGED <<now, heap>>
    BY DEF Evict
<1>3. /\ frame'[p] = Call("create", frame[p].id, frame[p].secret, None, 0)
      /\ \A q \in Procs : q # p => ~InRegister(q)'
    BY <1>2, StaysAlone DEF InRegister
<1>4. frame'[p].pc = "create" /\ frame'[p].id = frame[p].id
    BY <1>3 DEF Call
<1> HIDE DEF v
<1>5. Live(store') = Live(store) \ {v}
    <2>1. v \in IDs /\ Coherent(store)
        BY <1>1 DEF IInv, StoreInv, Live
    <2> QED BY <1>1, <2>1, RemoveLockedCoherent
<1>6. frame[p].id \notin Live(store')
    BY <1>2, <1>5 DEF LockInv, HoldsRoom, InRegister
<1>7. ~AtCapacity(store')
    BY <1>1, RemoveLockedCounts, LiveFinite, CapacityAssumption
       DEF IInv, StoreInv, CapacityRespected, AtCapacity
<1>8. HoldsRoom(p)'
    BY <1>4, <1>6, <1>7 DEF HoldsRoom, InRegister, AtCapacity, Live
<1>9. \A q \in Procs : HoldsRoom(q)'
    BY <1>3, <1>8 DEF HoldsRoom, InRegister
<1> QED BY <1>2, <1>3, <1>9 DEF LockInv

\* The end of a registration lets m.mu go.
LEMMA RegisteredKeepsLockInv ==
    ASSUME IInv, LockInv, NEW p \in Procs, RegisterNew(p) \/ RegisterKeyError(p)
    PROVE  LockInv'
<1>1. frame[p].pc = "create" /\ frame' = [frame EXCEPT ![p] = Idle] /\ now' = now
    BY DEF RegisterNew, RegisterKeyError, Return
<1>2. \A q \in Procs : ~InRegister(q)'
    <2>1. InRegister(p)
        BY <1>1 DEF InRegister
    <2>2. frame'[p] = Idle /\ \A q \in Procs : q # p => ~InRegister(q)'
        BY <1>1, <2>1, StaysAlone
    <2>3. ~InRegister(p)'
        BY <2>2 DEF InRegister, Idle, Call
    <2> QED BY <2>2, <2>3
<1>3. \A s \in Ptr : heap'[s].lastAccess <= now'
    <2>1. heap \in [Ptr -> Session] /\ now \in Nat /\ \A s \in Ptr : heap[s].lastAccess <= now
        BY Types DEF IInv, LockInv
    <2>2. CASE heap' = heap
        BY <1>1, <2>1, <2>2
    <2>3. CASE RegisterNew(p)
        <3>1. PICK s, new : /\ new.lastAccess = now
                            /\ heap' = [heap EXCEPT ![s] = new]
            BY <2>3 DEF RegisterNew
        <3> QED BY <1>1, <2>1, <3>1
    <2> QED BY <2>2, <2>3 DEF RegisterKeyError
<1> QED BY <1>2, <1>3 DEF LockInv, HoldsRoom, InRegister

LEMMA RegisterKeepsLockInv ==
    ASSUME IInv, LockInv, NEW p \in Procs, Register(p)
    PROVE  LockInv'
<1>1. ASSUME NEW id \in IDs, NEW secret \in Secrets, RegisterKeepAlive(p, id, secret)
      PROVE  LockInv'
    <2>1. store.sessions[id] \in Ptr
        BY <1>1, Types DEF IInv, Store, RegisterKeepAlive
    <2> QED BY <1>1, <2>1, TouchForward, SameFramesOutside, OutsideKeepsLockInv
            DEF RegisterKeepAlive
<1>2. ASSUME NEW id \in IDs, NEW secret \in Secrets, RegisterConflict(p, id, secret)
      PROVE  LockInv'
    BY <1>2, SameTimesForward, SameFramesOutside, OutsideKeepsLockInv DEF RegisterConflict
<1> QED BY <1>1, <1>2, RegisterMissKeepsLockInv, ProbeKeepsLockInv, EvictKeepsLockInv,
           RegisteredKeepsLockInv DEF Register

LEMMA PollKeepsLockInv ==
    ASSUME IInv, LockInv, NEW p \in Procs, Poll(p)
    PROVE  LockInv'
<1>1. ASSUME NEW id \in IDs, NEW secret \in Secrets, GetSession(p, id, secret)
      PROVE  LockInv'
    <2>1. \/ frame' = frame
          \/ frame' = [frame EXCEPT ![p] = Call("getTouch", id, secret, store.sessions[id], 0)]
          \/ frame' = [frame EXCEPT ![p] = Call("getRecheck", id, secret, None, 0)]
        BY <1>1 DEF GetSession
    <2>2. Outside
        BY <2>1, SameFramesOutside, MovesOutside DEF Call
    <2> QED BY <1>1, <2>2, SameTimesForward, OutsideKeepsLockInv DEF GetSession
<1>2. CASE GetTouch(p)
    <2>1. frame[p].ptr \in Ptr
        BY <1>2, Types DEF IInv, FramesOK, FrameOK, GetTouch
    <2>2. Outside
        BY <1>2, GoesOutside DEF GetTouch
    <2> QED BY <1>2, <2>1, <2>2, TouchForward, OutsideKeepsLockInv DEF GetTouch
<1>3. CASE GetPromote(p)
    BY <1>3, GoesOutside, SameTimesForward, OutsideKeepsLockInv DEF GetPromote
<1>4. CASE GetRecheck(p)
    <2>1. \/ Return(p)
          \/ \E s : frame' = [frame EXCEPT ![p] =
                                 Call("getRefreshed", frame[p].id, frame[p].secret, s, 0)]
        BY <1>4 DEF GetRecheck
    <2>2. Outside
        BY <2>1, ReturnsOutside, MovesOutside DEF Call
    <2> QED BY <1>4, <2>2, SameTimesForward, OutsideKeepsLockInv DEF GetRecheck
<1>5. CASE GetAndClearInteractions(p)
    <2>1. \A s \in Ptr : heap'[s].lastAccess = heap[s].lastAccess
        BY <1>5, Types DEF IInv, GetAndClearInteractions, Session
    <2> QED BY <1>5, <2>1, SameTimesForward, ReturnsOutside, OutsideKeepsLockInv
            DEF GetAndClearInteractions
<1> QED BY <1>1, <1>2, <1>3, <1>4, <1>5 DEF Poll

LEMMA CaptureKeepsLockInv ==
    ASSUME IInv, LockInv, NEW p \in Procs, Capture(p)
    PROVE  LockInv'
<1>1. ASSUME NEW id \in IDs, AppendInteraction(p, id)
      PROVE  LockInv'
    <2>1. \/ frame' = frame
          \/ \E s, n : frame' = [frame EXCEPT ![p] = Call("appendTouch", None, None, s, n)]
        BY <1>1 DEF AppendInteraction
    <2>2. Outside
        BY <2>1, SameFramesOutside, MovesOutside DEF Call
    <2> QED BY <1>1, <2>2, SameTimesForward, OutsideKeepsLockInv DEF AppendInteraction
<1>2. CASE AppendTouch(p)
    <2>1. frame[p].ptr \in Ptr
        BY <1>2, Types DEF IInv, FramesOK, FrameOK, AppendTouch
    <2> QED BY <1>2, <2>1, GoesOutside, TouchForward, OutsideKeepsLockInv DEF AppendTouch
<1>3. CASE AppendStore(p)
    <2>1. \A s \in Ptr : heap'[s].lastAccess = heap[s].lastAccess
        BY <1>3, Types DEF IInv, AppendStore, Session
    <2> QED BY <1>3, <2>1, SameTimesForward, ReturnsOutside, OutsideKeepsLockInv
            DEF AppendStore
<1> QED BY <1>1, <1>2, <1>3 DEF Capture

LEMMA RestKeepsLockInv ==
    ASSUME IInv, LockInv, NEW p \in Procs,
           \/ \E id \in IDs, secret \in Secrets : Delete(p, id, secret)
           \/ Lookup(p)
    PROVE  LockInv'
<1>1. Outside
    BY SameFramesOutside, ReturnsOutside, MovesOutside
       DEF Delete, Lookup, HasCorrelationID, HasRecheck, Call
<1>2. UNCHANGED <<now, heap>> /\ Unlocked
    BY DEF Delete, Lookup, HasCorrelationID, HasRecheck
<1> QED BY <1>1, <1>2, SameTimesForward, OutsideKeepsLockInv

LEMMA NextKeepsLockInv == FullInv /\ [Next]_vars => LockInv'
<1> SUFFICES ASSUME IInv, LockInv, [Next]_vars PROVE LockInv'
    BY DEF FullInv
<1>1. CASE Tick \/ UNCHANGED vars
    BY <1>1, SameFramesOutside, SameTimesForward, OutsideKeepsLockInv DEF Tick, vars
<1> QED BY <1>1, RegisterKeepsLockInv, PollKeepsLockInv, CaptureKeepsLockInv,
           RestKeepsLockInv DEF Next

-------------------------------------------------------------------------------
(* The theorems. *)

LEMMA NextKeepsIInv == FullInv /\ [Next]_vars => IInv'
<1> SUFFICES ASSUME IInv, LockInv, [Next]_vars PROVE IInv'
    BY DEF FullInv
<1>1. CASE UNCHANGED vars
    <2>1. TypeOK'
        BY <1>1 DEF vars, IInv, TypeOK
    <2>2. FramesOK'
        BY <1>1 DEF vars, IInv, FramesOK, FrameOK
    <2>3. StoreInv'
        BY <1>1, SameStoreKeepsStoreInv DEF vars, IInv, SameIdentity, SameCounts
    <2> QED BY <2>1, <2>2, <2>3 DEF IInv
<1>2. CASE Tick
    BY <1>2, TickKeepsIInv
<1>3. ASSUME NEW p \in Procs, Register(p)
      PROVE  IInv'
    BY <1>3, RegisterKeepsIInv
<1>4. ASSUME NEW p \in Procs, Poll(p)
      PROVE  IInv'
    BY <1>4, GetSessionKeepsIInv, GetTouchKeepsIInv, GetPromoteKeepsIInv,
       GetRecheckKeepsIInv, GetAndClearKeepsIInv DEF Poll
<1>5. ASSUME NEW p \in Procs, Capture(p)
      PROVE  IInv'
    BY <1>5, AppendInteractionKeepsIInv, AppendTouchKeepsIInv, AppendStoreKeepsIInv
       DEF Capture
<1>6. ASSUME NEW p \in Procs, Lookup(p)
      PROVE  IInv'
    BY <1>6, HasCorrelationIDKeepsIInv, HasRecheckKeepsIInv DEF Lookup
<1> QED BY <1>1, <1>2, <1>3, <1>4, <1>5, <1>6, DeleteKeepsIInv DEF Next

LEMMA InitLockInv == Init => LockInv
BY DEF Init, LockInv, HoldsRoom, InRegister, Idle, Call

\* The inductive invariant holds in every reachable state of the store: types,
\* process locals, agreement of map, list, capacity and counters, and what the
\* registration holding m.mu has found.
THEOREM Invariant == Spec => []FullInv
<1>1. Init => FullInv
    BY InitIInv, InitLockInv DEF FullInv
<1>2. FullInv /\ [Next]_vars => FullInv'
    BY NextKeepsIInv, NextKeepsLockInv DEF FullInv
<1> QED BY <1>1, <1>2, PTL DEF Spec

\* Every variable of the store keeps its type (storage.go:71-119).
THEOREM TypeCorrect == Spec => []TypeOK
<1>1. FullInv => TypeOK
    BY DEF FullInv, IInv
<1> QED BY <1>1, Invariant, PTL

\* The session map, the LRU list and its index always agree, whatever calls,
\* expiries and evictions are interleaved (storage.go:160-277).
THEOREM LRUAlwaysCoherent == Spec => []LRUCoherent
<1>1. FullInv => LRUCoherent
    BY DEF FullInv, IInv, StoreInv, Coherent, LRUCoherent, Distinct, Holds, Live
<1> QED BY <1>1, Invariant, PTL

\* The map never outgrows maxCacheCapacity (storage.go:245-247).
THEOREM CapacityAlwaysRespected == Spec => []CapacityRespected
<1>1. FullInv => CapacityRespected
    BY DEF FullInv, IInv, StoreInv
<1> QED BY <1>1, Invariant, PTL

\* Created = live + evicted + deleted: the three session metrics never drift
\* apart (storage.go:461-470).
THEOREM SessionsAlwaysConserved == Spec => []SessionConservation
<1>1. FullInv => SessionConservation
    BY DEF FullInv, IInv, StoreInv
<1> QED BY <1>1, Invariant, PTL

\* A poll past validation holds a session of its own ID and secret, on both
\* paths of getSession (storage.go:304-363).
THEOREM HandleAlwaysAuthorised == Spec => []HandleAuthorised
<1>1. FullInv => HandleAuthorised
    BY DEF FullInv, IInv, FramesOK, FrameOK, HandleAuthorised
<1> QED BY <1>1, Invariant, PTL

-------------------------------------------------------------------------------
(* Evictions. *)

\* What brings an eviction about: expiry, or a registration that needs room.
EvictedFor(i) ==
    \/ IsExpired(heap[store.sessions[i]])
    \/ AtCapacity(store) /\ OldestProbed(i)

LEMMA PromoteKeepsSessions ==
    ASSUME NEW c, c \in Store, NEW id \in IDs
    PROVE  PromoteLRU(c, id).sessions = c.sessions
BY DEF PromoteLRU, Store

LEMMA RemovalLeaves ==
    ASSUME store \in Store, NEW id \in IDs, store' = RemoveLocked(store, id),
           NEW i \in IDs, Leaves(i)
    PROVE  i = id
BY DEF RemoveLocked, Store, Leaves

\* The victim of evictLRU is in the window, and was the oldest of it when it was
\* probed.
LEMMA VictimIsOldest ==
    ASSUME IInv, LockInv, NEW p \in Procs, Evict(p), NEW i \in IDs, Leaves(i)
    PROVE  AtCapacity(store) /\ OldestProbed(i)
<1> DEFINE v == frame[p].scan.victim
           s == store.sessions[i]
           time == frame[p].scan.time
<1>1. /\ AtCapacity(store) /\ v \in Live(store)
      /\ \E k \in Window : store.lruList[k] = store.sessions[v]
      /\ \A j \in Window : time <= heap[store.lruList[j]].lastAccess
      /\ store' = RemoveLocked(store, v)
    BY EvictFinds
<1>2. i = v
    <2>1. v \in IDs /\ store \in Store
        BY <1>1, Types DEF IInv, Live
    <2> HIDE DEF v
    <2> QED BY <1>1, <2>1, RemovalLeaves
<1>3. CASE heap[s].lastAccess > time
    BY <1>1, <1>2, <1>3 DEF OldestProbed, TouchedSinceProbed, Window, Evict
<1>4. CASE ~(heap[s].lastAccess > time)
    <2>1. time \in Nat /\ heap[s].lastAccess \in Nat
        <3>1. frame[p].scan \in Scan
            BY Types DEF IInv, Frame
        <3>2. s \in Ptr
            BY <1>1, <1>2, Types, LiveTyped DEF IInv
        <3> QED BY <3>1, <3>2, Types DEF IInv, Session, Scan
    <2>2. ASSUME NEW j \in Window
          PROVE  heap[s].lastAccess <= heap[store.lruList[j]].lastAccess
        <3>1. heap[store.lruList[j]].lastAccess \in Nat
            BY ListedLive, Types DEF IInv, Session, Window
        <3> QED BY <1>1, <1>4, <2>1, <3>1
    <2> QED BY <1>1, <1>2, <2>2 DEF OldestProbed, Window
<1> QED BY <1>1, <1>3, <1>4

LEMMA EvictionCauses ==
    ASSUME IInv, LockInv, [Next]_vars, NEW i \in IDs, Evicted(i)
    PROVE  EvictedFor(i)
<1>1. store \in Store /\ Leaves(i) /\ history'.deleted = history.deleted
      /\ history \in History
    BY Types DEF IInv, Evicted
<1>2. store' # store /\ store'.sessions # store.sessions
    BY <1>1 DEF Leaves
<1>3. ASSUME NEW id \in IDs, store' = RemoveLocked(store, id), IsExpired(heap[store.sessions[id]])
      PROVE  EvictedFor(i)
    BY <1>1, <1>3, RemovalLeaves DEF EvictedFor
<1>4. ASSUME NEW p \in Procs, Register(p)
      PROVE  EvictedFor(i)
    <2>1. ASSUME NEW id \in IDs, NEW secret \in Secrets, RegisterMiss(p, id, secret)
          PROVE  EvictedFor(i)
        <3>1. ExpiredHolder(id) /\ store' = RemoveLocked(store, id)
            BY <1>2, <2>1 DEF RegisterMiss, Swept
        <3> QED BY <1>3, <3>1 DEF ExpiredHolder
    <2>2. CASE Evict(p)
        BY <1>1, <2>2, VictimIsOldest DEF EvictedFor
    <2>3. ASSUME NEW id \in IDs, NEW secret \in Secrets, RegisterKeepAlive(p, id, secret)
          PROVE  FALSE
        BY <1>1, <1>2, <2>3, PromoteKeepsSessions DEF RegisterKeepAlive
    <2>4. ASSUME NEW id \in IDs, NEW secret \in Secrets, RegisterConflict(p, id, secret)
          PROVE  FALSE
        BY <1>2, <2>4 DEF RegisterConflict
    <2>5. CASE Probe(p)
        BY <1>2, <2>5, ProbeCompares
    <2>6. CASE RegisterNew(p)
        <3>1. frame[p].id \notin Live(store) /\ frame[p].id \in IDs
            BY <2>6 DEF RegisterNew, LockInv, HoldsRoom, InRegister, IInv, FramesOK, FrameOK
        <3>2. PICK s : store' = Insert(store, frame[p].id, s)
            BY <2>6 DEF RegisterNew
        <3> QED BY <1>1, <3>1, <3>2 DEF Insert, Store, Leaves, Live
    <2>7. CASE RegisterKeyError(p)
        BY <1>2, <2>7 DEF RegisterKeyError
    <2> QED BY <1>4, <2>1, <2>2, <2>3, <2>4, <2>5, <2>6, <2>7 DEF Register
<1>5. ASSUME NEW p \in Procs, Poll(p)
      PROVE  EvictedFor(i)
    <2>1. CASE GetRecheck(p)
        <3>1. frame[p].id \in IDs
            BY <2>1 DEF GetRecheck, IInv, FramesOK, FrameOK
        <3>2. store' # PromoteLRU(store, frame[p].id)
            BY <1>1, <1>2, <3>1, PromoteKeepsSessions
        <3>3. store' = RemoveLocked(store, frame[p].id)
              /\ IsExpired(heap[store.sessions[frame[p].id]])
            BY <1>2, <2>1, <3>2 DEF GetRecheck
        <3> QED BY <1>3, <3>1, <3>3
    <2>2. CASE GetPromote(p)
        <3>1. frame[p].id \in IDs
            BY <2>2 DEF GetPromote, IInv, FramesOK, FrameOK
        <3> QED BY <1>1, <1>2, <2>2, <3>1, PromoteKeepsSessions DEF GetPromote
    <2>3. CASE \E id \in IDs, secret \in Secrets : GetSession(p, id, secret)
        BY <1>2, <2>3 DEF GetSession
    <2>4. CASE GetTouch(p) \/ GetAndClearInteractions(p)
        BY <1>2, <2>4 DEF GetTouch, GetAndClearInteractions
    <2> QED BY <1>5, <2>1, <2>2, <2>3, <2>4 DEF Poll
<1>6. ASSUME NEW p \in Procs, Capture(p)
      PROVE  FALSE
    BY <1>2, <1>6 DEF Capture, AppendInteraction, AppendTouch, AppendStore
<1>7. ASSUME NEW p \in Procs, NEW id \in IDs, NEW secret \in Secrets, Delete(p, id, secret)
      PROVE  FALSE
    <2>1. history' = [history EXCEPT !.calls = @ + 1, !.deleted = @ + 1]
        BY <1>2, <1>7 DEF Delete
    <2>2. history.deleted \in Nat /\ history'.deleted = history.deleted + 1
        BY <1>1, <2>1 DEF History
    <2> QED BY <1>1, <2>2
<1>8. ASSUME NEW p \in Procs, Lookup(p)
      PROVE  EvictedFor(i)
    <2>1. CASE HasRecheck(p)
        <3>1. frame[p].id \in IDs
            BY <2>1 DEF HasRecheck, IInv, FramesOK, FrameOK
        <3>2. store' = RemoveLocked(store, frame[p].id) /\ ExpiredHolder(frame[p].id)
            BY <1>2, <2>1 DEF HasRecheck
        <3> QED BY <1>3, <3>1, <3>2 DEF ExpiredHolder
    <2>2. CASE \E id \in IDs : HasCorrelationID(p, id)
        BY <1>2, <2>2 DEF HasCorrelationID
    <2> QED BY <1>8, <2>1, <2>2 DEF Lookup
<1> QED BY <1>2, <1>4, <1>5, <1>6, <1>7, <1>8 DEF Next, vars, Tick

\* No stale look evicts: whoever upgrades the lock looks again.  A session that
\* leaves without a deregistration is expired, or the map is full and the session
\* is the oldest of the probing window, unless it was touched after evictLRU had
\* probed it (storage.go:160-188, 334-347, 432-441).
THEOREM EvictionsJustified == Spec => EvictionJustified
<1>1. FullInv /\ [Next]_vars => \A id \in IDs : Evicted(id) => EvictedFor(id)
    BY EvictionCauses DEF FullInv
<1>2. FullInv /\ [Next]_vars =>
          \A id \in IDs : Evicted(id) =>
              \/ IsExpired(heap[store.sessions[id]])
              \/ AtCapacity(store) /\ OldestProbed(id)
    BY <1>1 DEF EvictedFor
<1> QED BY <1>2, Invariant, PTL DEF Spec, EvictionJustified

\* Two sessions in the map are two elements of the list, both probed, so the
\* oldest of the probed ones has a younger neighbour.
LEMMA OldestHasNeighbour ==
    ASSUME IInv, MaxProbe >= 2, MaxCacheCapacity >= 2, AtCapacity(store),
           NEW i \in Live(store), OldestProbed(i), ~TouchedSinceProbed(i)
    PROVE  NotMostRecent(i)
<1>1. /\ store.sessions \in [IDs -> Ptr \union {None}]
      /\ DOMAIN store.lruList = 1 .. Len(store.lruList) /\ Len(store.lruList) \in Nat
    BY Types, ListedLive DEF IInv, Store
<1>2. PICK k \in Live(store) : k # i
    <2>1. Cardinality({i}) = 1
        BY FS_Singleton
    <2>2. Cardinality(Live(store)) >= 2
        BY LiveFinite, CapacityAssumption DEF AtCapacity
    <2> QED BY <2>1, <2>2
<1>3. store.sessions[i] # store.sessions[k]
    BY <1>2 DEF IInv, StoreInv, Coherent, OneToOne
<1>4. /\ Holds(store.lruList, store.sessions[i]) /\ Holds(store.lruList, store.sessions[k])
    BY DEF IInv, StoreInv, Coherent
<1>5. 1 \in Window /\ 2 \in Window
    <2>1. PICK m \in 1 .. Len(store.lruList), n \in 1 .. Len(store.lruList) :
              store.lruList[m] = store.sessions[i] /\ store.lruList[n] = store.sessions[k]
        BY <1>1, <1>4 DEF Holds
    <2>2. Len(store.lruList) >= 2
        BY <1>1, <1>3, <2>1
    <2> QED BY <1>1, <2>2, CapacityAssumption DEF Window
<1>6. store.lruList[1] # store.lruList[2]
    BY <1>1, <1>5 DEF Window, IInv, StoreInv, Coherent, Distinct
<1>7. PICK j \in Window : store.lruList[j] # store.sessions[i]
    BY <1>5, <1>6
<1>8. PICK other \in Live(store) : store.sessions[other] = store.lruList[j]
    BY <1>7 DEF IInv, StoreInv, Coherent, Holds, Window
<1>9. heap[store.sessions[i]].lastAccess <= heap[store.lruList[j]].lastAccess
    BY DEF OldestProbed, Window
<1> QED BY <1>7, <1>8, <1>9 DEF NotMostRecent

\* With a probe window and a capacity of at least two (8 and 2 500 000 in the
\* code) the session accessed last of all is pushed out only if it was accessed
\* after evictLRU had probed it, although list positions lag behind lastAccess
\* (storage.go:160-188).
THEOREM MostRecentIsSpared ==
    ASSUME MaxProbe >= 2, MaxCacheCapacity >= 2
    PROVE  Spec => VictimNotMostRecent
<1>1. ASSUME FullInv, [Next]_vars, NEW i \in IDs, PushedOut(i)
      PROVE  NotMostRecent(i) \/ TouchedSinceProbed(i)
    <2>1. AtCapacity(store) /\ OldestProbed(i)
        BY <1>1, EvictionCauses DEF FullInv, PushedOut, EvictedFor
    <2>2. i \in Live(store)
        BY <1>1 DEF PushedOut, Evicted, Leaves, Live
    <2> QED BY <1>1, <2>1, <2>2, OldestHasNeighbour DEF FullInv
<1>2. FullInv /\ [Next]_vars =>
          \A id \in IDs : PushedOut(id) => NotMostRecent(id) \/ TouchedSinceProbed(id)
    BY <1>1
<1> QED BY <1>2, Invariant, PTL DEF Spec, VictimNotMostRecent

-------------------------------------------------------------------------------
(* The promise of SessionStore. *)

\* A session object that has not been handed out has an empty buffer.
FreshIsEmpty ==
    \A s \in Ptr : s > counters.sessionsTotal => heap[s].interactions = <<>>

SameBuffers ==
    /\ \A s \in Ptr : heap'[s].interactions = heap[s].interactions
    /\ counters'.sessionsTotal = counters.sessionsTotal
    /\ delivered' = delivered

\* A step of the store is allowed by the promise, and leaves fresh objects empty.
Allowed == FreshIsEmpty' /\ [Promise!Next]_(Promise!vars)

LEMMA TouchKeepsBuffers ==
    ASSUME heap \in [Ptr -> Session], NEW s \in Ptr, Touch(s)
    PROVE  \A q \in Ptr : heap'[q].interactions = heap[q].interactions
BY DEF Touch, Session

\* Steps the promise does not see.
LEMMA QuietStepAllowed ==
    ASSUME FreshIsEmpty, SameBuffers, store'.sessions = store.sessions
    PROVE  Allowed
<1>1. FreshIsEmpty'
    BY DEF FreshIsEmpty, SameBuffers
<1>2. UNCHANGED Promise!vars
    BY DEF Promise!vars, SameBuffers
<1> QED BY <1>1, <1>2 DEF Allowed

\* Steps that only take sessions out of the map.
LEMMA ClosingStepAllowed ==
    ASSUME FreshIsEmpty, SameBuffers, NEW gone \in SUBSET IDs,
           store'.sessions = [i \in IDs |-> IF i \in gone THEN None ELSE store.sessions[i]]
    PROVE  Allowed
<1>1. FreshIsEmpty'
    BY DEF FreshIsEmpty, SameBuffers
<1>2. Promise!Close(gone)
    BY DEF Promise!Close, SameBuffers
<1> QED BY <1>1, <1>2 DEF Allowed, Promise!Next

LEMMA RemovalAllowed ==
    ASSUME IInv, FreshIsEmpty, SameBuffers, NEW id \in IDs, store' = RemoveLocked(store, id)
    PROVE  Allowed
<1>1. store.sessions \in [IDs -> Ptr \union {None}]
    BY Types DEF IInv, Store
<1>2. store'.sessions = [i \in IDs |-> IF i \in {id} THEN None ELSE store.sessions[i]]
    BY <1>1 DEF RemoveLocked
<1> QED BY <1>2, ClosingStepAllowed

LEMMA RegisterNewAllowed ==
    ASSUME IInv, FreshIsEmpty, NEW p \in Procs, RegisterNew(p)
    PROVE  Allowed
<1>1. PICK s, id : s = counters.sessionsTotal + 1 /\ id = frame[p].id
    OBVIOUS
<1>2. /\ s \in Ptr /\ id \in IDs
      /\ store' = Insert(store, id, s)
      /\ heap' = [heap EXCEPT ![s] = [id |-> id, secret |-> frame[p].secret, createdAt |-> now,
                                      lastAccess |-> now, interactions |-> <<>>]]
      /\ counters' = [counters EXCEPT !.sessionsTotal = s]
      /\ delivered' = delivered
    BY <1>1 DEF RegisterNew, IInv, FramesOK, FrameOK
<1>3. /\ heap \in [Ptr -> Session] /\ counters \in Counters
      /\ store.sessions \in [IDs -> Ptr \union {None}]
      /\ counters.sessionsTotal \in Nat /\ s \in Nat
    BY <1>1, Types DEF IInv, Store
<1>4. counters'.sessionsTotal = s
    BY <1>2, <1>3 DEF Counters
<1>5. \A q \in Ptr : heap'[q].interactions = heap[q].interactions
    BY <1>1, <1>2, <1>3 DEF FreshIsEmpty
<1>6. FreshIsEmpty'
    BY <1>1, <1>3, <1>4, <1>5, BoundAssumption DEF FreshIsEmpty, Ptr
<1>7. store'.sessions = [i \in IDs |-> IF i = id THEN s
                                       ELSE IF i \in {} THEN None ELSE store.sessions[i]]
    BY <1>2, <1>3 DEF Insert
<1>8. s \in Ptr \ (1 .. counters.sessionsTotal)
    BY <1>1, <1>2, <1>3
<1>9. 1 .. counters'.sessionsTotal = (1 .. counters.sessionsTotal) \union {s}
    BY <1>1, <1>3, <1>4
<1>10. Promise!Open(id, s, {})
    BY <1>2, <1>5, <1>7, <1>8, <1>9 DEF Promise!Open
<1>11. Promise!Next
    <2>1. \E gone \in SUBSET IDs : Promise!Open(id, s, gone)
        BY <1>10
    <2> QED BY <1>2, <2>1 DEF Promise!Next
<1> QED BY <1>6, <1>11 DEF Allowed

\* An append is accepted by the session whose pointer was read.
LEMMA AppendStoreAllowed ==
    ASSUME IInv, FreshIsEmpty, NEW p \in Procs, AppendStore(p)
    PROVE  Allowed
<1>1. PICK s, item : s = frame[p].ptr /\ item = frame[p].item
    OBVIOUS
<1>2. /\ heap' = [heap EXCEPT ![s].interactions = Append(@, item)]
      /\ UNCHANGED <<now, store, counters, captured, delivered, history>>
    BY <1>1 DEF AppendStore
<1>3. /\ s \in 1 .. counters.sessionsTotal /\ s \in Ptr /\ item \in Items
      /\ heap \in [Ptr -> Session] /\ counters.sessionsTotal \in Nat
    BY <1>1, Types DEF IInv, FramesOK, FrameOK, AppendStore
<1>4. /\ heap'[s].interactions = Append(heap[s].interactions, item)
      /\ \A q \in Ptr \ {s} : heap'[q].interactions = heap[q].interactions
    BY <1>2, <1>3 DEF Session
<1>5. FreshIsEmpty'
    BY <1>2, <1>3, <1>4 DEF FreshIsEmpty
<1>6. Promise!Accept(s, item)
    BY <1>2, <1>3, <1>4 DEF Promise!Accept
<1> QED BY <1>3, <1>5, <1>6 DEF Allowed, Promise!Next

\* A drain empties the mailbox of the handle's own session.
LEMMA DrainAllowed ==
    ASSUME IInv, FreshIsEmpty, NEW p \in Procs, GetAndClearInteractions(p)
    PROVE  Allowed
<1>1. PICK s : s = frame[p].ptr
    OBVIOUS
<1>2. /\ delivered' = [delivered EXCEPT ![s] = @ \o heap[s].interactions]
      /\ heap' = [heap EXCEPT ![s].interactions = <<>>]
      /\ UNCHANGED <<now, store, counters, captured, history>>
    BY <1>1 DEF GetAndClearInteractions
<1>3. /\ s \in 1 .. counters.sessionsTotal /\ s \in Ptr
      /\ heap \in [Ptr -> Session] /\ counters.sessionsTotal \in Nat
    BY <1>1, Types DEF IInv, FramesOK, FrameOK, GetAndClearInteractions
<1>4. /\ heap'[s].interactions = <<>>
      /\ \A q \in Ptr \ {s} : heap'[q].interactions = heap[q].interactions
    BY <1>2, <1>3 DEF Session
<1>5. FreshIsEmpty'
    BY <1>2, <1>3, <1>4 DEF FreshIsEmpty
<1>6. Promise!Drain(s)
    BY <1>2, <1>3, <1>4 DEF Promise!Drain
<1> QED BY <1>3, <1>5, <1>6 DEF Allowed, Promise!Next

LEMMA HitAllowed ==
    ASSUME IInv, FreshIsEmpty, NEW s \in Ptr, Touch(s), store'.sessions = store.sessions,
           counters'.sessionsTotal = counters.sessionsTotal, delivered' = delivered
    PROVE  Allowed
BY TouchKeepsBuffers, QuietStepAllowed, Types DEF IInv, SameBuffers

LEMMA RegisterAllowed ==
    ASSUME IInv, FreshIsEmpty, NEW p \in Procs, Register(p)
    PROVE  Allowed
<1>0. counters \in Counters /\ store \in Store
    BY Types DEF IInv
<1>1. ASSUME NEW id \in IDs, NEW secret \in Secrets, RegisterMiss(p, id, secret)
      PROVE  Allowed
    <2>1. SameBuffers
        BY <1>0, <1>1 DEF RegisterMiss, SameBuffers, Counters
    <2> QED BY <1>1, <2>1, RemovalAllowed, QuietStepAllowed DEF RegisterMiss, Swept
<1>2. ASSUME NEW id \in IDs, NEW secret \in Secrets, RegisterKeepAlive(p, id, secret)
      PROVE  Allowed
    <2>1. store.sessions[id] \in Ptr /\ Touch(store.sessions[id])
        BY <1>0, <1>2 DEF RegisterKeepAlive, Store
    <2>2. /\ store'.sessions = store.sessions /\ delivered' = delivered
          /\ counters'.sessionsTotal = counters.sessionsTotal
        BY <1>0, <1>2, PromoteKeepsSessions DEF RegisterKeepAlive, Counters
    <2> QED BY <2>1, <2>2, HitAllowed
<1>3. ASSUME NEW id \in IDs, NEW secret \in Secrets, RegisterConflict(p, id, secret)
      PROVE  Allowed
    BY <1>0, <1>3, QuietStepAllowed DEF RegisterConflict, SameBuffers, Counters
<1>4. CASE Probe(p)
    <2>1. store'.sessions = store.sessions /\ SameBuffers
        BY <1>0, <1>4 DEF Probe, SameBuffers, Store
    <2> QED BY <2>1, QuietStepAllowed
<1>5. CASE Evict(p)
    <2>1. SameBuffers
        BY <1>0, <1>5 DEF Evict, SameBuffers, Counters
    <2>2. frame[p].scan.victim \in IDs \union {None}
        BY Types DEF IInv, Frame, Scan
    <2> QED BY <1>5, <2>1, <2>2, RemovalAllowed, QuietStepAllowed DEF Evict
<1>6. CASE RegisterKeyError(p)
    BY <1>6, QuietStepAllowed DEF RegisterKeyError, SameBuffers
<1> QED BY <1>1, <1>2, <1>3, <1>4, <1>5, <1>6, RegisterNewAllowed DEF Register

LEMMA PollAllowed ==
    ASSUME IInv, FreshIsEmpty, NEW p \in Procs, Poll(p)
    PROVE  Allowed
<1>0. counters \in Counters /\ store \in Store
    BY Types DEF IInv
<1>1. ASSUME NEW id \in IDs, NEW secret \in Secrets, GetSession(p, id, secret)
      PROVE  Allowed
    <2>1. counters'.sessionsTotal = counters.sessionsTotal
        BY <1>0, <1>1 DEF GetSession, Counters
    <2> QED BY <1>1, <2>1, QuietStepAllowed DEF GetSession, SameBuffers
<1>2. CASE GetTouch(p)
    <2>1. frame[p].ptr \in Ptr
        BY <1>2, Types DEF IInv, FramesOK, FrameOK, GetTouch
    <2>2. counters'.sessionsTotal = counters.sessionsTotal
        BY <1>0, <1>2 DEF GetTouch, Counters
    <2> QED BY <1>2, <2>1, <2>2, HitAllowed DEF GetTouch
<1>3. CASE GetPromote(p)
    <2>1. frame[p].id \in IDs
        BY <1>3 DEF IInv, FramesOK, FrameOK, GetPromote
    <2> QED BY <1>0, <1>3, <2>1, PromoteKeepsSessions, QuietStepAllowed
            DEF GetPromote, SameBuffers
<1>4. CASE GetRecheck(p)
    <2>1. frame[p].id \in IDs
        BY <1>4 DEF IInv, FramesOK, FrameOK, GetRecheck
    <2>2. SameBuffers
        BY <1>0, <1>4 DEF GetRecheck, SameBuffers, Counters
    <2>3. CASE store' = RemoveLocked(store, frame[p].id)
        BY <2>1, <2>2, <2>3, RemovalAllowed
    <2>4. CASE store' = store \/ store' = PromoteLRU(store, frame[p].id)
        BY <1>0, <2>1, <2>2, <2>4, PromoteKeepsSessions, QuietStepAllowed
    <2> QED BY <1>4, <2>3, <2>4 DEF GetRecheck
<1> QED BY <1>1, <1>2, <1>3, <1>4, DrainAllowed DEF Poll

LEMMA CaptureAllowed ==
    ASSUME IInv, FreshIsEmpty, NEW p \in Procs, Capture(p)
    PROVE  Allowed
<1>0. counters \in Counters
    BY Types DEF IInv
<1>1. ASSUME NEW id \in IDs, AppendInteraction(p, id)
      PROVE  Allowed
    <2>1. counters'.sessionsTotal = counters.sessionsTotal
        BY <1>0, <1>1 DEF AppendInteraction, Counters
    <2> QED BY <1>1, <2>1, QuietStepAllowed DEF AppendInteraction, SameBuffers
<1>2. CASE AppendTouch(p)
    <2>1. frame[p].ptr \in Ptr
        BY <1>2, Types DEF IInv, FramesOK, FrameOK, AppendTouch
    <2>2. counters'.sessionsTotal = counters.sessionsTotal
        BY <1>0, <1>2 DEF AppendTouch, Counters
    <2> QED BY <1>2, <2>1, <2>2, HitAllowed DEF AppendTouch
<1> QED BY <1>1, <1>2, AppendStoreAllowed DEF Capture

LEMMA DeleteAllowed ==
    ASSUME IInv, FreshIsEmpty, NEW p \in Procs, NEW id \in IDs, NEW secret \in Secrets,
           Delete(p, id, secret)
    PROVE  Allowed
<1>1. counters \in Counters
    BY Types DEF IInv
<1>2. SameBuffers
    BY <1>1 DEF Delete, SameBuffers, Counters
<1> QED BY <1>2, RemovalAllowed, QuietStepAllowed DEF Delete

LEMMA LookupAllowed ==
    ASSUME IInv, FreshIsEmpty, NEW p \in Procs, Lookup(p)
    PROVE  Allowed
<1>0. counters \in Counters
    BY Types DEF IInv
<1>1. CASE \E id \in IDs : HasCorrelationID(p, id)
    BY <1>1, QuietStepAllowed DEF HasCorrelationID, SameBuffers
<1>2. CASE HasRecheck(p)
    <2>1. frame[p].id \in IDs
        BY <1>2 DEF IInv, FramesOK, FrameOK, HasRecheck
    <2>2. SameBuffers
        BY <1>0, <1>2 DEF HasRecheck, SameBuffers, Counters
    <2> QED BY <1>2, <2>1, <2>2, RemovalAllowed, QuietStepAllowed DEF HasRecheck
<1> QED BY <1>1, <1>2 DEF Lookup

LEMMA NextAllowed == IInv /\ FreshIsEmpty /\ [Next]_vars => Allowed
<1> SUFFICES ASSUME IInv, FreshIsEmpty, [Next]_vars PROVE Allowed
    OBVIOUS
<1>1. CASE Tick \/ UNCHANGED vars
    BY <1>1, QuietStepAllowed DEF Tick, vars, SameBuffers
<1> QED BY <1>1, RegisterAllowed, PollAllowed, CaptureAllowed, DeleteAllowed, LookupAllowed
        DEF Next

LEMMA InitAllowed == Init => FreshIsEmpty /\ Promise!Init
<1> SUFFICES ASSUME Init PROVE FreshIsEmpty /\ Promise!Init
    OBVIOUS
<1>1. FreshIsEmpty
    BY DEF Init, FreshIsEmpty
<1>2. 1 .. counters.sessionsTotal = {}
    BY DEF Init
<1>3. Promise!Init
    BY <1>2 DEF Init, Promise!Init
<1> QED BY <1>1, <1>3

\* The store implements SessionStore: no interaction changes mailbox, is lost from
\* one, or is drained twice, however lookups, replacements and the appends and
\* drains that follow them are interleaved (storage.go:304-432).
THEOREM StoreKeepsPromise == Spec => KeepsPromise
<1>1. Init => FreshIsEmpty /\ Promise!Init
    BY InitAllowed
<1>2. FullInv /\ FreshIsEmpty /\ [Next]_vars => FreshIsEmpty' /\ [Promise!Next]_(Promise!vars)
    BY NextAllowed DEF Allowed, FullInv
<1> QED BY <1>1, <1>2, Invariant, PTL DEF Spec, KeepsPromise, Promise!Spec
===============================================================================
