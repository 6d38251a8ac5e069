----------------------------- MODULE DiskStorage ------------------------------
(***************************************************************************)
(* diskStorage of oobsrv/storage.go: the sessions of memoryStorage, their  *)
(* interactions in LevelDB, one record per correlation ID.  The embedded   *)
(* memoryStorage keeps the map; its onEvict and onRegister hooks delete    *)
(* the record, and onEvict waits for session.mu while m.mu is held.        *)
(* AppendInteraction holds m.mu for reading from the lookup to the write,  *)
(* and session.mu around its read-modify-write; a drain only takes the     *)
(* session.mu of the session its handle was made for.                      *)
(***************************************************************************)
EXTENDS MemoryStorage

CONSTANT MaxRestarts   \* bound: server restarts

ASSUME RestartAssumption == MaxRestarts \in Nat
ASSUME ProcsAssumption == None \notin Procs   \* None is the holder of a free mutex

VARIABLES
    db,        \* db[id]: the LevelDB record, a sequence of encrypted entries
    mu,        \* mu[s]: the process holding the mutex of session object s
    io,        \* io[p]: step of p inside LevelDB work, the value it read, and
               \* the session whose onEvict it is in
    closed,    \* Close was called (closed flag and db.Close)
    restarts,  \* restarts so far
    drained    \* history: the entries the drains of a session returned, in order

diskVars == <<db, mu, io, closed, restarts, drained>>
allVars == <<now, store, heap, counters, frame, captured, delivered, history,
             db, mu, io, closed, restarts, drained>>

\* An entry of a record: the interaction, and the session whose AES key it was
\* encrypted with.
Entry == [item : Items, key : Ptr]
AtIO(step, data, gone) == [step |-> step, data |-> data, gone |-> gone]
NoIO == AtIO("none", <<>>, None)

\* RLock is held by an append from its lookup to its return.
HoldsRLock(p) == io[p].step \in {"appendLock", "appendPut"}
NoReader == \A p \in Procs : ~HoldsRLock(p)
Free(p) == io[p].step = "none"

\* m.mu is held for writing while onEvict waits for the session's mutex, also
\* when nothing else is left to do in the call.
NoHook == \A p \in Procs : io[p].step # "onEvict"

DiskInit ==
    /\ Init
    /\ db = [id \in IDs |-> <<>>]
    /\ mu = [s \in Ptr |-> None]
    /\ io = [p \in Procs |-> NoIO]
    /\ closed = FALSE
    /\ restarts = 0
    /\ drained = [s \in Ptr |-> <<>>]

\* onEvict is called with each session that leaves the map (removeLocked).
\* onRegister deletes what is left under an ID before a session enters;
\* db.Delete fails unseen once closed.
Hooks(p) ==
    \/ \E id \in IDs :
          /\ Leaves(id)
          /\ io' = [io EXCEPT ![p] = AtIO("onEvict", <<>>, store.sessions[id])]
          /\ UNCHANGED db
    \/ /\ \A id \in IDs : ~Leaves(id)
       /\ db' = [id \in IDs |-> IF store'.sessions[id] # store.sessions[id] /\ ~closed
                                THEN <<>> ELSE db[id]]
       /\ UNCHANGED io

\* A step of a call that holds m.mu for writing, so it has waited for every
\* append and every hook.
LockedCall(p) ==
    /\ Free(p) /\ NoReader /\ NoHook
    /\ \/ Register(p)
       \/ GetPromote(p)
       \/ GetRecheck(p)
       \/ HasRecheck(p)
       \/ \E id \in IDs, secret \in Secrets : Delete(p, id, secret)
    /\ Hooks(p)
    /\ UNCHANGED <<mu, closed, restarts, drained>>

\* Faulty variant: the record stays.
OnEvictKeepsRecord(p) ==
    /\ io[p].step = "onEvict"
    /\ mu[io[p].gone] = None
    /\ io' = [io EXCEPT ![p] = NoIO]
    /\ UNCHANGED <<vars, db, mu, closed, restarts, drained>>

\* Under m.mu: wait for session.mu, delete the record.
OnEvict(p) ==
    LET s == io[p].gone
    IN /\ io[p].step = "onEvict"
       /\ mu[s] = None
       /\ db' = IF closed THEN db ELSE [db EXCEPT ![heap[s].id] = <<>>]
       /\ io' = [io EXCEPT ![p] = NoIO]
       /\ UNCHANGED <<vars, mu, closed, restarts, drained>>

\* Sections under RLock, and the lock-free touch.
SharedCall(p) ==
    /\ Free(p)
    /\ \/ NoHook /\ \E id \in IDs, secret \in Secrets : GetSession(p, id, secret)
       \/ NoHook /\ \E id \in IDs : HasCorrelationID(p, id)
       \/ GetTouch(p)
    /\ UNCHANGED diskVars

-------------------------------------------------------------------------------
(* AppendInteraction. *)

\* Lookup, hit and touch; RLock stays held.
DiskAppend(p, id) ==
    LET s == store.sessions[id]
    IN /\ Starts(p) /\ Unlocked
       /\ Free(p) /\ NoHook
       /\ captured < MaxInteractions
       /\ captured' = captured + 1
       /\ \/ /\ s = None
             /\ counters' = [counters EXCEPT !.misses = @ + 1]
             /\ history' = [history EXCEPT !.calls = @ + 1]
             /\ UNCHANGED <<heap, frame, io>>
          \/ /\ s # None
             /\ counters' = [counters EXCEPT !.hits = @ + 1]
             /\ Touch(s)
             /\ history' = [history EXCEPT !.calls = @ + 1]
             /\ frame' = [frame EXCEPT ![p] = Call("appendStore", id, None, s, captured + 1)]
             /\ io' = [io EXCEPT ![p].step = "appendLock"]
       /\ UNCHANGED <<now, store, delivered, db, mu, closed, restarts, drained>>

\* Faulty variant: the read-modify-write is not under session.mu.
DiskAppendGetUnlocked(p) ==
    /\ io[p].step = "appendLock"
    /\ IF closed
       THEN /\ io' = [io EXCEPT ![p] = NoIO]
            /\ Return(p)
       ELSE /\ io' = [io EXCEPT ![p] = AtIO("appendPut", db[frame[p].id], None)]
            /\ UNCHANGED frame
    /\ UNCHANGED <<now, store, heap, counters, captured, delivered, history,
                   db, mu, closed, restarts, drained>>

\* session.mu.Lock, then db.Get; any error but ErrNotFound discards.
DiskAppendGet(p) ==
    LET s == frame[p].ptr
    IN /\ io[p].step = "appendLock"
       /\ mu[s] = None
       /\ IF closed
          THEN /\ io' = [io EXCEPT ![p] = NoIO]
               /\ Return(p)
               /\ UNCHANGED mu
          ELSE /\ io' = [io EXCEPT ![p] = AtIO("appendPut", db[frame[p].id], None)]
               /\ mu' = [mu EXCEPT ![s] = p]
               /\ UNCHANGED frame
       /\ UNCHANGED <<now, store, heap, counters, captured, delivered, history,
                      db, closed, restarts, drained>>

\* encryptAES with the session's cipher.
EntryOf(p) == [item |-> frame[p].item, key |-> frame[p].ptr]

\* db.Put of what was read and the new entry; a write error is discarded too.
DiskAppendPut(p) ==
    LET s == frame[p].ptr
    IN /\ io[p].step = "appendPut"
       /\ db' = IF closed THEN db
                ELSE [db EXCEPT ![frame[p].id] = Append(io[p].data, EntryOf(p))]
       /\ mu' = [mu EXCEPT ![s] = None]
       /\ io' = [io EXCEPT ![p] = NoIO]
       /\ Return(p)
       /\ UNCHANGED <<now, store, heap, counters, captured, delivered, history,
                      closed, restarts, drained>>

-------------------------------------------------------------------------------
(* GetAndClearInteractions of a diskSessionHandle: the mutex of the handle's
   session, the record of the handle's correlation ID. *)

DrainGet(p) ==
    LET s == frame[p].ptr
        data == db[frame[p].id]
    IN /\ frame[p].pc = "handle" /\ Free(p)
       /\ mu[s] = None
       /\ IF closed \/ data = <<>>      \* "storage closed", or ErrNotFound
          THEN Return(p) /\ UNCHANGED <<mu, io>>
          ELSE /\ io' = [io EXCEPT ![p] = AtIO("drainDelete", data, None)]
               /\ mu' = [mu EXCEPT ![s] = p]
               /\ UNCHANGED frame
       /\ UNCHANGED <<now, store, heap, counters, captured, delivered, history,
                      db, closed, restarts, drained>>

\* Faulty variant: the record is returned and stays.
DrainKeepsRecord(p) ==
    LET s == frame[p].ptr
    IN /\ io[p].step = "drainDelete"
       /\ mu' = [mu EXCEPT ![s] = None]
       /\ drained' = [drained EXCEPT ![s] = @ \o io[p].data]
       /\ io' = [io EXCEPT ![p] = NoIO]
       /\ Return(p)
       /\ UNCHANGED <<now, store, heap, counters, captured, delivered, history,
                      db, closed, restarts>>

DrainDelete(p) ==
    LET s == frame[p].ptr
    IN /\ io[p].step = "drainDelete"
       /\ db' = IF closed THEN db ELSE [db EXCEPT ![frame[p].id] = <<>>]
       /\ mu' = [mu EXCEPT ![s] = None]
       /\ drained' = [drained EXCEPT ![s] = @ \o io[p].data]
       /\ io' = [io EXCEPT ![p] = NoIO]
       /\ Return(p)
       /\ UNCHANGED <<now, store, heap, counters, captured, delivered, history,
                      closed, restarts>>

-------------------------------------------------------------------------------
\* Close: later reads and writes of LevelDB fail, and the directory is removed.
Close ==
    /\ ~closed
    /\ closed' = TRUE
    /\ db' = [id \in IDs |-> <<>>]
    /\ UNCHANGED <<vars, mu, io, restarts, drained>>

\* The process ends (after Close or by a crash) and a new one starts: a fresh
\* memoryStorage, and LevelDB in a new randomly named subdirectory.  What was
\* created before counts as deleted; the names of sessions stay used up.
Restart ==
    /\ restarts < MaxRestarts
    /\ restarts' = restarts + 1
    /\ store' = [sessions |-> [id \in IDs |-> None], lruList |-> <<>>,
                 lruMap |-> [id \in IDs |-> None]]
    /\ counters' = [counters EXCEPT !.hits = 0, !.misses = 0, !.evictions = 0]
    /\ frame' = [p \in Procs |-> Idle]
    /\ db' = [id \in IDs |-> <<>>]
    /\ mu' = [s \in Ptr |-> None]
    /\ io' = [p \in Procs |-> NoIO]
    /\ closed' = FALSE
    /\ history' = [history EXCEPT !.deleted = counters.sessionsTotal]
    /\ UNCHANGED <<now, heap, captured, delivered, drained>>

DiskNext ==
    \/ Tick /\ UNCHANGED diskVars
    \/ \E p \in Procs :
          \/ LockedCall(p)
          \/ OnEvict(p)
          \/ SharedCall(p)
          \/ \E id \in IDs : DiskAppend(p, id)
          \/ DiskAppendGet(p)
          \/ DiskAppendPut(p)
          \/ DrainGet(p)
          \/ DrainDelete(p)
    \/ Close
    \/ Restart

DiskSpec == DiskInit /\ [][DiskNext]_allVars

-------------------------------------------------------------------------------
\* s has left the map under id, and its onEvict has still to delete the record.
BeingEvicted(id, s) ==
    heap[s].id = id /\ \E p \in Procs : io[p].step = "onEvict" /\ io[p].gone = s

\* A record belongs to the session registered under its ID, or to the one that
\* is just being evicted from there: every entry is encrypted with its key, and
\* once onEvict is done an ID without a session has no record.  Neither an
\* append that raced an eviction nor a re-registration leaves entries of another
\* session behind (storage.go:582-597).
RecordsBelongToSession ==
    \A id \in IDs : \A i \in DOMAIN db[id] :
        \/ db[id][i].key = store.sessions[id]
        \/ BeingEvicted(id, db[id][i].key)

\* Whatever is interleaved, an interaction reaches the client that can decrypt
\* it at most once.
DecryptableOnce ==
    \A s \in Ptr : \A i, j \in DOMAIN drained[s] :
        /\ drained[s][i].key = s
        /\ drained[s][j] = drained[s][i]
        => i = j

\* A drain that empties the record of id returns all of it, unless its handle is
\* of a session that was replaced meanwhile: that one holds another mutex, and
\* what was appended since its read is lost (storage.go:655-673).
HandedOver(id) ==
    \E p \in Procs :
        /\ io[p].step = "drainDelete" /\ io'[p].step = "none" /\ frame[p].id = id
        /\ LET s == frame[p].ptr
           IN s = store.sessions[id] => drained'[s] = drained[s] \o db[id]

\* Entries of a session that stays mapped leave the record only into the hands
\* of a poll of that session, through a stale handle, or with Close: no append,
\* no eviction of another session and no late hook drops them.
RecordKeptUntilDrained ==
    [][\A id \in IDs :
          store.sessions[id] # None /\ store'.sessions[id] = store.sessions[id] /\ ~closed' =>
              IsPrefix(db[id], db'[id]) \/ HandedOver(id)]_allVars

\* "aes_key contains the RSA-encrypted AES key" of the data it is returned with
\* (docs/interactsh-api-specs.md:229): what a poll returns can be decrypted with
\* the key of the handle that returned it.
DeliveredUnderOwnKey ==
    \A s \in Ptr : \A i \in DOMAIN drained[s] : drained[s][i].key = s
===============================================================================
