--------------------------- MODULE MCMemoryStorage ----------------------------
(* MemoryStorage for TLC. *)
EXTENDS MemoryStorage, TLC

\* The model's bounds are used up and every call has returned.  It is the only
\* way the model may stop: a call that cannot go on is a deadlock.
Exhausted ==
    /\ now = MaxTime
    /\ history.calls = MaxCalls
    /\ \A p \in Procs : frame[p].pc = "idle"
    /\ UNCHANGED vars

MCNext == Next \/ Exhausted
MCSpec == Init /\ [][MCNext]_vars

Symmetry == Permutations(IDs) \union Permutations(Secrets) \union Permutations(Procs)
===============================================================================
