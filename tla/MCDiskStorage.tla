---------------------------- MODULE MCDiskStorage -----------------------------
(* DiskStorage for TLC. *)
EXTENDS DiskStorage, TLC

\* The model's bounds are used up and every call has returned; anything else
\* that cannot move is a deadlock of the two locks.
Exhausted ==
    /\ now = MaxTime
    /\ history.calls = MaxCalls
    /\ closed /\ restarts = MaxRestarts
    /\ \A p \in Procs : frame[p].pc = "idle" /\ Free(p)
    /\ UNCHANGED allVars

MCNext == DiskNext \/ Exhausted
MCSpec == DiskInit /\ [][MCNext]_allVars

Symmetry == Permutations(IDs) \union Permutations(Secrets) \union Permutations(Procs)
===============================================================================
