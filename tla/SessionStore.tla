----------------------------- MODULE SessionStore -----------------------------
(***************************************************************************)
(* What a session store promises, whatever backs it.  A correlation ID is  *)
(* owned by at most one session at a time.  Every session ever opened has  *)
(* a mailbox of its own: an interaction accepted for a session stays in    *)
(* that session's mailbox until one drain hands it out, in the order of    *)
(* acceptance, once.  Nothing moves between the mailboxes of two sessions, *)
(* also when they held the same correlation ID one after the other (each   *)
(* has its own AES key, so a stray entry could not be decrypted).          *)
(***************************************************************************)
EXTENDS Naturals, Sequences

CONSTANTS IDs,        \* correlation IDs
          Sessions,   \* session objects, one per successful registration
          Items,      \* captured interactions
          None

VARIABLES owner,      \* owner[id]: the session registered under id, or None
          opened,     \* the sessions opened so far
          mailbox,    \* mailbox[s]: accepted and not yet drained
          delivered   \* delivered[s]: handed out by drains, in order

vars == <<owner, opened, mailbox, delivered>>

Init ==
    /\ owner = [id \in IDs |-> None]
    /\ opened = {}
    /\ mailbox = [s \in Sessions |-> <<>>]
    /\ delivered = [s \in Sessions |-> <<>>]

\* A registration gives id to a session never used before.  It may push out
\* other sessions (the expired holder of id, a victim at capacity).
Open(id, s, gone) ==
    /\ s \in Sessions \ opened
    /\ opened' = opened \union {s}
    /\ owner' = [i \in IDs |-> IF i = id THEN s
                               ELSE IF i \in gone THEN None ELSE owner[i]]
    /\ UNCHANGED <<mailbox, delivered>>

\* Sessions leave: deregistration, expiry, a victim of a failed registration.
Close(gone) ==
    /\ owner' = [i \in IDs |-> IF i \in gone THEN None ELSE owner[i]]
    /\ UNCHANGED <<opened, mailbox, delivered>>

\* An interaction that was looked up for session s is accepted by s, even if s
\* has lost its ID in the meantime (then nobody will drain it again).
Accept(s, item) ==
    /\ s \in opened
    /\ mailbox' = [mailbox EXCEPT ![s] = Append(@, item)]
    /\ UNCHANGED <<owner, opened, delivered>>

\* A drain by a validated handle takes the whole mailbox of its own session.
Drain(s) ==
    /\ s \in opened
    /\ delivered' = [delivered EXCEPT ![s] = @ \o mailbox[s]]
    /\ mailbox' = [mailbox EXCEPT ![s] = <<>>]
    /\ UNCHANGED <<owner, opened>>

Next ==
    \/ \E id \in IDs, s \in Sessions, gone \in SUBSET IDs : Open(id, s, gone)
    \/ \E gone \in SUBSET IDs : Close(gone)
    \/ \E s \in Sessions, item \in Items : Accept(s, item)
    \/ \E s \in Sessions : Drain(s)

Spec == Init /\ [][Next]_vars
===============================================================================
