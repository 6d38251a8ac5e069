---------------------------------- MODULE Cli -----------------------------------
(***************************************************************************)
(* interactsh-lite from its first registration to its exit, run after run  *)
(* (main.go): one process at a time with the session file it may leave to  *)
(* the next, the poll goroutine beside main, and the server's sessions.    *)
(*                                                                         *)
(* The client library is seen from outside here: OobClient has its         *)
(* goroutines, Registration its New.                                       *)
(***************************************************************************)
EXTENDS Naturals, Sequences, FiniteSets

CONSTANTS
    MaxRuns,    \* bound: runs of the program
    MaxArrivals, \* bound: interactions captured
    Counts,     \* values of --count, 0 for none
    NoID,       \* no session file
    Unreadable  \* a session file that was not written to its end

ASSUME RunsAssumption == MaxRuns \in Nat \ {0} /\ MaxArrivals \in Nat /\ Counts \subseteq Nat
ASSUME NoIDAssumption ==
    /\ NoID \notin 1 .. MaxRuns /\ Unreadable \notin 1 .. MaxRuns /\ NoID # Unreadable
    /\ NoID \notin Seq([n : Nat, displayed : BOOLEAN])

VARIABLES
    cli,       \* main: [pc, run, withFile, id, count, reason, code]
    poller,    \* the poll goroutine: [pc, cancelled, items]
    displayCount,
    kept,      \* the ID in the session file
    sessions,  \* sessions[id]: its interactions at the server, or NoID
    arrived,   \* interactions captured so far
    shown,     \* history: interactions this run displayed
    unwritten, \* history: those whose display failed, with a warning
    evicted    \* history: IDs evicted and not registered since

cliVars == <<cli, poller, displayCount, kept, sessions, arrived, shown, unwritten, evicted>>

\* An ID is the number of the run that made it.
IDs == 1 .. MaxRuns
NoPoller == [pc |-> "none", cancelled |-> FALSE, items |-> <<>>]

CliInit ==
    /\ cli = [pc |-> "begin", run |-> 1, withFile |-> FALSE, id |-> NoID, count |-> 0,
              reason |-> "none", code |-> 0]
    /\ poller = NoPoller /\ displayCount = 0
    /\ kept = NoID
    /\ sessions = [id \in IDs |-> NoID]
    /\ arrived = 0
    /\ shown = {} /\ unwritten = {} /\ evicted = {}

Alive == cli.pc \notin {"begin", "ended"}
Open(id) == sessions[id] # NoID

-------------------------------------------------------------------------------
(* main. *)

Begin ==
    /\ cli.pc = "begin"
    /\ \E withFile \in BOOLEAN, count \in Counts :
          cli' = [cli EXCEPT !.withFile = withFile, !.count = count,
                             !.pc = IF withFile /\ kept # NoID THEN "load" ELSE "new"]
    /\ UNCHANGED <<poller, displayCount, kept, sessions, arrived, shown, unwritten, evicted>>

\* A registration: a session that is there stays as it is.
Registers(id) ==
    /\ sessions' = IF Open(id) THEN sessions ELSE [sessions EXCEPT ![id] = <<>>]
    /\ evicted' = evicted \ {id}

StartsPolling(id) ==
    /\ cli' = [cli EXCEPT !.pc = "polls", !.id = id]
    /\ poller' = [NoPoller EXCEPT !.pc = "wait"]

\* os.Exit(1), with an error that the server may not have seen as one.
Fails(id) ==
    /\ cli' = [cli EXCEPT !.pc = "ended", !.code = 1]
    /\ Registers(id) \/ UNCHANGED <<sessions, evicted>>
    /\ UNCHANGED poller

\* LoadSession at the URL and with the keys of the file, or New.
CliRegister ==
    /\ cli.pc \in {"load", "new"}
    /\ IF cli.pc = "load" /\ kept = Unreadable
       THEN cli' = [cli EXCEPT !.pc = "ended", !.code = 1]
            /\ UNCHANGED <<poller, sessions, evicted>>
       ELSE LET id == IF cli.pc = "load" THEN kept ELSE cli.run
            IN \/ StartsPolling(id) /\ Registers(id)
               \/ Fails(id)
    /\ UNCHANGED <<displayCount, kept, arrived, shown, unwritten>>

\* The select: doneCh is closed when displayCount reaches the count, and stays so.
Select ==
    /\ cli.pc = "polls"
    /\ \E reason \in {"signal", "timeout", "count"} :
          /\ reason = "count" => cli.count > 0 /\ displayCount >= cli.count
          /\ cli' = [cli EXCEPT !.reason = reason, !.pc = "stops"]
    /\ UNCHANGED <<poller, displayCount, kept, sessions, arrived, shown, unwritten, evicted>>

\* Faulty variant: the client is closed whether there is a session file or not.
KeepsSessionNever == FALSE

KeepsSession == cli.withFile

\* StopPolling, or Close with its deregistration, whose error is ignored.
Stop ==
    /\ cli.pc = "stops"
    /\ poller' = [poller EXCEPT !.cancelled = TRUE]
    /\ cli' = [cli EXCEPT !.pc = IF cli.withFile THEN "saves" ELSE "judges"]
    /\ \/ UNCHANGED sessions
       \/ ~KeepsSession /\ sessions' = [sessions EXCEPT ![cli.id] = NoID]
    /\ UNCHANGED <<displayCount, kept, arrived, shown, unwritten, evicted>>

\* SaveSession: written, not opened, or written in part.
Save ==
    /\ cli.pc = "saves"
    /\ cli' = [cli EXCEPT !.pc = "judges"]
    /\ kept' \in {cli.id, kept, Unreadable}
    /\ UNCHANGED <<poller, displayCount, sessions, arrived, shown, unwritten, evicted>>

\* The exit code; displayCount may still grow.
Judge ==
    /\ cli.pc = "judges"
    /\ cli' = [cli EXCEPT !.pc = "exits",
          !.code = IF cli.reason = "timeout" /\ cli.count > 0 /\ displayCount < cli.count
                   THEN 1 ELSE 0]
    /\ UNCHANGED <<poller, displayCount, kept, sessions, arrived, shown, unwritten, evicted>>

\* The process ends with all its goroutines.
Exit ==
    /\ cli.pc = "exits"
    /\ cli' = [cli EXCEPT !.pc = "ended"]
    /\ poller' = NoPoller
    /\ UNCHANGED <<displayCount, kept, sessions, arrived, shown, unwritten, evicted>>

\* The process is killed, maybe while it writes the session file.
Kill ==
    /\ Alive
    /\ cli' = [cli EXCEPT !.pc = "ended", !.code = 1]
    /\ poller' = NoPoller
    /\ kept' \in IF cli.pc = "saves" THEN {cli.id, kept, Unreadable} ELSE {kept}
    /\ UNCHANGED <<displayCount, sessions, arrived, shown, unwritten, evicted>>

NextRun ==
    /\ cli.pc = "ended" /\ cli.run < MaxRuns
    /\ cli' = [pc |-> "begin", run |-> cli.run + 1, withFile |-> FALSE, id |-> NoID, count |-> 0,
               reason |-> "none", code |-> 0]
    /\ displayCount' = 0 /\ shown' = {} /\ unwritten' = {}
    /\ UNCHANGED <<poller, kept, sessions, arrived, evicted>>

-------------------------------------------------------------------------------
(* The goroutines of the client. *)

\* A poll, whose answer may be lost; an unknown session answers with an error.
Drain ==
    /\ poller.pc = "wait" /\ ~poller.cancelled /\ Open(cli.id)
    /\ sessions' = [sessions EXCEPT ![cli.id] = <<>>]
    /\ \/ poller' = [poller EXCEPT !.pc = "callbacks", !.items = sessions[cli.id]]
       \/ UNCHANGED poller
    /\ UNCHANGED <<cli, displayCount, kept, arrived, shown, unwritten, evicted>>

\* Faulty variant: what the filters hold back counts, too.
CountsAll(item) == TRUE

CountsItem(item) == item.displayed

\* The callback, also after the poll was cancelled.  An interaction that cannot be
\* written out counts like the others.
Display ==
    /\ poller.pc = "callbacks" /\ poller.items # <<>>
    /\ LET item == Head(poller.items)
       IN /\ \/ item.displayed /\ shown' = shown \union {item.n} /\ UNCHANGED unwritten
             \/ item.displayed /\ unwritten' = unwritten \union {item.n} /\ UNCHANGED shown
             \/ ~item.displayed /\ UNCHANGED <<shown, unwritten>>
          /\ displayCount' = IF CountsItem(item) /\ cli.count > 0 THEN displayCount + 1
                             ELSE displayCount
    /\ poller' = [poller EXCEPT !.items = Tail(@)]
    /\ UNCHANGED <<cli, kept, sessions, arrived, evicted>>

Displayed ==
    /\ poller.pc = "callbacks" /\ poller.items = <<>>
    /\ poller' = [poller EXCEPT !.pc = "wait"]
    /\ UNCHANGED <<cli, displayCount, kept, sessions, arrived, shown, unwritten, evicted>>

\* The keep-alive, until Close.
ReRegister ==
    /\ Alive /\ cli.id # NoID /\ ~Open(cli.id)
    /\ cli.pc \in {"judges", "exits"} => cli.withFile
    /\ Registers(cli.id)
    /\ UNCHANGED <<cli, poller, displayCount, kept, arrived, shown, unwritten>>

-------------------------------------------------------------------------------
(* The server. *)

\* An interaction that shouldDisplay lets through, or not.
Arrive ==
    /\ arrived < MaxArrivals
    /\ arrived' = arrived + 1
    /\ \E id \in IDs, displayed \in BOOLEAN :
          /\ Open(id)
          /\ sessions' = [sessions EXCEPT ![id] =
                 Append(@, [n |-> arrived + 1, displayed |-> displayed])]
    /\ UNCHANGED <<cli, poller, displayCount, kept, shown, unwritten, evicted>>

EvictSession(id) ==
    /\ Open(id)
    /\ sessions' = [sessions EXCEPT ![id] = NoID]
    /\ evicted' = evicted \union {id}
    /\ UNCHANGED <<cli, poller, displayCount, kept, arrived, shown, unwritten>>

CliNext ==
    \/ Begin \/ CliRegister \/ Select \/ Stop \/ Save \/ Judge \/ Exit \/ Kill \/ NextRun
    \/ Drain \/ Display \/ Displayed \/ ReRegister
    \/ Arrive
    \/ \E id \in IDs : EvictSession(id)

CliSpec == CliInit /\ [][CliNext]_cliVars

-------------------------------------------------------------------------------
(* The ID in the session file still collects: the program that wrote it, and   *)
(* those that load it or run without it, leave its session at the server,      *)
(* until the server evicts it, which the next run makes good                   *)
(* (main.go:344-351, client.go:735-740).                                       *)
FileKeepsCollecting == kept \in IDs => Open(kept) \/ kept \in evicted

(* A script may rely on success: a run with --count that exits with 0, not on  *)
(* a signal, had that many pass its filters, each one displayed or warned      *)
(* about on stderr, whenever the timer fired beside the callbacks              *)
(* (main.go:310-384).                                                          *)
SuccessMeansCount ==
    cli.pc = "ended" /\ cli.code = 0 /\ cli.reason \in {"timeout", "count"}
        => Cardinality(shown \union unwritten) >= cli.count
===============================================================================
