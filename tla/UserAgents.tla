------------------------------- MODULE UserAgents -------------------------------
(***************************************************************************)
(* userAgentTracker of oobsrv/useragent.go: registrations count their      *)
(* User-Agent without a lock, while the report loop swaps the map for a    *)
(* fresh one and reads the counters of the old one, key by key.            *)
(*                                                                         *)
(* A window is one map; a counter holds the records added to it, so its    *)
(* value is their number.  "json" and the log line are left out.           *)
(***************************************************************************)
EXTENDS Naturals, Sequences, FiniteSets

CONSTANTS
    Agents,      \* User-Agent strings, "<empty>" among them
    Records,     \* bound: registrations
    Threshold,   \* uaReportThreshold, 100
    MaxWindows,  \* bound: maps made
    NoCounter    \* not a counter

ASSUME NoCounterAssumption == \A counter \in SUBSET Records : counter # NoCounter

VARIABLES
    windows,   \* windows[w][ua]: a counter, or NoCounter; the last one is active
    record,    \* record[r]: where the registration is in record()
    flusher,   \* the report loop
    reports,   \* history: the records each report counted, in order
    raced      \* history: records in progress when their window was swapped out

uaVars == <<windows, record, flusher, reports, raced>>

Empty == [ua \in Agents |-> NoCounter]
Active == Len(windows)
Keys(w) == {ua \in Agents : windows[w][ua] # NoCounter}
Counted(w) == UNION {windows[w][ua] : ua \in Keys(w)}

\* newUserAgentTracker, and Start.
UaInit ==
    /\ windows = <<Empty>>
    /\ record = [r \in Records |-> [pc |-> "new"]]
    /\ flusher = [pc |-> "waits", stopped |-> FALSE]
    /\ reports = <<>>
    /\ raced = {}

-------------------------------------------------------------------------------
(* record: load the active map, find or make the counter, add to it. *)

Load(r) ==
    /\ record[r].pc = "new"
    /\ \E ua \in Agents : record' = [record EXCEPT ![r] = [pc |-> "loaded", ua |-> ua, w |-> Active]]
    /\ UNCHANGED <<windows, flusher, reports, raced>>

\* Faulty variant: sync.Map.Store, which replaces the counter.
StoreCounter(counter) == {}

LoadOrStore(counter) == IF counter = NoCounter THEN {} ELSE counter

FindCounter(r) ==
    /\ record[r].pc = "loaded"
    /\ windows' = [windows EXCEPT ![record[r].w][record[r].ua] = LoadOrStore(@)]
    /\ record' = [record EXCEPT ![r].pc = "found"]
    /\ UNCHANGED <<flusher, reports, raced>>

Add(r) ==
    /\ record[r].pc = "found"
    /\ windows' = [windows EXCEPT ![record[r].w][record[r].ua] = @ \union {r}]
    /\ record' = [record EXCEPT ![r].pc = "done"]
    /\ UNCHANGED <<flusher, reports, raced>>

-------------------------------------------------------------------------------
(* The report loop. *)

\* Faulty variant: the window is read and stays in use.
SwappedNot == windows

Swapped == Append(windows, Empty)

\* flush: the swap.  Range visits at least the keys that are in the map now.
FlushSwap(last) ==
    /\ Active < MaxWindows
    /\ windows' = Swapped
    /\ raced' = raced \union {r \in Records : record[r].pc \in {"loaded", "found"}}
    /\ flusher' = [pc |-> "reads", stopped |-> flusher.stopped, w |-> Active,
                   due |-> Keys(Active), seen |-> {}, total |-> {}, last |-> last]
    /\ UNCHANGED <<record, reports>>

\* A tick finds enough distinct agents.
Check ==
    /\ flusher.pc = "waits" /\ Cardinality(Keys(Active)) >= Threshold
    /\ FlushSwap(FALSE)

\* A tick is the first one after midnight UTC.
Midnight == flusher.pc = "waits" /\ FlushSwap(FALSE)

\* Close: the stop channel.
TrackerClose ==
    /\ ~flusher.stopped
    /\ flusher' = [flusher EXCEPT !.stopped = TRUE]
    /\ UNCHANGED <<windows, record, reports, raced>>

\* The loop sees the channel: the last report.
Stopped ==
    /\ flusher.pc = "waits" /\ flusher.stopped
    /\ FlushSwap(TRUE)

\* flush: one key.
FlushKey ==
    /\ flusher.pc = "reads"
    /\ \E ua \in Keys(flusher.w) \ flusher.seen :
        flusher' = [flusher EXCEPT !.seen = @ \union {ua}, !.due = @ \ {ua},
                                   !.total = @ \union windows[flusher.w][ua]]
    /\ UNCHANGED <<windows, record, reports, raced>>

\* reportAndClear: no report of an empty window.
Report ==
    /\ flusher.pc = "reads" /\ flusher.due = {}
    /\ reports' = IF flusher.seen = {} THEN reports ELSE Append(reports, flusher.total)
    /\ flusher' = [pc |-> IF flusher.last THEN "gone" ELSE "waits", stopped |-> flusher.stopped]
    /\ UNCHANGED <<windows, record, raced>>

UaNext ==
    \/ \E r \in Records : Load(r) \/ FindCounter(r) \/ Add(r)
    \/ Check \/ Midnight \/ TrackerClose \/ Stopped \/ FlushKey \/ Report

UaSpec == UaInit /\ [][UaNext]_uaVars

-------------------------------------------------------------------------------
(* A registration is in at most one report, however its record and the report *)
(* loop interleave (useragent.go:56-68).                                      *)
ReportedOnce ==
    \A i, j \in DOMAIN reports : i # j => reports[i] \cap reports[j] = {}

(* A registration that is counted is in the open window, in the one being read, *)
(* or in a report, unless its record was in progress at a swap: that one loss   *)
(* is what useragent.go:21 admits, there is no other.                           *)
OnlyRacingIsDropped ==
    \A r \in Records : record[r].pc = "done" /\ r \notin raced =>
        \/ r \in Counted(Active)
        \/ flusher.pc = "reads" /\ r \in Counted(flusher.w)
        \/ \E i \in DOMAIN reports : r \in reports[i]
===============================================================================
