----------------------------- MODULE Services_proofs ----------------------------
(***************************************************************************)
(* Theorems about three parts of the services: the user-agent tracker, the *)
(* SMTP session with its copy of the connection, and the answers.          *)
(***************************************************************************)
EXTENDS UserAgents, SmtpSession, Responses, FiniteSetTheorems, SequenceTheorems,
        WellFoundedInduction, TLAPS

-------------------------------------------------------------------------------
\* For the first domain that matches, and for the last MAIL line of the tee.
LEMMA LeastElement ==
    ASSUME NEW T, T \subseteq Nat, T # {}
    PROVE  \E x \in T : \A y \in T : x <= y
<1> DEFINE R == {p \in Nat \X Nat : p[1] < p[2]}
<1>1. IsWellFoundedOn(R, Nat)
    BY NatLessThanWellFounded DEF OpToRel
<1> HIDE DEF R
<1>2. PICK x \in T : \A y \in T : <<y, x>> \notin R
    BY <1>1, WFMin
<1>3. \A y \in T : ~(y < x)
    BY <1>2 DEF R
<1> QED BY <1>3

-------------------------------------------------------------------------------
(* UserAgents.  The tracker neither reports a registration twice nor drops one  *)
(* that races no swap.  A record adds to the window it loaded, and only once it *)
(* is done is it in a counter; so every counter, and every report made of       *)
(* counters, holds records of one window, and reports are of ever later windows.*)

Counter == (SUBSET Records) \union {NoCounter}

RecordState ==
    [pc : {"new"}] \union [pc : {"loaded", "found", "done"}, ua : Agents, w : Nat]

FlusherState ==
    [pc : {"waits", "gone"}, stopped : BOOLEAN]
    \union [pc : {"reads"}, stopped : BOOLEAN, w : Nat, due : SUBSET Agents,
            seen : SUBSET Agents, total : SUBSET Records, last : BOOLEAN]

UaTypeOK ==
    /\ windows \in Seq([Agents -> Counter]) /\ Active > 0
    /\ record \in [Records -> RecordState]
    /\ flusher \in FlusherState
    /\ reports \in Seq(SUBSET Records)
    /\ raced \in SUBSET Records

Underway(r) == record[r].pc \in {"loaded", "found"}
DoneIn(w) == {r \in Records : record[r].pc = "done" /\ record[r].w = w}
DoneBefore(w) == {r \in Records : record[r].pc = "done" /\ record[r].w < w}

\* A record has a window; one under way has its counter, or was raced by a swap.
RecordsOK ==
    \A r \in Records : record[r].pc # "new" =>
        /\ record[r].w \in DOMAIN windows
        /\ record[r].pc = "found" => windows[record[r].w][record[r].ua] # NoCounter
        /\ Underway(r) /\ record[r].w # Active => r \in raced

CountersOK ==
    \A w \in DOMAIN windows : \A ua \in Agents :
        windows[w][ua] # NoCounter => windows[w][ua] \subseteq DoneIn(w)

\* The window that is read is the one before the open one.
FlusherOK ==
    flusher.pc = "reads" =>
        /\ flusher.w \in DOMAIN windows /\ flusher.w = Active - 1
        /\ flusher.total \subseteq DoneIn(flusher.w)

\* What was in a counter when its window was swapped out will be in the report.
ReadOK ==
    flusher.pc = "reads" =>
        \A ua \in Agents : windows[flusher.w][ua] # NoCounter =>
            \A r \in windows[flusher.w][ua] \ raced :
                ua \in flusher.due \/ (ua \in flusher.seen /\ r \in flusher.total)

Reported == IF flusher.pc = "reads" THEN flusher.w ELSE Active

ReportsOK == \A i \in DOMAIN reports : reports[i] \subseteq DoneBefore(Reported)

UaInv ==
    /\ UaTypeOK /\ RecordsOK /\ CountersOK /\ FlusherOK /\ ReadOK /\ ReportsOK
    /\ ReportedOnce /\ OnlyRacingIsDropped

-------------------------------------------------------------------------------
(* Records. *)

\* What the fields of a record are once it has begun, and after its next step.
LEMMA RecordStep ==
    ASSUME NEW rec \in RecordState, rec.pc # "new"
    PROVE  /\ rec.ua \in Agents /\ rec.w \in Nat /\ rec.pc \in {"loaded", "found", "done"}
           /\ \A pc \in {"found", "done"} :
                 /\ [rec EXCEPT !.pc = pc] \in RecordState
                 /\ [rec EXCEPT !.pc = pc].pc = pc
                 /\ [rec EXCEPT !.pc = pc].w = rec.w
                 /\ [rec EXCEPT !.pc = pc].ua = rec.ua
BY DEF RecordState

\* A report loop that reads has all its fields, and keeps its type field by field.
LEMMA FlusherFields ==
    ASSUME NEW f \in FlusherState, f.pc = "reads"
    PROVE  /\ f.w \in Nat /\ f.due \in SUBSET Agents /\ f.seen \in SUBSET Agents
           /\ f.total \in SUBSET Records /\ f.last \in BOOLEAN /\ f.stopped \in BOOLEAN
BY DEF FlusherState

-------------------------------------------------------------------------------
(* The initial state and the steps. *)

\* A counter that is looked up is a set of registrations from then on.
LEMMA CounterStep ==
    ASSUME NEW counter \in Counter
    PROVE  LoadOrStore(counter) \in SUBSET Records /\ LoadOrStore(counter) # NoCounter
<1>1. {} \in SUBSET Records
  OBVIOUS
<1>2. counter # NoCounter => counter \in SUBSET Records
  BY DEF Counter
<1>3. LoadOrStore(counter) \in SUBSET Records
  BY <1>1, <1>2 DEF LoadOrStore
<1> QED
  BY <1>3, NoCounterAssumption

LEMMA UaInitially == UaInit => UaInv
<1> SUFFICES ASSUME UaInit PROVE UaInv
  OBVIOUS
<1>1. Empty \in [Agents -> Counter]
  <2>1. NoCounter \in Counter
    BY DEF Counter
  <2> QED
    BY <2>1 DEF Empty
<1> USE DEF UaInit
<1>2. windows \in Seq([Agents -> Counter]) /\ Active = 1 /\ DOMAIN windows = {1} /\ windows[1] = Empty
  BY <1>1 DEF Active
<1>3. [pc |-> "new"] \in RecordState
  BY DEF RecordState
<1>4. flusher \in FlusherState
  BY DEF FlusherState
<1>5. UaTypeOK
  BY <1>2, <1>3, <1>4 DEF UaTypeOK
<1>6. RecordsOK /\ FlusherOK /\ ReadOK /\ OnlyRacingIsDropped
  BY DEF RecordsOK, FlusherOK, ReadOK, OnlyRacingIsDropped
<1>7. CountersOK
  BY <1>2 DEF CountersOK, Empty
<1>8. ReportsOK /\ ReportedOnce
  BY DEF ReportsOK, ReportedOnce
<1> QED
  BY <1>5, <1>6, <1>7, <1>8 DEF UaInv

LEMMA LoadKeeps == ASSUME UaInv, NEW r \in Records, Load(r) PROVE UaInv'
<1>1. PICK ua \in Agents : record' = [record EXCEPT ![r] = [pc |-> "loaded", ua |-> ua, w |-> Active]]
  BY DEF Load
<1>2. UNCHANGED <<windows, flusher, reports, raced>> /\ record[r].pc = "new" /\ Active' = Active
  BY DEF Load, Active
<1>3. Active \in Nat /\ Active \in DOMAIN windows /\ record \in [Records -> RecordState]
  BY DEF UaInv, UaTypeOK, Active
<1>4. [pc |-> "loaded", ua |-> ua, w |-> Active] \in RecordState
  BY <1>3 DEF RecordState
<1>5. UaTypeOK'
  BY <1>1, <1>2, <1>3, <1>4 DEF UaInv, UaTypeOK
<1>6. \A q \in Records : q # r => record'[q] = record[q]
  BY <1>1, <1>3
<1>7. record'[r].pc = "loaded" /\ record'[r].w = Active
  BY <1>1, <1>3
<1>8. RecordsOK'
  BY <1>2, <1>3, <1>6, <1>7 DEF UaInv, RecordsOK, Underway
<1>9. \A w : DoneIn(w)' = DoneIn(w) /\ DoneBefore(w)' = DoneBefore(w)
  BY <1>2, <1>6, <1>7 DEF DoneIn, DoneBefore
<1>10. CountersOK' /\ FlusherOK' /\ ReadOK'
  BY <1>2, <1>9 DEF UaInv, CountersOK, FlusherOK, ReadOK
<1>11. ReportsOK' /\ ReportedOnce'
  BY <1>2, <1>9 DEF UaInv, ReportsOK, ReportedOnce, Reported
<1>12. OnlyRacingIsDropped'
  BY <1>2, <1>6, <1>7 DEF UaInv, OnlyRacingIsDropped, Counted, Keys
<1> QED
  BY <1>5, <1>8, <1>10, <1>11, <1>12 DEF UaInv

LEMMA FindCounterKeeps == ASSUME UaInv, NEW r \in Records, FindCounter(r) PROVE UaInv'
<1> DEFINE w == record[r].w
           ua == record[r].ua
<1>1. /\ record[r].pc = "loaded"
      /\ record' = [record EXCEPT ![r].pc = "found"]
      /\ windows' = [windows EXCEPT ![w][ua] = LoadOrStore(@)]
      /\ UNCHANGED <<flusher, reports, raced>>
  BY DEF FindCounter
<1>2. /\ windows \in Seq([Agents -> Counter]) /\ record \in [Records -> RecordState]
      /\ w \in DOMAIN windows
  BY <1>1 DEF UaInv, UaTypeOK, RecordsOK
<1>3. ua \in Agents /\ [record[r] EXCEPT !.pc = "found"] \in RecordState
  BY <1>1, <1>2, RecordStep
<1>4. windows[w] \in [Agents -> Counter] /\ windows[w][ua] \in Counter
  BY <1>2, <1>3
<1>5. LoadOrStore(windows[w][ua]) \in SUBSET Records
  BY <1>4, CounterStep
<1>6. LoadOrStore(windows[w][ua]) # NoCounter
  BY <1>4, CounterStep
<1>7. /\ windows' \in Seq([Agents -> Counter]) /\ Len(windows') = Len(windows)
      /\ DOMAIN windows' = DOMAIN windows
      /\ windows'[w][ua] = LoadOrStore(windows[w][ua])
      /\ \A v \in DOMAIN windows : \A u \in Agents :
            v # w \/ u # ua => windows'[v][u] = windows[v][u]
  <2>1. [windows[w] EXCEPT ![ua] = LoadOrStore(@)] \in [Agents -> Counter]
    BY <1>3, <1>4, <1>5 DEF Counter
  <2>2. windows' = [windows EXCEPT ![w] = [windows[w] EXCEPT ![ua] = LoadOrStore(@)]]
    BY <1>1
  <2> QED
    BY <1>2, <1>3, <1>4, <2>1, <2>2
<1>8. /\ \A q \in Records : q # r => record'[q] = record[q]
      /\ record'[r].pc = "found" /\ record'[r].w = w /\ record'[r].ua = ua
      /\ record' \in [Records -> RecordState]
  BY <1>1, <1>2, <1>3, RecordStep
<1>9. Active' = Active
  BY <1>7 DEF Active
<1>10. UaTypeOK'
  BY <1>1, <1>7, <1>8, <1>9 DEF UaInv, UaTypeOK
<1>11. RecordsOK'
  BY <1>1, <1>2, <1>6, <1>7, <1>8, <1>9, RecordStep DEF UaInv, RecordsOK, Underway
<1>12. \A v : DoneIn(v)' = DoneIn(v) /\ DoneBefore(v)' = DoneBefore(v)
  BY <1>1, <1>8 DEF DoneIn, DoneBefore
\* The counter found is the one that was there, or an empty one.
<1>13. \A v \in DOMAIN windows : \A u \in Agents :
          \/ windows'[v][u] = windows[v][u]
          \/ windows[v][u] = NoCounter /\ windows'[v][u] = {}
  BY <1>7 DEF LoadOrStore
<1>14. CountersOK'
  BY <1>7, <1>12, <1>13 DEF UaInv, CountersOK
<1>15. FlusherOK'
  BY <1>1, <1>7, <1>9, <1>12 DEF UaInv, FlusherOK
<1>16. ReadOK'
  BY <1>1, <1>13 DEF UaInv, ReadOK, FlusherOK
<1>17. ReportsOK' /\ ReportedOnce'
  BY <1>1, <1>9, <1>12 DEF UaInv, ReportsOK, ReportedOnce, Reported
<1>18. \A v \in DOMAIN windows : Counted(v)' = Counted(v)
  BY <1>13, NoCounterAssumption DEF Counted, Keys
<1>19. OnlyRacingIsDropped'
  <2>1. Active \in DOMAIN windows
    BY <1>2 DEF UaInv, UaTypeOK, Active
  <2> QED
    BY <1>1, <1>8, <1>9, <1>18, <2>1 DEF UaInv, OnlyRacingIsDropped, FlusherOK
<1> QED
  BY <1>10, <1>11, <1>14, <1>15, <1>16, <1>17, <1>19 DEF UaInv

LEMMA AddKeeps == ASSUME UaInv, NEW r \in Records, Add(r) PROVE UaInv'
<1>0. PICK w, ua : w = record[r].w /\ ua = record[r].ua
  OBVIOUS
<1>1. /\ record[r].pc = "found"
      /\ record' = [record EXCEPT ![r].pc = "done"]
      /\ windows' = [windows EXCEPT ![w][ua] = @ \union {r}]
      /\ UNCHANGED <<flusher, reports, raced>>
  BY <1>0 DEF Add
<1>2. /\ windows \in Seq([Agents -> Counter]) /\ record \in [Records -> RecordState]
      /\ w \in DOMAIN windows /\ windows[w][ua] # NoCounter
      /\ w # Active => r \in raced
  BY <1>0, <1>1 DEF UaInv, UaTypeOK, RecordsOK, Underway
<1>3. ua \in Agents /\ w \in Nat /\ [record[r] EXCEPT !.pc = "done"] \in RecordState
  BY <1>0, <1>1, <1>2, RecordStep
<1>4. windows[w] \in [Agents -> Counter] /\ windows[w][ua] \in SUBSET Records
  BY <1>2, <1>3 DEF Counter
<1>5. windows[w][ua] \union {r} \in SUBSET Records
  BY <1>4
<1>6. windows[w][ua] \union {r} # NoCounter /\ windows[w][ua] \union {r} \in Counter
  BY <1>5, NoCounterAssumption DEF Counter
<1>7. /\ windows' \in Seq([Agents -> Counter]) /\ Len(windows') = Len(windows)
      /\ DOMAIN windows' = DOMAIN windows
      /\ windows'[w][ua] = windows[w][ua] \union {r}
      /\ \A v \in DOMAIN windows : \A u \in Agents :
            v # w \/ u # ua => windows'[v][u] = windows[v][u]
  <2>1. [windows[w] EXCEPT ![ua] = @ \union {r}] \in [Agents -> Counter]
    BY <1>3, <1>4, <1>6
  <2>2. windows' = [windows EXCEPT ![w] = [windows[w] EXCEPT ![ua] = @ \union {r}]]
    BY <1>1
  <2> QED
    BY <1>2, <1>3, <1>4, <2>1, <2>2
<1>8. /\ \A q \in Records : q # r => record'[q] = record[q]
      /\ record'[r].pc = "done" /\ record'[r].w = w /\ record'[r].ua = ua
      /\ record' \in [Records -> RecordState]
  BY <1>0, <1>1, <1>2, <1>3, RecordStep
<1>9. Active' = Active
  BY <1>7 DEF Active
<1>10. UaTypeOK'
  BY <1>1, <1>7, <1>8, <1>9 DEF UaInv, UaTypeOK
\* No counter disappears, and only the one of r grows, by r.
<1>11. \A v \in DOMAIN windows : \A u \in Agents :
          /\ windows'[v][u] = NoCounter <=> windows[v][u] = NoCounter
          /\ windows'[v][u] = windows[v][u] \/ (v = w /\ windows'[v][u] = windows[v][u] \union {r})
  BY <1>2, <1>6, <1>7
<1>12. RecordsOK'
  <2> SUFFICES ASSUME NEW q \in Records, record'[q].pc # "new"
               PROVE  /\ record'[q].w \in DOMAIN windows'
                      /\ record'[q].pc = "found" => windows'[record'[q].w][record'[q].ua] # NoCounter
                      /\ Underway(q)' /\ record'[q].w # Active' => q \in raced'
    BY DEF RecordsOK
  <2>1. CASE q = r
    BY <1>2, <1>7, <1>8, <2>1 DEF Underway
  <2>2. CASE q # r
    <3>1. record'[q] = record[q]
      BY <1>8, <2>2
    <3>2. record[q] \in RecordState /\ record[q].pc # "new"
      BY <1>2, <3>1
    <3>3. record[q].ua \in Agents
      BY <3>2, RecordStep
    <3> QED
      BY <1>1, <1>7, <1>9, <1>11, <3>1, <3>2, <3>3 DEF UaInv, RecordsOK, Underway
  <2> QED
    BY <2>1, <2>2
<1>13. \A v : /\ DoneIn(v) \subseteq DoneIn(v)' /\ DoneBefore(v) \subseteq DoneBefore(v)'
  BY <1>1, <1>8 DEF DoneIn, DoneBefore
<1>14. r \in DoneIn(w)'
  BY <1>8 DEF DoneIn
<1>15. CountersOK'
  <2> SUFFICES ASSUME NEW v \in DOMAIN windows, NEW u \in Agents, windows[v][u] # NoCounter
               PROVE  windows'[v][u] \subseteq DoneIn(v)'
    BY <1>7, <1>11 DEF CountersOK
  <2>1. windows[v][u] \subseteq DoneIn(v)'
    BY <1>13 DEF UaInv, CountersOK
  <2> QED
    BY <1>11, <1>14, <2>1
<1>16. FlusherOK'
  <2> SUFFICES ASSUME flusher.pc = "reads" PROVE flusher.total \subseteq DoneIn(flusher.w)'
    BY <1>1, <1>7, <1>9 DEF UaInv, FlusherOK
  <2>1. PICK v : v = flusher.w
    OBVIOUS
  <2>2. flusher.total \subseteq DoneIn(v)'
    BY <1>13, <2>1 DEF UaInv, FlusherOK
  <2> QED
    BY <1>1, <2>1, <2>2 DEF DoneIn
<1>17. ReadOK'
  <2> SUFFICES ASSUME flusher.pc = "reads", NEW u \in Agents, windows'[flusher.w][u] # NoCounter,
                      NEW q \in windows'[flusher.w][u] \ raced
               PROVE  u \in flusher.due \/ (u \in flusher.seen /\ q \in flusher.total)
    BY <1>1 DEF ReadOK
  <2>1. flusher.w \in DOMAIN windows /\ flusher.w = Active - 1 /\ Active \in Nat
    BY <1>2 DEF UaInv, FlusherOK, Active
  <2>2. q \in windows[flusher.w][u]
    BY <1>2, <1>11, <2>1
  <2> QED
    BY <1>11, <2>1, <2>2 DEF UaInv, ReadOK
<1>18. ReportsOK'
  <2> SUFFICES ASSUME NEW i \in DOMAIN reports PROVE reports[i] \subseteq DoneBefore(Reported)'
    BY <1>1 DEF ReportsOK
  <2>1. Reported' = Reported /\ reports[i] \subseteq DoneBefore(Reported)
    BY <1>1, <1>9 DEF UaInv, ReportsOK, Reported
  <2> QED
    BY <1>1, <1>8, <2>1 DEF DoneBefore
<1>19. ReportedOnce'
  BY <1>1 DEF UaInv, ReportedOnce
<1>20. OnlyRacingIsDropped'
  <2> SUFFICES ASSUME NEW q \in Records, record'[q].pc = "done", q \notin raced
               PROVE  \/ q \in Counted(Active)'
                      \/ flusher.pc = "reads" /\ q \in Counted(flusher.w)'
                      \/ \E i \in DOMAIN reports : q \in reports[i]
    BY <1>1 DEF OnlyRacingIsDropped
  <2>1. \A v \in DOMAIN windows : Counted(v) \subseteq Counted(v)'
    BY <1>11 DEF Counted, Keys
  <2>2. CASE q = r
    <3>1. w = Active
      BY <1>1, <1>2, <2>2
    <3>2. ua \in Keys(w)' /\ r \in windows'[w][ua]
      BY <1>3, <1>6, <1>7 DEF Keys
    <3>3. r \in Counted(w)'
      BY <3>2 DEF Counted
    <3> QED
      BY <1>9, <2>2, <3>1, <3>3 DEF Counted, Keys
  <2>3. CASE q # r
    <3>1. Active \in DOMAIN windows /\ (flusher.pc = "reads" => flusher.w \in DOMAIN windows)
      BY <1>2 DEF UaInv, UaTypeOK, Active, FlusherOK
    <3> QED
      BY <1>1, <1>8, <1>9, <2>1, <2>3, <3>1 DEF UaInv, OnlyRacingIsDropped, Counted, Keys
  <2> QED
    BY <2>2, <2>3
<1> QED
  BY <1>10, <1>12, <1>15, <1>16, <1>17, <1>18, <1>19, <1>20 DEF UaInv

-------------------------------------------------------------------------------
(* The report loop. *)

LEMMA FlushSwapKeeps ==
    ASSUME UaInv, NEW last \in BOOLEAN, flusher.pc = "waits", FlushSwap(last)
    PROVE  UaInv'
<1>0. PICK w : w = Active
  OBVIOUS
<1>1. /\ windows' = Append(windows, Empty)
      /\ raced' = raced \union {r \in Records : Underway(r)}
      /\ flusher' = [pc |-> "reads", stopped |-> flusher.stopped, w |-> w,
                     due |-> Keys(w), seen |-> {}, total |-> {}, last |-> last]
      /\ record' = record /\ reports' = reports
  BY <1>0 DEF FlushSwap, Swapped, Underway
<1>2. /\ windows \in Seq([Agents -> Counter]) /\ w \in Nat /\ w > 0 /\ w = Len(windows)
      /\ DOMAIN windows = 1..w
      /\ flusher \in FlusherState /\ raced \in SUBSET Records
  BY <1>0 DEF UaInv, UaTypeOK, Active
<1>3. Empty \in [Agents -> Counter] /\ \A ua \in Agents : Empty[ua] = NoCounter
  <2>1. NoCounter \in Counter
    BY DEF Counter
  <2> QED
    BY <2>1 DEF Empty
<1>4. /\ windows' \in Seq([Agents -> Counter]) /\ Active' = w + 1
      /\ DOMAIN windows' = 1..(w + 1) /\ windows'[w + 1] = Empty
      /\ \A v \in 1..w : windows'[v] = windows[v]
  BY <1>1, <1>2, <1>3 DEF Active
<1>5. flusher' \in FlusherState
  <2>1. flusher.stopped \in BOOLEAN
    BY <1>2 DEF FlusherState
  <2>2. Keys(w) \in SUBSET Agents
    BY DEF Keys
  <2> QED
    BY <1>1, <1>2, <2>1, <2>2 DEF FlusherState
<1>6. UaTypeOK'
  BY <1>1, <1>2, <1>4, <1>5 DEF UaInv, UaTypeOK
<1>7. RecordsOK'
  BY <1>1, <1>2, <1>4 DEF UaInv, RecordsOK, Underway
<1>8. \A v : DoneIn(v)' = DoneIn(v) /\ DoneBefore(v)' = DoneBefore(v)
  BY <1>1 DEF DoneIn, DoneBefore
<1>9. CountersOK'
  BY <1>2, <1>3, <1>4, <1>8 DEF UaInv, CountersOK
<1>10. flusher'.pc = "reads" /\ flusher'.w = w /\ flusher'.due = Keys(w) /\ flusher'.total = {}
  BY <1>1
<1>11. FlusherOK'
  BY <1>2, <1>4, <1>10 DEF FlusherOK
<1>12. ReadOK'
  BY <1>2, <1>4, <1>10 DEF ReadOK, Keys
<1>13. ReportsOK'
  <2>1. Reported = w /\ Reported' = w
    BY <1>0, <1>10 DEF Reported
  <2> QED
    BY <1>1, <1>8, <2>1 DEF UaInv, ReportsOK, DoneBefore
<1>14. ReportedOnce'
  BY <1>1 DEF UaInv, ReportedOnce
\* What the open window counted is now in the window that is read.
<1>15. OnlyRacingIsDropped'
  <2>1. Counted(w)' = Counted(w)
    BY <1>2, <1>4 DEF Counted, Keys
  <2>2. Counted(w)' = Counted(flusher.w)'
    BY <1>10 DEF Counted, Keys
  <2> QED
    BY <1>0, <1>1, <1>10, <2>1, <2>2 DEF UaInv, OnlyRacingIsDropped, Counted, Keys
<1> QED
  BY <1>6, <1>7, <1>9, <1>11, <1>12, <1>13, <1>14, <1>15 DEF UaInv

LEMMA TrackerCloseKeeps == ASSUME UaInv, TrackerClose PROVE UaInv'
<1>1. flusher' = [flusher EXCEPT !.stopped = TRUE] /\ UNCHANGED <<windows, record, reports, raced>>
  BY DEF TrackerClose
<1>2. flusher \in FlusherState
  BY DEF UaInv, UaTypeOK
<1>3. flusher' \in FlusherState /\ flusher'.pc = flusher.pc
  BY <1>1, <1>2 DEF FlusherState
<1>4. flusher.pc = "reads" => /\ flusher'.w = flusher.w /\ flusher'.due = flusher.due
                              /\ flusher'.seen = flusher.seen /\ flusher'.total = flusher.total
  BY <1>1, <1>2 DEF FlusherState
<1>5. Active' = Active /\ Reported' = Reported
  BY <1>1, <1>3, <1>4 DEF Active, Reported
<1>6. UaTypeOK' /\ RecordsOK' /\ CountersOK'
  BY <1>1, <1>3, <1>5 DEF UaInv, UaTypeOK, RecordsOK, CountersOK, Underway, DoneIn
<1>7. FlusherOK'
  BY <1>1, <1>3, <1>4, <1>5 DEF UaInv, FlusherOK, DoneIn
<1>8. ReadOK'
  BY <1>1, <1>3, <1>4 DEF UaInv, ReadOK
<1>9. ReportsOK' /\ ReportedOnce'
  BY <1>1, <1>5 DEF UaInv, ReportsOK, ReportedOnce, DoneBefore
<1>10. OnlyRacingIsDropped'
  BY <1>1, <1>3, <1>4, <1>5 DEF UaInv, OnlyRacingIsDropped, Counted, Keys
<1> QED
  BY <1>6, <1>7, <1>8, <1>9, <1>10 DEF UaInv

LEMMA FlushKeyKeeps == ASSUME UaInv, FlushKey PROVE UaInv'
<1>0. PICK w : w = flusher.w
  OBVIOUS
<1>1. PICK ua \in Keys(w) \ flusher.seen :
        flusher' = [flusher EXCEPT !.seen = @ \union {ua}, !.due = @ \ {ua},
                                   !.total = @ \union windows[w][ua]]
  BY <1>0 DEF FlushKey
<1>2. flusher.pc = "reads" /\ UNCHANGED <<windows, record, reports, raced>>
  BY DEF FlushKey
<1>3. /\ flusher \in FlusherState /\ windows \in Seq([Agents -> Counter])
      /\ w \in DOMAIN windows /\ w = Active - 1 /\ flusher.total \subseteq DoneIn(w)
  BY <1>0, <1>2 DEF UaInv, UaTypeOK, FlusherOK, DoneIn
<1>4. ua \in Agents /\ windows[w][ua] # NoCounter /\ windows[w][ua] \subseteq DoneIn(w)
  BY <1>1, <1>3 DEF UaInv, CountersOK, Keys
<1>5. windows[w][ua] \in SUBSET Records
  BY <1>4 DEF DoneIn
<1>6. /\ flusher' \in FlusherState /\ flusher'.pc = "reads" /\ flusher'.w = w
      /\ flusher'.seen = flusher.seen \union {ua} /\ flusher'.due = flusher.due \ {ua}
      /\ flusher'.total = flusher.total \union windows[w][ua]
  BY <1>0, <1>1, <1>2, <1>3, <1>4, <1>5 DEF FlusherState
<1>7. Active' = Active /\ Reported' = Reported
  BY <1>0, <1>2, <1>6 DEF Active, Reported
<1>8. UaTypeOK' /\ RecordsOK' /\ CountersOK'
  BY <1>2, <1>6, <1>7 DEF UaInv, UaTypeOK, RecordsOK, CountersOK, Underway, DoneIn
<1>9. FlusherOK'
  BY <1>2, <1>3, <1>4, <1>6, <1>7 DEF FlusherOK, DoneIn
<1>10. ReadOK'
  BY <1>0, <1>2, <1>6 DEF UaInv, ReadOK
<1>11. ReportsOK' /\ ReportedOnce'
  BY <1>2, <1>7 DEF UaInv, ReportsOK, ReportedOnce, DoneBefore
<1>12. OnlyRacingIsDropped'
  BY <1>0, <1>2, <1>6, <1>7 DEF UaInv, OnlyRacingIsDropped, Counted, Keys
<1> QED
  BY <1>8, <1>9, <1>10, <1>11, <1>12 DEF UaInv

LEMMA ReportKeeps == ASSUME UaInv, Report PROVE UaInv'
<1>0. PICK w, total : w = flusher.w /\ total = flusher.total
  OBVIOUS
<1>1. /\ flusher.pc = "reads" /\ flusher.due = {} /\ UNCHANGED <<windows, record, raced>>
      /\ reports' = IF flusher.seen = {} THEN reports ELSE Append(reports, total)
      /\ flusher' = [pc |-> IF flusher.last THEN "gone" ELSE "waits", stopped |-> flusher.stopped]
  BY <1>0 DEF Report
<1>2. /\ flusher \in FlusherState /\ reports \in Seq(SUBSET Records)
      /\ w \in DOMAIN windows /\ w = Active - 1 /\ total \subseteq DoneIn(w) /\ Active \in Nat
      /\ Reported = w
  BY <1>0, <1>1 DEF UaInv, UaTypeOK, FlusherOK, DoneIn, Active, Reported
<1>3. total \in SUBSET Records /\ record \in [Records -> RecordState]
  BY <1>2 DEF DoneIn, UaInv, UaTypeOK
<1>4. /\ flusher' \in FlusherState /\ flusher'.pc # "reads"
  BY <1>1, <1>2 DEF FlusherState
<1>5. Active' = Active /\ Reported' = w + 1
  BY <1>1, <1>2, <1>4 DEF Active, Reported
<1>6. /\ reports' \in Seq(SUBSET Records)
      /\ \A i \in DOMAIN reports : i \in DOMAIN reports' /\ reports'[i] = reports[i]
      /\ \A i \in DOMAIN reports' : i \in DOMAIN reports \/ (i = Len(reports) + 1 /\ reports'[i] = total)
      /\ flusher.seen # {} => \E i \in DOMAIN reports' : reports'[i] = total
  BY <1>1, <1>2, <1>3
<1>7. UaTypeOK' /\ RecordsOK' /\ CountersOK'
  BY <1>1, <1>4, <1>5, <1>6 DEF UaInv, UaTypeOK, RecordsOK, CountersOK, Underway, DoneIn
<1>8. FlusherOK' /\ ReadOK'
  BY <1>4 DEF FlusherOK, ReadOK
\* The report is of window w, the earlier ones are of windows before it.
<1>9. \A i \in DOMAIN reports : reports[i] \subseteq DoneBefore(w)
  BY <1>2 DEF UaInv, ReportsOK
<1>10. DoneBefore(w) \cap DoneIn(w) = {}
  BY <1>2 DEF DoneBefore, DoneIn
<1>11. DoneBefore(w) \union DoneIn(w) \subseteq DoneBefore(w + 1)
  <2>1. ASSUME NEW r \in Records, record[r].pc = "done" PROVE record[r].w \in Nat
    <3>1. record[r] \in RecordState /\ record[r].pc # "new"
      BY <1>3, <2>1
    <3> QED
      BY <3>1, RecordStep
  <2>2. w \in Nat
    BY <1>2 DEF UaInv, UaTypeOK
  <2> QED
    BY <2>1, <2>2 DEF DoneBefore, DoneIn
<1>12. ReportsOK'
  <2>1. DoneBefore(w + 1) = DoneBefore(Reported)'
    BY <1>1, <1>5 DEF DoneBefore
  <2> QED
    BY <1>2, <1>6, <1>9, <1>11, <2>1 DEF ReportsOK
<1>13. ReportedOnce'
  <2> SUFFICES ASSUME NEW i \in DOMAIN reports', NEW j \in DOMAIN reports', i # j
               PROVE  reports'[i] \cap reports'[j] = {}
    BY DEF ReportedOnce
  <2>1. CASE i \in DOMAIN reports /\ j \in DOMAIN reports
    BY <1>6, <2>1 DEF UaInv, ReportedOnce
  <2>2. CASE i \notin DOMAIN reports \/ j \notin DOMAIN reports
    BY <1>2, <1>6, <1>9, <1>10, <2>2
  <2> QED
    BY <2>1, <2>2
<1>14. \A r \in Counted(w) \ raced : flusher.seen # {} /\ r \in total
  BY <1>0, <1>1 DEF UaInv, ReadOK, Counted, Keys
<1>15. OnlyRacingIsDropped'
  <2> SUFFICES ASSUME NEW r \in Records, record[r].pc = "done", r \notin raced
               PROVE  r \in Counted(Active) \/ \E i \in DOMAIN reports' : r \in reports'[i]
    BY <1>1, <1>5 DEF OnlyRacingIsDropped, Counted, Keys
  <2>1. \/ r \in Counted(Active) \/ r \in Counted(w)
        \/ \E i \in DOMAIN reports : r \in reports[i]
    BY <1>0 DEF UaInv, OnlyRacingIsDropped
  <2> QED
    BY <1>6, <1>14, <2>1
<1> QED
  BY <1>7, <1>8, <1>12, <1>13, <1>15 DEF UaInv

-------------------------------------------------------------------------------
(* The theorems. *)

LEMMA UaStuttering == ASSUME UaInv, UNCHANGED uaVars PROVE UaInv'
BY DEF UaInv, uaVars, UaTypeOK, RecordsOK, CountersOK, FlusherOK, ReadOK, ReportsOK, ReportedOnce,
       OnlyRacingIsDropped, Underway, DoneIn, DoneBefore, Reported, Counted, Keys, Active

(* The tracker's inductive invariant: counters and reports hold the records of *)
(* one window each (useragent.go:46-68, 111-131).                              *)
THEOREM UaInvariant == UaSpec => []UaInv
<1>1. UaInv /\ [UaNext]_uaVars => UaInv'
  <2> SUFFICES ASSUME UaInv, [UaNext]_uaVars PROVE UaInv'
    OBVIOUS
  <2>1. CASE \E r \in Records : Load(r) \/ FindCounter(r) \/ Add(r)
    BY <2>1, LoadKeeps, FindCounterKeeps, AddKeeps
  <2>2. CASE Check \/ Midnight \/ Stopped
    BY <2>2, FlushSwapKeeps DEF Check, Midnight, Stopped
  <2>3. CASE TrackerClose
    BY <2>3, TrackerCloseKeeps
  <2>4. CASE FlushKey
    BY <2>4, FlushKeyKeeps
  <2>5. CASE Report
    BY <2>5, ReportKeeps
  <2>6. CASE UNCHANGED uaVars
    BY <2>6, UaStuttering
  <2> QED
    BY <2>1, <2>2, <2>3, <2>4, <2>5, <2>6 DEF UaNext
<1> QED
  BY <1>1, UaInitially, PTL DEF UaSpec

(* No registration is in two reports, although record() takes no lock and the *)
(* counters are read while it adds to them (useragent.go:46-68, 111-131).     *)
THEOREM NothingReportedTwice == UaSpec => []ReportedOnce
<1>1. UaInv => ReportedOnce
  BY DEF UaInv
<1> QED
  BY <1>1, UaInvariant, PTL

(* A counted registration is never lost, unless its record was in progress when *)
(* its window was swapped out (useragent.go:21, 56-68).                        *)
THEOREM OnlyRacesDrop == UaSpec => []OnlyRacingIsDropped
<1>1. UaInv => OnlyRacingIsDropped
  BY DEF UaInv
<1> QED
  BY <1>1, UaInvariant, PTL

-------------------------------------------------------------------------------
(* SmtpSession.  Pending are the lines on their way, read or not.  Between two  *)
(* of them the transaction changes after each line that breaks it.  The body    *)
(* follows the command that asks for it, so while Data is under way the body is *)
(* the next line.  As long as nothing is pushed, DATA ends its chunk too, a     *)
(* body is always one that Data reads, and the lines of a chunk without a       *)
(* break, the session and the tee are of one transaction.                       *)

Lines ==
    [kind : {"MAIL", "RSET", "DATA", "BDAT", "RCPT", "STARTTLS", "BODY"},
     to : Addresses \union {None}, txn : Nat, ahead : BOOLEAN]

SmtpTypes ==
    /\ wire \in Seq(Lines) /\ buffered \in Seq(Lines)
    /\ waits \in {"none", "reply", "body"} /\ pushed \in BOOLEAN /\ txn \in Nat
    /\ tee \in [buf : Seq(Lines), stopped : BOOLEAN] \union {None}
    /\ smtp \in [mail : BOOLEAN, stage : {"commands", "chunk", "body"}]
    /\ session \in [from : Lines \union {None}, recipients : Seq(Lines)]

Pending == buffered \o wire
Breaks(l) == Resets(l) \/ l.kind = "STARTTLS"

\* The transaction of the line that is handled next.
CurrentTxn == IF Pending = <<>> THEN txn ELSE Pending[1].txn

PendingInv ==
    /\ \A i, j \in DOMAIN Pending :
          i <= j /\ (\A k \in i .. j - 1 : ~Breaks(Pending[k])) => Pending[j].txn = Pending[i].txn
    /\ \A i \in DOMAIN Pending :
          (\A k \in i .. Len(Pending) : ~Breaks(Pending[k])) => txn = Pending[i].txn
    /\ \A i \in DOMAIN Pending :
          Pending[i].kind = "STARTTLS" => i = Len(Pending) /\ waits = "reply"
    /\ \A i \in DOMAIN Pending :
          Pending[i].kind \in {"DATA", "BDAT"} =>
              IF i # Len(Pending) THEN Pending[i + 1].kind = "BODY"
              ELSE waits = "body" \/ (waits = "reply" /\ Pending[i].kind = "DATA")
    /\ \A i \in DOMAIN Pending :
          ~Pending[i].ahead => \A k \in 1 .. i - 1 : ~Resets(Pending[k])

\* While Data is under way the body is the next line, and the tee is stopped for no other.
BodyNext == IF Pending = <<>> THEN waits = "body" ELSE Pending[1].kind = "BODY"
StageInv ==
    /\ smtp.stage # "commands" => BodyNext
    /\ tee # None /\ tee.stopped => smtp.stage = "body"

\* Nothing was pushed: there is a body only when Data has asked for it.
AskedInv ==
    ~pushed =>
        /\ smtp.stage # "chunk"
        /\ waits = "body" => Pending = <<>> /\ smtp.stage = "body"
        /\ \A i \in DOMAIN Pending :
              /\ Pending[i].kind # "BDAT"
              /\ Pending[i].kind = "DATA" => i = Len(Pending) /\ waits = "reply"
              /\ Pending[i].kind = "BODY" => i = 1 /\ smtp.stage = "body"

\* The session and, unless a reset is in the chunk, the tee know one transaction.
SessionInv ==
    /\ \A l \in ToSet(session.recipients) : NamesRecipient(l)
    /\ ~pushed =>
          /\ smtp.mail => session.from \in Lines /\ session.from.txn = CurrentTxn
          /\ \A l \in ToSet(session.recipients) : l.txn = CurrentTxn

TeeInv ==
    ~pushed /\ tee # None /\ (\A k \in DOMAIN buffered : ~Breaks(buffered[k])) =>
        \A l \in ToSet(tee.buf) : l.txn = CurrentTxn

\* What was sent in time and has been read is in the tee.
InTee(l) == l \in ToSet(tee.buf) \/ Len(tee.buf) = TeeMax
CompleteInv ==
    tee # None =>
        /\ \A l \in ToSet(session.recipients) : ~l.ahead => InTee(l)
        /\ smtp.stage = "commands" =>
              \A l \in ToSet(buffered) : NamesRecipient(l) /\ ~l.ahead => InTee(l)

SmtpInv ==
    /\ SmtpTypes /\ PendingInv /\ StageInv /\ AskedInv /\ SessionInv /\ TeeInv /\ CompleteInv
    /\ OwnTransactionOnly /\ WellSpacedIsComplete

LEMMA PendingFacts ==
    ASSUME SmtpTypes
    PROVE  /\ Pending \in Seq(Lines) /\ Len(Pending) = Len(buffered) + Len(wire)
           /\ Len(buffered) \in Nat /\ Len(wire) \in Nat
           /\ DOMAIN Pending = 1 .. Len(buffered) + Len(wire)
           /\ \A i \in DOMAIN buffered : i \in DOMAIN Pending /\ Pending[i] = buffered[i]
           /\ \A i \in DOMAIN wire : Pending[Len(buffered) + i] = wire[i]
<1>1. buffered \in Seq(Lines) /\ wire \in Seq(Lines)
    BY DEF SmtpTypes
<1> QED BY <1>1 DEF Pending

LEMMA SmtpInitially == SmtpInit => SmtpInv
<1> SUFFICES ASSUME SmtpInit PROVE SmtpInv
    OBVIOUS
<1> USE DEF SmtpInit, Fresh, NoEnvelope
<1>1. SmtpTypes
    <2>1. [mail |-> FALSE, stage |-> "commands"] \in [mail : BOOLEAN, stage : {"commands", "chunk", "body"}]
        OBVIOUS
    <2>2. <<>> \in Seq(Lines)
        OBVIOUS
    <2>3. [buf |-> <<>>, stopped |-> FALSE] \in [buf : Seq(Lines), stopped : BOOLEAN]
        BY <2>2
    <2>4. [from |-> None, recipients |-> <<>>] \in [from : Lines \union {None}, recipients : Seq(Lines)]
        BY <2>2
    <2> QED BY <2>1, <2>2, <2>3, <2>4 DEF SmtpTypes
<1>2. Pending = <<>> /\ DOMAIN Pending = {} /\ DOMAIN buffered = {}
    BY DEF Pending
<1>3. PendingInv /\ StageInv /\ AskedInv
    BY <1>2 DEF PendingInv, StageInv, AskedInv
<1>4. SessionInv /\ TeeInv /\ CompleteInv
    BY <1>2 DEF SessionInv, TeeInv, CompleteInv, ToSet
<1>5. OwnTransactionOnly /\ WellSpacedIsComplete
    BY DEF OwnTransactionOnly, WellSpacedIsComplete
<1> QED BY <1>1, <1>3, <1>4, <1>5 DEF SmtpInv

LEMMA SendKeeps ==
    ASSUME SmtpInv, NEW l \in Lines, l.txn = txn, l.ahead = Pipelined, ClientSends(l),
           waits = IF l.kind = "BODY" THEN "body" ELSE "none",
           \/ waits' = "none" /\ l.kind \in {"MAIL", "RSET", "RCPT", "BODY"} /\ pushed' = pushed
           \/ waits' = "reply" /\ l.kind \in {"DATA", "STARTTLS"} /\ pushed' = pushed
           \/ waits' = "body" /\ l.kind \in {"DATA", "BDAT"} /\ pushed' = TRUE
    PROVE  SmtpInv'
<1>1. SmtpTypes /\ buffered \in Seq(Lines) /\ wire \in Seq(Lines) /\ txn \in Nat
    BY DEF SmtpInv, SmtpTypes
<1>2. UNCHANGED <<buffered, tee, smtp, session, data>> /\ wire' = Append(wire, l)
    BY DEF ClientSends
<1>3. SmtpTypes'
    <2>1. txn' \in Nat
        BY <1>1 DEF ClientSends
    <2>2. pushed \in BOOLEAN
        BY <1>1 DEF SmtpTypes
    <2>3. waits' \in {"none", "reply", "body"} /\ pushed' \in BOOLEAN
        BY <2>2
    <2> QED BY <1>1, <1>2, <2>1, <2>3 DEF SmtpTypes
<1>4. PICK p \in Seq(Lines) : p = Pending
    BY <1>1, PendingFacts
<1>5. Pending' = Append(p, l)
    BY <1>1, <1>2, <1>4 DEF Pending
<1>6. /\ Append(p, l) \in Seq(Lines) /\ Len(Append(p, l)) = Len(p) + 1 /\ Len(p) \in Nat
      /\ Append(p, l)[Len(p) + 1] = l /\ \A i \in DOMAIN p : Append(p, l)[i] = p[i]
      /\ DOMAIN p = 1 .. Len(p) /\ DOMAIN Append(p, l) = 1 .. Len(p) + 1
    OBVIOUS
<1>7. ASSUME NEW i \in DOMAIN p
      PROVE  /\ p[i].kind # "STARTTLS"
             /\ p[i].kind \in {"DATA", "BDAT"} =>
                   IF i # Len(p) THEN p[i + 1].kind = "BODY" /\ i + 1 \in DOMAIN p ELSE l.kind = "BODY"
    <2>1. i # Len(p) => i + 1 \in DOMAIN p
        BY <1>6, <1>7
    <2> QED BY <1>4, <1>7, <2>1 DEF SmtpInv, PendingInv
<1>8. ~Breaks(l) => txn' = txn
    BY DEF ClientSends, Breaks
<1>9. ASSUME NEW i \in 1 .. Len(p) + 1, NEW j \in 1 .. Len(p) + 1, i <= j,
             \A k \in i .. j - 1 : ~Breaks(Append(p, l)[k])
      PROVE  Append(p, l)[j].txn = Append(p, l)[i].txn
    <2>1. CASE j \in DOMAIN p
        <3>1. i \in DOMAIN p /\ \A k \in i .. j - 1 : k \in DOMAIN p
            BY <1>6, <1>9, <2>1
        <3>2. \A k \in i .. j - 1 : ~Breaks(p[k])
            BY <1>6, <1>9, <3>1
        <3>3. p[j].txn = p[i].txn
            BY <1>4, <1>9, <2>1, <3>1, <3>2 DEF SmtpInv, PendingInv
        <3> QED BY <1>6, <2>1, <3>1, <3>3
    <2>2. CASE j = Len(p) + 1 /\ i \in DOMAIN p
        <3>1. \A k \in i .. Len(p) : k \in i .. j - 1 /\ k \in DOMAIN p
            BY <1>6, <2>2
        <3>2. \A k \in i .. Len(p) : ~Breaks(p[k])
            BY <1>6, <1>9, <3>1
        <3>3. txn = p[i].txn
            BY <1>4, <2>2, <3>2 DEF SmtpInv, PendingInv
        <3> QED BY <1>6, <2>2, <3>3
    <2>3. CASE j = Len(p) + 1 /\ i = Len(p) + 1
        BY <2>3
    <2> QED BY <1>6, <1>9, <2>1, <2>2, <2>3
<1>10. ASSUME NEW i \in 1 .. Len(p) + 1, \A k \in i .. Len(p) + 1 : ~Breaks(Append(p, l)[k])
       PROVE  txn' = Append(p, l)[i].txn
    <2>1. Append(p, l)[Len(p) + 1].txn = Append(p, l)[i].txn
        <3>1. \A k \in i .. (Len(p) + 1) - 1 : k \in i .. Len(p) + 1
            BY <1>6
        <3> QED BY <1>6, <1>9, <1>10, <3>1
    <2>2. ~Breaks(l)
        BY <1>6, <1>10
    <2> QED BY <1>6, <1>8, <2>1, <2>2
<1>11. ASSUME NEW i \in 1 .. Len(p) + 1
       PROVE  /\ Append(p, l)[i].kind = "STARTTLS" => i = Len(p) + 1 /\ waits' = "reply"
              /\ Append(p, l)[i].kind \in {"DATA", "BDAT"} =>
                    IF i # Len(p) + 1 THEN Append(p, l)[i + 1].kind = "BODY"
                    ELSE waits' = "body" \/ (waits' = "reply" /\ Append(p, l)[i].kind = "DATA")
    <2>1. CASE i = Len(p) + 1
        BY <1>6, <2>1
    <2>2. CASE i \in DOMAIN p /\ i # Len(p)
        BY <1>6, <1>7, <2>2
    <2>3. CASE i \in DOMAIN p /\ i = Len(p)
        BY <1>6, <1>7, <2>3
    <2>4. i = Len(p) + 1 \/ i \in DOMAIN p
        BY <1>6
    <2> QED BY <2>1, <2>2, <2>3, <2>4
<1>12. ASSUME NEW i \in 1 .. Len(p) + 1, ~Append(p, l)[i].ahead, NEW k \in 1 .. i - 1
       PROVE  ~Resets(Append(p, l)[k])
    <2>1. k \in DOMAIN p /\ Append(p, l)[k] = p[k]
        BY <1>6, <1>12
    <2>2. CASE i \in DOMAIN p
        BY <1>4, <1>6, <1>12, <2>1, <2>2 DEF SmtpInv, PendingInv
    <2>3. CASE i = Len(p) + 1
        <3>1. ~Pipelined
            BY <1>6, <1>12, <2>3
        <3>2. \A m \in DOMAIN p : p[m] \in ToSet(wire \o buffered)
            <4>1. \A m \in DOMAIN wire : (wire \o buffered)[m] = wire[m] /\ m \in DOMAIN (wire \o buffered)
                BY <1>1
            <4>2. \A m \in DOMAIN buffered : /\ (wire \o buffered)[Len(wire) + m] = buffered[m]
                                             /\ Len(wire) + m \in DOMAIN (wire \o buffered)
                BY <1>1
            <4>3. \A m \in DOMAIN p : \/ m \in DOMAIN buffered /\ p[m] = buffered[m]
                                      \/ m - Len(buffered) \in DOMAIN wire /\ p[m] = wire[m - Len(buffered)]
                BY <1>1, <1>4 DEF Pending
            <4> QED BY <4>1, <4>2, <4>3 DEF ToSet
        <3>3. p[k] \in ToSet(wire \o buffered)
            BY <2>1, <3>2 DEF ToSet
        <3> QED BY <2>1, <3>1, <3>3 DEF Pipelined
    <2> QED BY <1>6, <2>2, <2>3
<1>13. PendingInv'
    <2>1. PICK q : q = Append(p, l)
        OBVIOUS
    <2>2. Pending' = q /\ DOMAIN q = 1 .. Len(p) + 1 /\ Len(q) = Len(p) + 1
        BY <1>5, <1>6, <2>1
    <2>3. \A i, j \in DOMAIN q :
             i <= j /\ (\A k \in i .. j - 1 : ~Breaks(q[k])) => q[j].txn = q[i].txn
        BY <1>9, <2>1, <2>2
    <2>4. \A i \in DOMAIN q : (\A k \in i .. Len(q) : ~Breaks(q[k])) => txn' = q[i].txn
        BY <1>10, <2>1, <2>2
    <2>5. \A i \in DOMAIN q :
             /\ q[i].kind = "STARTTLS" => i = Len(q) /\ waits' = "reply"
             /\ q[i].kind \in {"DATA", "BDAT"} =>
                   IF i # Len(q) THEN q[i + 1].kind = "BODY"
                   ELSE waits' = "body" \/ (waits' = "reply" /\ q[i].kind = "DATA")
        BY <1>11, <2>1, <2>2
    <2>6. \A i \in DOMAIN q : ~q[i].ahead => \A k \in 1 .. i - 1 : ~Resets(q[k])
        BY <1>12, <2>1, <2>2
    <2> QED BY <2>2, <2>3, <2>4, <2>5, <2>6 DEF PendingInv
<1>14. StageInv'
    <2> SUFFICES ASSUME smtp.stage # "commands" PROVE Append(p, l)[1].kind = "BODY"
        BY <1>2, <1>5, <1>6 DEF SmtpInv, StageInv, BodyNext
    <2>1. CASE p = <<>>
        <3>1. waits = "body"
            BY <1>4, <2>1 DEF SmtpInv, StageInv, BodyNext
        <3> QED BY <2>1, <3>1
    <2>2. CASE p # <<>>
        <3>1. p[1].kind = "BODY" /\ 1 \in DOMAIN p
            BY <1>4, <1>6, <2>2 DEF SmtpInv, StageInv, BodyNext
        <3> QED BY <1>6, <3>1
    <2> QED BY <2>1, <2>2
<1>15. CurrentTxn' = CurrentTxn
    <2>1. CASE p = <<>>
        BY <1>4, <1>5, <1>6, <2>1 DEF CurrentTxn
    <2>2. CASE p # <<>>
        <3>1. 1 \in DOMAIN p /\ Append(p, l) # <<>>
            BY <1>6, <2>2
        <3> QED BY <1>4, <1>5, <1>6, <2>2, <3>1 DEF CurrentTxn
    <2> QED BY <2>1, <2>2
<1>16. AskedInv'
    <2> SUFFICES ASSUME ~pushed' PROVE AskedInv'
        BY DEF AskedInv
    <2>1. ~pushed /\ smtp.stage # "chunk" /\ waits' # "body" /\ l.kind # "BDAT"
        BY DEF SmtpInv, AskedInv
    <2>2. l.kind = "BODY" => p = <<>> /\ smtp.stage = "body"
        BY <1>4, <2>1 DEF SmtpInv, AskedInv
    <2>3. ASSUME NEW i \in 1 .. Len(p) + 1
          PROVE  /\ Append(p, l)[i].kind # "BDAT"
                 /\ Append(p, l)[i].kind = "DATA" => i = Len(p) + 1 /\ waits' = "reply"
                 /\ Append(p, l)[i].kind = "BODY" => i = 1 /\ smtp.stage = "body"
        <3>1. CASE i = Len(p) + 1
            <4>1. l.kind = "DATA" => waits' = "reply"
                BY <2>1
            <4>2. l.kind = "BODY" => Len(p) = 0
                BY <2>2
            <4> QED BY <1>6, <2>1, <2>2, <3>1, <4>1, <4>2
        <3>2. CASE i \in DOMAIN p
            <4>1. /\ p[i].kind # "BDAT"
                  /\ p[i].kind = "BODY" => i = 1 /\ smtp.stage = "body"
                  /\ p[i].kind = "DATA" => waits = "reply"
                BY <1>4, <2>1, <3>2 DEF SmtpInv, AskedInv
            <4> QED BY <1>6, <3>2, <4>1
        <3> QED BY <1>6, <3>1, <3>2
    <2> QED BY <1>2, <1>5, <1>6, <2>1, <2>3 DEF AskedInv
<1>17. SessionInv' /\ TeeInv' /\ CompleteInv'
    <2>1. pushed => pushed'
        OBVIOUS
    <2> QED BY <1>2, <1>15, <2>1 DEF SmtpInv, SessionInv, TeeInv, CompleteInv, InTee
<1>18. OwnTransactionOnly' /\ WellSpacedIsComplete'
    BY <1>2 DEF SmtpInv, OwnTransactionOnly, WellSpacedIsComplete
<1> QED BY <1>3, <1>13, <1>14, <1>16, <1>17, <1>18 DEF SmtpInv

LEMMA CopiedFacts ==
    ASSUME tee # None, tee \in [buf : Seq(Lines), stopped : BOOLEAN], NEW chunk \in Seq(Lines)
    PROVE  /\ Copied(chunk) \in Seq(Lines)
           /\ ToSet(Copied(chunk)) \subseteq ToSet(tee.buf) \union ToSet(chunk)
           /\ \/ Len(Copied(chunk)) = TeeMax
              \/ ToSet(Copied(chunk)) = ToSet(tee.buf) \union ToSet(chunk)
           /\ Len(tee.buf) = TeeMax => Len(Copied(chunk)) = TeeMax
<1>. PICK buf \in Seq(Lines) : buf = tee.buf
    OBVIOUS
<1>1. PICK all \in Seq(Lines) : all = buf \o chunk
    <2>1. buf \o chunk \in Seq(Lines)
        BY ConcatProperties
    <2> QED BY <2>1
<1>2. ToSet(all) = ToSet(buf) \union ToSet(chunk)
    <2>1. /\ buf \in Seq(Lines) /\ Len(all) = Len(buf) + Len(chunk)
          /\ \A i \in 1 .. Len(buf) : all[i] = buf[i]
          /\ \A i \in 1 .. Len(chunk) : all[Len(buf) + i] = chunk[i]
        BY <1>1
    <2>2. \A i \in 1 .. Len(all) : \/ i \in 1 .. Len(buf)
                                   \/ i - Len(buf) \in 1 .. Len(chunk)
        BY <1>1, <2>1
    <2>3. \A i \in 1 .. Len(chunk) : Len(buf) + i \in 1 .. Len(all)
        BY <2>1
    <2>4. \A i \in 1 .. Len(buf) : i \in 1 .. Len(all)
        BY <2>1
    <2>5. \A i \in 1 .. Len(all) : all[i] \in ToSet(buf) \union ToSet(chunk)
        <3> SUFFICES ASSUME NEW i \in 1 .. Len(all)
                     PROVE  all[i] \in ToSet(buf) \union ToSet(chunk)
            OBVIOUS
        <3>1. CASE i \in 1 .. Len(buf)
            BY <2>1, <3>1 DEF ToSet
        <3>2. CASE i - Len(buf) \in 1 .. Len(chunk)
            <4>1. PICK j \in 1 .. Len(chunk) : j = i - Len(buf)
                BY <3>2
            <4>2. i = Len(buf) + j
                BY <2>1, <4>1
            <4>3. all[i] = chunk[j]
                BY <2>1, <4>2
            <4> QED BY <4>3 DEF ToSet
        <3> QED BY <2>2, <3>1, <3>2
    <2>6. ToSet(buf) \subseteq ToSet(all)
        <3> SUFFICES ASSUME NEW i \in 1 .. Len(buf) PROVE buf[i] \in ToSet(all)
            BY <2>1 DEF ToSet
        <3>1. i \in DOMAIN all /\ all[i] = buf[i]
            BY <1>1, <2>1, <2>4
        <3> QED BY <3>1 DEF ToSet
    <2>7. ToSet(chunk) \subseteq ToSet(all)
        <3> SUFFICES ASSUME NEW i \in 1 .. Len(chunk) PROVE chunk[i] \in ToSet(all)
            BY DEF ToSet
        <3>1. Len(buf) + i \in DOMAIN all /\ all[Len(buf) + i] = chunk[i]
            BY <1>1, <2>1, <2>3
        <3> QED BY <3>1 DEF ToSet
    <2>8. ToSet(all) \subseteq ToSet(buf) \union ToSet(chunk)
        BY <1>1, <2>5 DEF ToSet
    <2> QED BY <2>6, <2>7, <2>8
<1>3. PICK n \in Nat : n = IF Len(all) < TeeMax THEN Len(all) ELSE TeeMax
    BY TeeAssumption
<1>4. Copied(chunk) = SubSeq(all, 1, n) /\ n <= Len(all)
    BY <1>1, <1>3, TeeAssumption DEF Copied
<1>5. /\ SubSeq(all, 1, n) \in Seq(Lines) /\ Len(SubSeq(all, 1, n)) = n
      /\ \A i \in 1 .. n : SubSeq(all, 1, n)[i] = all[i] /\ i \in 1 .. Len(all)
    BY <1>4
<1>6. ToSet(Copied(chunk)) \subseteq ToSet(all)
    BY <1>4, <1>5 DEF ToSet
<1>7. ASSUME n # TeeMax
      PROVE  ToSet(Copied(chunk)) = ToSet(all)
    <2>1. n = Len(all)
        BY <1>3, <1>7
    <2> QED BY <1>4, <1>5, <2>1 DEF ToSet
<1>8. ASSUME Len(buf) = TeeMax
      PROVE  n = TeeMax
    <2>1. Len(all) = Len(buf) + Len(chunk) /\ Len(chunk) \in Nat
        BY <1>1
    <2> QED BY <1>3, <1>8, <2>1, TeeAssumption
<1> QED BY <1>2, <1>4, <1>5, <1>6, <1>7, <1>8

LEMMA ReadKeeps == ASSUME SmtpInv, Read PROVE SmtpInv'
<1>1. SmtpTypes /\ buffered = <<>> /\ wire \in Seq(Lines)
    BY DEF SmtpInv, SmtpTypes, Read
<1>2. PICK n \in 1 .. Len(wire) :
          /\ buffered' = SubSeq(wire, 1, n)
          /\ wire' = SubSeq(wire, n + 1, Len(wire))
          /\ IF tee = None \/ tee.stopped THEN UNCHANGED tee
             ELSE tee' = [tee EXCEPT !.buf = Copied(SubSeq(wire, 1, n))]
    BY DEF Read
<1>3. UNCHANGED <<waits, pushed, txn, sent, smtp, session, data>>
    BY DEF Read
<1>4. PICK chunk \in Seq(Lines) : chunk = SubSeq(wire, 1, n)
    <2>1. SubSeq(wire, 1, n) \in Seq(Lines)
        BY <1>1, <1>2, SubSeqProperties
    <2> QED BY <2>1
<1>5. Len(chunk) = n /\ \A i \in 1 .. n : chunk[i] = wire[i] /\ i \in DOMAIN wire
    BY <1>1, <1>2, <1>4
<1>6. Pending = wire /\ Pending' = wire
    <2>1. Len(wire) \in Nat /\ 1 \in 1 .. Len(wire)
        BY <1>1, <1>2
    <2>2. SubSeq(wire, 1, n) \o SubSeq(wire, n + 1, Len(wire)) = SubSeq(wire, 1, Len(wire))
        <3>1. /\ n \in Int /\ n >= 1 /\ n <= Len(wire) /\ 1 \in 1 .. Len(wire) + 1
              /\ n \in 1 - 1 .. Len(wire) /\ Len(wire) \in n .. Len(wire)
            BY <1>1, <1>2, <2>1
        <3> QED BY <1>1, <3>1, ConcatAdjacentSubSeq
    <2>3. SubSeq(wire, 1, Len(wire)) = wire
        BY <1>1, SubSeqFull
    <2>4. <<>> \o wire = wire
        BY <1>1
    <2> QED BY <1>1, <1>2, <2>2, <2>3, <2>4 DEF Pending
<1>7. /\ tee' \in [buf : Seq(Lines), stopped : BOOLEAN] \union {None}
      /\ tee = None => tee' = None
      /\ tee # None => /\ tee'.stopped = tee.stopped
                       /\ tee.stopped => tee' = tee
                       /\ ToSet(tee'.buf) \subseteq ToSet(tee.buf) \union ToSet(chunk)
                       /\ \/ tee.stopped \/ Len(tee'.buf) = TeeMax
                          \/ ToSet(tee'.buf) = ToSet(tee.buf) \union ToSet(chunk)
                       /\ Len(tee.buf) = TeeMax => Len(tee'.buf) = TeeMax
    <2>1. CASE tee = None
        BY <1>2, <2>1
    <2>2. CASE tee # None /\ tee.stopped
        <3>1. tee' = tee
            BY <1>2, <2>2
        <3> QED BY <1>1, <2>2, <3>1 DEF SmtpTypes
    <2>3. CASE tee # None /\ ~tee.stopped
        <3>1. tee \in [buf : Seq(Lines), stopped : BOOLEAN]
            BY <1>1, <2>3 DEF SmtpTypes
        <3>2. tee' = [tee EXCEPT !.buf = Copied(chunk)]
            BY <1>2, <1>4, <2>3
        <3>3. tee'.buf = Copied(chunk) /\ tee'.stopped = tee.stopped
            BY <3>1, <3>2
        <3> QED BY <2>3, <3>1, <3>2, <3>3, CopiedFacts
    <2> QED BY <2>1, <2>2, <2>3
<1>8. SmtpTypes'
    <2>1. wire' \in Seq(Lines) /\ buffered' \in Seq(Lines)
        BY <1>1, <1>2, <1>4
    <2> QED BY <1>1, <1>3, <1>7, <2>1 DEF SmtpTypes
<1>9. PendingInv' /\ CurrentTxn' = CurrentTxn /\ SessionInv' /\ StageInv' /\ AskedInv'
    <2>1. PendingInv' /\ CurrentTxn' = CurrentTxn
        BY <1>3, <1>6 DEF SmtpInv, PendingInv, CurrentTxn
    <2>2. StageInv'
        BY <1>3, <1>6, <1>7 DEF SmtpInv, StageInv, BodyNext
    <2>3. AskedInv'
        BY <1>3, <1>6 DEF SmtpInv, AskedInv
    <2>4. SessionInv'
        BY <1>3, <2>1 DEF SmtpInv, SessionInv
    <2> QED BY <2>1, <2>2, <2>3, <2>4
<1>10. TeeInv'
    <2> SUFFICES ASSUME ~pushed, tee # None, \A k \in DOMAIN chunk : ~Breaks(chunk[k]),
                        NEW l \in ToSet(tee'.buf)
                 PROVE  l.txn = CurrentTxn
        BY <1>2, <1>3, <1>4, <1>7, <1>9 DEF TeeInv
    <2>1. CASE l \in ToSet(tee.buf)
        BY <1>1, <2>1 DEF SmtpInv, TeeInv
    <2>2. CASE l \in ToSet(chunk)
        <3>1. PICK j \in 1 .. n : l = wire[j]
            BY <1>4, <1>5, <2>2 DEF ToSet
        <3>2. 1 \in DOMAIN wire /\ j \in DOMAIN wire /\ 1 <= j /\ wire # <<>>
            BY <1>1, <1>2, <3>1
        <3>3. \A k \in 1 .. j - 1 : ~Breaks(wire[k])
            <4>1. \A k \in 1 .. j - 1 : k \in 1 .. n /\ k \in DOMAIN chunk
                BY <1>2, <1>4, <1>5, <3>1
            <4> QED BY <1>5, <4>1
        <3>4. wire[j].txn = wire[1].txn
            BY <1>6, <3>2, <3>3 DEF SmtpInv, PendingInv
        <3> QED BY <1>6, <3>1, <3>2, <3>4 DEF CurrentTxn
    <2> QED BY <1>7, <2>1, <2>2
<1>11. CompleteInv'
    <2>1. ASSUME tee # None, NEW l, InTee(l)
          PROVE  InTee(l)'
        BY <1>7, <2>1 DEF InTee
    <2>2. ASSUME tee # None, smtp.stage = "commands", NEW l \in ToSet(chunk)
          PROVE  InTee(l)'
        <3>1. ~tee.stopped
            BY <2>2 DEF SmtpInv, StageInv
        <3> QED BY <1>7, <2>2, <3>1 DEF InTee
    <2>3. tee' # None => tee # None
        BY <1>7
    <2>4. buffered' = chunk
        BY <1>2, <1>4
    <2> QED BY <1>3, <2>1, <2>2, <2>3, <2>4 DEF SmtpInv, CompleteInv
<1>12. OwnTransactionOnly' /\ WellSpacedIsComplete'
    BY <1>3 DEF SmtpInv, OwnTransactionOnly, WellSpacedIsComplete
<1> QED BY <1>8, <1>9, <1>10, <1>11, <1>12 DEF SmtpInv

\* The next line is handled.
LEMMA HandledLine ==
    ASSUME SmtpInv, buffered # <<>>, buffered' = Tail(buffered), UNCHANGED <<wire, pushed, txn>>,
           waits' = waits \/ Head(buffered).kind = "STARTTLS" \/ Pending' = <<>>
    PROVE  /\ PendingInv' /\ wire' \in Seq(Lines) /\ buffered' \in Seq(Lines) /\ txn' \in Nat
           /\ Head(buffered) \in Lines /\ Head(buffered) \in ToSet(buffered)
           /\ ToSet(buffered') \subseteq ToSet(buffered)
           /\ Head(buffered).txn = CurrentTxn
           /\ Pending # <<>> /\ Pending[1] = Head(buffered)
           /\ smtp.stage # "commands" => Head(buffered).kind = "BODY"
           /\ Head(buffered).kind = "STARTTLS" => Pending' = <<>>
           /\ Head(buffered).kind \in {"DATA", "BDAT"} =>
                 IF Pending' # <<>> THEN Pending'[1].kind = "BODY"
                 ELSE waits = "body" \/ (waits = "reply" /\ Head(buffered).kind = "DATA")
           /\ ~pushed =>
                 /\ waits # "body" /\ smtp.stage # "chunk" /\ Head(buffered).kind # "BDAT"
                 /\ Head(buffered).kind = "DATA" => Pending' = <<>> /\ DOMAIN buffered = {1}
                 /\ Head(buffered).kind = "BODY" => smtp.stage = "body"
                 /\ \A i \in DOMAIN Pending' :
                       /\ Pending'[i].kind \notin {"BDAT", "BODY"}
                       /\ Pending'[i].kind = "DATA" => i = Len(Pending') /\ waits' = "reply"
           /\ ~Breaks(Head(buffered)) => CurrentTxn' = CurrentTxn
           /\ Resets(Head(buffered)) => \A l \in ToSet(buffered') : l.ahead
           /\ (\A k \in DOMAIN buffered' : ~Breaks(buffered'[k])) /\ ~Breaks(Head(buffered)) =>
                 \A k \in DOMAIN buffered : ~Breaks(buffered[k])
<1>1. SmtpTypes /\ wire \in Seq(Lines) /\ txn \in Nat /\ waits \in {"none", "reply", "body"}
    BY DEF SmtpInv, SmtpTypes
<1>2. PICK b \in Seq(Lines) : b = buffered
    BY <1>1 DEF SmtpTypes
<1>3. /\ Len(b) \in Nat \ {0} /\ Head(b) = b[1] /\ b[1] \in Lines /\ DOMAIN b = 1 .. Len(b)
      /\ Tail(b) \in Seq(Lines) /\ Len(Tail(b)) = Len(b) - 1 /\ DOMAIN Tail(b) = 1 .. Len(b) - 1
      /\ \A i \in 1 .. Len(b) - 1 : Tail(b)[i] = b[i + 1]
    BY <1>2
<1>4. PICK p \in Seq(Lines) : p = Pending
    BY <1>1, PendingFacts
<1>5. Len(p) \in Nat \ {0} /\ p[1] = b[1] /\ DOMAIN p = 1 .. Len(p) /\ Len(b) <= Len(p)
    <2>1. Len(p) = Len(b) + Len(wire) /\ Len(wire) \in Nat
        BY <1>1, <1>2, <1>4, PendingFacts
    <2>2. 1 \in DOMAIN buffered
        BY <1>2, <1>3
    <2> QED BY <1>1, <1>2, <1>3, <1>4, <2>1, <2>2, PendingFacts
<1>6. PICK q \in Seq(Lines) : q = Tail(p)
    <2>1. p # <<>>
        BY <1>5
    <2> QED BY <2>1, HeadTailProperties
<1>7. Len(q) = Len(p) - 1 /\ Len(q) \in Nat /\ DOMAIN q = 1 .. Len(q) /\ \A i \in 1 .. Len(q) : q[i] = p[i + 1]
    BY <1>5, <1>6
<1>8. Pending' = q
    <2>1. Tail(b) \o wire \in Seq(Lines) /\ Len(Tail(b) \o wire) = Len(b) - 1 + Len(wire)
        BY <1>1, <1>3
    <2>2. Len(q) = Len(b) + Len(wire) - 1 /\ Len(wire) \in Nat
        <3>1. Len(p) = Len(b) + Len(wire) /\ Len(wire) \in Nat
            BY <1>1, <1>2, <1>4, PendingFacts
        <3> QED BY <1>3, <1>7, <3>1
    <2>3. ASSUME NEW i \in 1 .. Len(q)
          PROVE  (Tail(b) \o wire)[i] = q[i]
        <3>1. q[i] = (b \o wire)[i + 1]
            BY <1>2, <1>4, <1>7 DEF Pending
        <3>2. CASE i <= Len(b) - 1
            <4>1. i \in 1 .. Len(b) - 1 /\ i + 1 \in 1 .. Len(b)
                BY <1>3, <2>2, <3>2
            <4>2. (Tail(b) \o wire)[i] = Tail(b)[i] /\ (b \o wire)[i + 1] = b[i + 1]
                BY <1>1, <1>3, <4>1
            <4> QED BY <1>3, <3>1, <4>1, <4>2
        <3>3. CASE i > Len(b) - 1
            <4>1. PICK m \in 1 .. Len(wire) : i = Len(b) - 1 + m
                <5>1. i - (Len(b) - 1) \in 1 .. Len(wire)
                    BY <1>3, <2>2, <3>3
                <5> QED BY <1>3, <2>2, <5>1
            <4>2. (Tail(b) \o wire)[Len(Tail(b)) + m] = wire[m] /\ (b \o wire)[Len(b) + m] = wire[m]
                BY <1>1, <1>3, ConcatProperties
            <4>3. Len(Tail(b)) + m = i /\ Len(b) + m = i + 1
                BY <1>3, <4>1
            <4> QED BY <3>1, <4>2, <4>3
        <3> QED BY <1>3, <2>2, <3>2, <3>3
    <2>4. Tail(b) \o wire = q
        <3>1. PICK t \in Seq(Lines) : t = Tail(b) \o wire
            BY <2>1
        <3>2. Len(t) = Len(q) /\ \A i \in 1 .. Len(t) : t[i] = q[i]
            BY <1>3, <2>1, <2>2, <2>3, <3>1
        <3> QED BY <3>1, <3>2, SeqEqual
    <2> QED BY <1>2, <2>4 DEF Pending
<1>9. ASSUME NEW i \in DOMAIN q
      PROVE  i + 1 \in DOMAIN p /\ q[i] = p[i + 1] /\ i \in Nat
    BY <1>5, <1>7, <1>9
<1>10. ASSUME NEW i \in DOMAIN q, NEW j \in DOMAIN q, i <= j, \A k \in i .. j - 1 : ~Breaks(q[k])
       PROVE  q[j].txn = q[i].txn
    <2>1. ASSUME NEW k \in i + 1 .. (j + 1) - 1
          PROVE  ~Breaks(p[k])
        <3>1. PICK m \in i .. j - 1 : k = m + 1
            <4>1. k - 1 \in i .. j - 1 /\ k = (k - 1) + 1
                BY <1>7, <1>10, <2>1
            <4> QED BY <4>1
        <3>2. m \in DOMAIN q
            BY <1>7, <1>10, <3>1
        <3> QED BY <1>9, <1>10, <3>1, <3>2
    <2>2. i + 1 <= j + 1 /\ i + 1 \in DOMAIN p /\ j + 1 \in DOMAIN p
        BY <1>7, <1>9, <1>10
    <2>3. p[j + 1].txn = p[i + 1].txn
        BY <1>4, <2>1, <2>2 DEF SmtpInv, PendingInv
    <2> QED BY <1>9, <1>10, <2>3
<1>11. ASSUME NEW i \in DOMAIN q, \A k \in i .. Len(q) : ~Breaks(q[k])
       PROVE  txn = q[i].txn
    <2>1. \A k \in i + 1 .. Len(p) : k - 1 \in i .. Len(q) /\ k - 1 \in DOMAIN q /\ p[k] = q[k - 1]
        BY <1>5, <1>7, <1>11
    <2>2. \A k \in i + 1 .. Len(p) : ~Breaks(p[k])
        BY <1>11, <2>1
    <2> QED BY <1>4, <1>9, <1>11, <2>2 DEF SmtpInv, PendingInv
<1>12. p[1].kind = "STARTTLS" => q = <<>> /\ Len(b) = 1
    <2> SUFFICES ASSUME p[1].kind = "STARTTLS" PROVE 1 = Len(p)
        BY <1>3, <1>5, <1>7
    <2> QED BY <1>4, <1>5 DEF SmtpInv, PendingInv
<1>13. q = <<>> \/ waits' = waits
    BY <1>2, <1>3, <1>5, <1>8, <1>12
<1>14. ASSUME NEW i \in DOMAIN q
       PROVE  /\ q[i].kind = "STARTTLS" => i = Len(q) /\ waits' = "reply"
              /\ q[i].kind \in {"DATA", "BDAT"} =>
                    IF i # Len(q) THEN q[i + 1].kind = "BODY"
                    ELSE waits' = "body" \/ (waits' = "reply" /\ q[i].kind = "DATA")
    <2>1. q # <<>> /\ waits' = waits
        BY <1>7, <1>14, <1>13
    <2>2. /\ p[i + 1].kind = "STARTTLS" => i + 1 = Len(p) /\ waits = "reply"
          /\ p[i + 1].kind \in {"DATA", "BDAT"} =>
                IF i + 1 # Len(p) THEN p[(i + 1) + 1].kind = "BODY"
                ELSE waits = "body" \/ (waits = "reply" /\ p[i + 1].kind = "DATA")
        BY <1>4, <1>9 DEF SmtpInv, PendingInv
    <2>3. i # Len(q) => q[i + 1] = p[(i + 1) + 1]
        BY <1>7, <1>9, <1>14
    <2>4. i + 1 = Len(p) <=> i = Len(q)
        BY <1>5, <1>7, <1>9
    <2> QED BY <1>9, <2>1, <2>2, <2>3, <2>4
<1>15. ASSUME NEW i \in DOMAIN q, ~q[i].ahead, NEW k \in 1 .. i - 1
       PROVE  ~Resets(q[k])
    <2>1. k + 1 \in 1 .. (i + 1) - 1 /\ k \in DOMAIN q
        BY <1>7, <1>15
    <2> QED BY <1>4, <1>9, <1>15, <2>1 DEF SmtpInv, PendingInv
<1>16. PendingInv'
    BY <1>8, <1>10, <1>11, <1>14, <1>15 DEF PendingInv
<1>17. ASSUME ~Breaks(b[1])
       PROVE  CurrentTxn' = CurrentTxn
    <2>1. CurrentTxn = p[1].txn
        BY <1>4, <1>5 DEF CurrentTxn
    <2>2. CASE q = <<>>
        <3>1. \A k \in 1 .. Len(p) : ~Breaks(p[k])
            <4>1. Len(q) = 0
                BY <2>2
            <4>2. Len(p) = 1
                <5>1. Len(p) \in Nat /\ Len(p) - 1 = 0
                    BY <1>5, <1>7, <4>1
                <5> QED BY <5>1
            <4> QED BY <1>5, <1>17, <4>2
        <3>2. txn = p[1].txn
            BY <1>4, <1>5, <3>1 DEF SmtpInv, PendingInv
        <3> QED BY <1>8, <2>1, <2>2, <3>2 DEF CurrentTxn
    <2>3. CASE q # <<>>
        <3>1. 1 \in DOMAIN q /\ 2 \in DOMAIN p /\ 1 \in DOMAIN p /\ q[1] = p[2]
            BY <1>5, <1>7, <2>3
        <3>2. \A k \in 1 .. 2 - 1 : ~Breaks(p[k])
            BY <1>5, <1>17
        <3>3. p[2].txn = p[1].txn
            BY <1>4, <3>1, <3>2 DEF SmtpInv, PendingInv
        <3> QED BY <1>8, <2>1, <2>3, <3>1, <3>3 DEF CurrentTxn
    <2> QED BY <2>2, <2>3
<1>18. ASSUME Resets(b[1]), NEW l \in ToSet(Tail(b))
       PROVE  l.ahead
    <2>1. PICK i \in 1 .. Len(b) - 1 : l = b[i + 1]
        BY <1>3, <1>18 DEF ToSet
    <2>2. i + 1 \in DOMAIN p /\ p[i + 1] = b[i + 1] /\ 1 \in 1 .. (i + 1) - 1
        <3>1. i + 1 \in DOMAIN b
            BY <1>3, <2>1
        <3> QED BY <1>1, <1>2, <1>4, <3>1, <2>1, PendingFacts
    <2> QED BY <1>4, <1>5, <1>18, <2>1, <2>2 DEF SmtpInv, PendingInv
<1>19. ASSUME \A k \in DOMAIN Tail(b) : ~Breaks(Tail(b)[k]), ~Breaks(b[1]), NEW k \in DOMAIN b
       PROVE  ~Breaks(b[k])
    <2>1. CASE k = 1
        BY <1>19, <2>1
    <2>2. CASE k # 1
        <3>1. k - 1 \in 1 .. Len(b) - 1 /\ (k - 1) + 1 = k
            BY <1>3, <2>2
        <3>2. b[k] = Tail(b)[k - 1]
            BY <1>3, <3>1
        <3> QED BY <1>3, <1>19, <3>1, <3>2
    <2> QED BY <2>1, <2>2
<1>20. ToSet(Tail(b)) \subseteq ToSet(b) /\ b[1] \in ToSet(b)
    <2>1. \A i \in 1 .. Len(b) - 1 : i + 1 \in DOMAIN b
        BY <1>3
    <2>2. ASSUME NEW l \in ToSet(Tail(b))
          PROVE  l \in ToSet(b)
        <3>1. PICK i \in 1 .. Len(b) - 1 : l = Tail(b)[i]
            BY <1>3, <2>2 DEF ToSet
        <3> QED BY <1>3, <2>1, <3>1 DEF ToSet
    <2>3. 1 \in DOMAIN b
        BY <1>3
    <2>4. b[1] \in ToSet(b)
        BY <2>3 DEF ToSet
    <2> QED BY <2>2, <2>4
<1>21. b[1].txn = CurrentTxn
    BY <1>4, <1>5 DEF CurrentTxn
<1>22. Len(b) = 1 => DOMAIN b = {1}
    BY <1>3
<1>23. smtp.stage # "commands" => b[1].kind = "BODY"
    BY <1>4, <1>5 DEF SmtpInv, StageInv, BodyNext
<1>24. b[1].kind \in {"DATA", "BDAT"} =>
          IF q # <<>> THEN q[1].kind = "BODY"
          ELSE waits = "body" \/ (waits = "reply" /\ b[1].kind = "DATA")
    <2>1. p[1].kind \in {"DATA", "BDAT"} =>
             IF 1 # Len(p) THEN p[1 + 1].kind = "BODY"
             ELSE waits = "body" \/ (waits = "reply" /\ p[1].kind = "DATA")
        BY <1>4, <1>5 DEF SmtpInv, PendingInv
    <2>2. q # <<>> => 1 # Len(p) /\ q[1] = p[1 + 1]
        BY <1>5, <1>7
    <2>3. q = <<>> => 1 = Len(p)
        <3>1. q = <<>> => Len(q) = 0
            OBVIOUS
        <3> QED BY <1>5, <1>7, <3>1
    <2> QED BY <1>5, <2>1, <2>2, <2>3
<1>25. ASSUME ~pushed
       PROVE  /\ waits # "body" /\ smtp.stage # "chunk" /\ b[1].kind # "BDAT"
              /\ b[1].kind = "DATA" => q = <<>> /\ Len(b) = 1
              /\ b[1].kind = "BODY" => smtp.stage = "body"
              /\ \A i \in DOMAIN q :
                    /\ q[i].kind \notin {"BDAT", "BODY"}
                    /\ q[i].kind = "DATA" => i = Len(q) /\ waits' = "reply"
    <2>1. /\ waits # "body" /\ smtp.stage # "chunk"
          /\ \A i \in DOMAIN p :
                /\ p[i].kind # "BDAT"
                /\ p[i].kind = "DATA" => i = Len(p) /\ waits = "reply"
                /\ p[i].kind = "BODY" => i = 1 /\ smtp.stage = "body"
        <3>1. p # <<>>
            BY <1>5
        <3> QED BY <1>4, <1>25, <3>1 DEF SmtpInv, AskedInv
    <2>2. 1 \in DOMAIN p
        BY <1>5
    <2>3. ASSUME NEW i \in DOMAIN q
          PROVE  /\ q[i].kind \notin {"BDAT", "BODY"}
                 /\ q[i].kind = "DATA" => i = Len(q) /\ waits' = "reply"
        <3>1. q # <<>>
            BY <1>7, <2>3
        <3>2. i + 1 # 1 /\ (i + 1 = Len(p) <=> i = Len(q))
            BY <1>5, <1>7, <1>9, <2>3
        <3>3. q[i] = p[i + 1] /\ i + 1 \in DOMAIN p /\ waits' = waits
            BY <1>9, <1>13, <2>3, <3>1
        <3> QED BY <2>1, <3>2, <3>3
    <2>4. 1 = Len(p) => q = <<>> /\ Len(b) = 1
        <3>1. 1 = Len(p) => Len(q) = 0 /\ Len(b) = 1
            BY <1>3, <1>5, <1>7
        <3> QED BY <1>6, <3>1
    <2> QED BY <1>5, <2>1, <2>2, <2>3, <2>4
<1>26. /\ PendingInv' /\ wire' \in Seq(Lines) /\ buffered' \in Seq(Lines) /\ txn' \in Nat
       /\ Head(buffered) \in Lines /\ Head(buffered) \in ToSet(buffered)
       /\ ToSet(buffered') \subseteq ToSet(buffered)
       /\ Head(buffered).txn = CurrentTxn /\ Pending # <<>> /\ Pending[1] = Head(buffered)
    BY <1>1, <1>2, <1>3, <1>4, <1>5, <1>16, <1>20, <1>21
<1>27. /\ smtp.stage # "commands" => Head(buffered).kind = "BODY"
       /\ Head(buffered).kind = "STARTTLS" => Pending' = <<>>
       /\ Head(buffered).kind \in {"DATA", "BDAT"} =>
             IF Pending' # <<>> THEN Pending'[1].kind = "BODY"
             ELSE waits = "body" \/ (waits = "reply" /\ Head(buffered).kind = "DATA")
    BY <1>2, <1>3, <1>5, <1>8, <1>12, <1>23, <1>24
<1>28. ~pushed =>
          /\ waits # "body" /\ smtp.stage # "chunk" /\ Head(buffered).kind # "BDAT"
          /\ Head(buffered).kind = "DATA" => Pending' = <<>> /\ DOMAIN buffered = {1}
          /\ Head(buffered).kind = "BODY" => smtp.stage = "body"
          /\ \A i \in DOMAIN Pending' :
                /\ Pending'[i].kind \notin {"BDAT", "BODY"}
                /\ Pending'[i].kind = "DATA" => i = Len(Pending') /\ waits' = "reply"
    BY <1>2, <1>3, <1>8, <1>22, <1>25
<1> QED BY <1>2, <1>3, <1>17, <1>18, <1>19, <1>26, <1>27, <1>28

\* The commands before the body is asked for.
LEMMA CommandStep ==
    ASSUME SmtpInv, buffered # <<>>, buffered' = Tail(buffered),
           UNCHANGED <<wire, waits, pushed, txn, tee>>, smtp'.stage = smtp.stage,
           ~Breaks(Head(buffered))
    PROVE  /\ PendingInv' /\ StageInv' /\ AskedInv' /\ TeeInv' /\ CurrentTxn' = CurrentTxn
           /\ wire' \in Seq(Lines) /\ buffered' \in Seq(Lines) /\ txn' \in Nat
           /\ smtp.stage = "commands"
<1>1. /\ PendingInv' /\ wire' \in Seq(Lines) /\ buffered' \in Seq(Lines) /\ txn' \in Nat
      /\ CurrentTxn' = CurrentTxn
    BY HandledLine
<1>2. TeeInv'
    <2> SUFFICES ASSUME ~pushed, tee # None, \A k \in DOMAIN buffered' : ~Breaks(buffered'[k]),
                        NEW l \in ToSet(tee.buf)
                 PROVE  l.txn = CurrentTxn
        BY <1>1 DEF TeeInv
    <2>1. \A k \in DOMAIN buffered : ~Breaks(buffered[k])
        BY HandledLine
    <2> QED BY <2>1 DEF SmtpInv, TeeInv
<1>3. smtp.stage = "commands"
    <2>1. smtp.stage # "commands" => Head(buffered).kind = "BODY"
        BY HandledLine
    <2> QED BY <2>1 DEF Breaks, Resets
<1>4. StageInv'
    BY <1>3 DEF SmtpInv, StageInv
<1>5. AskedInv'
    BY <1>3, HandledLine DEF AskedInv
<1> QED BY <1>1, <1>2, <1>3, <1>4, <1>5

LEMMA MailKeeps == ASSUME SmtpInv, Mail PROVE SmtpInv'
<1>1. /\ buffered # <<>> /\ Head(buffered).kind = "MAIL" /\ buffered' = Tail(buffered)
      /\ smtp' = [smtp EXCEPT !.mail = TRUE]
      /\ session' = [session EXCEPT !.from = Head(buffered)]
      /\ UNCHANGED <<wire, waits, pushed, txn, sent, tee, data>>
    BY DEF Mail, Handles
<1>2. ~Breaks(Head(buffered))
    BY <1>1 DEF Breaks, Resets
<1>3. SmtpTypes /\ smtp \in [mail : BOOLEAN, stage : {"commands", "chunk", "body"}]
      /\ session \in [from : Lines \union {None}, recipients : Seq(Lines)]
    BY DEF SmtpInv, SmtpTypes
<1>4. /\ smtp' \in [mail : BOOLEAN, stage : {"commands", "chunk", "body"}]
      /\ smtp'.stage = smtp.stage
    BY <1>1, <1>3
<1>5. /\ PendingInv' /\ StageInv' /\ AskedInv' /\ TeeInv' /\ CurrentTxn' = CurrentTxn
      /\ wire' \in Seq(Lines) /\ buffered' \in Seq(Lines) /\ txn' \in Nat
    BY <1>1, <1>2, <1>4, CommandStep
<1>6. /\ Head(buffered) \in Lines /\ Head(buffered).txn = CurrentTxn
      /\ ToSet(buffered') \subseteq ToSet(buffered)
    BY <1>1, HandledLine
<1>7. /\ session' \in [from : Lines \union {None}, recipients : Seq(Lines)]
      /\ session'.from = Head(buffered) /\ session'.recipients = session.recipients
    BY <1>1, <1>3, <1>6
<1>8. SmtpTypes'
    BY <1>1, <1>3, <1>4, <1>5, <1>7 DEF SmtpTypes
<1>9. SessionInv'
    BY <1>1, <1>5, <1>6, <1>7 DEF SmtpInv, SessionInv
<1>10. CompleteInv'
    BY <1>1, <1>4, <1>6, <1>7 DEF SmtpInv, CompleteInv, InTee
<1>11. OwnTransactionOnly' /\ WellSpacedIsComplete'
    BY <1>1 DEF SmtpInv, OwnTransactionOnly, WellSpacedIsComplete
<1> QED BY <1>5, <1>8, <1>9, <1>10, <1>11 DEF SmtpInv

\* A line that names a recipient is taken, or nothing is.
LEMMA RecipientTaken ==
    ASSUME session \in [from : Lines \union {None}, recipients : Seq(Lines)],
           NEW l \in Lines,
           \/ session' = session
           \/ NamesRecipient(l) /\ session' = [session EXCEPT !.recipients = Append(@, l)]
    PROVE  /\ session' \in [from : Lines \union {None}, recipients : Seq(Lines)]
           /\ session'.from = session.from
           /\ \A x \in ToSet(session'.recipients) :
                 x \in ToSet(session.recipients) \/ (x = l /\ NamesRecipient(l))
<1>1. CASE session' = session
    BY <1>1
<1>2. CASE NamesRecipient(l) /\ session' = [session EXCEPT !.recipients = Append(@, l)]
    <2>1. PICK s \in Seq(Lines) : s = session.recipients
        OBVIOUS
    <2>2. /\ Append(s, l) \in Seq(Lines) /\ DOMAIN Append(s, l) = 1 .. Len(s) + 1
          /\ \A i \in 1 .. Len(s) : Append(s, l)[i] = s[i] /\ i \in DOMAIN s
          /\ Append(s, l)[Len(s) + 1] = l /\ Len(s) \in Nat
        OBVIOUS
    <2>3. ASSUME NEW x \in ToSet(Append(s, l))
          PROVE  x \in ToSet(s) \/ x = l
        <3>1. PICK i \in 1 .. Len(s) + 1 : x = Append(s, l)[i]
            BY <2>2, <2>3 DEF ToSet
        <3>2. i \in 1 .. Len(s) \/ i = Len(s) + 1
            BY <2>2
        <3> QED BY <2>2, <3>1, <3>2 DEF ToSet
    <2>4. /\ session'.from = session.from /\ session'.recipients = Append(s, l)
          /\ session' \in [from : Lines \union {None}, recipients : Seq(Lines)]
        BY <1>2, <2>1, <2>2
    <2> QED BY <1>2, <2>1, <2>3, <2>4
<1> QED BY <1>1, <1>2

LEMMA RcptKeeps == ASSUME SmtpInv, Rcpt PROVE SmtpInv'
<1>1. /\ buffered # <<>> /\ Head(buffered).kind = "RCPT" /\ buffered' = Tail(buffered)
      /\ session' = session \/ session' = [session EXCEPT !.recipients = Append(@, Head(buffered))]
      /\ UNCHANGED <<wire, waits, pushed, txn, sent, tee, smtp, data>>
    BY DEF Rcpt, Handles
<1>2. ~Breaks(Head(buffered)) /\ NamesRecipient(Head(buffered))
    BY <1>1 DEF Breaks, Resets, NamesRecipient
<1>3. /\ PendingInv' /\ StageInv' /\ AskedInv' /\ TeeInv' /\ CurrentTxn' = CurrentTxn
      /\ wire' \in Seq(Lines) /\ buffered' \in Seq(Lines) /\ txn' \in Nat
      /\ smtp.stage = "commands"
    BY <1>1, <1>2, CommandStep
<1>4. /\ Head(buffered) \in Lines /\ Head(buffered).txn = CurrentTxn
      /\ Head(buffered) \in ToSet(buffered) /\ ToSet(buffered') \subseteq ToSet(buffered)
    BY <1>1, HandledLine
<1>5. SmtpTypes /\ session \in [from : Lines \union {None}, recipients : Seq(Lines)]
    BY DEF SmtpInv, SmtpTypes
<1>6. /\ session' \in [from : Lines \union {None}, recipients : Seq(Lines)]
      /\ session'.from = session.from
      /\ \A x \in ToSet(session'.recipients) :
            x \in ToSet(session.recipients) \/ (x = Head(buffered) /\ NamesRecipient(x))
    BY <1>1, <1>2, <1>4, <1>5, RecipientTaken
<1>7. SmtpTypes'
    BY <1>1, <1>3, <1>5, <1>6 DEF SmtpTypes
<1>8. SessionInv'
    BY <1>1, <1>3, <1>4, <1>6 DEF SmtpInv, SessionInv
<1>9. CompleteInv'
    BY <1>1, <1>3, <1>4, <1>6 DEF SmtpInv, CompleteInv, InTee
<1>10. OwnTransactionOnly' /\ WellSpacedIsComplete'
    BY <1>1 DEF SmtpInv, OwnTransactionOnly, WellSpacedIsComplete
<1> QED BY <1>3, <1>7, <1>8, <1>9, <1>10 DEF SmtpInv

\* A body that is taken for commands was pushed.
LEMMA BodyAsCommandsKeeps == ASSUME SmtpInv, BodyAsCommands PROVE SmtpInv'
<1>1. /\ buffered # <<>> /\ Head(buffered).kind = "BODY" /\ buffered' = Tail(buffered)
      /\ smtp.stage = "commands"
      /\ \/ session' = session
         \/ /\ NamesRecipient(Head(buffered))
            /\ session' = [session EXCEPT !.recipients = Append(@, Head(buffered))]
      /\ UNCHANGED <<wire, waits, pushed, txn, sent, tee, smtp, data>>
    BY DEF BodyAsCommands, Handles
<1>2. /\ PendingInv' /\ wire' \in Seq(Lines) /\ buffered' \in Seq(Lines) /\ txn' \in Nat
      /\ Head(buffered) \in Lines
      /\ Head(buffered) \in ToSet(buffered) /\ ToSet(buffered') \subseteq ToSet(buffered)
    BY <1>1, HandledLine
<1>3. pushed
    <2>1. ~pushed => smtp.stage = "body"
        BY <1>1, HandledLine
    <2> QED BY <1>1, <2>1
<1>4. SmtpTypes /\ session \in [from : Lines \union {None}, recipients : Seq(Lines)]
    BY DEF SmtpInv, SmtpTypes
<1>5. /\ session' \in [from : Lines \union {None}, recipients : Seq(Lines)]
      /\ \A x \in ToSet(session'.recipients) :
            x \in ToSet(session.recipients) \/ (x = Head(buffered) /\ NamesRecipient(x))
    BY <1>1, <1>2, <1>4, RecipientTaken
<1>6. SmtpTypes'
    BY <1>1, <1>2, <1>4, <1>5 DEF SmtpTypes
<1>7. StageInv' /\ AskedInv' /\ TeeInv'
    BY <1>1, <1>3 DEF SmtpInv, StageInv, AskedInv, TeeInv
<1>8. SessionInv'
    BY <1>1, <1>3, <1>5 DEF SmtpInv, SessionInv
<1>9. CompleteInv'
    BY <1>1, <1>2, <1>5 DEF SmtpInv, CompleteInv, InTee
<1>10. OwnTransactionOnly' /\ WellSpacedIsComplete'
    BY <1>1 DEF SmtpInv, OwnTransactionOnly, WellSpacedIsComplete
<1> QED BY <1>2, <1>6, <1>7, <1>8, <1>9, <1>10 DEF SmtpInv

LEMMA LastMail ==
    ASSUME tee # None, tee \in [buf : Seq(Lines), stopped : BOOLEAN], RawFrom # None
    PROVE  RawFrom \in ToSet(tee.buf)
<1>1. PICK b \in Seq(Lines) : b = tee.buf
    OBVIOUS
<1> DEFINE M == {i \in DOMAIN b : b[i].kind = "MAIL"}
<1>2. M # {} /\ RawFrom = b[Max(M)]
    BY <1>1 DEF RawFrom
<1>3. DOMAIN b = 1 .. Len(b) /\ Len(b) \in Nat
    OBVIOUS
<1>4. \E i \in M : \A j \in M : i >= j
    <2> DEFINE T == {n \in 0 .. Len(b) : \E i \in M : n = Len(b) - i}
    <2>1. T \subseteq Nat /\ T # {}
        BY <1>2, <1>3
    <2>2. PICK n \in T : \A k \in T : n <= k
        <3> HIDE DEF T
        <3> QED BY <2>1, LeastElement
    <2>3. PICK i \in M : n = Len(b) - i
        BY <2>2
    <2>4. ASSUME NEW j \in M
          PROVE  i >= j
        <3>1. Len(b) - j \in T
            BY <1>3
        <3>2. Len(b) - i <= Len(b) - j
            BY <2>2, <2>3, <3>1
        <3>3. i \in 1 .. Len(b) /\ j \in 1 .. Len(b)
            BY <1>3
        <3> QED BY <1>3, <3>2, <3>3
    <2> QED BY <2>3, <2>4
<1>5. Max(M) \in M
    <2> HIDE DEF M
    <2> QED BY <1>4 DEF Max
<1> QED BY <1>1, <1>2, <1>5 DEF ToSet

\* The snapshot leaves the copy as it is and has what was sent in time.
LEMMA SnapshotFacts ==
    ASSUME SmtpInv, NEW l, Snapshot(l)
    PROVE  /\ tee' \in [buf : Seq(Lines), stopped : BOOLEAN] \union {None}
           /\ tee' # None => tee # None /\ tee'.buf = tee.buf
           /\ data'.envelope = Envelope /\ data'.txn = l.txn
           /\ WellSpacedIsComplete'
<1>1. /\ data' = [envelope |-> Envelope, accepted |-> ToSet(session.recipients), txn |-> l.txn,
                  full |-> tee # None /\ Len(tee.buf) = TeeMax]
      /\ tee' = IF tee = None THEN None ELSE [tee EXCEPT !.stopped = TRUE]
    BY DEF Snapshot
<1>2. tee \in [buf : Seq(Lines), stopped : BOOLEAN] \union {None}
    BY DEF SmtpInv, SmtpTypes
<1>3. /\ tee' \in [buf : Seq(Lines), stopped : BOOLEAN] \union {None}
      /\ tee' # None => tee # None /\ tee'.buf = tee.buf
    BY <1>1, <1>2
<1>4. /\ data'.envelope = Envelope /\ data'.accepted = ToSet(session.recipients)
      /\ data'.txn = l.txn /\ data'.full = (tee # None /\ Len(tee.buf) = TeeMax)
    BY <1>1
<1>5. ASSUME ~data'.full, \A r \in data'.accepted : ~r.ahead /\ r.to \notin Bare,
             NEW r \in data'.accepted
      PROVE  r \in Envelope.recipients
    <2>1. r \in ToSet(session.recipients) /\ NamesRecipient(r) /\ ~r.ahead /\ r.to \notin Bare
        BY <1>4, <1>5 DEF SmtpInv, SessionInv
    <2>2. CASE tee = None
        BY <2>1, <2>2 DEF Envelope
    <2>3. CASE tee # None
        <3>1. r \in ToSet(tee.buf)
            BY <1>4, <1>5, <2>1, <2>3 DEF SmtpInv, CompleteInv, InTee
        <3>2. r \in RawRecipients
            BY <2>1, <3>1 DEF RawRecipients
        <3> QED BY <2>3, <3>2 DEF Envelope
    <2> QED BY <2>2, <2>3
<1>6. WellSpacedIsComplete'
    BY <1>4, <1>5 DEF WellSpacedIsComplete, PathsOf
<1> QED BY <1>3, <1>4, <1>6

\* While nothing is pushed the envelope is of the current transaction.
LEMMA EnvelopeIsOwn ==
    ASSUME SmtpInv, ~pushed, smtp.mail, \A k \in DOMAIN buffered : ~Breaks(buffered[k])
    PROVE  /\ Envelope.from.txn = CurrentTxn
           /\ \A l \in Envelope.recipients : l.txn = CurrentTxn
<1>1. tee \in [buf : Seq(Lines), stopped : BOOLEAN] \union {None}
    BY DEF SmtpInv, SmtpTypes
<1>2. tee # None => \A l \in ToSet(tee.buf) : l.txn = CurrentTxn
    BY DEF SmtpInv, TeeInv
<1>3. Envelope.from.txn = CurrentTxn
    <2>1. CASE tee # None /\ RawFrom # None
        <3>1. RawFrom \in ToSet(tee.buf)
            BY <1>1, <2>1, LastMail
        <3> QED BY <1>2, <2>1, <3>1 DEF Envelope
    <2>2. CASE ~(tee # None /\ RawFrom # None)
        BY <2>2 DEF SmtpInv, SessionInv, Envelope
    <2> QED BY <2>1, <2>2
<1>4. ASSUME NEW l \in Envelope.recipients
      PROVE  l.txn = CurrentTxn
    <2>1. CASE tee # None /\ RawRecipients # {}
        <3>1. l \in ToSet(tee.buf)
            BY <1>4, <2>1 DEF Envelope, RawRecipients
        <3> QED BY <1>2, <2>1, <3>1
    <2>2. CASE ~(tee # None /\ RawRecipients # {})
        <3>1. l \in ToSet(session.recipients)
            BY <1>4, <2>2 DEF Envelope
        <3> QED BY <3>1 DEF SmtpInv, SessionInv
    <2> QED BY <2>1, <2>2
<1> QED BY <1>3, <1>4

LEMMA DataKeeps == ASSUME SmtpInv, Data PROVE SmtpInv'
<1>1. /\ buffered # <<>> /\ Head(buffered).kind = "DATA" /\ buffered' = Tail(buffered)
      /\ waits' = IF waits # "reply" \/ wire \o buffered' # <<>> THEN waits
                  ELSE IF InOrder THEN "body" ELSE "none"
      /\ UNCHANGED <<wire, pushed, txn, sent, session>>
    BY DEF Data, Handles
<1>2. ~Breaks(Head(buffered))
    BY <1>1 DEF Breaks, Resets
<1>3. Pending' = <<>> <=> wire \o buffered' = <<>>
    <2>1. PICK b \in Seq(Lines), w \in Seq(Lines) : b = buffered /\ w = wire
        BY DEF SmtpInv, SmtpTypes
    <2>2. b # <<>> /\ Tail(b) \in Seq(Lines)
        BY <1>1, <2>1
    <2>3. Tail(b) \o w = <<>> <=> w \o Tail(b) = <<>>
        BY <2>2
    <2> QED BY <1>1, <2>1, <2>3 DEF Pending
<1>4. /\ PendingInv' /\ CurrentTxn' = CurrentTxn
      /\ wire' \in Seq(Lines) /\ buffered' \in Seq(Lines) /\ txn' \in Nat
      /\ Head(buffered).txn = CurrentTxn /\ ToSet(buffered') \subseteq ToSet(buffered)
      /\ smtp.stage = "commands"
      /\ IF Pending' # <<>> THEN Pending'[1].kind = "BODY" ELSE waits \in {"body", "reply"}
      /\ ~pushed => waits # "body" /\ Pending' = <<>> /\ DOMAIN buffered = {1}
    <2>1. waits' = waits \/ Pending' = <<>>
        BY <1>1, <1>3
    <2> QED BY <1>1, <1>2, <2>1, HandledLine
<1>5. /\ SmtpTypes /\ smtp \in [mail : BOOLEAN, stage : {"commands", "chunk", "body"}]
      /\ session \in [from : Lines \union {None}, recipients : Seq(Lines)]
      /\ waits' \in {"none", "reply", "body"}
    BY <1>1 DEF SmtpInv, SmtpTypes
<1>6. ~pushed => \A k \in DOMAIN buffered : ~Breaks(buffered[k])
    <2>1. DOMAIN buffered = {1} => \A k \in DOMAIN buffered : buffered[k] = Head(buffered)
        BY <1>5 DEF SmtpTypes
    <2> QED BY <1>2, <1>4, <2>1
<1>7. CASE InOrder
    <2>1. Snapshot(Head(buffered)) /\ smtp' = [smtp EXCEPT !.stage = "body"]
        BY <1>7 DEF Data
    <2>2. /\ smtp' \in [mail : BOOLEAN, stage : {"commands", "chunk", "body"}]
          /\ smtp'.mail = smtp.mail /\ smtp'.stage = "body"
        BY <1>5, <2>1
    <2>3. /\ tee' \in [buf : Seq(Lines), stopped : BOOLEAN] \union {None}
          /\ tee' # None => tee # None /\ tee'.buf = tee.buf
          /\ data'.envelope = Envelope /\ data'.txn = Head(buffered).txn
          /\ WellSpacedIsComplete'
        BY <2>1, SnapshotFacts
    <2>4. SmtpTypes'
        BY <1>1, <1>4, <1>5, <2>2, <2>3 DEF SmtpTypes
    <2>5. StageInv'
        <3>1. Pending' = <<>> => waits' = "body"
            BY <1>1, <1>4, <1>3, <1>7
        <3> QED BY <1>4, <2>2, <3>1 DEF StageInv, BodyNext
    <2>6. AskedInv'
        BY <1>1, <1>4, <2>2 DEF AskedInv
    <2>7. SessionInv' /\ TeeInv'
        BY <1>1, <1>4, <1>6, <2>2, <2>3 DEF SmtpInv, SessionInv, TeeInv
    <2>8. CompleteInv'
        BY <1>1, <2>2, <2>3 DEF SmtpInv, CompleteInv, InTee
    <2>9. OwnTransactionOnly'
        <3> SUFFICES ASSUME ~pushed PROVE OwnTransactionOnly'
            BY <1>1 DEF OwnTransactionOnly
        <3>1. smtp.mail
            BY <1>7 DEF InOrder
        <3>2. /\ Envelope.from.txn = CurrentTxn
              /\ \A l \in Envelope.recipients : l.txn = CurrentTxn
            BY <1>6, <3>1, EnvelopeIsOwn
        <3> QED BY <1>4, <2>3, <3>2 DEF OwnTransactionOnly
    <2> QED BY <1>4, <2>3, <2>4, <2>5, <2>6, <2>7, <2>8, <2>9 DEF SmtpInv
<1>8. CASE ~InOrder
    <2>1. UNCHANGED <<smtp, data, tee>>
        BY <1>8 DEF Data
    <2>2. SmtpTypes'
        BY <1>1, <1>4, <1>5, <2>1 DEF SmtpTypes
    <2>3. StageInv'
        BY <1>4, <2>1 DEF SmtpInv, StageInv
    <2>4. AskedInv'
        BY <1>1, <1>4, <1>8, <2>1 DEF AskedInv
    <2>5. SessionInv' /\ TeeInv'
        BY <1>1, <1>4, <1>6, <2>1 DEF SmtpInv, SessionInv, TeeInv
    <2>6. CompleteInv'
        BY <1>1, <1>4, <2>1 DEF SmtpInv, CompleteInv, InTee
    <2>7. OwnTransactionOnly' /\ WellSpacedIsComplete'
        BY <1>1, <2>1 DEF SmtpInv, OwnTransactionOnly, WellSpacedIsComplete
    <2> QED BY <1>4, <2>2, <2>3, <2>4, <2>5, <2>6, <2>7 DEF SmtpInv
<1> QED BY <1>7, <1>8

LEMMA BdatKeeps == ASSUME SmtpInv, Bdat PROVE SmtpInv'
<1>1. /\ buffered # <<>> /\ Head(buffered).kind = "BDAT" /\ buffered' = Tail(buffered)
      /\ smtp' = smtp \/ smtp' = [smtp EXCEPT !.stage = "chunk"]
      /\ UNCHANGED <<wire, waits, pushed, txn, sent, tee, session, data>>
    BY DEF Bdat, Handles
<1>2. /\ PendingInv' /\ wire' \in Seq(Lines) /\ buffered' \in Seq(Lines) /\ txn' \in Nat
      /\ ToSet(buffered') \subseteq ToSet(buffered)
      /\ smtp.stage = "commands" /\ pushed
      /\ IF Pending' # <<>> THEN Pending'[1].kind = "BODY" ELSE waits = "body"
    BY <1>1, HandledLine
<1>3. /\ SmtpTypes /\ smtp \in [mail : BOOLEAN, stage : {"commands", "chunk", "body"}]
    BY DEF SmtpInv, SmtpTypes
<1>4. smtp' \in [mail : BOOLEAN, stage : {"commands", "chunk", "body"}]
    BY <1>1, <1>3
<1>5. SmtpTypes'
    BY <1>1, <1>2, <1>3, <1>4 DEF SmtpTypes
<1>6. StageInv'
    BY <1>1, <1>2 DEF SmtpInv, StageInv, BodyNext
<1>7. AskedInv' /\ TeeInv' /\ SessionInv'
    BY <1>1, <1>2 DEF SmtpInv, AskedInv, TeeInv, SessionInv
<1>8. CompleteInv'
    BY <1>1, <1>2 DEF SmtpInv, CompleteInv, InTee
<1>9. OwnTransactionOnly' /\ WellSpacedIsComplete'
    BY <1>1 DEF SmtpInv, OwnTransactionOnly, WellSpacedIsComplete
<1> QED BY <1>2, <1>5, <1>6, <1>7, <1>8, <1>9 DEF SmtpInv

LEMMA ChunkDataKeeps == ASSUME SmtpInv, ChunkData PROVE SmtpInv'
<1>1. /\ smtp.stage = "chunk" /\ Snapshot(session.from) /\ smtp' = [smtp EXCEPT !.stage = "body"]
      /\ UNCHANGED <<wire, buffered, waits, pushed, txn, sent, session>>
    BY DEF ChunkData
<1>2. SmtpTypes /\ smtp \in [mail : BOOLEAN, stage : {"commands", "chunk", "body"}]
    BY DEF SmtpInv, SmtpTypes
<1>3. /\ smtp' \in [mail : BOOLEAN, stage : {"commands", "chunk", "body"}]
      /\ smtp'.stage = "body"
    BY <1>1, <1>2
<1>4. /\ tee' \in [buf : Seq(Lines), stopped : BOOLEAN] \union {None}
      /\ tee' # None => tee # None /\ tee'.buf = tee.buf
      /\ WellSpacedIsComplete'
    BY <1>1, SnapshotFacts
<1>5. pushed /\ BodyNext
    BY <1>1 DEF SmtpInv, AskedInv, StageInv
<1>6. UNCHANGED <<Pending, CurrentTxn>>
    BY <1>1 DEF CurrentTxn, Pending
<1>7. SmtpTypes' /\ PendingInv'
    BY <1>1, <1>2, <1>3, <1>4, <1>6 DEF SmtpInv, SmtpTypes, PendingInv
<1>8. StageInv'
    BY <1>1, <1>3, <1>5, <1>6 DEF StageInv, BodyNext
<1>9. AskedInv' /\ TeeInv' /\ SessionInv' /\ OwnTransactionOnly'
    BY <1>1, <1>5 DEF SmtpInv, AskedInv, TeeInv, SessionInv, OwnTransactionOnly
<1>10. CompleteInv'
    BY <1>1, <1>3, <1>4 DEF SmtpInv, CompleteInv, InTee
<1> QED BY <1>4, <1>7, <1>8, <1>9, <1>10 DEF SmtpInv

\* A reset: a new envelope, an empty tee, and no recipient in the chunk that was sent in time.
LEMMA ResetKeeps ==
    ASSUME SmtpInv, buffered # <<>>, Resets(Head(buffered)), buffered' = Tail(buffered), Reset,
           smtp' \in [mail : BOOLEAN, stage : {"commands"}], ~smtp'.mail,
           data' = data \/ data' = None, UNCHANGED <<wire, waits, pushed, txn, sent>>
    PROVE  SmtpInv'
<1>1. /\ PendingInv' /\ wire' \in Seq(Lines) /\ buffered' \in Seq(Lines) /\ txn' \in Nat
      /\ \A l \in ToSet(buffered') : l.ahead
    BY HandledLine
<1>2. /\ session' = [from |-> None, recipients |-> <<>>] /\ ToSet(session'.recipients) = {}
      /\ tee' # None => ~tee'.stopped /\ ToSet(tee'.buf) = {}
      /\ tee' \in [buf : Seq(Lines), stopped : BOOLEAN] \union {None}
    BY DEF Reset, NoEnvelope, Fresh, ToSet
<1>3. SmtpTypes'
    <2>1. waits' \in {"none", "reply", "body"} /\ pushed' \in BOOLEAN
        BY DEF SmtpInv, SmtpTypes
    <2>2. session' \in [from : Lines \union {None}, recipients : Seq(Lines)]
        BY <1>2
    <2>3. smtp' \in [mail : BOOLEAN, stage : {"commands", "chunk", "body"}]
        OBVIOUS
    <2> QED BY <1>1, <1>2, <2>1, <2>2, <2>3 DEF SmtpTypes
<1>4. smtp'.stage = "commands"
    OBVIOUS
<1>5. AskedInv'
    BY <1>4, HandledLine DEF AskedInv
<1>6. StageInv' /\ SessionInv' /\ TeeInv'
    BY <1>2, <1>4 DEF StageInv, SessionInv, TeeInv
<1>7. CompleteInv'
    BY <1>1, <1>2 DEF CompleteInv
<1>8. OwnTransactionOnly' /\ WellSpacedIsComplete'
    BY DEF SmtpInv, OwnTransactionOnly, WellSpacedIsComplete
<1> QED BY <1>1, <1>3, <1>5, <1>6, <1>7, <1>8 DEF SmtpInv

LEMMA StartTLSKeeps == ASSUME SmtpInv, StartTLS PROVE SmtpInv'
<1>1. /\ buffered # <<>> /\ Head(buffered).kind = "STARTTLS" /\ buffered' = Tail(buffered)
      /\ waits' = "none" /\ smtp' = [smtp EXCEPT !.mail = FALSE]
      /\ session' = [from |-> None, recipients |-> <<>>] /\ tee' = None
      /\ UNCHANGED <<wire, pushed, txn, sent, data>>
    BY DEF StartTLS, Handles, NoEnvelope
<1>2. /\ PendingInv' /\ wire' \in Seq(Lines) /\ buffered' \in Seq(Lines) /\ txn' \in Nat
      /\ smtp.stage = "commands"
    BY <1>1, HandledLine
<1>3. smtp \in [mail : BOOLEAN, stage : {"commands", "chunk", "body"}]
    BY DEF SmtpInv, SmtpTypes
<1>4. /\ smtp' \in [mail : BOOLEAN, stage : {"commands", "chunk", "body"}]
      /\ smtp'.stage = "commands" /\ ~smtp'.mail
    BY <1>1, <1>2, <1>3
<1>5. SmtpTypes'
    <2>1. session' \in [from : Lines \union {None}, recipients : Seq(Lines)]
        BY <1>1
    <2>2. pushed' \in BOOLEAN
        BY <1>1 DEF SmtpInv, SmtpTypes
    <2> QED BY <1>1, <1>2, <1>4, <2>1, <2>2 DEF SmtpTypes
<1>6. AskedInv'
    BY <1>1, <1>4, HandledLine DEF AskedInv
<1>7. StageInv' /\ SessionInv' /\ TeeInv' /\ CompleteInv'
    BY <1>1, <1>4 DEF StageInv, SessionInv, TeeInv, CompleteInv, ToSet
<1>8. OwnTransactionOnly' /\ WellSpacedIsComplete'
    BY <1>1 DEF SmtpInv, OwnTransactionOnly, WellSpacedIsComplete
<1> QED BY <1>2, <1>5, <1>6, <1>7, <1>8 DEF SmtpInv

LEMMA LineIsALine ==
    ASSUME SmtpInv, NEW to \in Addresses \union {None},
           NEW kind \in {"MAIL", "RSET", "DATA", "BDAT", "RCPT", "STARTTLS", "BODY"}
    PROVE  /\ Line(kind, to) \in Lines /\ Line(kind, to).kind = kind
           /\ Line(kind, to).txn = txn /\ Line(kind, to).ahead = Pipelined
<1>1. txn \in Nat /\ Pipelined \in BOOLEAN
    BY DEF SmtpInv, SmtpTypes, Pipelined
<1> QED BY <1>1 DEF Line, Lines

LEMMA SmtpStep == SmtpInv /\ [SmtpNext]_smtpVars => SmtpInv'
<1> SUFFICES ASSUME SmtpInv, [SmtpNext]_smtpVars PROVE SmtpInv'
    OBVIOUS
<1>1. CASE SendCommand
    <2>1. PICK kind \in {"MAIL", "RSET", "RCPT"}, to \in Addresses \union {None} :
              /\ ClientSends(Line(kind, to))
              /\ waits = "none" /\ waits' = "none" /\ pushed' = pushed
        BY <1>1 DEF SendCommand
    <2>2. PICK l \in Lines : l = Line(kind, to)
        BY LineIsALine
    <2>3. l.kind = kind /\ l.txn = txn /\ l.ahead = Pipelined
        BY <2>2, LineIsALine
    <2> QED BY <2>1, <2>2, <2>3, SendKeeps
<1>2. CASE SendAndWait
    <2>1. PICK kind \in {"DATA", "STARTTLS"} :
              /\ ClientSends(Line(kind, None))
              /\ waits = "none" /\ waits' = "reply" /\ pushed' = pushed
        BY <1>2 DEF SendAndWait
    <2>2. PICK l \in Lines : l = Line(kind, None)
        BY LineIsALine
    <2>3. l.kind = kind /\ l.txn = txn /\ l.ahead = Pipelined
        BY <2>2, LineIsALine
    <2> QED BY <2>1, <2>2, <2>3, SendKeeps
<1>3. CASE SendAndPush
    <2>1. PICK kind \in {"DATA", "BDAT"} :
              /\ ClientSends(Line(kind, None))
              /\ waits = "none" /\ waits' = "body" /\ pushed' = TRUE
        BY <1>3 DEF SendAndPush
    <2>2. PICK l \in Lines : l = Line(kind, None)
        BY LineIsALine
    <2>3. l.kind = kind /\ l.txn = txn /\ l.ahead = Pipelined
        BY <2>2, LineIsALine
    <2> QED BY <2>1, <2>2, <2>3, SendKeeps
<1>4. CASE SendBody
    <2>1. PICK to \in Addresses \union {None} :
              /\ ClientSends(Line("BODY", to))
              /\ waits = "body" /\ waits' = "none" /\ pushed' = pushed
        BY <1>4 DEF SendBody
    <2>2. PICK l \in Lines : l = Line("BODY", to)
        BY LineIsALine
    <2>3. l.kind = "BODY" /\ l.txn = txn /\ l.ahead = Pipelined
        BY <2>2, LineIsALine
    <2> QED BY <2>1, <2>2, <2>3, SendKeeps
<1>5. CASE DataEnds
    <2>1. /\ buffered # <<>> /\ Head(buffered).kind = "BODY" /\ buffered' = Tail(buffered)
          /\ smtp' = [mail |-> FALSE, stage |-> "commands"] /\ Reset /\ data' = None
          /\ UNCHANGED <<wire, waits, pushed, txn, sent>>
        BY <1>5 DEF DataEnds, Handles
    <2> QED BY <2>1, ResetKeeps DEF Resets
<1>6. CASE Rset
    <2>1. /\ buffered # <<>> /\ Head(buffered).kind = "RSET" /\ buffered' = Tail(buffered)
          /\ smtp' = [smtp EXCEPT !.mail = FALSE] /\ Reset
          /\ UNCHANGED <<wire, waits, pushed, txn, sent, data>>
        BY <1>6 DEF Rset, Handles
    <2>2. smtp.stage = "commands"
        BY <2>1, HandledLine
    <2>3. smtp' \in [mail : BOOLEAN, stage : {"commands"}] /\ ~smtp'.mail
        BY <2>1, <2>2 DEF SmtpInv, SmtpTypes
    <2> QED BY <2>1, <2>3, ResetKeeps DEF Resets
<1>7. CASE UNCHANGED smtpVars
    <2>1. UNCHANGED <<wire, buffered, waits, pushed, txn, sent, tee, smtp, session, data>>
        BY <1>7 DEF smtpVars
    <2>2. UNCHANGED <<Pending, CurrentTxn>>
        BY <2>1 DEF CurrentTxn, Pending
    <2>3. SmtpTypes' /\ PendingInv' /\ StageInv' /\ AskedInv'
        BY <2>1, <2>2 DEF SmtpInv, SmtpTypes, PendingInv, StageInv, BodyNext, AskedInv
    <2>4. SessionInv' /\ TeeInv' /\ CompleteInv'
        BY <2>1, <2>2 DEF SmtpInv, SessionInv, TeeInv, CompleteInv, InTee
    <2>5. OwnTransactionOnly' /\ WellSpacedIsComplete'
        BY <2>1 DEF SmtpInv, OwnTransactionOnly, WellSpacedIsComplete
    <2> QED BY <2>3, <2>4, <2>5 DEF SmtpInv
<1> QED BY <1>1, <1>2, <1>3, <1>4, <1>5, <1>6, <1>7, ReadKeeps, MailKeeps, RcptKeeps, DataKeeps,
           BdatKeeps, ChunkDataKeeps, BodyAsCommandsKeeps, StartTLSKeeps
        DEF SmtpNext, Quit

(* While Data is under way the body is the next line, and every recipient sent  *)
(* in time and read is in the tee or the tee was full, whatever the client      *)
(* pipelines or pushes; while it pushes no body the session holds one           *)
(* transaction, and so does the tee unless the chunk go-smtp has read spans a   *)
(* reset (teeConn.Read, smtpSession.Data and Reset).                            *)
THEOREM SmtpInvariant == SmtpSpec => []SmtpInv
<1> QED BY SmtpInitially, SmtpStep, PTL DEF SmtpSpec

(* However the client pipelines its commands, as long as it has pushed no body  *)
(* the envelope that smtpSession.Data takes from the tee, or from the session   *)
(* where the tee has nothing, is of the transaction that DATA ends.             *)
THEOREM OwnTransactions == SmtpSpec => []OwnTransactionOnly
<1>1. SmtpInv => OwnTransactionOnly
    BY DEF SmtpInv
<1> QED BY <1>1, SmtpInvariant, PTL

(* smtpSession.Data passes on every accepted recipient if each was sent in time *)
(* and has a raw path, and the tee was not full, for DATA and for BDAT, be the  *)
(* body pushed or not and the chunk read before or after the snapshot.          *)
THEOREM WellSpacedComplete == SmtpSpec => []WellSpacedIsComplete
<1>1. SmtpInv => WellSpacedIsComplete
    BY DEF SmtpInv
<1> QED BY <1>1, SmtpInvariant, PTL

-------------------------------------------------------------------------------
(* Responses.  Names are sequences of labels.  Two suffixes of a name are       *)
(* suffixes of one another, so the first match among the sorted domains is the  *)
(* most specific one; the answers are then a case analysis.                     *)

Labels ==
    (UNION {ToSet(n) : n \in Domains \union Names}) \union {"wild", "ns1", "ns2", "mail"}

LEMMA OwnLabels == {"wild", "ns1", "ns2", "mail"} \subseteq Labels
<1>1. PICK u : u = UNION {ToSet(n) : n \in Domains \union Names}
    OBVIOUS
<1>2. Labels = u \union {"wild", "ns1", "ns2", "mail"}
    BY <1>1 DEF Labels
<1> QED BY <1>2

LEMMA NamesAreSequences == \A n \in Domains \union Names \union {<<>>} : n \in Seq(Labels)
<1>1. <<>> \in Seq(Labels)
    OBVIOUS
<1>2. ASSUME NEW n \in Domains \union Names
      PROVE  n \in Seq(Labels)
    <2>1. n \in Seq(ToSet(n)) /\ ToSet(n) \subseteq Labels
        BY RespAssumption DEF Labels
    <2> QED BY <2>1
<1> QED BY <1>1, <1>2

LEMMA Reversed ==
    ASSUME NEW s \in Seq(Labels)
    PROVE  /\ Reverse(s) \in Seq(Labels) /\ Len(Reverse(s)) = Len(s)
           /\ \A i \in 1 .. Len(s) : Reverse(s)[i] = s[Len(s) - i + 1]
<1>1. Len(s) \in Nat /\ DOMAIN s = 1 .. Len(s) /\ \A i \in 1 .. Len(s) : s[i] \in Labels
    OBVIOUS
<1>2. \A i \in 1 .. Len(s) : Len(s) - i + 1 \in 1 .. Len(s)
    BY <1>1
<1>3. PICK r : r = [i \in 1 .. Len(s) |-> s[Len(s) - i + 1]]
    OBVIOUS
<1>4. r \in [1 .. Len(s) -> Labels]
    BY <1>1, <1>2, <1>3
<1>5. r \in Seq(Labels) /\ Len(r) = Len(s)
    BY <1>1, <1>4
<1> QED BY <1>3, <1>5 DEF Reverse

\* s is a suffix of t when they agree backwards, as far as s goes.
LEMMA Backwards ==
    ASSUME NEW s \in Seq(Labels), NEW t \in Seq(Labels)
    PROVE  IsSuffix(s, t) <=>
              Len(s) <= Len(t) /\ \A i \in 1 .. Len(s) : s[Len(s) - i + 1] = t[Len(t) - i + 1]
<1>1. PICK r \in Seq(Labels) : r = Reverse(s)
    BY Reversed
<1>2. PICK u \in Seq(Labels) : u = Reverse(t)
    BY Reversed
<1>3. Len(r) = Len(s) /\ Len(u) = Len(t) /\ Len(s) \in Nat /\ Len(t) \in Nat
    BY <1>1, <1>2, Reversed
<1>4. IsSuffix(s, t) <=> Len(r) <= Len(u) /\ SubSeq(r, 1, Len(r)) = SubSeq(u, 1, Len(r))
    BY <1>1, <1>2 DEF IsSuffix, IsPrefix
<1>5. ASSUME Len(r) <= Len(u)
      PROVE  SubSeq(r, 1, Len(r)) = SubSeq(u, 1, Len(r)) <=> \A i \in 1 .. Len(r) : r[i] = u[i]
    <2>1. /\ SubSeq(r, 1, Len(r)) \in Seq(Labels) /\ Len(SubSeq(r, 1, Len(r))) = Len(r)
          /\ \A i \in 1 .. Len(r) : SubSeq(r, 1, Len(r))[i] = r[i]
        BY <1>3
    <2>2. /\ SubSeq(u, 1, Len(r)) \in Seq(Labels) /\ Len(SubSeq(u, 1, Len(r))) = Len(r)
          /\ \A i \in 1 .. Len(r) : SubSeq(u, 1, Len(r))[i] = u[i]
        BY <1>3, <1>5
    <2>3. PICK v \in Seq(Labels), w \in Seq(Labels) : v = SubSeq(r, 1, Len(r)) /\ w = SubSeq(u, 1, Len(r))
        BY <2>1, <2>2
    <2>4. (\A i \in 1 .. Len(v) : v[i] = w[i]) => v = w
        BY <2>1, <2>2, <2>3, SeqEqual
    <2> QED BY <2>1, <2>2, <2>3, <2>4
<1>6. \A i \in 1 .. Len(s) : r[i] = s[Len(s) - i + 1]
    BY <1>1, Reversed
<1>7. Len(s) <= Len(t) => \A i \in 1 .. Len(s) : u[i] = t[Len(t) - i + 1]
    <2>1. \A i \in 1 .. Len(t) : u[i] = t[Len(t) - i + 1]
        BY <1>2, Reversed
    <2>2. Len(s) <= Len(t) => \A i \in 1 .. Len(s) : i \in 1 .. Len(t)
        BY <1>3
    <2> QED BY <2>1, <2>2
<1> QED BY <1>3, <1>4, <1>5, <1>6, <1>7

LEMMA SuffixesNest ==
    ASSUME NEW d \in Seq(Labels), NEW e \in Seq(Labels), NEW n \in Seq(Labels),
           IsSuffix(d, n), IsSuffix(e, n), Len(d) <= Len(e)
    PROVE  IsSuffix(d, e)
<1>1. \A i \in 1 .. Len(d) : d[Len(d) - i + 1] = n[Len(n) - i + 1]
    BY Backwards
<1>2. \A i \in 1 .. Len(e) : e[Len(e) - i + 1] = n[Len(n) - i + 1]
    BY Backwards
<1>3. \A i \in 1 .. Len(d) : i \in 1 .. Len(e)
    OBVIOUS
<1> QED BY <1>1, <1>2, <1>3, Backwards

LEMMA Below ==
    ASSUME NEW d \in Seq(Labels), NEW l \in Labels
    PROVE  /\ <<l>> \o d \in Seq(Labels) /\ Len(<<l>> \o d) = Len(d) + 1
           /\ (<<l>> \o d)[1] = l /\ IsSuffix(d, <<l>> \o d)
<1>1. PICK h \in Seq(Labels) : h = <<l>>
    <2>1. <<l>> \in Seq(Labels)
        OBVIOUS
    <2> QED BY <2>1
<1>2. Len(h) = 1 /\ h[1] = l /\ Len(d) \in Nat
    BY <1>1
<1>3. PICK n \in Seq(Labels) : n = h \o d
    <2>1. h \o d \in Seq(Labels)
        BY ConcatProperties
    <2> QED BY <2>1
<1>4. Len(n) = Len(d) + 1 /\ n[1] = l /\ \A j \in 1 .. Len(d) : n[1 + j] = d[j]
    <2>1. /\ Len(n) = Len(h) + Len(d)
          /\ \A i \in 1 .. Len(h) + Len(d) : n[i] = IF i <= Len(h) THEN h[i] ELSE d[i - Len(h)]
        BY <1>3, ConcatProperties
    <2>2. Len(n) = Len(d) + 1 /\ 1 \in 1 .. Len(h) + Len(d)
        BY <1>2, <2>1
    <2>3. \A j \in 1 .. Len(d) : 1 + j \in 1 .. Len(h) + Len(d) /\ ~(1 + j <= Len(h)) /\ 1 + j - Len(h) = j
        BY <1>2
    <2> QED BY <1>2, <2>1, <2>2, <2>3
<1>5. ASSUME NEW i \in 1 .. Len(d)
      PROVE  d[Len(d) - i + 1] = n[Len(n) - i + 1]
    <2>1. PICK j \in 1 .. Len(d) : j = Len(d) - i + 1
        <3>1. Len(d) - i + 1 \in 1 .. Len(d)
            BY <1>2
        <3> QED BY <3>1
    <2>2. 1 + j = Len(n) - i + 1
        BY <1>2, <1>4, <2>1
    <2> QED BY <1>4, <2>1, <2>2
<1>6. IsSuffix(d, n)
    <2>1. Len(d) <= Len(n)
        BY <1>2, <1>4
    <2> QED BY <1>5, <2>1, Backwards
<1> QED BY <1>1, <1>3, <1>4, <1>6

\* The first of the domains that match is the most specific one.
LEMMA MostSpecific ==
    ASSUME order \in Orders, NEW n \in Seq(Labels)
    PROVE  /\ Head(order) \in Domains
           /\ MatchedDomain(n) = Absent <=> ~\E e \in Domains : IsSuffix(e, n)
           /\ MatchedDomain(n) # Absent =>
                 /\ MatchedDomain(n) \in Domains /\ IsSuffix(MatchedDomain(n), n)
                 /\ \A e \in Domains : IsSuffix(e, n) => Len(e) <= Len(MatchedDomain(n))
<1>1. PICK c \in Nat : c = Cardinality(Domains)
    BY RespAssumption, FS_CardinalityType
<1>2. order \in [1 .. c -> Domains] /\ ToSet(order) = Domains /\ Sorted(order)
    BY <1>1 DEF Orders
<1>3. c > 0
    <2> SUFFICES ASSUME c = 0 PROVE FALSE
        BY <1>1
    <2>1. Domains = {}
        BY <1>1, RespAssumption, FS_EmptySet
    <2> QED BY <2>1, RespAssumption
<1>4. Head(order) \in Domains
    <2>1. order \in Seq(Domains) /\ Len(order) = c
        BY <1>1, <1>2
    <2> QED BY <1>3, <2>1
<1> DEFINE M == {i \in DOMAIN order : IsSuffix(order[i], n)}
<1>5. CASE M = {}
    <2>1. MatchedDomain(n) = Absent
        BY <1>5 DEF MatchedDomain
    <2>2. \A e \in Domains : \E i \in DOMAIN order : e = order[i]
        BY <1>2 DEF ToSet
    <2> QED BY <1>4, <1>5, <2>1, <2>2
<1>6. CASE M # {}
    <2>1. M \subseteq Nat
        BY <1>2
    <2>2. \E i \in M : \A j \in M : i <= j
        <3> HIDE DEF M
        <3> QED BY <1>6, <2>1, LeastElement
    <2>3. PICK m : m = Min(M)
        OBVIOUS
    <2>4. m \in M /\ \A j \in M : m <= j
        <3> HIDE DEF M
        <3> QED BY <2>2, <2>3 DEF Min
    <2>5. PICK d \in Domains : d = order[m] /\ IsSuffix(d, n)
        BY <1>2, <2>4
    <2>6. MatchedDomain(n) = d /\ d # Absent
        BY <1>6, <2>3, <2>5, RespAssumption DEF MatchedDomain
    <2>7. ASSUME NEW e \in Domains, IsSuffix(e, n), Len(e) > Len(d)
          PROVE  FALSE
        <3>1. PICK j \in DOMAIN order : e = order[j]
            BY <1>2 DEF ToSet
        <3>2. j \in M /\ m # j
            BY <2>5, <2>7, <3>1, NamesAreSequences
        <3>3. m < j
            BY <2>1, <2>4, <3>2
        <3>4. LengthOf(d) >= LengthOf(e)
            <4>1. m \in DOMAIN order /\ LengthOf(order[m]) >= LengthOf(order[j])
                BY <1>2, <2>4, <3>1, <3>3 DEF Sorted
            <4> QED BY <2>5, <3>1, <4>1
        <3>5. d \in Seq(Labels) /\ e \in Seq(Labels) /\ Len(d) <= Len(e)
            <4>1. d \in Seq(Labels) /\ e \in Seq(Labels)
                BY NamesAreSequences
            <4> QED BY <2>7, <4>1
        <3>6. IsSuffix(d, e)
            BY <2>5, <2>7, <3>5, SuffixesNest
        <3>7. d # e
            BY <2>7, <3>5
        <3>8. LengthOf(d) < LengthOf(e) /\ LengthOf(e) \in Nat /\ LengthOf(d) \in Nat
            BY <3>6, <3>7, SuffixAssumption
        <3> QED BY <3>4, <3>8
    <2>8. \A e \in Domains : IsSuffix(e, n) => Len(e) <= Len(d)
        <3>1. \A e \in Domains : Len(e) \in Nat /\ Len(d) \in Nat
            BY NamesAreSequences
        <3> QED BY <2>7, <3>1
    <2> QED BY <1>4, <2>5, <2>6, <2>8
<1> QED BY <1>5, <1>6

AnswerTo(q) ==
    CASE q.kind = "dns" -> HandleDNS(q.name, q.type, q.file)
      [] q.kind = "http" -> ServeDefault(q.cfg, q.request, q.matched, q.stored)
      [] q.kind = "tls" -> ServerName(q.name)

RespInv ==
    /\ AskedDNS \/ AskedTLS \/ AskedHTTP
    /\ answer # Absent => \A q \in {question} : answer = AnswerTo(q)

LEMMA SameAnswer ==
    ASSUME NEW q, UNCHANGED <<order, ips>>
    PROVE  AnswerTo(q)' = AnswerTo(q)
<1>1. ASSUME NEW n
      PROVE  MatchedDomain(n)' = MatchedDomain(n)
    BY DEF MatchedDomain
<1>2. ASSUME NEW n
      PROVE  ServerName(n)' = ServerName(n)
    BY <1>1 DEF ServerName, DomainOrFirst
<1>3. ASSUME NEW n
      PROVE  A(n)' = A(n) /\ AAAA(n)' = AAAA(n)
    BY DEF A, AAAA
<1>4. ASSUME NEW d
      PROVE  GlueRecords(d)' = GlueRecords(d)
    BY <1>3 DEF GlueRecords
<1>5. ASSUME NEW rrs, NEW d
      PROVE  PositiveOrNODATA(rrs, d)' = PositiveOrNODATA(rrs, d)
    BY <1>4 DEF PositiveOrNODATA
<1>6. ASSUME NEW n, NEW t, NEW d
      PROVE  /\ DefaultResponse(n, t, d)' = DefaultResponse(n, t, d)
             /\ ACMEResponse(n, t, d)' = ACMEResponse(n, t, d)
    BY <1>3, <1>5 DEF DefaultResponse, ACMEResponse
<1>7. ASSUME NEW n, NEW t, NEW f
      PROVE  HandleDNS(n, t, f)' = HandleDNS(n, t, f)
    BY <1>1, <1>6 DEF HandleDNS
<1> QED BY <1>2, <1>7 DEF AnswerTo

LEMMA RespInitially == RespInit => RespInv
    BY DEF RespInit, RespInv

LEMMA RespStep == RespInv /\ [RespNext]_respVars => RespInv'
<1> SUFFICES ASSUME RespInv, [RespNext]_respVars PROVE RespInv'
    OBVIOUS
<1>1. UNCHANGED <<order, ips, question>>
    BY DEF RespNext, AnswerDNS, AnswerHTTP, AskForCertificate, Answered, respVars
<1>2. (AskedDNS \/ AskedTLS \/ AskedHTTP)'
    BY <1>1 DEF RespInv, AskedDNS, AskedTLS, AskedHTTP, Orders, Sorted
<1>3. PICK q : q = question
    OBVIOUS
<1>4. answer' = AnswerTo(q) \/ answer' = answer
    <2>1. CASE AnswerDNS
        BY <1>3, <2>1 DEF AnswerDNS, Asks, AnswerTo
    <2>2. CASE AnswerHTTP
        BY <1>3, <2>2 DEF AnswerHTTP, Asks, AnswerTo
    <2>3. CASE AskForCertificate
        BY <1>3, <2>3 DEF AskForCertificate, Asks, AnswerTo
    <2>4. CASE Answered \/ UNCHANGED respVars
        BY <2>4 DEF Answered, respVars
    <2> QED BY <2>1, <2>2, <2>3, <2>4 DEF RespNext
<1>5. answer' # Absent => answer' = AnswerTo(q)
    BY <1>3, <1>4 DEF RespInv
<1>6. answer' # Absent => answer' = AnswerTo(q)'
    BY <1>1, <1>5, SameAnswer
<1> QED BY <1>1, <1>2, <1>3, <1>6 DEF RespInv

LEMMA DNSAnswered ==
    ASSUME RespInv, Has("dns")
    PROVE  /\ AskedDNS /\ order \in Orders /\ question.name \in Names
           /\ answer = HandleDNS(question.name, question.type, question.file)
<1>1. AskedDNS
    BY DEF RespInv, Has, AskedTLS, AskedHTTP
<1> QED BY <1>1 DEF RespInv, Has, AnswerTo, AskedDNS

LEMMA TLSAnswered ==
    ASSUME RespInv, Has("tls")
    PROVE  order \in Orders /\ question.name \in Names \union {<<>>} /\ answer = ServerName(question.name)
<1>1. AskedTLS
    BY DEF RespInv, Has, AskedDNS, AskedHTTP
<1> QED BY <1>1 DEF RespInv, Has, AnswerTo, AskedTLS

LEMMA HTTPAnswered ==
    ASSUME RespInv, Has("http")
    PROVE  /\ AskedHTTP
           /\ answer = ServeDefault(question.cfg, question.request, question.matched, question.stored)
<1>1. AskedHTTP
    BY DEF RespInv, Has, AskedTLS, AskedDNS
<1> QED BY <1>1 DEF RespInv, Has, AnswerTo

LEMMA RespCertificate == RespInv => CertificateFits
<1> SUFFICES ASSUME RespInv, Has("tls")
             PROVE  \E d \in Domains :
                       /\ IsSuffix(d, answer) /\ Len(answer) <= Len(d) + 1
                       /\ \A e \in Domains : IsSuffix(e, question.name) =>
                              IsSuffix(d, question.name) /\ Len(e) <= Len(d)
    BY DEF CertificateFits
<1>1. order \in Orders /\ question.name \in Names \union {<<>>} /\ answer = ServerName(question.name)
    BY TLSAnswered
<1>2. PICK n \in Seq(Labels) : n = question.name
    BY <1>1, NamesAreSequences
<1>3. "wild" \in Labels
    BY OwnLabels
<1>4. CASE MatchedDomain(n) = Absent
    <2>1. PICK d \in Domains : d = Head(order)
        BY <1>1, <1>2, MostSpecific
    <2>2. answer = <<"wild">> \o d
        BY <1>1, <1>2, <1>4, <2>1 DEF ServerName, DomainOrFirst
    <2>3. \A e \in Domains : ~IsSuffix(e, n)
        BY <1>1, <1>2, <1>4, MostSpecific
    <2>4. d \in Seq(Labels)
        BY NamesAreSequences
    <2>5. IsSuffix(d, answer) /\ Len(answer) = Len(d) + 1
        BY <1>3, <2>2, <2>4, Below
    <2> QED BY <1>2, <2>3, <2>4, <2>5
<1>5. CASE MatchedDomain(n) # Absent
    <2>1. PICK d \in Domains : d = MatchedDomain(n)
        BY <1>1, <1>2, <1>5, MostSpecific
    <2>2. IsSuffix(d, n) /\ \A e \in Domains : IsSuffix(e, n) => Len(e) <= Len(d)
        BY <1>1, <1>2, <1>5, <2>1, MostSpecific
    <2>3. d \in Seq(Labels) /\ Len(d) \in Nat
        <3>1. d \in Seq(Labels)
            BY NamesAreSequences
        <3> QED BY <3>1
    <2>4. CASE Covered(n, d)
        <3>1. answer = n /\ Len(n) <= Len(d) + 1
            BY <1>1, <1>2, <1>5, <2>1, <2>4 DEF ServerName, Covered
        <3> QED BY <1>2, <2>2, <3>1
    <2>5. CASE ~Covered(n, d)
        <3>1. answer = <<"wild">> \o d
            BY <1>1, <1>2, <1>5, <2>1, <2>5 DEF ServerName, DomainOrFirst
        <3>2. IsSuffix(d, answer) /\ Len(answer) = Len(d) + 1
            BY <1>3, <2>3, <3>1, Below
        <3> QED BY <1>2, <2>2, <2>3, <3>2
    <2> QED BY <2>4, <2>5
<1> QED BY <1>4, <1>5

DataOf(rrs) == {rr.data : rr \in rrs}
Named(rrs, host) == {g \in rrs : g.name = host}
AllAddresses == {<<ip>> : ip \in ips.v4 \union ips.v6}

LEMMA DataOfAddresses == ASSUME NEW host PROVE DataOf(A(host) \union AAAA(host)) = AllAddresses
<1>1. ASSUME NEW ip \in ips.v4 \union ips.v6
      PROVE  <<ip>> \in DataOf(A(host) \union AAAA(host))
    <2>1. \/ RR(host, "A", <<ip>>) \in A(host) \/ RR(host, "AAAA", <<ip>>) \in AAAA(host)
        BY DEF A, AAAA
    <2>2. RR(host, "A", <<ip>>).data = <<ip>> /\ RR(host, "AAAA", <<ip>>).data = <<ip>>
        BY DEF RR
    <2>3. PICK rr \in A(host) \union AAAA(host) : rr.data = <<ip>>
        BY <2>1, <2>2
    <2> QED BY <2>3 DEF DataOf
<1>2. ASSUME NEW rr \in A(host) \union AAAA(host)
      PROVE  rr.data \in AllAddresses
    BY DEF A, AAAA, RR, AllAddresses
<1> QED BY <1>1, <1>2 DEF DataOf, AllAddresses

\* A name one label below a configured domain, as the server asks itself.
LEMMA OwnHost ==
    ASSUME order \in Orders, NEW d \in Domains, NEW l \in {"ns1", "ns2", "mail"}, NEW f,
           NEW host, host = <<l>> \o d, MatchedDomain(host) # Absent =>
               ExtractSubdomain(host, MatchedDomain(host)) \notin DOMAIN CustomRecords(f)
    PROVE  DataOf(HandleDNS(host, "ANY", f).answer) = AllAddresses
<1>1. d \in Seq(Labels) /\ l \in Labels
    BY NamesAreSequences, OwnLabels
<1>2. host \in Seq(Labels) /\ host[1] = l /\ IsSuffix(d, host)
    BY <1>1, Below
<1>3. MatchedDomain(host) # Absent
    BY <1>2, MostSpecific
<1>4. PICK m \in Domains : m = MatchedDomain(host)
    BY <1>2, <1>3, MostSpecific
<1>5. PICK sub : sub = ExtractSubdomain(host, m)
    OBVIOUS
<1>6. sub # <<>> => Head(sub) = l
    <2>1. m \in Seq(Labels) /\ Len(m) \in Nat /\ Len(host) \in Nat
        <3>1. m \in Seq(Labels)
            BY NamesAreSequences
        <3> QED BY <1>2, <3>1
    <2>2. sub = SubSeq(host, 1, Len(host) - Len(m))
        BY <1>5 DEF ExtractSubdomain
    <2>3. CASE Len(host) - Len(m) >= 1
        <3>1. PICK k \in 1 .. Len(host) : k = Len(host) - Len(m)
            <4>1. Len(host) - Len(m) \in 1 .. Len(host)
                BY <2>1, <2>3
            <4> QED BY <4>1
        <3>2. /\ SubSeq(host, 1, k) \in Seq(Labels) /\ Len(SubSeq(host, 1, k)) = k
              /\ SubSeq(host, 1, k)[1] = host[1]
            BY <1>2, <3>1
        <3>3. Head(SubSeq(host, 1, k)) = host[1]
            BY <3>2
        <3> QED BY <1>2, <2>2, <3>1, <3>3
    <2>4. CASE ~(Len(host) - Len(m) >= 1)
        BY <1>2, <2>1, <2>2, <2>4
    <2> QED BY <2>3, <2>4
<1>7. sub \notin DOMAIN CustomRecords(f)
    BY <1>3, <1>4, <1>5
<1>8. ~(sub # <<>> /\ Head(sub) = "_acme-challenge")
    BY <1>6
<1>9. HandleDNS(host, "ANY", f) = DefaultResponse(host, "ANY", m)
    BY <1>3, <1>4, <1>5, <1>7, <1>8 DEF HandleDNS
<1>10. DefaultResponse(host, "ANY", m) = PositiveOrNODATA(A(host) \union AAAA(host), m)
    BY DEF DefaultResponse
<1>11. PositiveOrNODATA(A(host) \union AAAA(host), m).answer = A(host) \union AAAA(host)
    BY DEF PositiveOrNODATA, Section
<1> QED BY <1>9, <1>10, <1>11, DataOfAddresses

\* The names in an answer to a name without an operator's record.
LEMMA HandedOut ==
    ASSUME order \in Orders, NEW n \in Seq(Labels), NEW t, NEW f, NEW a, a = HandleDNS(n, t, f),
           MatchedDomain(n) # Absent =>
               ExtractSubdomain(n, MatchedDomain(n)) \notin DOMAIN CustomRecords(f),
           NEW rr \in a.answer \union a.ns, rr.type \in {"NS", "MX", "SOA"}
    PROVE  \E d \in Domains, l \in {"ns1", "ns2", "mail"} :
              /\ rr.data = <<l>> \o d
              /\ rr \in a.ns /\ rr.type = "NS" => a.extra = GlueRecords(d) /\ l \in {"ns1", "ns2"}
<1>1. CASE MatchedDomain(n) = Absent
    <2>1. a = Section({}, {}, {})
        BY <1>1 DEF HandleDNS
    <2> QED BY <2>1 DEF Section
<1>2. CASE MatchedDomain(n) # Absent
    <2>1. PICK d \in Domains : d = MatchedDomain(n)
        BY <1>2, MostSpecific
    <2>2. a = ACMEResponse(n, t, d) \/ a = DefaultResponse(n, t, d)
        <3>1. PICK sub : sub = ExtractSubdomain(n, d)
            OBVIOUS
        <3>2. sub \notin DOMAIN CustomRecords(f)
            BY <1>2, <2>1, <3>1
        <3> QED BY <1>2, <2>1, <3>1, <3>2 DEF HandleDNS
    <2>3. \A x \in A(n) \union AAAA(n) : x.type \notin {"NS", "MX", "SOA"}
        BY DEF A, AAAA, RR
    <2>4. \A x \in NS(n, d) \union NS(d, d) : x.type = "NS" /\ \E l \in {"ns1", "ns2"} : x.data = <<l>> \o d
        BY DEF NS, RR
    <2>5. \A x \in SOA(n, d) \union SOA(d, d) : x.type = "SOA" /\ x.data = <<"ns1">> \o d
        BY DEF SOA, RR
    <2>6. CASE a = ACMEResponse(n, t, d)
        <3>1. a.ns = {} /\ a.answer \in {SOA(n, d), NS(n, d), A(n), AAAA(n), {}}
            BY <2>6 DEF ACMEResponse, Section
        <3> QED BY <2>3, <2>4, <2>5, <3>1
    <2>7. CASE a = DefaultResponse(n, t, d)
        <3>1. CASE \E rrs \in SUBSET (A(n) \union AAAA(n)) : a = PositiveOrNODATA(rrs, d)
            <4>1. PICK rrs \in SUBSET (A(n) \union AAAA(n)) : a = PositiveOrNODATA(rrs, d)
                BY <3>1
            <4>2. \/ a.answer = rrs /\ a.ns = NS(d, d) /\ a.extra = GlueRecords(d)
                  \/ a.answer = {} /\ a.ns = SOA(d, d)
                BY <4>1 DEF PositiveOrNODATA, Section
            <4>3. CASE rr \in a.answer
                BY <2>3, <4>2, <4>3
            <4>4. CASE rr \in a.ns
                BY <2>4, <2>5, <4>2, <4>4
            <4> QED BY <4>3, <4>4
        <3>2. CASE a = Section({RR(n, "MX", <<"mail">> \o d)}, {}, {})
            BY <3>2 DEF Section, RR
        <3>3. CASE a = Section(NS(n, d), {}, {}) \/ a = Section(SOA(n, d), {}, {})
            BY <2>4, <2>5, <3>3 DEF Section
        <3>4. CASE a = Section({RR(n, "TXT", <<>>)}, {}, {}) \/ a = Section({}, {}, {})
            BY <3>4 DEF Section, RR
        <3>5. \/ a = PositiveOrNODATA(A(n), d) \/ a = PositiveOrNODATA(AAAA(n), d)
              \/ a = PositiveOrNODATA(A(n) \union AAAA(n), d)
              \/ a = Section({RR(n, "MX", <<"mail">> \o d)}, {}, {})
              \/ a = Section(NS(n, d), {}, {}) \/ a = Section(SOA(n, d), {}, {})
              \/ a = Section({RR(n, "TXT", <<>>)}, {}, {}) \/ a = Section({}, {}, {})
            BY <2>7 DEF DefaultResponse
        <3> QED BY <3>1, <3>2, <3>3, <3>4, <3>5
    <2> QED BY <2>2, <2>6, <2>7
<1> QED BY <1>1, <1>2

\* What the glue says of a name server.
LEMMA GlueOf ==
    ASSUME NEW d, NEW l \in {"ns1", "ns2"}, NEW host, host = <<l>> \o d
    PROVE  DataOf(Named(GlueRecords(d), host)) = AllAddresses
<1>1. ASSUME NEW g, g.name = host
      PROVE  g \in GlueRecords(d) <=> g \in A(host) \union AAAA(host)
    <2>1. RR(d, "NS", host) \in NS(d, d) /\ RR(d, "NS", host).data = host
        BY DEF NS, RR
    <2>2. ASSUME g \in A(host) \union AAAA(host)
          PROVE  g \in GlueRecords(d)
        BY <2>1, <2>2 DEF GlueRecords
    <2>3. ASSUME g \in GlueRecords(d)
          PROVE  g \in A(host) \union AAAA(host)
        <3>1. PICK ns \in NS(d, d) : g \in A(ns.data) \union AAAA(ns.data)
            BY <2>3 DEF GlueRecords
        <3>2. g.name = ns.data
            BY <3>1 DEF A, AAAA, RR
        <3> QED BY <1>1, <3>1, <3>2
    <2> QED BY <2>2, <2>3
<1>2. \A g \in A(host) \union AAAA(host) : g.name = host
    BY DEF A, AAAA, RR
<1>3. Named(GlueRecords(d), host) = A(host) \union AAAA(host)
    BY <1>1, <1>2 DEF Named
<1> QED BY <1>3, DataOfAddresses

LEMMA RespResolves == RespInv => HandedOutResolves
<1> SUFFICES ASSUME RespInv, Has("dns"), ~Overridden(question.name),
                    NEW rr \in Targets, ~Overridden(rr.data)
             PROVE  /\ Resolved(rr.data) = AllAddresses
                    /\ rr \in answer.ns /\ rr.type = "NS" => Glue(rr.data) = Resolved(rr.data)
    BY DEF HandedOutResolves, AllAddresses
<1>1. /\ order \in Orders /\ question.name \in Names
      /\ answer = HandleDNS(question.name, question.type, question.file)
    BY DNSAnswered
<1>2. PICK n \in Seq(Labels) : n = question.name
    BY <1>1, NamesAreSequences
<1>3. PICK f : f = question.file
    OBVIOUS
<1>4. rr \in answer.answer \union answer.ns /\ rr.type \in {"NS", "MX", "SOA"}
    BY DEF Targets
<1>5. MatchedDomain(n) # Absent =>
          ExtractSubdomain(n, MatchedDomain(n)) \notin DOMAIN CustomRecords(f)
    BY <1>2, <1>3 DEF Overridden
<1>6. PICK d \in Domains, l \in {"ns1", "ns2", "mail"} :
          /\ rr.data = <<l>> \o d
          /\ rr \in answer.ns /\ rr.type = "NS" => answer.extra = GlueRecords(d) /\ l \in {"ns1", "ns2"}
    BY <1>1, <1>2, <1>3, <1>4, <1>5, HandedOut
<1>7. PICK host : host = rr.data
    OBVIOUS
<1>8. MatchedDomain(host) # Absent =>
          ExtractSubdomain(host, MatchedDomain(host)) \notin DOMAIN CustomRecords(f)
    BY <1>3, <1>7 DEF Overridden
<1>9. Resolved(host) = AllAddresses
    <2>1. DataOf(HandleDNS(host, "ANY", f).answer) = AllAddresses
        BY <1>1, <1>6, <1>7, <1>8, OwnHost
    <2> QED BY <1>3, <2>1 DEF Resolved, DataOf
<1>10. ASSUME rr \in answer.ns, rr.type = "NS"
       PROVE  Glue(host) = AllAddresses
    <2>1. answer.extra = GlueRecords(d) /\ l \in {"ns1", "ns2"}
        BY <1>6, <1>10
    <2>2. DataOf(Named(GlueRecords(d), host)) = AllAddresses
        BY <1>6, <1>7, <2>1, GlueOf
    <2> QED BY <2>1, <2>2 DEF Glue, DataOf, Named
<1> QED BY <1>7, <1>9, <1>10

\* Location headers alone, in a status that may carry them.
LEMMA RedirectHeaders ==
    ASSUME NEW status \in Redirects, NEW hs \in HeaderLists, hs # <<>>,
           \A i \in DOMAIN hs : IsLocation(hs[i])
    PROVE  /\ HeadersOf(status, hs) # {}
           /\ \A h \in HeadersOf(status, hs) : IsLocation(h) /\ h.value # "host"
<1>1. ASSUME NEW i \in DOMAIN hs
      PROVE  /\ hs[i].name # Absent /\ Location(status, hs[i]) \in HeadersOf(status, hs)
    <2>1. hs[i].name = "location"
        BY <1>1 DEF IsLocation
    <2>2. hs[i].name # Absent
        BY <2>1, RespAssumption
    <2> QED BY <1>1, <2>2 DEF HeadersOf
<1>2. \E i \in DOMAIN hs : TRUE
    <2>1. CASE \E h \in Headers : hs = <<h>>
        BY <2>1
    <2>2. CASE \E g, h \in Headers : hs = <<g, h>>
        BY <2>2
    <2> QED BY <2>1, <2>2 DEF HeaderLists
<1>3. ASSUME NEW h \in HeadersOf(status, hs)
      PROVE  IsLocation(h) /\ h.value # "host"
    <2>1. PICK i \in DOMAIN hs : h = Location(status, hs[i])
        BY <1>3 DEF HeadersOf
    <2>2. PICK g \in Headers : g = hs[i]
        <3>1. hs[i] \in Headers
            BY <2>1 DEF HeaderLists
        <3> QED BY <3>1
    <2>3. IsLocation(g)
        BY <2>1, <2>2
    <2>4. CASE g.value = "host"
        <3>1. h = [g EXCEPT !.value = "url"]
            BY <2>1, <2>2, <2>3, <2>4 DEF Location
        <3>2. g = [name |-> g.name, value |-> g.value]
            BY DEF Headers
        <3>3. h.name = g.name /\ h.value = "url"
            BY <3>1, <3>2
        <3> QED BY <2>3, <3>3 DEF IsLocation
    <2>5. CASE g.value # "host"
        BY <2>1, <2>2, <2>3, <2>5 DEF Location
    <2> QED BY <2>4, <2>5
<1> QED BY <1>1, <1>2, <1>3

\* What UnauthenticatedRedirectsOnly allows.
OnlyRedirect(a) ==
    /\ a.body = "reflection"
    /\ \/ a.status = 200 /\ a.headers = {}
       \/ /\ a.status \in Redirects /\ a.headers # {}
          /\ \A h \in a.headers : IsLocation(h) /\ h.value # "host"

LEMMA AllowedIsRedirect ==
    ASSUME NEW c, IsAllowedUnauthenticated(c), c.headers \in HeaderLists, NEW from, NEW status,
           status = Clamped(c.status)
    PROVE  OnlyRedirect(Reply(from, status, HeadersOf(c.status, c.headers), "reflection"))
<1>1. c.status \in Redirects /\ c.headers # <<>> /\ \A i \in DOMAIN c.headers : IsLocation(c.headers[i])
    BY DEF IsAllowedUnauthenticated
<1>2. status = c.status
    BY <1>1 DEF Clamped, Redirects
<1>3. PICK s \in Redirects, hs \in HeaderLists : s = c.status /\ hs = c.headers
    BY <1>1
<1>4. HeadersOf(s, hs) # {} /\ \A h \in HeadersOf(s, hs) : IsLocation(h) /\ h.value # "host"
    BY <1>1, <1>3, RedirectHeaders
<1> QED BY <1>2, <1>3, <1>4 DEF OnlyRedirect, Reply

LEMMA DynamicIsRedirect ==
    ASSUME NEW cfg, NEW r \in HTTPRequests, Triggered(cfg, r), ~cfg.auth
    PROVE  OnlyRedirect(DynamicResponse(r))
<1>1. r.headers \in HeaderLists /\ r.body \in BOOLEAN
    BY DEF HTTPRequests
<1>2. CASE ~NonDelayParams(r)
    <2>1. ~HasPathBody(r) /\ ~r.body /\ r.b64 = Absent /\ r.headers = <<>> /\ r.status = Absent
        BY <1>2 DEF NonDelayParams, HasBodyParam, HasParams
    <2>2. CodeOf(r) = 0
        BY <2>1 DEF CodeOf
    <2>3. DynamicResponse(r) = Applied("dynamic", r, "reflection")
        BY <2>1, RespAssumption DEF DynamicResponse
    <2>4. HeadersOf(200, r.headers) = {}
        BY <2>1 DEF HeadersOf
    <2>5. Applied("dynamic", r, "reflection") = Reply("dynamic", 200, {}, "reflection")
        BY <2>2, <2>4 DEF Applied
    <2> QED BY <2>3, <2>5 DEF OnlyRedirect, Reply
<1>3. CASE NonDelayParams(r)
    <2>1. PICK c : c = AskedConfig(r)
        OBVIOUS
    <2>2. IsAllowedUnauthenticated(c)
        BY <1>3, <2>1 DEF Triggered
    <2>3. c.status = CodeOf(r) /\ c.headers = r.headers
        BY <2>1 DEF AskedConfig
    <2>4. ~HasPathBody(r) /\ ~r.body /\ r.b64 = Absent
        <3>1. c.body = Absent
            BY <2>2 DEF IsAllowedUnauthenticated
        <3> QED BY <2>1, <3>1, RespAssumption DEF AskedConfig, HasBodyParam
    <2>5. CodeOf(r) # 0 /\ Clamped(CodeOf(r)) = CodeOf(r)
        BY <2>2, <2>3 DEF IsAllowedUnauthenticated, Redirects, Clamped
    <2>6. DynamicResponse(r) = Applied("dynamic", r, "reflection")
        BY <2>4, RespAssumption DEF DynamicResponse
    <2>7. Applied("dynamic", r, "reflection")
              = Reply("dynamic", CodeOf(r), HeadersOf(CodeOf(r), r.headers), "reflection")
        BY <2>5 DEF Applied
    <2> QED BY <1>1, <2>2, <2>3, <2>5, <2>6, <2>7, AllowedIsRedirect
<1> QED BY <1>2, <1>3

LEMMA RespRedirects == RespInv => UnauthenticatedRedirectsOnly
<1> SUFFICES ASSUME RespInv, Has("http"), ~question.cfg.auth, answer.from \in {"dynamic", "stored"}
             PROVE  OnlyRedirect(answer)
    BY DEF UnauthenticatedRedirectsOnly, OnlyRedirect
<1>1. /\ AskedHTTP
      /\ answer = ServeDefault(question.cfg, question.request, question.matched, question.stored)
    BY HTTPAnswered
<1>2. PICK cfg, r, matched, stored :
          /\ cfg = question.cfg /\ r = question.request
          /\ matched = question.matched /\ stored = question.stored
    OBVIOUS
<1>3. r \in HTTPRequests \/ stored \in Registered(cfg)
    BY <1>1, <1>2 DEF AskedHTTP
<1>4. answer = ServeDefault(cfg, r, matched, stored)
    BY <1>1, <1>2
<1>5. \/ Triggered(cfg, r) /\ answer = DynamicResponse(r)
      \/ stored # Absent /\ IsAllowedUnauthenticated(stored) /\ answer = StoredResponse(stored)
    <2>1. ASSUME NEW s, NEW hs, NEW b, NEW f \in {"default", "static", "typed", "banner", "reflection"}
          PROVE  answer # Reply(f, s, hs, b)
        BY DEF Reply
    <2>2. answer # StaticFile(cfg, r)
        <3>1. StaticFile(cfg, r).from = "static"
            BY DEF StaticFile, NotFound, Applied, Reply
        <3> QED BY <3>1
    <2> QED BY <1>2, <1>4, <2>1, <2>2 DEF ServeDefault
<1>6. CASE stored # Absent /\ IsAllowedUnauthenticated(stored) /\ answer = StoredResponse(stored)
    <2>1. stored.headers \in HeaderLists
        BY <1>1, <1>2, <1>6 DEF AskedHTTP, Registered
    <2>2. stored.status \in Redirects /\ stored.body = Absent
        BY <1>6 DEF IsAllowedUnauthenticated
    <2>3. answer = Reply("stored", Clamped(stored.status), HeadersOf(stored.status, stored.headers), "reflection")
        BY <1>6, <2>2 DEF StoredResponse, Redirects
    <2> QED BY <1>6, <2>1, <2>3, AllowedIsRedirect
<1>7. CASE Triggered(cfg, r) /\ answer = DynamicResponse(r)
    <2>1. r \in HTTPRequests
        <3>1. PICK q : q = [path |-> "/", status |-> Absent, headers |-> <<>>,
                            body |-> FALSE, b64 |-> Absent, delay |-> FALSE]
            OBVIOUS
        <3>2. q \in HTTPRequests
            <4>1. <<>> \in HeaderLists
                BY DEF HeaderLists
            <4> QED BY <3>1, <4>1 DEF HTTPRequests, Paths
        <3>3. PICK c \in Configs, m \in BOOLEAN :
                  \/ \E x \in HTTPRequests : question.request = x
                  \/ \E x \in Registered(c) :
                        question = [kind |-> "http", cfg |-> c, matched |-> m, stored |-> x, request |-> q]
            BY <1>1, <3>1 DEF AskedHTTP
        <3>4. r \in HTTPRequests \/ r = q
            BY <1>2, <3>3
        <3> QED BY <3>2, <3>4
    <2> QED BY <1>2, <1>7, <2>1, DynamicIsRedirect
<1> QED BY <1>5, <1>6, <1>7

(* A question is one the server can be asked, over sorted domains, and its      *)
(* answer is what handleDNS, serveDefault or wildcardFallbackCertGetter makes   *)
(* of it.                                                                       *)
THEOREM RespInvariant == RespSpec => []RespInv
<1> QED BY RespInitially, RespStep, PTL DEF RespSpec

(* The name that wildcardFallbackCertGetter asks certmagic for is covered by    *)
(* the certificate of the most specific domain the client's name belongs to,    *)
(* or of any domain if it belongs to none.                                      *)
THEOREM CertificatesFit == RespSpec => []CertificateFits
<1> QED BY RespCertificate, RespInvariant, PTL

(* The name servers and mail hosts in an answer of handleDNS resolve to all of  *)
(* the server's addresses when it is asked for them, and the glue agrees.       *)
THEOREM HandedOutAlwaysResolves == RespSpec => []HandedOutResolves
<1> QED BY RespResolves, RespInvariant, PTL

(* Without authentication, what serveDefault makes of parameters or of a stored *)
(* response is the reflection, plain or in a redirect with absolute Locations.  *)
THEOREM OnlyRedirects == RespSpec => []UnauthenticatedRedirectsOnly
<1> QED BY RespRedirects, RespInvariant, PTL
===============================================================================
