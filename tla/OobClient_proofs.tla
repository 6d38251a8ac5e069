---------------------------- MODULE OobClient_proofs ----------------------------
(***************************************************************************)
(* The client of OobClient keeps one loop while it polls, loses and        *)
(* doubles no interaction, and sends no registration after Close           *)
(* deregisters: for any number of loops, slots and interactions.           *)
(*                                                                         *)
(* The argument rests on who waits for which request: a waiting poll is    *)
(* some loop's, a waiting registration the keep-alive's, a waiting         *)
(* deregistration the closer's, and only an answered poll carries          *)
(* interactions.  So every step takes interactions from one place to       *)
(* another, or leaves them where they are.                                 *)
(***************************************************************************)
EXTENDS OobClient, FiniteSetTheorems, TLAPS

Request ==
    [kind : {None, "register", "poll", "deregister"},
     phase : {"free", "sent", "answered", "failed"},
     waiting : BOOLEAN, answer : Seq(Nat)]

LoopState ==
    [pc : {"exited", "wait", "request", "callbacks"}, cancelled : BOOLEAN,
     slot : Slots \union {None}, response : Seq(Nat)]

KaState ==
    [pc : {"wait", "check", "send", "request", "done"}, cancelled : BOOLEAN,
     slot : Slots \union {None}]

CloserState ==
    [pc : {"none", "unlock", "join", "request", "returned"},
     slot : Slots \union {None}, ok : BOOLEAN]

TypeOK ==
    /\ state \in {"idle", "polling", "closed"}
    /\ locked \in BOOLEAN
    /\ loop \in [Loops -> LoopState]
    /\ ka \in KaState
    /\ closer \in CloserState
    /\ net \in [Slots -> Request]
    /\ session \in [registered : BOOLEAN, interactions : Seq(Nat)]
    /\ captured \in Nat
    /\ called \in Seq(Nat)

-------------------------------------------------------------------------------
(* Who waits for which request. *)

Polls(g, s) == loop[g].pc = "request" /\ loop[g].slot = s
Renews(s) == ka.pc = "request" /\ ka.slot = s
Deregisters(s) == closer.pc = "request" /\ closer.slot = s

WaitsFor(s, kind) == s \in Slots /\ net[s].kind = kind /\ net[s].waiting

LoopsWait ==
    /\ \A g \in Loops : loop[g].pc = "request" => WaitsFor(loop[g].slot, "poll")
    /\ \A g, h \in Loops : \A s \in Slots : Polls(g, s) /\ Polls(h, s) => g = h

KeepAliveWaits ==
    /\ ka.pc = "request" => WaitsFor(ka.slot, "register")
    /\ \A s \in Slots : WaitsFor(s, "register") => Renews(s)

CloserWaits == closer.pc = "request" => WaitsFor(closer.slot, "deregister")

Phases ==
    \A s \in Slots :
        /\ net[s].phase = "free" => ~net[s].waiting
        /\ net[s].phase \in {"answered", "failed"} => net[s].waiting
        /\ net[s].answer # <<>> => net[s].kind = "poll" /\ net[s].phase = "answered"

SlotsInv == LoopsWait /\ KeepAliveWaits /\ CloserWaits /\ Phases

-------------------------------------------------------------------------------
(* Types. *)

LEMMA UnusedIsRequest == Unused \in Request
BY DEF Unused, Request

LEMMA SentIsRequest ==
    ASSUME NEW kind \in {"register", "poll", "deregister"}
    PROVE  Sent(kind) \in Request
BY DEF Sent, Request

LEMMA ReleasedIsRequest ==
    ASSUME TypeOK, NEW s \in Slots
    PROVE  Released(s) \in Request
BY UnusedIsRequest DEF TypeOK, Released, Request

\* What the server's answer, or its loss, makes of a request.
LEMMA AnswerIsRequest ==
    ASSUME TypeOK, NEW s \in Slots, NEW a \in Seq(Nat), Answer(s, a)
    PROVE  /\ net' \in [Slots -> Request]
           /\ \A t \in Slots \ {s} : net'[t] = net[t]
           /\ net[s].waiting => /\ net'[s].kind = net[s].kind /\ net'[s].waiting
                                /\ net'[s].phase = "answered" /\ net'[s].answer = a
           /\ ~net[s].waiting => net'[s] = Unused
<1>1. net[s] \in Request
    BY DEF TypeOK
<1>2. PICK q : q = [net[s] EXCEPT !.phase = "answered", !.answer = a]
    OBVIOUS
<1>3. q \in Request /\ q.kind = net[s].kind /\ q.waiting = net[s].waiting
      /\ q.phase = "answered" /\ q.answer = a
    BY <1>1, <1>2 DEF Request
<1>4. net' = [net EXCEPT ![s] = IF net[s].waiting THEN q ELSE Unused]
    BY <1>2 DEF Answer
<1> QED BY <1>3, <1>4, UnusedIsRequest DEF TypeOK

LEMMA FailureIsRequest ==
    ASSUME TypeOK, NEW s \in Slots, Fails(s)
    PROVE  /\ net' \in [Slots -> Request]
           /\ \A t \in Slots \ {s} : net'[t] = net[t]
           /\ net[s].waiting => /\ net'[s].kind = net[s].kind /\ net'[s].waiting
                                /\ net'[s].phase = "failed" /\ net'[s].answer = <<>>
           /\ ~net[s].waiting => net'[s] = Unused
<1>1. net[s] \in Request
    BY DEF TypeOK
<1>0. PICK e : e = <<>>
    OBVIOUS
<1>5. e \in Seq(Nat)
    BY <1>0
<1>2. PICK q : q = [net[s] EXCEPT !.phase = "failed", !.answer = e]
    OBVIOUS
<1>3. q \in Request /\ q.kind = net[s].kind /\ q.waiting = net[s].waiting
      /\ q.phase = "failed" /\ q.answer = e
    BY <1>1, <1>2, <1>5 DEF Request
<1>4. net' = [net EXCEPT ![s] = IF net[s].waiting THEN q ELSE Unused]
    BY <1>0, <1>2 DEF Fails
<1> QED BY <1>0, <1>3, <1>4, UnusedIsRequest DEF TypeOK

-------------------------------------------------------------------------------
(* How the waiting changes: the server or the network acts on a request, a     *)
(* caller sends one, a caller is done with one.                                *)

UnusedFacts ==
    /\ Unused.kind = None /\ Unused.phase = "free" /\ ~Unused.waiting /\ Unused.answer = <<>>

LEMMA UnusedIsFree == UnusedFacts
BY DEF UnusedFacts, Unused

LEMMA ServedKeepsSlots ==
    ASSUME SlotsInv, NEW s \in Slots, UNCHANGED <<loop, ka, closer>>,
           \A t \in Slots \ {s} : net'[t] = net[t],
           net[s].waiting => /\ net'[s].kind = net[s].kind /\ net'[s].waiting
                             /\ net'[s].phase \in {"answered", "failed"}
                             /\ net'[s].answer # <<>> => /\ net[s].kind = "poll"
                                                         /\ net'[s].phase = "answered",
           ~net[s].waiting => net'[s] = Unused
    PROVE  SlotsInv'
<1>1. \A t \in Slots : /\ net[t].waiting => net'[t].kind = net[t].kind
                       /\ net'[t].waiting <=> net[t].waiting
    BY UnusedIsFree DEF UnusedFacts, SlotsInv
<1>2. \A t \in Slots : \A kind : net[t].waiting => (WaitsFor(t, kind)' <=> WaitsFor(t, kind))
    BY <1>1 DEF WaitsFor
<1>3. LoopsWait'
    BY <1>1 DEF SlotsInv, LoopsWait, WaitsFor, Polls
<1>4. KeepAliveWaits' /\ CloserWaits'
    BY <1>1 DEF SlotsInv, KeepAliveWaits, CloserWaits, WaitsFor, Renews
<1>5. Phases'
    BY UnusedIsFree DEF UnusedFacts, SlotsInv, Phases
<1> QED BY <1>3, <1>4, <1>5 DEF SlotsInv

\* Nobody sends or gives up a request, and none changes.
LEMMA OthersKeepSlots ==
    ASSUME SlotsInv, net' = net, closer'.pc = "request" => closer' = closer,
           ka'.pc = "request" <=> ka.pc = "request", ka'.slot = ka.slot,
           \A g \in Loops : loop'[g].pc = "request" =>
               loop[g].pc = "request" /\ loop'[g].slot = loop[g].slot
    PROVE  SlotsInv'
<1>1. LoopsWait'
    BY DEF SlotsInv, LoopsWait, WaitsFor, Polls
<1>2. KeepAliveWaits' /\ CloserWaits'
    BY DEF SlotsInv, KeepAliveWaits, CloserWaits, WaitsFor, Renews
<1>3. Phases'
    BY DEF SlotsInv, Phases
<1> QED BY <1>1, <1>2, <1>3 DEF SlotsInv

LEMMA SentFacts ==
    ASSUME NEW kind
    PROVE  /\ Sent(kind).kind = kind /\ Sent(kind).phase = "sent"
           /\ Sent(kind).waiting /\ Sent(kind).answer = <<>>
BY DEF Sent

\* Nobody waits for a free slot.
LEMMA FreeIsNobodys ==
    ASSUME SlotsInv, NEW s \in Slots, FreeSlot(s)
    PROVE  /\ \A g \in Loops : loop[g].pc = "request" => loop[g].slot # s
           /\ ka.pc = "request" => ka.slot # s
           /\ closer.pc = "request" => closer.slot # s
           /\ net[s].answer = <<>>
BY DEF SlotsInv, LoopsWait, KeepAliveWaits, CloserWaits, WaitsFor, Phases, FreeSlot

LEMMA SendingKeepsPhases ==
    ASSUME TypeOK, SlotsInv, NEW s \in Slots, NEW kind, net' = [net EXCEPT ![s] = Sent(kind)]
    PROVE  Phases'
BY SentFacts DEF TypeOK, SlotsInv, Phases

LEMMA ReleasedFacts ==
    ASSUME TypeOK, SlotsInv, NEW s \in Slots
    PROVE  /\ ~Released(s).waiting /\ Released(s).answer = <<>>
           /\ Released(s).phase \notin {"answered", "failed"}
<1>1. net[s] \in Request
    BY DEF TypeOK
<1>2. CASE net[s].phase = "sent"
    BY <1>1, <1>2 DEF Released, Request, SlotsInv, Phases
<1>3. CASE net[s].phase # "sent"
    BY <1>3, UnusedIsFree DEF Released, UnusedFacts
<1> QED BY <1>2, <1>3

LEMMA ReleasingKeepsPhases ==
    ASSUME TypeOK, SlotsInv, NEW s \in Slots, net' = [net EXCEPT ![s] = Released(s)]
    PROVE  Phases'
BY ReleasedFacts DEF TypeOK, SlotsInv, Phases

-------------------------------------------------------------------------------
(* Every action keeps the types and the slots. *)

Kept == TypeOK /\ SlotsInv

LEMMA InitKept == Init => Kept
<1> SUFFICES ASSUME Init PROVE Kept
    OBVIOUS
<1>1. Exited \in LoopState
    BY DEF Exited, LoopState
<1>2. <<>> \in Seq(Nat)
    OBVIOUS
<1>3. TypeOK
    BY <1>1, <1>2, UnusedIsRequest, FlagAssumption DEF Init, TypeOK, KaState, CloserState
<1>4. SlotsInv
    BY UnusedIsFree DEF Init, UnusedFacts, SlotsInv, LoopsWait, KeepAliveWaits, CloserWaits,
                        WaitsFor, Polls, Phases, Exited
<1> QED BY <1>3, <1>4 DEF Kept

LEMMA ServerKeeps ==
    ASSUME Kept, NEW s \in Slots, ServerRegister(s) \/ ServerPoll(s) \/ ServerDeregister(s)
    PROVE  Kept'
<1>1. <<>> \in Seq(Nat) /\ TypeOK /\ SlotsInv
    BY DEF Kept
<1>2. session'.registered \in BOOLEAN /\ session' \in [registered : BOOLEAN, interactions : Seq(Nat)]
    <2>1. PICK e : e = <<>>
        OBVIOUS
    <2>2. [registered |-> TRUE, interactions |-> e] \in [registered : BOOLEAN, interactions : Seq(Nat)]
          /\ [registered |-> FALSE, interactions |-> e] \in [registered : BOOLEAN, interactions : Seq(Nat)]
          /\ [session EXCEPT !.interactions = e] \in [registered : BOOLEAN, interactions : Seq(Nat)]
        BY <1>1, <2>1 DEF TypeOK
    <2> QED BY <1>1, <2>1, <2>2 DEF TypeOK, ServerRegister, ServerPoll, ServerDeregister, EndSession
<1>3. UNCHANGED <<state, locked, loop, ka, closer, captured, called>>
    BY DEF ServerRegister, ServerPoll, ServerDeregister
<1>4. CASE \E a \in Seq(Nat) : Answer(s, a) /\ (a # <<>> => net[s].kind = "poll")
    <2>1. PICK a \in Seq(Nat) : Answer(s, a) /\ (a # <<>> => net[s].kind = "poll")
        BY <1>4
    <2>2. /\ net' \in [Slots -> Request] /\ \A t \in Slots \ {s} : net'[t] = net[t]
          /\ net[s].waiting => /\ net'[s].kind = net[s].kind /\ net'[s].waiting
                               /\ net'[s].phase = "answered" /\ net'[s].answer = a
          /\ ~net[s].waiting => net'[s] = Unused
        BY <1>1, <2>1, AnswerIsRequest
    <2> QED BY <1>1, <1>2, <1>3, <2>1, <2>2, ServedKeepsSlots DEF Kept, TypeOK
<1>5. CASE Fails(s)
    <2>1. /\ net' \in [Slots -> Request] /\ \A t \in Slots \ {s} : net'[t] = net[t]
          /\ net[s].waiting => /\ net'[s].kind = net[s].kind /\ net'[s].waiting
                               /\ net'[s].phase = "failed" /\ net'[s].answer = <<>>
          /\ ~net[s].waiting => net'[s] = Unused
        BY <1>1, <1>5, FailureIsRequest
    <2> QED BY <1>1, <1>2, <1>3, <2>1, ServedKeepsSlots DEF Kept, TypeOK
<1>6. ServerRegister(s) => Answer(s, <<>>)
    BY DEF ServerRegister
<1>7. ServerPoll(s) => Answer(s, session.interactions) /\ net[s].kind = "poll"
                       /\ session.interactions \in Seq(Nat)
    BY <1>1 DEF ServerPoll, TypeOK
<1>8. ServerDeregister(s) => Answer(s, <<>>) \/ Fails(s)
    BY DEF ServerDeregister
<1> QED BY <1>1, <1>4, <1>5, <1>6, <1>7, <1>8

LEMMA LoseKeeps == ASSUME Kept, NEW s \in Slots, Lose(s) PROVE Kept'
<1>1. TypeOK /\ SlotsInv /\ Fails(s) /\ UNCHANGED <<state, locked, loop, ka, closer, session, captured, called>>
    BY DEF Kept, Lose
<1>2. /\ net' \in [Slots -> Request] /\ \A t \in Slots \ {s} : net'[t] = net[t]
      /\ net[s].waiting => /\ net'[s].kind = net[s].kind /\ net'[s].waiting
                           /\ net'[s].phase = "failed" /\ net'[s].answer = <<>>
      /\ ~net[s].waiting => net'[s] = Unused
    BY <1>1, FailureIsRequest
<1> QED BY <1>1, <1>2, ServedKeepsSlots DEF Kept, TypeOK

LEMMA SessionKeeps == ASSUME Kept, Capture \/ Evict PROVE Kept'
<1>1. TypeOK /\ SlotsInv /\ UNCHANGED <<state, locked, loop, ka, closer, net, called>>
    BY DEF Kept, Capture, Evict
<1>2. captured' \in Nat
    BY <1>1 DEF TypeOK, Capture, Evict
<1>3. session' \in [registered : BOOLEAN, interactions : Seq(Nat)]
    <2>1. CASE Capture
        <3>1. PICK q : q = Append(session.interactions, captured + 1)
            OBVIOUS
        <3>2. q \in Seq(Nat)
            BY <1>1, <3>1 DEF TypeOK
        <3>3. session' = session \/ session' = [session EXCEPT !.interactions = q]
            BY <2>1, <3>1 DEF Capture
        <3> QED BY <1>1, <3>2, <3>3 DEF TypeOK
    <2>2. CASE Evict
        <3>1. <<>> \in Seq(Nat)
            OBVIOUS
        <3> QED BY <2>2, <3>1 DEF Evict, EndSession
    <2> QED BY <2>1, <2>2
<1> QED BY <1>1, <1>2, <1>3, OthersKeepSlots DEF Kept, TypeOK

LEMMA ExitedIsLoop == Exited \in LoopState /\ Exited.pc = "exited"
<1>1. <<>> \in Seq(Nat)
    OBVIOUS
<1> QED BY <1>1 DEF Exited, LoopState

LEMMA StartKeeps == ASSUME Kept, NEW g \in Loops, StartPolling(g) PROVE Kept'
<1>1. TypeOK /\ SlotsInv /\ UNCHANGED <<locked, ka, closer, net, session, captured, called>>
    BY DEF Kept, StartPolling
<1>2. PICK q : q = [Exited EXCEPT !.pc = "wait"]
    OBVIOUS
<1>3. q \in LoopState /\ q.pc = "wait"
    BY <1>2, ExitedIsLoop DEF LoopState
<1>4. loop' = [loop EXCEPT ![g] = q] /\ state' = "polling"
    BY <1>2 DEF StartPolling
<1> QED BY <1>1, <1>3, <1>4, OthersKeepSlots DEF Kept, TypeOK

\* pollCancel touches nothing but the contexts.
LEMMA PollCancelFacts ==
    ASSUME TypeOK
    PROVE  /\ PollCancel \in [Loops -> LoopState]
           /\ \A g \in Loops :
                 /\ PollCancel[g].pc = loop[g].pc /\ PollCancel[g].slot = loop[g].slot
                 /\ PollCancel[g].response = loop[g].response
                 /\ PollCancel[g].cancelled =
                        (loop[g].cancelled \/ (state = "polling" /\ loop[g].pc # "exited"))
<1> SUFFICES ASSUME NEW g \in Loops
             PROVE  /\ PollCancel[g] \in LoopState
                    /\ PollCancel[g].pc = loop[g].pc /\ PollCancel[g].slot = loop[g].slot
                    /\ PollCancel[g].response = loop[g].response
                    /\ PollCancel[g].cancelled =
                           (loop[g].cancelled \/ (state = "polling" /\ loop[g].pc # "exited"))
    BY DEF PollCancel
<1>1. loop[g] \in LoopState
    BY DEF TypeOK
<1> QED BY <1>1 DEF PollCancel, LoopState

LEMMA StopKeeps == ASSUME Kept, StopPolling PROVE Kept'
<1>1. TypeOK /\ SlotsInv /\ UNCHANGED <<locked, ka, closer, net, session, captured, called>>
    BY DEF Kept, StopPolling
<1>2. state' = "idle" /\ loop' = PollCancel
    BY DEF StopPolling
<1> QED BY <1>1, <1>2, PollCancelFacts, OthersKeepSlots DEF Kept, TypeOK

LEMMA PollTickKeeps == ASSUME Kept, NEW g \in Loops, NEW s \in Slots, PollTick(g, s) PROVE Kept'
<1>1. TypeOK /\ SlotsInv /\ UNCHANGED <<state, locked, ka, closer, session, captured, called>>
    BY DEF Kept, PollTick
<1>2. loop[g] \in LoopState
    BY <1>1 DEF TypeOK
<1>3. loop' = [loop EXCEPT ![g].pc = "request", ![g].slot = s] /\ net' = [net EXCEPT ![s] = Sent("poll")]
    BY DEF PollTick
<1>4. /\ loop' \in [Loops -> LoopState] /\ loop'[g].pc = "request" /\ loop'[g].slot = s
      /\ \A h \in Loops \ {g} : loop'[h] = loop[h]
    BY <1>1, <1>2, <1>3 DEF TypeOK, LoopState
<1>5. net' \in [Slots -> Request] /\ net'[s] = Sent("poll") /\ \A t \in Slots \ {s} : net'[t] = net[t]
    BY <1>1, <1>3, SentIsRequest DEF TypeOK
<1>6. FreeSlot(s)
    BY DEF PollTick
<1>7. LoopsWait'
    BY <1>1, <1>4, <1>5, <1>6, SentFacts, FreeIsNobodys DEF SlotsInv, LoopsWait, WaitsFor, Polls
<1>8. KeepAliveWaits' /\ CloserWaits'
    BY <1>1, <1>5, <1>6, SentFacts, FreeIsNobodys
       DEF SlotsInv, KeepAliveWaits, CloserWaits, WaitsFor, Renews
<1>9. Phases'
    BY <1>1, <1>3, SendingKeepsPhases
<1> QED BY <1>1, <1>4, <1>5, <1>7, <1>8, <1>9 DEF Kept, TypeOK, SlotsInv

\* A loop is done with its request: it has the response, or an error.
LEMMA PollEndKeeps ==
    ASSUME Kept, NEW g \in Loops, loop[g].pc = "request",
           UNCHANGED <<state, locked, ka, closer, session, captured, called>>,
           loop' \in [Loops -> LoopState], loop'[g].pc # "request",
           \A h \in Loops \ {g} : loop'[h] = loop[h],
           net' = [net EXCEPT ![loop[g].slot] = Released(loop[g].slot)]
    PROVE  Kept'
<1>1. TypeOK /\ SlotsInv /\ loop[g].slot \in Slots
    BY DEF Kept, SlotsInv, LoopsWait, WaitsFor
<1>2. net[loop[g].slot].kind = "poll"
    BY DEF Kept, SlotsInv, LoopsWait, WaitsFor
<1>3. /\ net' \in [Slots -> Request] /\ ~net'[loop[g].slot].waiting
      /\ \A t \in Slots \ {loop[g].slot} : net'[t] = net[t]
    BY <1>1, ReleasedIsRequest, ReleasedFacts DEF TypeOK
<1>4. LoopsWait'
    BY <1>1, <1>3 DEF SlotsInv, LoopsWait, WaitsFor, Polls
<1>5. KeepAliveWaits' /\ CloserWaits'
    BY <1>1, <1>2, <1>3 DEF SlotsInv, KeepAliveWaits, CloserWaits, WaitsFor, Renews
<1>6. Phases'
    BY <1>1, ReleasingKeepsPhases
<1> QED BY <1>1, <1>3, <1>4, <1>5, <1>6 DEF Kept, TypeOK, SlotsInv

LEMMA PollReceiveKeeps == ASSUME Kept, NEW g \in Loops, PollReceive(g) PROVE Kept'
<1>1. TypeOK /\ SlotsInv /\ loop[g].pc = "request" /\ loop[g].slot \in Slots
    BY DEF Kept, PollReceive, SlotsInv, LoopsWait, WaitsFor
<1>2. PICK a : a = net[loop[g].slot].answer
    OBVIOUS
<1>3. a \in Seq(Nat) /\ loop[g] \in LoopState
    BY <1>1, <1>2 DEF TypeOK, Request
<1>4. loop' = [loop EXCEPT ![g].pc = "callbacks", ![g].slot = None, ![g].response = a]
    BY <1>2 DEF PollReceive
<1>5. /\ loop' \in [Loops -> LoopState] /\ loop'[g].pc = "callbacks" /\ loop'[g].response = a
      /\ \A h \in Loops \ {g} : loop'[h] = loop[h]
    BY <1>1, <1>3, <1>4 DEF TypeOK, LoopState
<1>6. net' = [net EXCEPT ![loop[g].slot] = Released(loop[g].slot)]
    BY <1>1 DEF PollReceive, Answered, Released
<1> QED BY <1>1, <1>5, <1>6, PollEndKeeps DEF PollReceive

LEMMA PollErrorKeeps == ASSUME Kept, NEW g \in Loops, PollError(g) PROVE Kept'
<1>1. TypeOK /\ loop[g] \in LoopState
    BY DEF Kept, TypeOK
<1>2. loop' = [loop EXCEPT ![g].pc = "wait", ![g].slot = None]
    BY DEF PollError
<1>3. /\ loop' \in [Loops -> LoopState] /\ loop'[g].pc = "wait"
      /\ \A h \in Loops \ {g} : loop'[h] = loop[h]
    BY <1>1, <1>2 DEF TypeOK, LoopState
<1> QED BY <1>3, PollEndKeeps DEF PollError

LEMMA CallbackKeeps == ASSUME Kept, NEW g \in Loops, Callback(g) PROVE Kept'
<1>1. TypeOK /\ SlotsInv /\ loop[g] \in LoopState
      /\ UNCHANGED <<state, locked, ka, closer, net, session, captured>>
    BY DEF Kept, TypeOK, Callback
<1>2. CASE loop[g].response = <<>>
    <2>1. loop' = [loop EXCEPT ![g].pc = "wait"] /\ called' = called
        BY <1>2 DEF Callback
    <2>2. loop' \in [Loops -> LoopState] /\ loop'[g].pc = "wait"
          /\ \A h \in Loops \ {g} : loop'[h] = loop[h]
        BY <1>1, <2>1 DEF TypeOK, LoopState
    <2> QED BY <1>1, <2>1, <2>2, OthersKeepSlots DEF Kept, TypeOK
<1>3. CASE loop[g].response # <<>>
    <2>1. PICK first, rest : first = Head(loop[g].response) /\ rest = Tail(loop[g].response)
        OBVIOUS
    <2>2. first \in Nat /\ rest \in Seq(Nat)
        BY <1>1, <1>3, <2>1 DEF LoopState
    <2>3. loop' = [loop EXCEPT ![g].response = rest] /\ called' = Append(called, first)
        BY <1>3, <2>1 DEF Callback
    <2>4. called' \in Seq(Nat)
        BY <1>1, <2>2, <2>3 DEF TypeOK
    <2>5. loop' \in [Loops -> LoopState] /\ loop'[g].pc = loop[g].pc
          /\ \A h \in Loops \ {g} : loop'[h] = loop[h]
        BY <1>1, <2>2, <2>3 DEF TypeOK, LoopState
    <2> QED BY <1>1, <2>4, <2>5, OthersKeepSlots DEF Kept, TypeOK, Callback
<1> QED BY <1>2, <1>3

LEMMA PollExitKeeps == ASSUME Kept, NEW g \in Loops, PollExit(g) PROVE Kept'
<1>1. TypeOK /\ SlotsInv /\ UNCHANGED <<state, locked, ka, closer, net, session, captured, called>>
    BY DEF Kept, PollExit
<1>2. loop' = [loop EXCEPT ![g] = Exited]
    BY DEF PollExit
<1> QED BY <1>1, <1>2, ExitedIsLoop, OthersKeepSlots DEF Kept, TypeOK

-------------------------------------------------------------------------------
(* The keep-alive and Close. *)

\* A look at the clock, the state or the context.
LEMMA KeepAliveMovesKeeps ==
    ASSUME Kept, KeepAliveTick \/ KeepAliveCheck \/ KeepAliveExit
    PROVE  Kept'
<1>1. TypeOK /\ SlotsInv
      /\ UNCHANGED <<state, locked, loop, closer, net, session, captured, called>>
    BY DEF Kept, KeepAliveTick, KeepAliveCheck, KeepAliveExit
<1>2. /\ ka' \in KaState /\ ka'.pc # "request" /\ ka.pc # "request" /\ ka'.slot = ka.slot
    BY <1>1 DEF TypeOK, KaState, KeepAliveTick, KeepAliveCheck, KeepAliveExit
<1> QED BY <1>1, <1>2, OthersKeepSlots DEF Kept, TypeOK, KaState

LEMMA KeepAliveSendKeeps == ASSUME Kept, NEW s \in Slots, KeepAliveSend(s) PROVE Kept'
<1>1. TypeOK /\ SlotsInv /\ ka.pc = "send"
      /\ UNCHANGED <<state, locked, loop, closer, session, captured, called>>
    BY DEF Kept, KeepAliveSend
<1>2. CASE ka.cancelled
    <2>1. ka' = [ka EXCEPT !.pc = "wait"] /\ net' = net
        BY <1>2 DEF KeepAliveSend
    <2>2. ka' \in KaState /\ ka'.pc = "wait" /\ ka'.slot = ka.slot
        BY <1>1, <2>1 DEF TypeOK, KaState
    <2> QED BY <1>1, <2>1, <2>2, OthersKeepSlots DEF Kept, TypeOK, KaState
<1>3. CASE ~ka.cancelled
    <2>1. /\ FreeSlot(s) /\ net' = [net EXCEPT ![s] = Sent("register")]
          /\ ka' = [ka EXCEPT !.pc = "request", !.slot = s]
        BY <1>3 DEF KeepAliveSend
    <2>2. ka' \in KaState /\ ka'.pc = "request" /\ ka'.slot = s
        BY <1>1, <2>1 DEF TypeOK, KaState
    <2>3. /\ net' \in [Slots -> Request] /\ net'[s] = Sent("register")
          /\ \A t \in Slots \ {s} : net'[t] = net[t]
        BY <1>1, <2>1, SentIsRequest DEF TypeOK
    <2>4. LoopsWait' /\ CloserWaits'
        BY <1>1, <2>1, <2>3, SentFacts, FreeIsNobodys
           DEF SlotsInv, LoopsWait, CloserWaits, WaitsFor, Polls
    <2>5. KeepAliveWaits'
        BY <1>1, <2>2, <2>3, SentFacts DEF SlotsInv, KeepAliveWaits, WaitsFor, Renews
    <2>6. Phases'
        BY <1>1, <2>1, SendingKeepsPhases
    <2> QED BY <1>1, <2>2, <2>3, <2>4, <2>5, <2>6 DEF Kept, TypeOK, KaState, SlotsInv
<1> QED BY <1>2, <1>3

LEMMA KeepAliveReturnKeeps == ASSUME Kept, KeepAliveReturn PROVE Kept'
<1>1. TypeOK /\ SlotsInv /\ ka.pc = "request" /\ ka.slot \in Slots
      /\ UNCHANGED <<state, locked, loop, closer, session, captured, called>>
    BY DEF Kept, KeepAliveReturn, SlotsInv, KeepAliveWaits, WaitsFor
<1>2. /\ net' = [net EXCEPT ![ka.slot] = Released(ka.slot)]
      /\ ka' = [ka EXCEPT !.pc = "wait", !.slot = None]
    BY DEF KeepAliveReturn
<1>3. ka' \in KaState /\ ka'.pc = "wait"
    BY <1>1, <1>2 DEF TypeOK, KaState
<1>4. /\ net' \in [Slots -> Request] /\ ~net'[ka.slot].waiting
      /\ \A t \in Slots \ {ka.slot} : net'[t] = net[t]
    BY <1>1, <1>2, ReleasedIsRequest, ReleasedFacts DEF TypeOK
<1>5. net[ka.slot].kind = "register"
    BY <1>1 DEF SlotsInv, KeepAliveWaits, WaitsFor
<1>6. LoopsWait' /\ CloserWaits'
    BY <1>1, <1>4, <1>5 DEF SlotsInv, LoopsWait, CloserWaits, WaitsFor, Polls
<1>7. KeepAliveWaits'
    BY <1>1, <1>3, <1>4 DEF SlotsInv, KeepAliveWaits, WaitsFor, Renews
<1>8. Phases'
    BY <1>1, <1>2, ReleasingKeepsPhases
<1> QED BY <1>1, <1>3, <1>4, <1>6, <1>7, <1>8 DEF Kept, TypeOK, KaState, SlotsInv

LEMMA CloseLockKeeps == ASSUME Kept, CloseLock PROVE Kept'
<1>1. TypeOK /\ SlotsInv /\ UNCHANGED <<net, session, captured, called>>
    BY DEF Kept, CloseLock
<1>2. state' = "closed" /\ locked' = TRUE /\ loop' = PollCancel
    BY DEF CloseLock
<1>3. ka' \in KaState /\ ka'.pc = ka.pc /\ ka'.slot = ka.slot
    BY <1>1, FlagAssumption DEF TypeOK, KaState, CloseLock
<1>4. closer' \in CloserState /\ closer'.pc = "unlock"
    BY <1>1 DEF TypeOK, CloserState, CloseLock
<1> QED BY <1>1, <1>2, <1>3, <1>4, PollCancelFacts, OthersKeepSlots
        DEF Kept, TypeOK, KaState, CloserState

LEMMA CloseUnlockKeeps == ASSUME Kept, CloseUnlock PROVE Kept'
<1>1. TypeOK /\ SlotsInv /\ locked' = FALSE
      /\ UNCHANGED <<state, loop, ka, net, session, captured, called>>
    BY DEF Kept, CloseUnlock
<1>2. closer' \in CloserState /\ closer'.pc = "join"
    BY <1>1 DEF TypeOK, CloserState, CloseUnlock
<1> QED BY <1>1, <1>2, OthersKeepSlots DEF Kept, TypeOK, CloserState

LEMMA CloseJoinKeeps == ASSUME Kept, NEW s \in Slots, CloseJoin(s) PROVE Kept'
<1>1. TypeOK /\ SlotsInv /\ UNCHANGED <<state, locked, loop, ka, session, captured, called>>
    BY DEF Kept, CloseJoin
<1>2. /\ FreeSlot(s) /\ net' = [net EXCEPT ![s] = Sent("deregister")]
      /\ closer' = [closer EXCEPT !.pc = "request", !.slot = s]
    BY DEF CloseJoin
<1>3. closer' \in CloserState /\ closer'.pc = "request" /\ closer'.slot = s
    BY <1>1, <1>2 DEF TypeOK, CloserState
<1>4. /\ net' \in [Slots -> Request] /\ net'[s] = Sent("deregister")
      /\ \A t \in Slots \ {s} : net'[t] = net[t]
    BY <1>1, <1>2, SentIsRequest DEF TypeOK
<1>5. LoopsWait' /\ KeepAliveWaits'
    BY <1>1, <1>2, <1>4, SentFacts, FreeIsNobodys
       DEF SlotsInv, LoopsWait, KeepAliveWaits, WaitsFor, Polls, Renews
<1>6. CloserWaits'
    BY <1>3, <1>4, SentFacts DEF CloserWaits, WaitsFor
<1>7. Phases'
    BY <1>1, <1>2, SendingKeepsPhases
<1> QED BY <1>1, <1>3, <1>4, <1>5, <1>6, <1>7 DEF Kept, TypeOK, CloserState, SlotsInv

LEMMA CloseReturnKeeps == ASSUME Kept, CloseReturn PROVE Kept'
<1>1. TypeOK /\ SlotsInv /\ closer.pc = "request" /\ closer.slot \in Slots
      /\ UNCHANGED <<state, locked, loop, ka, session, captured, called>>
    BY DEF Kept, CloseReturn, SlotsInv, CloserWaits, WaitsFor
<1>2. /\ net' = [net EXCEPT ![closer.slot] = Released(closer.slot)]
      /\ closer' = [pc |-> "returned", slot |-> None, ok |-> Answered(closer.slot)]
    BY DEF CloseReturn
<1>3. closer' \in CloserState /\ closer'.pc = "returned"
    BY <1>2 DEF CloserState, Answered
<1>4. /\ net' \in [Slots -> Request] /\ ~net'[closer.slot].waiting
      /\ \A t \in Slots \ {closer.slot} : net'[t] = net[t]
    BY <1>1, <1>2, ReleasedIsRequest, ReleasedFacts DEF TypeOK
<1>5. net[closer.slot].kind = "deregister"
    BY <1>1 DEF SlotsInv, CloserWaits, WaitsFor
<1>6. LoopsWait' /\ KeepAliveWaits'
    BY <1>1, <1>4, <1>5 DEF SlotsInv, LoopsWait, KeepAliveWaits, WaitsFor, Polls, Renews
<1>7. CloserWaits'
    BY <1>3 DEF CloserWaits
<1>8. Phases'
    BY <1>1, <1>2, ReleasingKeepsPhases
<1> QED BY <1>1, <1>3, <1>4, <1>6, <1>7, <1>8 DEF Kept, TypeOK, CloserState, SlotsInv

LEMMA StutterKeeps == ASSUME Kept, UNCHANGED vars PROVE Kept'
<1>1. TypeOK /\ SlotsInv
    BY DEF Kept
<1> QED BY <1>1, OthersKeepSlots DEF Kept, TypeOK, vars

LEMMA NextKeeps == ASSUME Kept, [Next]_vars PROVE Kept'
<1>1. CASE Server \/ \E s \in Slots : Lose(s)
    BY <1>1, ServerKeeps, LoseKeeps DEF Server
<1>2. CASE Capture \/ Evict
    BY <1>2, SessionKeeps
<1>3. CASE \E g \in Loops : StartPolling(g) \/ Polling(g)
    BY <1>3, StartKeeps, PollTickKeeps, PollReceiveKeeps, PollErrorKeeps, CallbackKeeps,
       PollExitKeeps DEF Polling
<1>4. CASE KeepingAlive
    BY <1>4, KeepAliveMovesKeeps, KeepAliveSendKeeps, KeepAliveReturnKeeps DEF KeepingAlive
<1>5. CASE StopPolling \/ CloseLock \/ Closing
    BY <1>5, StopKeeps, CloseLockKeeps, CloseUnlockKeeps, CloseJoinKeeps, CloseReturnKeeps
       DEF Closing
<1>6. CASE UNCHANGED vars
    BY <1>6, StutterKeeps
<1> QED BY <1>1, <1>2, <1>3, <1>4, <1>5, <1>6 DEF Next, Finished

\* The types, and who waits for which request.
THEOREM ClientInvariant == Spec => []Kept
BY InitKept, NextKeeps, PTL DEF Spec

-------------------------------------------------------------------------------
(* One loop. *)

OneRunning ==
    /\ \A g, h \in Loops : Running(g) /\ Running(h) => g = h
    /\ state = "polling" <=> \E g \in Loops : Running(g)

LEMMA OneRunningSuffices ==
    ASSUME OneRunning
    PROVE  OneLoopWhilePolling
<1>1. CASE state = "polling"
    <2>1. PICK g \in Loops : Running(g)
        BY <1>1 DEF OneRunning
    <2>2. {h \in Loops : Running(h)} = {g}
        BY <2>1 DEF OneRunning
    <2>3. Cardinality({g}) = 1
        BY FS_Singleton
    <2> QED BY <1>1, <2>2, <2>3 DEF OneLoopWhilePolling
<1>2. CASE state # "polling"
    <2>1. {h \in Loops : Running(h)} = {}
        BY <1>2 DEF OneRunning
    <2>2. Cardinality({}) = 0
        BY FS_EmptySet
    <2> QED BY <1>2, <2>1, <2>2 DEF OneLoopWhilePolling
<1> QED BY <1>1, <1>2

\* Steps that start and cancel no loop.
LEMMA SameRunning ==
    ASSUME OneRunning, \A g \in Loops : Running(g)' = Running(g),
           state' = "polling" <=> state = "polling"
    PROVE  OneRunning'
BY DEF OneRunning

LEMMA LoopsKeepRunning ==
    ASSUME Kept, OneRunning, NEW g \in Loops, Polling(g)
    PROVE  OneRunning'
<1>1. loop \in [Loops -> LoopState] /\ loop[g] \in LoopState /\ state' = state
    BY DEF Kept, TypeOK, Polling, PollTick, PollReceive, PollError, Callback, PollExit
<1>2. CASE PollExit(g)
    <2>1. /\ loop'[g].pc = "exited" /\ loop[g].cancelled
          /\ \A h \in Loops \ {g} : loop'[h] = loop[h]
        BY <1>1, <1>2, ExitedIsLoop DEF PollExit
    <2>2. \A h \in Loops : Running(h)' = Running(h)
        BY <2>1 DEF Running
    <2> QED BY <1>1, <2>2, SameRunning
<1>3. CASE ~PollExit(g)
    <2>1. /\ \A h \in Loops \ {g} : loop'[h] = loop[h]
          /\ loop'[g].cancelled = loop[g].cancelled
          /\ loop[g].pc # "exited" /\ loop'[g].pc # "exited"
        <3>1. CASE \E s \in Slots : PollTick(g, s)
            BY <1>1, <3>1 DEF PollTick, LoopState
        <3>2. CASE PollError(g)
            BY <1>1, <3>2 DEF PollError, LoopState
        <3>3. CASE PollReceive(g)
            <4>1. PICK a : a = net[loop[g].slot].answer
                OBVIOUS
            <4>2. loop' = [loop EXCEPT ![g].pc = "callbacks", ![g].slot = None, ![g].response = a]
                BY <3>3, <4>1 DEF PollReceive
            <4> QED BY <1>1, <3>3, <4>2 DEF PollReceive, LoopState
        <3>4. CASE Callback(g)
            <4>1. PICK rest : rest = Tail(loop[g].response)
                OBVIOUS
            <4>2. \/ loop' = [loop EXCEPT ![g].pc = "wait"]
                  \/ loop' = [loop EXCEPT ![g].response = rest]
                BY <3>4, <4>1 DEF Callback
            <4> QED BY <1>1, <3>4, <4>2 DEF Callback, LoopState
        <3> QED BY <1>3, <3>1, <3>2, <3>3, <3>4 DEF Polling
    <2>2. \A h \in Loops : Running(h)' = Running(h)
        BY <2>1 DEF Running
    <2> QED BY <1>1, <2>2, SameRunning
<1> QED BY <1>2, <1>3

\* The only start needs the state that says that no loop runs.
LEMMA StartKeepsRunning ==
    ASSUME Kept, OneRunning, NEW g \in Loops, StartPolling(g)
    PROVE  OneRunning'
<1>1. PICK q : q = [Exited EXCEPT !.pc = "wait"]
    OBVIOUS
<1>2. q.pc = "wait" /\ ~q.cancelled
    BY <1>1 DEF Exited
<1>3. /\ loop'[g] = q /\ \A h \in Loops \ {g} : loop'[h] = loop[h]
      /\ state = "idle" /\ state' = "polling"
    BY <1>1 DEF StartPolling, Kept, TypeOK
<1>4. Running(g)' /\ \A h \in Loops \ {g} : ~Running(h)'
    BY <1>2, <1>3 DEF Running, OneRunning
<1> QED BY <1>3, <1>4 DEF OneRunning

\* StopPolling and Close cancel whatever runs.
LEMMA CancelKeepsRunning ==
    ASSUME Kept, OneRunning, loop' = PollCancel, state' # "polling"
    PROVE  OneRunning'
<1>1. \A g \in Loops : ~Running(g)'
    BY PollCancelFacts DEF Kept, Running, OneRunning
<1> QED BY <1>1 DEF OneRunning

LEMMA NextKeepsRunning == ASSUME Kept, OneRunning, [Next]_vars PROVE OneRunning'
<1>1. CASE StopPolling \/ CloseLock
    BY <1>1, CancelKeepsRunning DEF StopPolling, CloseLock
<1>2. CASE \E g \in Loops : StartPolling(g) \/ Polling(g)
    BY <1>2, StartKeepsRunning, LoopsKeepRunning
<1>3. CASE state' = state /\ loop' = loop
    BY <1>3, SameRunning DEF Running
<1> QED BY <1>1, <1>2, <1>3
        DEF Next, vars, Server, ServerRegister, ServerPoll, ServerDeregister, Lose, Capture, Evict,
            KeepingAlive, KeepAliveTick, KeepAliveCheck, KeepAliveSend, KeepAliveReturn,
            KeepAliveExit, Closing, CloseUnlock, CloseJoin, CloseReturn, Finished

\* However StartPolling, StopPolling and Close follow each other, also while old
\* loops still run their callbacks, one loop polls in the state "polling" and
\* none in any other (client.go:432-449, 582-640).
THEOREM OneLoop == Spec => []OneLoopWhilePolling
<1>1. Init => OneRunning
    BY DEF Init, OneRunning, Running, Exited
<1>2. Spec => []OneRunning
    BY <1>1, ClientInvariant, NextKeepsRunning, PTL DEF Spec
<1> QED BY <1>2, OneRunningSuffices, PTL

-------------------------------------------------------------------------------
(* No registration after the deregistration. *)

JoinedFirst == closer.pc \in {"request", "returned"} => ka.pc = "done"

LEMMA NextKeepsJoined == ASSUME Kept, JoinedFirst, [Next]_vars PROVE JoinedFirst'
<1>1. CASE KeepingAlive
    BY <1>1 DEF JoinedFirst, KeepingAlive, KeepAliveTick, KeepAliveCheck, KeepAliveSend,
                KeepAliveReturn, KeepAliveExit
<1>2. CASE ka' = ka /\ closer' = closer
    BY <1>2 DEF JoinedFirst
<1>3. CASE CloseLock \/ CloseUnlock
    BY <1>3 DEF Kept, TypeOK, CloserState, JoinedFirst, CloseLock, CloseUnlock
<1>4. CASE CloseReturn \/ \E s \in Slots : CloseJoin(s)
    BY <1>4 DEF JoinedFirst, CloseReturn, CloseJoin
<1> QED BY <1>1, <1>2, <1>3, <1>4
        DEF Next, vars, Server, ServerRegister, ServerPoll, ServerDeregister, Lose, Capture, Evict,
            StartPolling, StopPolling, Polling, PollTick, PollReceive, PollError, Callback,
            PollExit, Closing, Finished

\* Close waits for the keep-alive goroutine before it deregisters, so nobody
\* waits for a registration any more (client.go:641-649).
THEOREM NoLateRegistration == Spec => []NoRegistrationAfterDeregistration
<1>1. Init => JoinedFirst
    BY DEF Init, JoinedFirst
<1>2. Kept /\ JoinedFirst => NoRegistrationAfterDeregistration
    BY DEF Kept, JoinedFirst, NoRegistrationAfterDeregistration, SlotsInv, KeepAliveWaits,
           WaitsFor, Renews
<1> QED BY <1>1, <1>2, ClientInvariant, NextKeepsJoined, PTL DEF Spec

-------------------------------------------------------------------------------
(* Every interaction is in one place. *)

Places ==
    {<<"session", 0>>, <<"dropped", 0>>}
    \union ({"slot"} \X Slots) \union ({"loop"} \X Loops) \union ({"called"} \X Nat)

CalledAt(n) == {called[k] : k \in DOMAIN called \intersect {n}}

Holds(place) ==
    CASE place[1] = "session" -> ItemsOf(session.interactions)
      [] place[1] = "dropped" -> dropped
      [] place[1] = "slot" -> ItemsOf(net[place[2]].answer)
      [] place[1] = "loop" -> ItemsOf(loop[place[2]].response)
      [] place[1] = "called" -> CalledAt(place[2])

Unique ==
    \A i \in 1 .. captured :
        \E place \in Places : \A p \in Places : i \in Holds(p) <=> p = place

\* A sequence that holds nothing twice.
Once(q) == \A j, k \in DOMAIN q : q[j] = q[k] => j = k

PlacesInv ==
    /\ \A place \in Places : Holds(place) \subseteq 1 .. captured
    /\ Once(session.interactions)
    /\ \A s \in Slots : Once(net[s].answer)
    /\ \A g \in Loops : /\ Once(loop[g].response)
                        /\ loop[g].response # <<>> => loop[g].pc = "callbacks"
    /\ ~session.registered => session.interactions = <<>>

Placed == Unique /\ PlacesInv

LEMMA HoldsFacts ==
    /\ Holds(<<"session", 0>>) = ItemsOf(session.interactions)
    /\ Holds(<<"dropped", 0>>) = dropped
    /\ \A s \in Slots : Holds(<<"slot", s>>) = ItemsOf(net[s].answer)
    /\ \A g \in Loops : Holds(<<"loop", g>>) = ItemsOf(loop[g].response)
    /\ \A k \in Nat : Holds(<<"called", k>>) = CalledAt(k)
BY DEF Holds

LEMMA EveryPlace ==
    /\ <<"session", 0>> \in Places /\ <<"dropped", 0>> \in Places
    /\ \A s \in Slots : <<"slot", s>> \in Places
    /\ \A g \in Loops : <<"loop", g>> \in Places
    /\ \A k \in Nat : <<"called", k>> \in Places
    /\ \A p \in Places :
          \/ p \in {<<"session", 0>>, <<"dropped", 0>>}
          \/ \E s \in Slots : p = <<"slot", s>>
          \/ \E g \in Loops : p = <<"loop", g>>
          \/ \E k \in Nat : p = <<"called", k>>
BY DEF Places

LEMMA ItemsFacts ==
    /\ ItemsOf(<<>>) = {} /\ Once(<<>>)
    /\ \A q \in Seq(Nat), i \in Nat :
          /\ ItemsOf(Append(q, i)) = ItemsOf(q) \union {i}
          /\ Once(q) /\ i \notin ItemsOf(q) => Once(Append(q, i))
    /\ \A q \in Seq(Nat) : q # <<>> =>
          /\ ItemsOf(q) = ItemsOf(Tail(q)) \union {Head(q)}
          /\ Once(q) => Head(q) \notin ItemsOf(Tail(q)) /\ Once(Tail(q))
<1>1. ItemsOf(<<>>) = {} /\ Once(<<>>)
    BY DEF ItemsOf, Once
<1>2. ASSUME NEW q \in Seq(Nat), NEW i \in Nat
      PROVE  /\ ItemsOf(Append(q, i)) = ItemsOf(q) \union {i}
             /\ Once(q) /\ i \notin ItemsOf(q) => Once(Append(q, i))
    <2>1. /\ DOMAIN Append(q, i) = 1 .. Len(q) + 1 /\ DOMAIN q = 1 .. Len(q) /\ Len(q) \in Nat
          /\ Append(q, i)[Len(q) + 1] = i /\ \A k \in 1 .. Len(q) : Append(q, i)[k] = q[k]
        OBVIOUS
    <2>2. 1 .. Len(q) + 1 = (1 .. Len(q)) \union {Len(q) + 1}
        BY <2>1
    <2> QED BY <2>1, <2>2 DEF ItemsOf, Once
<1>3. ASSUME NEW q \in Seq(Nat), q # <<>>
      PROVE  /\ ItemsOf(q) = ItemsOf(Tail(q)) \union {Head(q)}
             /\ Once(q) => Head(q) \notin ItemsOf(Tail(q)) /\ Once(Tail(q))
    <2>1. /\ DOMAIN Tail(q) = 1 .. Len(q) - 1 /\ DOMAIN q = 1 .. Len(q) /\ Len(q) \in Nat \ {0}
          /\ Head(q) = q[1] /\ \A k \in 1 .. Len(q) - 1 : Tail(q)[k] = q[k + 1]
        BY <1>3
    <2>2. ItemsOf(Tail(q)) \union {Head(q)} \subseteq ItemsOf(q)
        BY <2>1 DEF ItemsOf
    <2>3. ASSUME NEW k \in DOMAIN q
          PROVE  q[k] \in ItemsOf(Tail(q)) \union {Head(q)}
        <3>1. k = 1 \/ (k - 1 \in 1 .. Len(q) - 1 /\ Tail(q)[k - 1] = q[k])
            BY <2>1
        <3> QED BY <2>1, <3>1 DEF ItemsOf
    <2>4. ASSUME Once(q)
          PROVE  Head(q) \notin ItemsOf(Tail(q)) /\ Once(Tail(q))
        <3>1. PICK n \in Nat \ {0} : n = Len(q)
            BY <2>1
        <3>2. \A j, k \in 1 .. n : q[j] = q[k] => j = k
            BY <2>1, <2>4, <3>1 DEF Once
        <3>3. \A k \in 1 .. n - 1 : k + 1 \in 1 .. n /\ 1 \in 1 .. n /\ k + 1 # 1
            OBVIOUS
        <3>4. \A k \in 1 .. n - 1 : Tail(q)[k] # Head(q)
            BY <2>1, <3>1, <3>2, <3>3
        <3>5. \A j, k \in 1 .. n - 1 : Tail(q)[j] = Tail(q)[k] => j + 1 = k + 1
            BY <2>1, <3>1, <3>2, <3>3
        <3>6. \A j, k \in 1 .. n - 1 : j + 1 = k + 1 => j = k
            OBVIOUS
        <3> QED BY <2>1, <3>1, <3>4, <3>5, <3>6 DEF ItemsOf, Once
    <2> QED BY <2>2, <2>3, <2>4 DEF ItemsOf
<1> QED BY <1>1, <1>2, <1>3

\* A step takes some interactions from one place to another.
LEMMA MovesKeepUnique ==
    ASSUME Unique, captured' = captured,
           NEW from \in Places, NEW to \in Places, from # to,
           NEW moved, moved \subseteq Holds(from),
           Holds(from)' = Holds(from) \ moved, Holds(to)' = Holds(to) \union moved,
           \A p \in Places \ {from, to} : Holds(p)' = Holds(p)
    PROVE  Unique'
<1> SUFFICES ASSUME NEW i \in 1 .. captured
             PROVE  \E place \in Places : \A p \in Places : i \in Holds(p)' <=> p = place
    BY DEF Unique
<1>1. PICK place \in Places : \A p \in Places : i \in Holds(p) <=> p = place
    BY DEF Unique
<1>2. CASE i \in moved
    BY <1>1, <1>2
<1>3. CASE i \notin moved
    BY <1>1, <1>3
<1> QED BY <1>2, <1>3

LEMMA MovesKeepBound ==
    ASSUME PlacesInv, captured' = captured,
           NEW from \in Places, NEW to \in Places,
           NEW moved, moved \subseteq Holds(from),
           Holds(from)' = Holds(from) \ moved, Holds(to)' = Holds(to) \union moved,
           \A p \in Places \ {from, to} : Holds(p)' = Holds(p)
    PROVE  \A p \in Places : Holds(p)' \subseteq 1 .. captured'
BY DEF PlacesInv

\* No interaction moves.
LEMMA RestKeepsPlaces ==
    ASSUME Placed, captured' = captured, \A p \in Places : Holds(p)' = Holds(p)
    PROVE  Unique' /\ \A p \in Places : Holds(p)' \subseteq 1 .. captured'
BY DEF Placed, Unique, PlacesInv

LEMMA NothingMoves ==
    ASSUME Placed, UNCHANGED <<captured, called, dropped>>,
           session'.interactions = session.interactions,
           ~session'.registered => session'.interactions = <<>>,
           \A s \in Slots : net'[s].answer = net[s].answer,
           \A g \in Loops : /\ loop'[g].response = loop[g].response
                            /\ loop'[g].response # <<>> => loop'[g].pc = "callbacks"
    PROVE  Placed'
<1>1. \A p \in Places : Holds(p)' = Holds(p)
    <2> SUFFICES ASSUME NEW p \in Places PROVE Holds(p)' = Holds(p)
        OBVIOUS
    <2>1. CASE p \in {<<"session", 0>>, <<"dropped", 0>>}
        BY <2>1 DEF Holds
    <2>2. CASE \E s \in Slots : p = <<"slot", s>>
        BY <2>2 DEF Holds
    <2>3. CASE \E g \in Loops : p = <<"loop", g>>
        BY <2>3 DEF Holds
    <2>4. CASE \E k \in Nat : p = <<"called", k>>
        BY <2>4 DEF Holds, CalledAt
    <2> QED BY <2>1, <2>2, <2>3, <2>4, EveryPlace
<1>2. Unique' /\ \A p \in Places : Holds(p)' \subseteq 1 .. captured'
    BY <1>1, RestKeepsPlaces
<1> QED BY <1>2 DEF Placed, PlacesInv

\* The server forgets what it holds, or gives it to nobody.
LEMMA SessionIsDropped ==
    ASSUME Placed, UNCHANGED <<captured, called, loop>>,
           session'.interactions = <<>>,
           dropped' = dropped \union ItemsOf(session.interactions),
           \A s \in Slots : net'[s].answer = net[s].answer
    PROVE  Placed'
<1>1. /\ Holds(<<"session", 0>>)' = Holds(<<"session", 0>>) \ Holds(<<"session", 0>>)
      /\ Holds(<<"dropped", 0>>)' = Holds(<<"dropped", 0>>) \union Holds(<<"session", 0>>)
    BY ItemsFacts DEF Holds
<1>2. \A p \in Places \ {<<"session", 0>>, <<"dropped", 0>>} : Holds(p)' = Holds(p)
    <2> SUFFICES ASSUME NEW p \in Places \ {<<"session", 0>>, <<"dropped", 0>>}
                 PROVE  Holds(p)' = Holds(p)
        OBVIOUS
    <2>1. CASE \E s \in Slots : p = <<"slot", s>>
        BY <2>1 DEF Holds
    <2>2. CASE \E g \in Loops : p = <<"loop", g>>
        BY <2>2 DEF Holds
    <2>3. CASE \E k \in Nat : p = <<"called", k>>
        BY <2>3 DEF Holds, CalledAt
    <2> QED BY <2>1, <2>2, <2>3, EveryPlace
<1>3. <<"session", 0>> # <<"dropped", 0>>
    OBVIOUS
<1>4. Unique' /\ \A p \in Places : Holds(p)' \subseteq 1 .. captured'
    BY <1>1, <1>2, <1>3, EveryPlace, MovesKeepUnique, MovesKeepBound DEF Placed
<1> QED BY <1>4, ItemsFacts DEF Placed, PlacesInv

\* A lost answer, or one that was given up.
LEMMA AnswerIsDropped ==
    ASSUME Placed, NEW s \in Slots, UNCHANGED <<captured, called, session>>,
           dropped' = dropped \union ItemsOf(net[s].answer),
           net'[s].answer = <<>>, \A t \in Slots \ {s} : net'[t] = net[t],
           \A g \in Loops : /\ loop'[g].response = loop[g].response
                            /\ loop'[g].response # <<>> => loop'[g].pc = "callbacks"
    PROVE  Placed'
<1>1. /\ Holds(<<"slot", s>>)' = Holds(<<"slot", s>>) \ Holds(<<"slot", s>>)
      /\ Holds(<<"dropped", 0>>)' = Holds(<<"dropped", 0>>) \union Holds(<<"slot", s>>)
    BY ItemsFacts DEF Holds
<1>2. \A p \in Places \ {<<"slot", s>>, <<"dropped", 0>>} : Holds(p)' = Holds(p)
    <2> SUFFICES ASSUME NEW p \in Places \ {<<"slot", s>>, <<"dropped", 0>>}
                 PROVE  Holds(p)' = Holds(p)
        OBVIOUS
    <2>1. CASE p = <<"session", 0>>
        BY <2>1 DEF Holds
    <2>2. CASE \E t \in Slots : p = <<"slot", t>>
        BY <2>2 DEF Holds
    <2>3. CASE \E g \in Loops : p = <<"loop", g>>
        BY <2>3 DEF Holds
    <2>4. CASE \E k \in Nat : p = <<"called", k>>
        BY <2>4 DEF Holds, CalledAt
    <2> QED BY <2>1, <2>2, <2>3, <2>4, EveryPlace
<1>3. <<"slot", s>> # <<"dropped", 0>>
    OBVIOUS
<1>4. Unique' /\ \A p \in Places : Holds(p)' \subseteq 1 .. captured'
    BY <1>1, <1>2, <1>3, EveryPlace, MovesKeepUnique, MovesKeepBound DEF Placed
<1> QED BY <1>4, ItemsFacts DEF Placed, PlacesInv

\* The answer of a poll that somebody waits for.
LEMMA SessionIsAnswered ==
    ASSUME Placed, NEW s \in Slots, UNCHANGED <<captured, called, dropped, loop>>,
           session'.interactions = <<>>,
           net[s].answer = <<>>, net'[s].answer = session.interactions,
           \A t \in Slots \ {s} : net'[t] = net[t]
    PROVE  Placed'
<1>1. /\ Holds(<<"session", 0>>)' = Holds(<<"session", 0>>) \ Holds(<<"session", 0>>)
      /\ Holds(<<"slot", s>>)' = Holds(<<"slot", s>>) \union Holds(<<"session", 0>>)
    BY ItemsFacts DEF Holds
<1>2. \A p \in Places \ {<<"slot", s>>, <<"session", 0>>} : Holds(p)' = Holds(p)
    <2> SUFFICES ASSUME NEW p \in Places \ {<<"slot", s>>, <<"session", 0>>}
                 PROVE  Holds(p)' = Holds(p)
        OBVIOUS
    <2>1. CASE p = <<"dropped", 0>>
        BY <2>1 DEF Holds
    <2>2. CASE \E t \in Slots : p = <<"slot", t>>
        BY <2>2 DEF Holds
    <2>3. CASE \E g \in Loops : p = <<"loop", g>>
        BY <2>3 DEF Holds
    <2>4. CASE \E k \in Nat : p = <<"called", k>>
        BY <2>4 DEF Holds, CalledAt
    <2> QED BY <2>1, <2>2, <2>3, <2>4, EveryPlace
<1>3. /\ <<"slot", s>> # <<"session", 0>>
      /\ <<"slot", s>> \in Places /\ <<"session", 0>> \in Places
    BY EveryPlace
<1>4. Unique' /\ \A p \in Places : Holds(p)' \subseteq 1 .. captured'
    BY <1>1, <1>2, <1>3, MovesKeepUnique, MovesKeepBound DEF Placed
<1> QED BY <1>4, ItemsFacts DEF Placed, PlacesInv

\* A loop has read the response.
LEMMA AnswerIsReceived ==
    ASSUME Placed, NEW s \in Slots, NEW g \in Loops,
           UNCHANGED <<captured, called, dropped, session>>,
           net'[s].answer = <<>>, \A t \in Slots \ {s} : net'[t] = net[t],
           loop[g].response = <<>>, loop'[g].response = net[s].answer,
           loop'[g].pc = "callbacks", \A h \in Loops \ {g} : loop'[h] = loop[h]
    PROVE  Placed'
<1>1. /\ Holds(<<"slot", s>>)' = Holds(<<"slot", s>>) \ Holds(<<"slot", s>>)
      /\ Holds(<<"loop", g>>)' = Holds(<<"loop", g>>) \union Holds(<<"slot", s>>)
    BY ItemsFacts DEF Holds
<1>2. \A p \in Places \ {<<"slot", s>>, <<"loop", g>>} : Holds(p)' = Holds(p)
    <2> SUFFICES ASSUME NEW p \in Places \ {<<"slot", s>>, <<"loop", g>>}
                 PROVE  Holds(p)' = Holds(p)
        OBVIOUS
    <2>1. CASE p \in {<<"session", 0>>, <<"dropped", 0>>}
        BY <2>1 DEF Holds
    <2>2. CASE \E t \in Slots : p = <<"slot", t>>
        BY <2>2 DEF Holds
    <2>3. CASE \E h \in Loops : p = <<"loop", h>>
        BY <2>3 DEF Holds
    <2>4. CASE \E k \in Nat : p = <<"called", k>>
        BY <2>4 DEF Holds, CalledAt
    <2> QED BY <2>1, <2>2, <2>3, <2>4, EveryPlace
<1>3. /\ <<"slot", s>> # <<"loop", g>>
      /\ <<"slot", s>> \in Places /\ <<"loop", g>> \in Places
    BY EveryPlace
<1>4. Unique' /\ \A p \in Places : Holds(p)' \subseteq 1 .. captured'
    BY <1>1, <1>2, <1>3, MovesKeepUnique, MovesKeepBound DEF Placed
<1> QED BY <1>4, ItemsFacts DEF Placed, PlacesInv

\* A loop passes the first interaction of its response to the callback.
LEMMA ItemIsCalled ==
    ASSUME Placed, NEW g \in Loops, UNCHANGED <<captured, dropped, session, net>>,
           called \in Seq(Nat), loop[g].response \in Seq(Nat), loop[g].response # <<>>,
           called' = Append(called, Head(loop[g].response)),
           loop'[g].response = Tail(loop[g].response), loop'[g].pc = loop[g].pc,
           \A h \in Loops \ {g} : loop'[h] = loop[h]
    PROVE  Placed'
<1>0. PICK next : next = Len(called) + 1
    OBVIOUS
<1>1. /\ next \in Nat /\ Head(loop[g].response) \in Nat
      /\ DOMAIN called = 1 .. Len(called) /\ DOMAIN called' = 1 .. Len(called) + 1
      /\ called'[next] = Head(loop[g].response)
      /\ \A k \in 1 .. Len(called) : called'[k] = called[k]
    BY <1>0
<1>2. /\ ItemsOf(loop[g].response) = ItemsOf(Tail(loop[g].response)) \union {Head(loop[g].response)}
      /\ Head(loop[g].response) \notin ItemsOf(Tail(loop[g].response))
      /\ Once(Tail(loop[g].response))
    BY ItemsFacts DEF Placed, PlacesInv
<1>3. /\ Head(loop[g].response) \in Holds(<<"loop", g>>)
      /\ Holds(<<"loop", g>>)' = Holds(<<"loop", g>>) \ {Head(loop[g].response)}
    BY <1>2 DEF Holds
<1>4. Holds(<<"called", next>>)' = Holds(<<"called", next>>) \union {Head(loop[g].response)}
    <2>1. DOMAIN called \intersect {next} = {} /\ DOMAIN called' \intersect {next} = {next}
        BY <1>0, <1>1
    <2>2. CalledAt(next) = {} /\ CalledAt(next)' = {called'[next]}
        BY <2>1 DEF CalledAt
    <2> QED BY <1>1, <2>2 DEF Holds
<1>5. \A p \in Places \ {<<"loop", g>>, <<"called", next>>} : Holds(p)' = Holds(p)
    <2> SUFFICES ASSUME NEW p \in Places \ {<<"loop", g>>, <<"called", next>>}
                 PROVE  Holds(p)' = Holds(p)
        OBVIOUS
    <2>1. CASE p \in {<<"session", 0>>, <<"dropped", 0>>}
        BY <2>1 DEF Holds
    <2>2. CASE \E t \in Slots : p = <<"slot", t>>
        BY <2>2 DEF Holds
    <2>3. CASE \E h \in Loops : p = <<"loop", h>>
        BY <2>3 DEF Holds
    <2>4. CASE \E k \in Nat : p = <<"called", k>>
        <3>1. PICK k \in Nat : p = <<"called", k>> /\ k # next
            BY <2>4
        <3>2. DOMAIN called' \intersect {k} = DOMAIN called \intersect {k}
              /\ \A j \in DOMAIN called \intersect {k} : called'[j] = called[j]
            BY <1>0, <1>1, <3>1
        <3>3. CalledAt(k)' = CalledAt(k)
            BY <3>2 DEF CalledAt
        <3> QED BY <3>1, <3>3 DEF Holds
    <2> QED BY <2>1, <2>2, <2>3, <2>4, EveryPlace
<1>6. /\ <<"loop", g>> # <<"called", next>>
      /\ <<"loop", g>> \in Places /\ <<"called", next>> \in Places
    BY <1>1, EveryPlace
<1>7. {Head(loop[g].response)} \subseteq Holds(<<"loop", g>>)
    BY <1>3
<1>8. Unique' /\ \A p \in Places : Holds(p)' \subseteq 1 .. captured'
    <2>1. Unique /\ PlacesInv /\ captured' = captured
        BY DEF Placed
    <2>2. PICK moved : moved = {Head(loop[g].response)}
        OBVIOUS
    <2>3. /\ moved \subseteq Holds(<<"loop", g>>)
          /\ Holds(<<"loop", g>>)' = Holds(<<"loop", g>>) \ moved
          /\ Holds(<<"called", next>>)' = Holds(<<"called", next>>) \union moved
        BY <1>3, <1>4, <1>7, <2>2
    <2> QED BY <1>5, <1>6, <2>1, <2>3, MovesKeepUnique, MovesKeepBound
<1>9. \A h \in Loops : /\ Once(loop'[h].response)
                       /\ loop'[h].response # <<>> => loop'[h].pc = "callbacks"
    BY <1>2 DEF Placed, PlacesInv
<1> QED BY <1>8, <1>9 DEF Placed, PlacesInv

\* A new interaction, with the session or nowhere.
LEMMA CaptureKeepsPlaces == ASSUME Kept, Placed, Capture PROVE Placed'
<1>1. /\ captured \in Nat /\ captured' = captured + 1 /\ session.interactions \in Seq(Nat)
      /\ UNCHANGED <<net, loop, called>>
    BY DEF Kept, TypeOK, Capture
<1>2. PICK place \in {<<"session", 0>>, <<"dropped", 0>>} :
         /\ Holds(place)' = Holds(place) \union {captured + 1}
         /\ \A p \in {<<"session", 0>>, <<"dropped", 0>>} \ {place} : Holds(p)' = Holds(p)
    <2>1. CASE session.registered
        <3>1. PICK q : q = Append(session.interactions, captured + 1)
            OBVIOUS
        <3>2. session' = [session EXCEPT !.interactions = q] /\ dropped' = dropped
            BY <2>1, <3>1 DEF Capture
        <3>3. session'.interactions = q
            BY <3>2 DEF Kept, TypeOK
        <3>4. ItemsOf(q) = ItemsOf(session.interactions) \union {captured + 1}
            BY <1>1, <3>1, ItemsFacts
        <3>5. /\ Holds(<<"session", 0>>)' = Holds(<<"session", 0>>) \union {captured + 1}
              /\ Holds(<<"dropped", 0>>)' = Holds(<<"dropped", 0>>)
            BY <3>2, <3>3, <3>4 DEF Holds
        <3> QED BY <3>5
    <2>2. CASE ~session.registered
        <3>1. session' = session /\ dropped' = dropped \union {captured + 1}
            BY <2>2 DEF Capture
        <3>2. /\ Holds(<<"dropped", 0>>)' = Holds(<<"dropped", 0>>) \union {captured + 1}
              /\ Holds(<<"session", 0>>)' = Holds(<<"session", 0>>)
            BY <3>1 DEF Holds
        <3> QED BY <3>2
    <2> QED BY <2>1, <2>2
<1>3. \A p \in Places \ {place} : Holds(p)' = Holds(p)
    <2> SUFFICES ASSUME NEW p \in Places \ {place} PROVE Holds(p)' = Holds(p)
        OBVIOUS
    <2>1. CASE \E s \in Slots : p = <<"slot", s>>
        BY <1>1, <2>1 DEF Holds
    <2>2. CASE \E g \in Loops : p = <<"loop", g>>
        BY <1>1, <2>2 DEF Holds
    <2>3. CASE \E k \in Nat : p = <<"called", k>>
        BY <1>1, <2>3 DEF Holds, CalledAt
    <2> QED BY <1>2, <2>1, <2>2, <2>3, EveryPlace
<1>4. place \in Places /\ \A p \in Places : Holds(p) \subseteq 1 .. captured
    BY EveryPlace DEF Placed, PlacesInv
<1>5. 1 .. captured' = (1 .. captured) \union {captured + 1} /\ captured + 1 \notin 1 .. captured
    BY <1>1
<1>6. Unique'
    <2> SUFFICES ASSUME NEW i \in 1 .. captured'
                 PROVE  \E q \in Places : \A p \in Places : i \in Holds(p)' <=> p = q
        BY DEF Unique
    <2>1. CASE i = captured + 1
        <3>1. \A p \in Places : i \in Holds(p)' <=> p = place
            BY <1>2, <1>3, <1>4, <1>5, <2>1
        <3> QED BY <1>4, <3>1
    <2>2. CASE i # captured + 1
        <3>1. PICK q \in Places : \A p \in Places : i \in Holds(p) <=> p = q
            BY <1>5, <2>2 DEF Placed, Unique
        <3>2. \A p \in Places : i \in Holds(p)' <=> p = q
            BY <1>2, <1>3, <1>4, <2>2, <3>1
        <3> QED BY <3>2
    <2> QED BY <2>1, <2>2
<1>7. \A p \in Places : Holds(p)' \subseteq 1 .. captured'
    BY <1>2, <1>3, <1>4, <1>5
<1>8. Once(session'.interactions) /\ (~session'.registered => session'.interactions = <<>>)
    <2>1. CASE session.registered
        <3>1. PICK q : q = Append(session.interactions, captured + 1)
            OBVIOUS
        <3>2. session' = [session EXCEPT !.interactions = q]
            BY <2>1, <3>1 DEF Capture
        <3>3. session'.interactions = q /\ session'.registered
            BY <2>1, <3>2 DEF Kept, TypeOK
        <3>4. captured + 1 \notin ItemsOf(session.interactions)
            BY <1>4, <1>5, HoldsFacts, EveryPlace
        <3>5. Once(q)
            BY <1>1, <3>1, <3>4, ItemsFacts DEF Placed, PlacesInv
        <3> QED BY <3>3, <3>5
    <2>2. CASE ~session.registered
        BY <2>2 DEF Capture, Placed, PlacesInv
    <2> QED BY <2>1, <2>2
<1> QED BY <1>1, <1>6, <1>7, <1>8 DEF Placed, PlacesInv

\* No loop but one at its callbacks has a response.
LEMMA ResponsesAtCallbacks ==
    ASSUME Placed, loop' = loop
    PROVE  \A g \in Loops : /\ loop'[g].response = loop[g].response
                            /\ loop'[g].response # <<>> => loop'[g].pc = "callbacks"
BY DEF Placed, PlacesInv

\* A request that is under way has no answer yet.
LEMMA AnswerKeepsOthers ==
    ASSUME Kept, NEW s \in Slots, net[s].phase = "sent", Answer(s, <<>>) \/ Fails(s)
    PROVE  \A t \in Slots : net'[t].answer = net[t].answer
<1>1. TypeOK /\ net[s].answer = <<>>
    BY DEF Kept, SlotsInv, Phases
<1>2. <<>> \in Seq(Nat)
    OBVIOUS
<1>3. /\ \A t \in Slots \ {s} : net'[t] = net[t]
      /\ net[s].waiting => net'[s].answer = <<>>
      /\ ~net[s].waiting => net'[s] = Unused
    <2>1. CASE Answer(s, <<>>)
        BY <1>1, <1>2, <2>1, AnswerIsRequest
    <2>2. CASE Fails(s)
        BY <1>1, <2>2, FailureIsRequest
    <2> QED BY <2>1, <2>2
<1> QED BY <1>1, <1>3, UnusedIsFree DEF UnusedFacts

LEMMA ServerKeepsPlaces ==
    ASSUME Kept, Placed, NEW s \in Slots,
           ServerRegister(s) \/ ServerPoll(s) \/ ServerDeregister(s)
    PROVE  Placed'
<1>1. net[s].phase = "sent" /\ UNCHANGED <<captured, called, loop>>
    BY DEF ServerRegister, ServerPoll, ServerDeregister
<1>2. CASE ServerRegister(s)
    <2>1. \A t \in Slots : net'[t].answer = net[t].answer
        BY <1>1, <1>2, AnswerKeepsOthers DEF ServerRegister
    <2>2. /\ session'.interactions = session.interactions
          /\ ~session'.registered => session'.interactions = <<>>
          /\ dropped' = dropped
        BY <1>2 DEF ServerRegister, Placed, PlacesInv
    <2> QED BY <1>1, <2>1, <2>2, ResponsesAtCallbacks, NothingMoves
<1>3. CASE ServerPoll(s)
    <2>1. /\ TypeOK /\ net[s].answer = <<>> /\ session.interactions \in Seq(Nat)
          /\ Answer(s, session.interactions)
        BY <1>1, <1>3 DEF Kept, SlotsInv, Phases, TypeOK, ServerPoll
    <2>2. /\ \A t \in Slots \ {s} : net'[t] = net[t]
          /\ net[s].waiting => net'[s].answer = session.interactions
          /\ ~net[s].waiting => net'[s] = Unused
        BY <2>1, AnswerIsRequest
    <2>3. session'.interactions = <<>>
        <3>1. PICK e : e = <<>>
            OBVIOUS
        <3>2. session' = [session EXCEPT !.interactions = e]
            BY <1>3, <3>1 DEF ServerPoll
        <3> QED BY <2>1, <3>1, <3>2 DEF TypeOK
    <2>4. CASE net[s].waiting
        <3>1. dropped' = dropped
            BY <1>3, <2>4 DEF ServerPoll
        <3> QED BY <1>1, <2>1, <2>2, <2>3, <2>4, <3>1, SessionIsAnswered
    <2>5. CASE ~net[s].waiting
        <3>1. dropped' = dropped \union ItemsOf(session.interactions)
            BY <1>3, <2>5 DEF ServerPoll
        <3>2. \A t \in Slots : net'[t].answer = net[t].answer
            BY <2>1, <2>2, <2>5, UnusedIsFree DEF UnusedFacts
        <3> QED BY <1>1, <2>3, <3>1, <3>2, SessionIsDropped
    <2> QED BY <2>4, <2>5
<1>4. CASE ServerDeregister(s)
    <2>1. \A t \in Slots : net'[t].answer = net[t].answer
        BY <1>1, <1>4, AnswerKeepsOthers DEF ServerDeregister
    <2> QED BY <1>1, <1>4, <2>1, SessionIsDropped DEF ServerDeregister, EndSession
<1> QED BY <1>2, <1>3, <1>4

LEMMA LoseKeepsPlaces == ASSUME Kept, Placed, NEW s \in Slots, Lose(s) PROVE Placed'
<1>1. TypeOK /\ Fails(s) /\ UNCHANGED <<captured, called, session, loop>>
      /\ dropped' = dropped \union ItemsOf(net[s].answer)
    BY DEF Kept, Lose
<1>2. net'[s].answer = <<>> /\ \A t \in Slots \ {s} : net'[t] = net[t]
    BY <1>1, FailureIsRequest, UnusedIsFree DEF UnusedFacts
<1> QED BY <1>1, <1>2, ResponsesAtCallbacks, AnswerIsDropped

LEMMA PollingKeepsPlaces ==
    ASSUME Kept, Placed, NEW g \in Loops, Polling(g)
    PROVE  Placed'
<1>1. /\ TypeOK /\ SlotsInv /\ loop \in [Loops -> LoopState] /\ loop[g] \in LoopState
      /\ \A h \in Loops : loop[h].response # <<>> => loop[h].pc = "callbacks"
      /\ ~session.registered => session.interactions = <<>>
    BY DEF Kept, TypeOK, Placed, PlacesInv
<1>2. ASSUME NEW s \in Slots, PollTick(g, s)
      PROVE  Placed'
    <2>1. loop' = [loop EXCEPT ![g].pc = "request", ![g].slot = s]
        BY <1>2 DEF PollTick
    <2>2. /\ loop'[g].response = loop[g].response /\ loop[g].response = <<>>
          /\ \A h \in Loops \ {g} : loop'[h] = loop[h]
        BY <1>1, <1>2, <2>1 DEF PollTick, LoopState
    <2>3. \A t \in Slots : net'[t].answer = net[t].answer
        <3>1. net' = [net EXCEPT ![s] = Sent("poll")] /\ net[s].answer = <<>>
            BY <1>1, <1>2, FreeIsNobodys DEF PollTick
        <3> QED BY <1>1, <3>1, SentFacts DEF TypeOK
    <2> QED BY <1>1, <1>2, <2>2, <2>3, NothingMoves DEF PollTick
<1>3. ASSUME loop[g].pc = "request", net' = [net EXCEPT ![loop[g].slot] = Released(loop[g].slot)]
      PROVE  /\ loop[g].slot \in Slots /\ loop[g].response = <<>>
             /\ net'[loop[g].slot].answer = <<>>
             /\ \A t \in Slots \ {loop[g].slot} : net'[t] = net[t]
    <2>1. loop[g].slot \in Slots
        BY <1>1, <1>3 DEF SlotsInv, LoopsWait, WaitsFor
    <2> QED BY <1>1, <1>3, <2>1, ReleasedFacts DEF TypeOK
<1>4. CASE PollReceive(g)
    <2>1. PICK a : a = net[loop[g].slot].answer
        OBVIOUS
    <2>2. loop' = [loop EXCEPT ![g].pc = "callbacks", ![g].slot = None, ![g].response = a]
        BY <1>4, <2>1 DEF PollReceive
    <2>3. net' = [net EXCEPT ![loop[g].slot] = Released(loop[g].slot)] /\ loop[g].pc = "request"
        BY <1>4 DEF PollReceive, Answered, Released
    <2>4. loop[g].slot \in Slots /\ a \in Seq(Nat)
        BY <1>1, <1>3, <2>1, <2>3 DEF TypeOK, Request
    <2>5. /\ loop'[g].response = a /\ loop'[g].pc = "callbacks"
          /\ \A h \in Loops \ {g} : loop'[h] = loop[h]
        BY <1>1, <2>2, <2>4 DEF LoopState
    <2>6. /\ loop[g].response = <<>> /\ net'[loop[g].slot].answer = <<>>
          /\ \A t \in Slots \ {loop[g].slot} : net'[t] = net[t]
          /\ UNCHANGED <<captured, called, dropped, session>>
        BY <1>3, <1>4, <2>3 DEF PollReceive
    <2> QED BY <2>1, <2>4, <2>5, <2>6, AnswerIsReceived
<1>5. CASE PollError(g)
    <2>1. /\ net' = [net EXCEPT ![loop[g].slot] = Released(loop[g].slot)]
          /\ loop[g].pc = "request"
          /\ loop' = [loop EXCEPT ![g].pc = "wait", ![g].slot = None]
        BY <1>5 DEF PollError
    <2>2. loop'[g].response = loop[g].response /\ \A h \in Loops \ {g} : loop'[h] = loop[h]
        BY <1>1, <2>1 DEF LoopState
    <2> QED BY <1>1, <1>3, <1>5, <2>1, <2>2, AnswerIsDropped DEF PollError
<1>6. CASE Callback(g)
    <2>1. CASE loop[g].response = <<>>
        <3>1. loop' = [loop EXCEPT ![g].pc = "wait"] /\ called' = called
            BY <1>6, <2>1 DEF Callback
        <3>2. loop'[g].response = loop[g].response /\ \A h \in Loops \ {g} : loop'[h] = loop[h]
            BY <1>1, <3>1 DEF LoopState
        <3> QED BY <1>1, <1>6, <2>1, <3>1, <3>2, NothingMoves DEF Callback
    <2>2. CASE loop[g].response # <<>>
        <3>1. PICK rest : rest = Tail(loop[g].response)
            OBVIOUS
        <3>2. loop' = [loop EXCEPT ![g].response = rest]
              /\ called' = Append(called, Head(loop[g].response))
            BY <1>6, <2>2, <3>1 DEF Callback
        <3>3. rest \in Seq(Nat) /\ loop[g].response \in Seq(Nat) /\ called \in Seq(Nat)
            BY <1>1, <2>2, <3>1 DEF LoopState, TypeOK
        <3>4. /\ loop'[g].response = rest /\ loop'[g].pc = loop[g].pc
              /\ \A h \in Loops \ {g} : loop'[h] = loop[h]
            BY <1>1, <3>2, <3>3 DEF LoopState
        <3> QED BY <1>6, <2>2, <3>1, <3>2, <3>3, <3>4, ItemIsCalled DEF Callback
    <2> QED BY <2>1, <2>2
<1>7. CASE PollExit(g)
    <2>1. loop' = [loop EXCEPT ![g] = Exited] /\ loop[g].response = <<>>
        BY <1>1, <1>7 DEF PollExit
    <2>2. \A h \in Loops : loop'[h].response = loop[h].response
        BY <1>1, <2>1 DEF Exited
    <2> QED BY <1>1, <1>7, <2>1, <2>2, NothingMoves DEF PollExit
<1> QED BY <1>2, <1>4, <1>5, <1>6, <1>7 DEF Polling

LEMMA CancelKeepsPlaces == ASSUME Kept, Placed, StopPolling \/ CloseLock PROVE Placed'
<1>1. /\ loop' = PollCancel /\ UNCHANGED <<net, session, captured, called, dropped>>
    BY DEF StopPolling, CloseLock
<1>2. \A g \in Loops : /\ loop'[g].response = loop[g].response
                       /\ loop'[g].response # <<>> => loop'[g].pc = "callbacks"
    BY <1>1, PollCancelFacts DEF Kept, Placed, PlacesInv
<1> QED BY <1>1, <1>2, NothingMoves DEF Placed, PlacesInv

LEMMA StartKeepsPlaces == ASSUME Kept, Placed, NEW g \in Loops, StartPolling(g) PROVE Placed'
<1>1. PICK q : q = [Exited EXCEPT !.pc = "wait"]
    OBVIOUS
<1>2. q.response = <<>>
    BY <1>1 DEF Exited
<1>3. /\ loop' = [loop EXCEPT ![g] = q] /\ loop[g].pc = "exited"
      /\ UNCHANGED <<net, session, captured, called, dropped>>
    BY <1>1 DEF StartPolling
<1>4. \A h \in Loops : /\ loop'[h].response = loop[h].response
                       /\ loop'[h].response # <<>> => loop'[h].pc = "callbacks"
    BY <1>2, <1>3 DEF Kept, TypeOK, Placed, PlacesInv
<1> QED BY <1>3, <1>4, NothingMoves DEF Placed, PlacesInv

\* The keep-alive and Close send and give up requests without interactions.
LEMMA KeepingAliveKeepsPlaces == ASSUME Kept, Placed, KeepingAlive \/ Closing PROVE Placed'
<1>1. TypeOK /\ SlotsInv /\ UNCHANGED <<loop, session, captured, called, dropped>>
    BY DEF Kept, KeepingAlive, KeepAliveTick, KeepAliveCheck, KeepAliveSend, KeepAliveReturn,
           KeepAliveExit, Closing, CloseUnlock, CloseJoin, CloseReturn
<1>2. ASSUME NEW s \in Slots, NEW kind, FreeSlot(s), net' = [net EXCEPT ![s] = Sent(kind)]
      PROVE  \A t \in Slots : net'[t].answer = net[t].answer
    BY <1>1, <1>2, FreeIsNobodys, SentFacts DEF TypeOK
<1>3. ASSUME NEW s \in Slots, net[s].kind # "poll", net' = [net EXCEPT ![s] = Released(s)]
      PROVE  \A t \in Slots : net'[t].answer = net[t].answer
    <2>1. net[s].answer = <<>>
        BY <1>1, <1>3 DEF SlotsInv, Phases
    <2> QED BY <1>1, <1>3, <2>1, ReleasedFacts DEF TypeOK
<1>4. \A t \in Slots : net'[t].answer = net[t].answer
    <2>1. CASE KeepAliveTick \/ KeepAliveCheck \/ KeepAliveExit \/ CloseUnlock
        BY <2>1 DEF KeepAliveTick, KeepAliveCheck, KeepAliveExit, CloseUnlock
    <2>2. ASSUME NEW s \in Slots, KeepAliveSend(s) \/ CloseJoin(s)
          PROVE  \A t \in Slots : net'[t].answer = net[t].answer
        BY <1>2, <2>2 DEF KeepAliveSend, CloseJoin
    <2>3. CASE KeepAliveReturn
        <3>1. ka.slot \in Slots /\ net[ka.slot].kind = "register"
            BY <1>1, <2>3 DEF KeepAliveReturn, SlotsInv, KeepAliveWaits, WaitsFor
        <3> QED BY <1>3, <2>3, <3>1 DEF KeepAliveReturn
    <2>4. CASE CloseReturn
        <3>1. closer.slot \in Slots /\ net[closer.slot].kind = "deregister"
            BY <1>1, <2>4 DEF CloseReturn, SlotsInv, CloserWaits, WaitsFor
        <3> QED BY <1>3, <2>4, <3>1 DEF CloseReturn
    <2> QED BY <2>1, <2>2, <2>3, <2>4 DEF KeepingAlive, Closing
<1>5. ~session'.registered => session'.interactions = <<>>
    BY <1>1 DEF Placed, PlacesInv
<1> QED BY <1>1, <1>4, <1>5, ResponsesAtCallbacks, NothingMoves

LEMMA NextKeepsPlaces == ASSUME Kept, Placed, [Next]_vars PROVE Placed'
<1>1. CASE Server \/ \E s \in Slots : Lose(s)
    BY <1>1, ServerKeepsPlaces, LoseKeepsPlaces DEF Server
<1>2. CASE Capture
    BY <1>2, CaptureKeepsPlaces
<1>3. CASE Evict
    BY <1>3, SessionIsDropped DEF Evict, EndSession
<1>4. CASE \E g \in Loops : StartPolling(g) \/ Polling(g)
    BY <1>4, StartKeepsPlaces, PollingKeepsPlaces
<1>5. CASE StopPolling \/ CloseLock
    BY <1>5, CancelKeepsPlaces
<1>6. CASE KeepingAlive \/ Closing
    BY <1>6, KeepingAliveKeepsPlaces
<1>7. CASE UNCHANGED vars
    <2>1. ~session'.registered => session'.interactions = <<>>
        BY <1>7 DEF vars, Placed, PlacesInv
    <2> QED BY <1>7, <2>1, ResponsesAtCallbacks, NothingMoves DEF vars
<1> QED BY <1>1, <1>2, <1>3, <1>4, <1>5, <1>6, <1>7 DEF Next, Finished

LEMMA InitPlaced == Init => Placed
<1> SUFFICES ASSUME Init PROVE Placed
    OBVIOUS
<1>1. \A p \in Places : Holds(p) = {}
    <2> SUFFICES ASSUME NEW p \in Places PROVE Holds(p) = {}
        OBVIOUS
    <2>1. CASE p \in {<<"session", 0>>, <<"dropped", 0>>}
        BY <2>1, ItemsFacts DEF Init, Holds
    <2>2. CASE \E s \in Slots : p = <<"slot", s>>
        BY <2>2, ItemsFacts, UnusedIsFree DEF Init, Holds, UnusedFacts
    <2>3. CASE \E g \in Loops : p = <<"loop", g>>
        BY <2>3, ItemsFacts DEF Init, Holds, Exited
    <2>4. CASE \E k \in Nat : p = <<"called", k>>
        <3>1. DOMAIN called = {}
            BY DEF Init
        <3> QED BY <2>4, <3>1 DEF Holds, CalledAt
    <2> QED BY <2>1, <2>2, <2>3, <2>4, EveryPlace
<1>2. 1 .. captured = {}
    BY DEF Init
<1>3. /\ session.interactions = <<>> /\ \A s \in Slots : net[s].answer = <<>>
      /\ \A g \in Loops : loop[g].response = <<>>
    BY UnusedIsFree DEF Init, UnusedFacts, Exited
<1> QED BY <1>1, <1>2, <1>3, ItemsFacts DEF Placed, Unique, PlacesInv

LEMMA PlacedSuffices == ASSUME Kept, Placed PROVE InOnePlace
<1> SUFFICES ASSUME NEW i \in 1 .. captured
             PROVE  1 = Cardinality({s \in Slots : i \in ItemsOf(net[s].answer)})
                        + Cardinality({g \in Loops : i \in ItemsOf(loop[g].response)})
                        + Cardinality({k \in DOMAIN called : called[k] = i})
                        + Cardinality({q \in {1, 2} :
                              i \in <<ItemsOf(session.interactions), dropped>>[q]})
    BY DEF InOnePlace
<1> DEFINE inSlots == {s \in Slots : i \in ItemsOf(net[s].answer)}
           inLoops == {g \in Loops : i \in ItemsOf(loop[g].response)}
           inCalled == {k \in DOMAIN called : called[k] = i}
           elsewhere == {q \in {1, 2} : i \in <<ItemsOf(session.interactions), dropped>>[q]}
<1>1. PICK place \in Places : \A p \in Places : i \in Holds(p) <=> p = place
    BY DEF Placed, Unique
<1>2. \A s \in Slots : s \in inSlots <=> place = <<"slot", s>>
    BY <1>1, HoldsFacts, EveryPlace
<1>3. \A g \in Loops : g \in inLoops <=> place = <<"loop", g>>
    BY <1>1, HoldsFacts, EveryPlace
<1>4. \A k \in DOMAIN called : k \in inCalled <=> place = <<"called", k>>
    <2> SUFFICES ASSUME NEW k \in DOMAIN called
                 PROVE  called[k] = i <=> place = <<"called", k>>
        OBVIOUS
    <2>1. k \in Nat
        BY DEF Kept, TypeOK
    <2>2. Holds(<<"called", k>>) = {called[k]}
        BY <2>1, HoldsFacts DEF CalledAt
    <2> QED BY <1>1, <2>1, <2>2, EveryPlace
<1>5. ASSUME NEW k \in Nat, place = <<"called", k>>
      PROVE  k \in DOMAIN called
    <2>1. i \in CalledAt(k)
        BY <1>1, <1>5, HoldsFacts, EveryPlace
    <2> QED BY <2>1 DEF CalledAt
<1>6. /\ 1 \in elsewhere <=> place = <<"session", 0>>
      /\ 2 \in elsewhere <=> place = <<"dropped", 0>>
    BY <1>1, HoldsFacts, EveryPlace
<1>7. /\ inSlots \subseteq Slots /\ inLoops \subseteq Loops /\ inCalled \subseteq DOMAIN called
      /\ elsewhere \subseteq {1, 2}
    OBVIOUS
<1>8. Cardinality({}) = 0 /\ \A x : Cardinality({x}) = 1
    BY FS_EmptySet, FS_Singleton
<1> HIDE DEF inSlots, inLoops, inCalled, elsewhere
<1>9. 1 = Cardinality(inSlots) + Cardinality(inLoops) + Cardinality(inCalled)
          + Cardinality(elsewhere)
    <2>1. CASE \E s \in Slots : place = <<"slot", s>>
        <3>1. PICK s \in Slots : place = <<"slot", s>>
            BY <2>1
        <3>2. inSlots = {s} /\ inLoops = {} /\ inCalled = {} /\ elsewhere = {}
            BY <1>2, <1>3, <1>4, <1>6, <1>7, <3>1
        <3>3. Cardinality({s}) = 1 /\ Cardinality({}) = 0
            BY <1>8
        <3> QED BY <3>2, <3>3
    <2>2. CASE \E g \in Loops : place = <<"loop", g>>
        <3>1. PICK g \in Loops : place = <<"loop", g>>
            BY <2>2
        <3>2. inLoops = {g} /\ inSlots = {} /\ inCalled = {} /\ elsewhere = {}
            BY <1>2, <1>3, <1>4, <1>6, <1>7, <3>1
        <3>3. Cardinality({g}) = 1 /\ Cardinality({}) = 0
            BY <1>8
        <3> QED BY <3>2, <3>3
    <2>3. CASE \E k \in Nat : place = <<"called", k>>
        <3>1. PICK k \in Nat : place = <<"called", k>>
            BY <2>3
        <3>2. inCalled = {k} /\ inSlots = {} /\ inLoops = {} /\ elsewhere = {}
            BY <1>2, <1>3, <1>4, <1>5, <1>6, <1>7, <3>1
        <3>3. Cardinality({k}) = 1 /\ Cardinality({}) = 0
            BY <1>8
        <3> QED BY <3>2, <3>3
    <2>4. CASE place = <<"session", 0>>
        <3>1. elsewhere = {1} /\ inSlots = {} /\ inLoops = {} /\ inCalled = {}
            BY <1>2, <1>3, <1>4, <1>6, <1>7, <2>4
        <3>2. Cardinality({1}) = 1 /\ Cardinality({}) = 0
            BY <1>8
        <3> QED BY <3>1, <3>2
    <2>5. CASE place = <<"dropped", 0>>
        <3>1. elsewhere = {2} /\ inSlots = {} /\ inLoops = {} /\ inCalled = {}
            BY <1>2, <1>3, <1>4, <1>6, <1>7, <2>5
        <3>2. Cardinality({2}) = 1 /\ Cardinality({}) = 0
            BY <1>8
        <3> QED BY <3>1, <3>2
    <2> QED BY <2>1, <2>2, <2>3, <2>4, <2>5, EveryPlace
<1> QED BY <1>9 DEF inSlots, inLoops, inCalled, elsewhere

\* No interaction is lost or passed to the callback twice: polls that are given
\* up, late answers, evictions and a second loop next to an old one only move
\* it, or drop it for a reason the model names (client.go:478-538).
THEOREM EveryInteractionInOnePlace == Spec => []InOnePlace
<1>1. Spec => []Placed
    BY InitPlaced, ClientInvariant, NextKeepsPlaces, PTL DEF Spec
<1> QED BY <1>1, ClientInvariant, PlacedSuffices, PTL
===============================================================================
