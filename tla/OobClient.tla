------------------------------- MODULE OobClient ------------------------------
(***************************************************************************)
(* A registered oobclient.Client (client.go): the goroutine of the         *)
(* keep-alive, one goroutine per StartPolling, and the callers of          *)
(* StartPolling, StopPolling and Close, against a server that keeps the    *)
(* client's session.                                                       *)
(*                                                                         *)
(* HTTP requests live in slots.  A request that was sent may be handled by *)
(* the server at any later time, also when its caller gave up (cancelled   *)
(* context, timeout): the server's handlers ignore the request context.    *)
(* The request or its answer may be lost; then the caller gets an error.   *)
(***************************************************************************)
EXTENDS Naturals, Sequences, FiniteSets

CONSTANTS
    Loops,      \* goroutines of pollLoop; a slot is reused after its exit
    Slots,      \* bound: requests in flight at a time
    MaxItems,   \* bound: interactions captured for the session
    KeepAlive,  \* keepAliveInterval > 0
    Lossy,      \* requests and answers may be lost or time out
    Evicts,     \* the server may evict the session
    None

ASSUME FlagAssumption == KeepAlive \in BOOLEAN /\ Lossy \in BOOLEAN /\ Evicts \in BOOLEAN

VARIABLES
    state,     \* c.state
    locked,    \* c.mu is held by Close
    loop,      \* loop[g]: a pollLoop goroutine, its context and its response
    ka,        \* the keep-alive goroutine and its context
    closer,    \* the goroutine in Close
    net,       \* net[s]: the request in slot s
    session,   \* the server's session: registered or not, and its interactions
    captured,  \* history: interactions the server captured for the ID so far
    called,    \* history: interactions passed to the callback, in order
    dropped    \* history: interactions lost with a session or a response

vars == <<state, locked, loop, ka, closer, net, session, captured, called, dropped>>

Exited == [pc |-> "exited", cancelled |-> FALSE, slot |-> None, response |-> <<>>]
Unused == [kind |-> None, phase |-> "free", waiting |-> FALSE, answer |-> <<>>]

\* New returned: the session is registered, keep-alive runs if enabled.
Init ==
    /\ state = "idle"
    /\ locked = FALSE
    /\ loop = [g \in Loops |-> Exited]
    /\ ka = [pc |-> IF KeepAlive THEN "wait" ELSE "done", cancelled |-> FALSE, slot |-> None]
    /\ closer = [pc |-> "none", slot |-> None, ok |-> FALSE]
    /\ net = [s \in Slots |-> Unused]
    /\ session = [registered |-> TRUE, interactions |-> <<>>]
    /\ captured = 0
    /\ called = <<>>
    /\ dropped = {}

-------------------------------------------------------------------------------
(* Requests. *)

ItemsOf(q) == {q[k] : k \in DOMAIN q}

FreeSlot(s) == net[s].phase = "free"
Sent(kind) == [kind |-> kind, phase |-> "sent", waiting |-> TRUE, answer |-> <<>>]

\* The caller of slot s is done with it: an answered request is gone, one still
\* under way stays behind for the server.
Released(s) == IF net[s].phase = "sent" THEN [net[s] EXCEPT !.waiting = FALSE] ELSE Unused

\* The server forgets the session and what it still holds.
EndSession ==
    /\ session' = [registered |-> FALSE, interactions |-> <<>>]
    /\ dropped' = dropped \union ItemsOf(session.interactions)

Answered(s) == net[s].phase = "answered"
Failed(s) == net[s].phase = "failed"

\* The server answers slot s; an answer nobody waits for is dropped.
Answer(s, a) ==
    net' = [net EXCEPT ![s] = IF @.waiting THEN [@ EXCEPT !.phase = "answered", !.answer = a]
                                           ELSE Unused]

\* The caller gets an error, or nobody notices.
Fails(s) ==
    net' = [net EXCEPT ![s] = IF @.waiting THEN [@ EXCEPT !.phase = "failed", !.answer = <<>>]
                                           ELSE Unused]

\* Faulty variant: a keep-alive starts a new session.
ServerRegisterAnew(s) ==
    /\ net[s].phase = "sent" /\ net[s].kind = "register"
    /\ session' = [registered |-> TRUE, interactions |-> <<>>]
    /\ Answer(s, <<>>)
    /\ UNCHANGED <<state, locked, loop, ka, closer, captured, called, dropped>>

\* POST /register: new session, or keep-alive of the one that is there.
ServerRegister(s) ==
    /\ net[s].phase = "sent" /\ net[s].kind = "register"
    /\ session' = IF session.registered THEN session
                  ELSE [registered |-> TRUE, interactions |-> <<>>]
    /\ Answer(s, <<>>)
    /\ UNCHANGED <<state, locked, loop, ka, closer, captured, called, dropped>>

\* GET /poll: a registered session is drained, else 400 "could not get
\* correlation-id", which pollLoop ignores like every other error.
ServerPoll(s) ==
    /\ net[s].phase = "sent" /\ net[s].kind = "poll"
    /\ Answer(s, session.interactions)
    /\ session' = [session EXCEPT !.interactions = <<>>]
    /\ dropped' = IF net[s].waiting THEN dropped ELSE dropped \union ItemsOf(session.interactions)
    /\ UNCHANGED <<state, locked, loop, ka, closer, captured, called>>

\* POST /deregister: an error when there is no such session.
ServerDeregister(s) ==
    /\ net[s].phase = "sent" /\ net[s].kind = "deregister"
    /\ IF session.registered THEN Answer(s, <<>>) ELSE Fails(s)
    /\ EndSession
    /\ UNCHANGED <<state, locked, loop, ka, closer, captured, called>>

\* The request, or the answer on its way back, is lost.
Lose(s) ==
    /\ Lossy
    /\ net[s].phase \in {"sent", "answered"}
    /\ Fails(s)
    /\ dropped' = dropped \union ItemsOf(net[s].answer)
    /\ UNCHANGED <<state, locked, loop, ka, closer, session, captured, called>>

\* An interaction for the client's ID; without a session it is dropped.
Capture ==
    /\ captured < MaxItems
    /\ captured' = captured + 1
    /\ IF session.registered
       THEN /\ session' = [session EXCEPT !.interactions = Append(@, captured + 1)]
            /\ UNCHANGED dropped
       ELSE /\ dropped' = dropped \union {captured + 1}
            /\ UNCHANGED session
    /\ UNCHANGED <<state, locked, loop, ka, closer, net, called>>

\* TTL, capacity, or a restart of the server.
Evict ==
    /\ Evicts
    /\ session.registered
    /\ EndSession
    /\ UNCHANGED <<state, locked, loop, ka, closer, net, captured, called>>

-------------------------------------------------------------------------------
(* StartPolling and StopPolling: one critical section each. *)

StartPolling(g) ==
    /\ ~locked
    /\ state = "idle"
    /\ loop[g].pc = "exited"
    /\ state' = "polling"
    /\ loop' = [loop EXCEPT ![g] = [Exited EXCEPT !.pc = "wait"]]
    /\ UNCHANGED <<locked, ka, closer, net, session, captured, called, dropped>>

\* Faulty variant: the context is not cancelled.
PollGoesOn == loop

\* pollCancel of the loop that polls now; the loop is not waited for.
PollCancel ==
    [g \in Loops |-> IF state = "polling" /\ loop[g].pc # "exited"
                     THEN [loop[g] EXCEPT !.cancelled = TRUE] ELSE loop[g]]

StopPolling ==
    /\ ~locked
    /\ state = "polling"
    /\ state' = "idle"
    /\ loop' = PollCancel
    /\ UNCHANGED <<locked, ka, closer, net, session, captured, called, dropped>>

-------------------------------------------------------------------------------
(* pollLoop and pollInteractions. *)

\* The ticker fires.  With a cancelled context the request is not sent.
PollTick(g, s) ==
    /\ loop[g].pc = "wait" /\ ~loop[g].cancelled
    /\ FreeSlot(s)
    /\ net' = [net EXCEPT ![s] = Sent("poll")]
    /\ loop' = [loop EXCEPT ![g].pc = "request", ![g].slot = s]
    /\ UNCHANGED <<state, locked, ka, closer, session, captured, called, dropped>>

\* The response was read; the callbacks follow without a look at the context.
PollReceive(g) ==
    LET s == loop[g].slot
    IN /\ loop[g].pc = "request"
       /\ Answered(s)
       /\ loop' = [loop EXCEPT ![g].pc = "callbacks", ![g].slot = None,
                               ![g].response = net[s].answer]
       /\ net' = [net EXCEPT ![s] = Unused]
       /\ UNCHANGED <<state, locked, ka, closer, session, captured, called, dropped>>

\* Faulty variant: an error ends the loop.
PollErrorExits(g) ==
    /\ loop[g].pc = "request"
    /\ loop[g].cancelled \/ Failed(loop[g].slot) \/ Lossy
    /\ net' = [net EXCEPT ![loop[g].slot] = Released(loop[g].slot)]
    /\ loop' = [loop EXCEPT ![g] = Exited]
    /\ dropped' = dropped \union ItemsOf(net[loop[g].slot].answer)
    /\ UNCHANGED <<state, locked, ka, closer, session, captured, called>>

\* Do or the decoder returns an error: cancelled, timed out, or failed.
PollError(g) ==
    /\ loop[g].pc = "request"
    /\ loop[g].cancelled \/ Failed(loop[g].slot) \/ Lossy
    /\ net' = [net EXCEPT ![loop[g].slot] = Released(loop[g].slot)]
    /\ loop' = [loop EXCEPT ![g].pc = "wait", ![g].slot = None]
    /\ dropped' = dropped \union ItemsOf(net[loop[g].slot].answer)
    /\ UNCHANGED <<state, locked, ka, closer, session, captured, called>>

Callback(g) ==
    /\ loop[g].pc = "callbacks"
    /\ IF loop[g].response = <<>>
       THEN /\ loop' = [loop EXCEPT ![g].pc = "wait"]
            /\ UNCHANGED called
       ELSE /\ called' = Append(called, Head(loop[g].response))
            /\ loop' = [loop EXCEPT ![g].response = Tail(@)]
    /\ UNCHANGED <<state, locked, ka, closer, net, session, captured, dropped>>

PollExit(g) ==
    /\ loop[g].pc = "wait" /\ loop[g].cancelled
    /\ loop' = [loop EXCEPT ![g] = Exited]
    /\ UNCHANGED <<state, locked, ka, closer, net, session, captured, called, dropped>>

-------------------------------------------------------------------------------
(* The keep-alive goroutine. *)

\* The ticker fires; select may prefer it to a cancelled context.
KeepAliveTick ==
    /\ ka.pc = "wait"
    /\ ka' = [ka EXCEPT !.pc = "check"]
    /\ UNCHANGED <<state, locked, loop, closer, net, session, captured, called, dropped>>

\* The look at the state under RLock, which waits for Close to unlock.
KeepAliveCheck ==
    /\ ka.pc = "check"
    /\ ~locked
    /\ ka' = [ka EXCEPT !.pc = IF state = "closed" THEN "done" ELSE "send"]
    /\ UNCHANGED <<state, locked, loop, closer, net, session, captured, called, dropped>>

\* performRegistration, outside the lock; not sent if cancelled since.
KeepAliveSend(s) ==
    /\ ka.pc = "send"
    /\ IF ka.cancelled
       THEN /\ ka' = [ka EXCEPT !.pc = "wait"]
            /\ UNCHANGED net
       ELSE /\ FreeSlot(s)
            /\ net' = [net EXCEPT ![s] = Sent("register")]
            /\ ka' = [ka EXCEPT !.pc = "request", !.slot = s]
    /\ UNCHANGED <<state, locked, loop, closer, session, captured, called, dropped>>

\* Faulty variant: a failed attempt ends the goroutine.
KeepAliveReturnGivesUp ==
    /\ ka.pc = "request"
    /\ Answered(ka.slot) \/ Failed(ka.slot) \/ ka.cancelled \/ Lossy
    /\ net' = [net EXCEPT ![ka.slot] = Released(ka.slot)]
    /\ ka' = [ka EXCEPT !.pc = IF Answered(ka.slot) THEN "wait" ELSE "done", !.slot = None]
    /\ UNCHANGED <<state, locked, loop, closer, session, captured, called, dropped>>

\* Any result is ignored; cancellation does not wait for one.
KeepAliveReturn ==
    /\ ka.pc = "request"
    /\ Answered(ka.slot) \/ Failed(ka.slot) \/ ka.cancelled \/ Lossy
    /\ net' = [net EXCEPT ![ka.slot] = Released(ka.slot)]
    /\ ka' = [ka EXCEPT !.pc = "wait", !.slot = None]
    /\ UNCHANGED <<state, locked, loop, closer, session, captured, called, dropped>>

KeepAliveExit ==
    /\ ka.pc = "wait" /\ ka.cancelled
    /\ ka' = [ka EXCEPT !.pc = "done"]
    /\ UNCHANGED <<state, locked, loop, closer, net, session, captured, called, dropped>>

-------------------------------------------------------------------------------
(* Close. *)

CloseLock ==
    /\ ~locked
    /\ state # "closed"
    /\ locked' = TRUE
    /\ loop' = PollCancel
    /\ ka' = [ka EXCEPT !.cancelled = KeepAlive]
    /\ state' = "closed"
    /\ closer' = [closer EXCEPT !.pc = "unlock"]
    /\ UNCHANGED <<net, session, captured, called, dropped>>

\* Faulty variant: the lock is kept over the join.
CloseKeepsLock ==
    /\ closer.pc = "unlock"
    /\ closer' = [closer EXCEPT !.pc = "join"]
    /\ UNCHANGED <<state, locked, loop, ka, net, session, captured, called, dropped>>

CloseUnlock ==
    /\ closer.pc = "unlock"
    /\ locked' = FALSE
    /\ closer' = [closer EXCEPT !.pc = "join"]
    /\ UNCHANGED <<state, loop, ka, net, session, captured, called, dropped>>

\* Faulty variant: the keep-alive goroutine is not joined.
CloseWithoutJoin(s) ==
    /\ closer.pc = "join"
    /\ FreeSlot(s)
    /\ net' = [net EXCEPT ![s] = Sent("deregister")]
    /\ closer' = [closer EXCEPT !.pc = "request", !.slot = s]
    /\ UNCHANGED <<state, locked, loop, ka, session, captured, called, dropped>>

\* Wait for the keep-alive goroutine, then performDeregistration.
CloseJoin(s) ==
    /\ closer.pc = "join"
    /\ ka.pc = "done"
    /\ FreeSlot(s)
    /\ net' = [net EXCEPT ![s] = Sent("deregister")]
    /\ closer' = [closer EXCEPT !.pc = "request", !.slot = s]
    /\ UNCHANGED <<state, locked, loop, ka, session, captured, called, dropped>>

CloseReturn ==
    LET s == closer.slot
    IN /\ closer.pc = "request"
       /\ Answered(s) \/ Failed(s) \/ Lossy
       /\ net' = [net EXCEPT ![s] = Released(s)]
       /\ closer' = [pc |-> "returned", slot |-> None, ok |-> Answered(s)]
       /\ UNCHANGED <<state, locked, loop, ka, session, captured, called, dropped>>

-------------------------------------------------------------------------------
Server == \E s \in Slots : ServerRegister(s) \/ ServerPoll(s) \/ ServerDeregister(s)

Polling(g) ==
    \/ \E s \in Slots : PollTick(g, s)
    \/ PollReceive(g) \/ PollError(g) \/ Callback(g) \/ PollExit(g)

KeepingAlive ==
    \/ KeepAliveTick \/ KeepAliveCheck \/ KeepAliveReturn \/ KeepAliveExit
    \/ \E s \in Slots : KeepAliveSend(s)

Closing == CloseUnlock \/ CloseReturn \/ \E s \in Slots : CloseJoin(s)

\* Everything is over: a closed client whose goroutines are gone.
Finished ==
    /\ closer.pc = "returned" /\ ka.pc = "done"
    /\ \A g \in Loops : loop[g].pc = "exited"
    /\ UNCHANGED vars

Next ==
    \/ Server
    \/ \E s \in Slots : Lose(s)
    \/ Capture
    \/ Evict
    \/ \E g \in Loops : StartPolling(g) \/ Polling(g)
    \/ StopPolling
    \/ KeepingAlive
    \/ CloseLock
    \/ Closing
    \/ Finished

Spec == Init /\ [][Next]_vars

\* The Go scheduler runs every goroutine that can run and tickers keep firing.
\* Strong fairness stands for three things: select chooses at random between the
\* ticker and a cancelled context; the code always finds a connection, where the
\* model's slots are few; a request sent again and again is handled some day.
Fairness ==
    /\ \A g \in Loops : /\ SF_vars(\E s \in Slots : PollTick(g, s))
                        /\ WF_vars(PollReceive(g) \/ PollError(g))
                        /\ WF_vars(Callback(g))
                        /\ WF_vars(PollExit(g))
    /\ WF_vars(KeepAliveTick) /\ WF_vars(KeepAliveCheck)
    /\ SF_vars(\E s \in Slots : KeepAliveSend(s))
    /\ WF_vars(KeepAliveReturn) /\ SF_vars(KeepAliveExit)
    /\ WF_vars(CloseUnlock \/ CloseReturn)
    /\ SF_vars(\E s \in Slots : CloseJoin(s))
    /\ WF_vars(\E s \in Slots : ServerDeregister(s))
    /\ SF_vars(\E s \in Slots : ServerPoll(s))
    /\ SF_vars(\E s \in Slots : ServerRegister(s))

FairSpec == Spec /\ Fairness

-------------------------------------------------------------------------------
Running(g) == loop[g].pc # "exited" /\ ~loop[g].cancelled

\* c.state tells the truth about the goroutines: exactly one loop polls while
\* the state is polling, and none otherwise, however starts, stops and closes
\* follow each other (client.go:432-449, 582-640).
OneLoopWhilePolling ==
    Cardinality({g \in Loops : Running(g)}) = IF state = "polling" THEN 1 ELSE 0

\* Every captured interaction is in exactly one place, although an old loop may
\* still be at work next to a new one: on the server, in an answer, in a loop's
\* hands, called back once, or dropped with a session that ended, an answer that
\* was lost, or a poll that was given up (client.go:478-538).
InOnePlace ==
    \A i \in 1 .. captured :
        1 = Cardinality({s \in Slots : i \in ItemsOf(net[s].answer)})
            + Cardinality({g \in Loops : i \in ItemsOf(loop[g].response)})
            + Cardinality({k \in DOMAIN called : called[k] = i})
            + Cardinality({q \in {1, 2} : i \in <<ItemsOf(session.interactions), dropped>>[q]})

\* The keep-alive goroutine is gone when Close deregisters, so the client does
\* not send a registration after its deregistration (client.go:641-649).
NoRegistrationAfterDeregistration ==
    closer.pc \in {"request", "returned"} =>
        ka.pc = "done" /\ \A s \in Slots : net[s].kind = "register" => ~net[s].waiting

\* Close returns: it does not wait for a goroutine that waits for its lock, and
\* the keep-alive it joins does stop.
CloseReturns == closer.pc # "none" ~> closer.pc = "returned"

\* An evicted session is registered again as long as the client is open: keep-
\* alive goes on after failed attempts (client.go:349-364).
EvictedComesBack == ~session.registered ~> (session.registered \/ state = "closed")

\* What is captured while a client polls is passed to the callback, unless it was
\* dropped for a reason named above or the client stops polling.
CapturedIsCalled ==
    \A i \in 1 .. MaxItems :
        (captured >= i /\ state = "polling")
            ~> (state # "polling" \/ i \in ItemsOf(called) \/ i \in dropped)

\* "wait for any in-flight re-registration to finish" (client.go:646): after a
\* Close that reported success the session is gone and stays gone.
ClosedIsDeregistered ==
    closer.pc = "returned" /\ closer.ok => ~session.registered

===============================================================================
