---------------------------- MODULE Lifecycle_proofs ----------------------------
(***************************************************************************)
(* Shutdown leaves no service running that Close can stop and answers      *)
(* nothing it has not stored, for any configuration, requests and failures. *)
(*                                                                         *)
(* The argument: a service that listens is in the list Shutdown works      *)
(* through, or a goroutine of Start is about to add it; Shutdown begins    *)
(* after all of those are done.  A goroutine that adds holds the lock, so  *)
(* what it read is still the list when it writes.                          *)
(***************************************************************************)
EXTENDS Lifecycle, TLAPS

IsStarter(s) == s = [pc |-> s.pc, next |-> s.next, read |-> s.read]

RequestState ==
    [pc : {"none", "dropped"}]
    \union [pc : {"handled", "stored", "failed"}, svc : Serves]
    \union [pc : {"answered"}, svc : Serves, stored : BOOLEAN]

LifeTypeOK ==
    /\ main = [pc |-> main.pc, stage |-> main.stage]
    /\ main.pc \in {"starts", "exited", "wg.Wait", "runs", "closes", "closed"}
    /\ starter = [g \in Groups |-> starter[g]]
    /\ \A g \in Groups : IsStarter(starter[g])
    /\ request \in [Requests -> RequestState]

\* The goroutines of Start run between its last stage and its return.
StartersInPhase ==
    \A g \in Groups :
        /\ main.pc \in {"starts", "exited"} => starter[g].pc = "waits"
        /\ main.pc \in {"runs", "closes", "closed"} => starter[g].pc = "done"

\* svcMu: what was read under it is still the list.
AddsUnderLock ==
    \A g \in Groups : starter[g].pc = "adding" =>
        svcMu = g /\ starter[g].read = services

ListensUnlisted(svc) ==
    \E g \in Groups : starter[g].pc \in {"add", "adding"} /\ NextOf(g) = svc

RunningIsListed == \A svc \in running : svc \in services \/ ListensUnlisted(svc)

\* What is closed is gone, or was told to end.
ClosedStop ==
    /\ main.pc \in {"starts", "exited", "wg.Wait", "runs"} => closed = {}
    /\ closed \cap running \subseteq CloseSignals

StorageOutlives == storage \/ main.pc = "closed"

\* A capture fails only after everything is closed.
FailsWhenClosed ==
    \A r \in Requests : request[r].pc = "failed" =>
        ~storage /\ request[r].svc \notin FTPServices

LifeInv ==
    /\ LifeTypeOK /\ StartersInPhase /\ AddsUnderLock /\ RunningIsListed /\ ClosedStop
    /\ StorageOutlives /\ FailsWhenClosed /\ ShutdownClosesAll /\ AnsweredIsStored

-------------------------------------------------------------------------------
(* The parts of the invariant that speak of the services. *)

ServicesInv ==
    /\ main = [pc |-> main.pc, stage |-> main.stage]
    /\ main.pc \in {"starts", "exited", "wg.Wait", "runs", "closes", "closed"}
    /\ starter = [g \in Groups |-> starter[g]]
    /\ \A g \in Groups : IsStarter(starter[g])
    /\ StartersInPhase /\ AddsUnderLock /\ RunningIsListed /\ ClosedStop
    /\ StorageOutlives /\ ShutdownClosesAll

RequestsInv ==
    /\ request \in [Requests -> RequestState]
    /\ FailsWhenClosed /\ AnsweredIsStored

LEMMA LifeInvParts == LifeInv <=> ServicesInv /\ RequestsInv
BY DEF LifeInv, LifeTypeOK, ServicesInv, RequestsInv

LEMMA LifeInitially == LifeInit => LifeInv
<1> SUFFICES ASSUME LifeInit PROVE LifeInv
    OBVIOUS
<1>1. LifeTypeOK
    BY DEF LifeInit, LifeTypeOK, IsStarter, RequestState
<1>2. StartersInPhase /\ AddsUnderLock /\ RunningIsListed /\ ClosedStop
    BY DEF LifeInit, StartersInPhase, AddsUnderLock, RunningIsListed, ClosedStop
<1>3. StorageOutlives /\ FailsWhenClosed /\ ShutdownClosesAll /\ AnsweredIsStored
    BY DEF LifeInit, StorageOutlives, FailsWhenClosed, ShutdownClosesAll, AnsweredIsStored
<1> QED BY <1>1, <1>2, <1>3 DEF LifeInv

\* A stage is done or has failed: Start goes on, before any goroutine of a group.
LEMMA StageKeepsServices ==
    ASSUME ServicesInv, main.pc = "starts", GoesOn, StartsGroups,
           storage' = storage, closed' = closed,
           \/ UNCHANGED <<services, running>>
           \/ \E svc : services' = services \union {svc} /\ running' = running \union {svc}
    PROVE  ServicesInv'
<1>1. \A g \in Groups : starter[g].pc = "waits" /\ IsStarter(starter[g])
    BY DEF ServicesInv, StartersInPhase
<1>2. /\ main' = [pc |-> main'.pc, stage |-> main'.stage]
      /\ \/ main'.pc = "starts" /\ starter' = starter
         \/ main'.pc = "wg.Wait" /\ starter' = [g \in Groups |-> [starter[g] EXCEPT !.pc = "bind"]]
    BY DEF ServicesInv, GoesOn, StartsGroups
<1>3. /\ starter' = [g \in Groups |-> starter'[g]]
      /\ \A g \in Groups : IsStarter(starter'[g]) /\ starter'[g].pc \in {"waits", "bind"}
      /\ main'.pc = "starts" => \A g \in Groups : starter'[g].pc = "waits"
    BY <1>1, <1>2 DEF ServicesInv, IsStarter
<1>4. StartersInPhase' /\ AddsUnderLock'
    BY <1>2, <1>3 DEF StartersInPhase, AddsUnderLock
<1>5. RunningIsListed'
    BY <1>1 DEF ServicesInv, RunningIsListed, ListensUnlisted
<1>6. StorageOutlives' /\ ShutdownClosesAll' /\ ClosedStop'
    BY <1>2 DEF ServicesInv, StorageOutlives, ShutdownClosesAll, ClosedStop
<1> QED BY <1>2, <1>3, <1>4, <1>5, <1>6 DEF ServicesInv

LEMMA StageFailsKeepsServices == ASSUME ServicesInv, StageFails PROVE ServicesInv'
<1>1. main.pc = "starts" /\ storage' = storage /\ services' = services /\ closed' = closed
    BY DEF StageFails
<1>2. CASE Stage \in Fatal
    <2>1. main' = [main EXCEPT !.pc = "exited"] /\ running' = {} /\ starter' = starter
        BY <1>2 DEF StageFails
    <2>2. main' = [pc |-> "exited", stage |-> main.stage]
        BY <2>1 DEF ServicesInv
    <2> QED BY <1>1, <2>1, <2>2 DEF ServicesInv, StartersInPhase, AddsUnderLock,
               RunningIsListed, ClosedStop, StorageOutlives, ShutdownClosesAll
<1>3. CASE Stage \notin Fatal
    BY <1>1, <1>3, StageKeepsServices DEF StageFails
<1> QED BY <1>2, <1>3

\* A goroutine of a group is at work only while Start waits for it.
LEMMA StarterPhase ==
    ASSUME ServicesInv, NEW g \in Groups, starter[g].pc \in {"bind", "add", "adding"}
    PROVE  main.pc = "wg.Wait"
BY DEF ServicesInv, StartersInPhase

\* One goroutine moves on, to a state in which it does not hold the lock.
LEMMA StarterMoves ==
    ASSUME ServicesInv, NEW g \in Groups, main.pc = "wg.Wait", main' = main, storage' = storage,
           closed' = closed, starter' = [starter EXCEPT ![g] = starter'[g]], IsStarter(starter'[g])
    PROVE  /\ main' = [pc |-> main'.pc, stage |-> main'.stage] /\ main'.pc = "wg.Wait"
           /\ starter' = [h \in Groups |-> starter'[h]]
           /\ \A h \in Groups : IsStarter(starter'[h])
           /\ \A h \in Groups \ {g} : starter'[h] = starter[h] /\ NextOf(h)' = NextOf(h)
           /\ StartersInPhase' /\ ClosedStop' /\ StorageOutlives' /\ ShutdownClosesAll'
<1>1. /\ starter' = [h \in Groups |-> starter'[h]]
      /\ \A h \in Groups \ {g} : starter'[h] = starter[h]
    BY DEF ServicesInv
<1>2. \A h \in Groups : IsStarter(starter'[h])
    BY <1>1 DEF ServicesInv, IsStarter
<1>3. \A h \in Groups \ {g} : NextOf(h)' = NextOf(h)
    BY <1>1 DEF NextOf
<1> QED BY <1>1, <1>2, <1>3 DEF ServicesInv, StartersInPhase, ClosedStop, StorageOutlives,
           ShutdownClosesAll

LEMMA ServiceDoneMoves ==
    ASSUME ServicesInv, NEW g \in Groups, ServiceDone(g)
    PROVE  /\ starter' = [starter EXCEPT ![g] = starter'[g]]
           /\ IsStarter(starter'[g]) /\ starter'[g].pc \in {"bind", "done"}
BY DEF ServicesInv, ServiceDone, IsStarter

LEMMA BindKeepsServices == ASSUME ServicesInv, NEW g \in Groups, Bind(g) PROVE ServicesInv'
<1>1. /\ starter[g].pc = "bind" /\ main.pc = "wg.Wait"
      /\ UNCHANGED <<main, svcMu, services, closed, storage>>
    BY StarterPhase DEF Bind
<1>2. CASE SwitchedOn(NextOf(g))
    <2>1. running' = running \union {NextOf(g)} /\ starter' = [starter EXCEPT ![g].pc = "add"]
        BY <1>2 DEF Bind
    <2>2. /\ starter' = [starter EXCEPT ![g] = starter'[g]] /\ IsStarter(starter'[g])
          /\ starter'[g].pc = "add" /\ starter'[g].next = starter[g].next
        BY <2>1 DEF ServicesInv, IsStarter
    <2>3. NextOf(g)' = NextOf(g)
        BY <2>2 DEF NextOf
    <2>4. \A h \in Groups \ {g} : starter'[h] = starter[h] /\ NextOf(h)' = NextOf(h)
        BY <1>1, <2>2, StarterMoves
    <2>5. AddsUnderLock'
        BY <1>1, <2>2, <2>4 DEF ServicesInv, AddsUnderLock
    <2>6. RunningIsListed'
        <3> SUFFICES ASSUME NEW svc \in running'
                     PROVE  svc \in services \/ ListensUnlisted(svc)'
            BY <1>1 DEF RunningIsListed
        <3>1. CASE svc \in running
            BY <2>2, <2>3, <2>4, <3>1 DEF ServicesInv, RunningIsListed, ListensUnlisted
        <3>2. CASE svc = NextOf(g)
            BY <2>2, <2>3, <3>2 DEF ListensUnlisted
        <3> QED BY <2>1, <3>1, <3>2
    <2> QED BY <1>1, <2>2, <2>5, <2>6, StarterMoves DEF ServicesInv
<1>3. CASE ~SwitchedOn(NextOf(g))
    <2>1. ServiceDone(g) /\ running' = running
        BY <1>3 DEF Bind
    <2>2. /\ starter' = [starter EXCEPT ![g] = starter'[g]] /\ IsStarter(starter'[g])
          /\ starter'[g].pc \in {"bind", "done"}
        BY <2>1, ServiceDoneMoves
    <2>3. \A h \in Groups \ {g} : starter'[h] = starter[h] /\ NextOf(h)' = NextOf(h)
        BY <1>1, <2>2, StarterMoves
    <2>4. AddsUnderLock' /\ RunningIsListed'
        BY <1>1, <2>1, <2>2, <2>3
           DEF ServicesInv, AddsUnderLock, RunningIsListed, ListensUnlisted
    <2> QED BY <1>1, <2>2, <2>4, StarterMoves DEF ServicesInv
<1> QED BY <1>2, <1>3

LEMMA BindFailsKeepsServices ==
    ASSUME ServicesInv, NEW g \in Groups, BindFails(g) \/ NoDirectory(g)
    PROVE  ServicesInv'
<1>1. /\ starter[g].pc = "bind" /\ main.pc = "wg.Wait"
      /\ ServiceDone(g) \/ starter' = [starter EXCEPT ![g].pc = "done"]
      /\ UNCHANGED <<main, svcMu, services, running, closed, storage>>
    BY StarterPhase DEF BindFails, NoDirectory
<1>2. /\ starter' = [starter EXCEPT ![g] = starter'[g]] /\ IsStarter(starter'[g])
      /\ starter'[g].pc \in {"bind", "done"}
    <2>1. CASE ServiceDone(g)
        BY <2>1, ServiceDoneMoves
    <2>2. CASE starter' = [starter EXCEPT ![g].pc = "done"]
        BY <2>2 DEF ServicesInv, IsStarter
    <2> QED BY <1>1, <2>1, <2>2
<1>3. \A h \in Groups \ {g} : starter'[h] = starter[h] /\ NextOf(h)' = NextOf(h)
    BY <1>1, <1>2, StarterMoves
<1>4. AddsUnderLock' /\ RunningIsListed'
    BY <1>1, <1>2, <1>3 DEF ServicesInv, AddsUnderLock, RunningIsListed, ListensUnlisted
<1> QED BY <1>1, <1>2, <1>4, StarterMoves DEF ServicesInv

\* addService takes the lock: nobody else is between read and write.
LEMMA AddReadsKeepsServices ==
    ASSUME ServicesInv, NEW g \in Groups, AddReads(g)
    PROVE  ServicesInv'
<1>1. /\ starter[g].pc = "add" /\ main.pc = "wg.Wait" /\ svcMu = Nobody /\ svcMu' = g
      /\ starter' = [starter EXCEPT ![g] =
             [pc |-> "adding", next |-> starter[g].next, read |-> services]]
      /\ UNCHANGED <<main, services, running, closed, storage>>
    BY StarterPhase DEF AddReads, MayAppend
<1>2. /\ starter' = [starter EXCEPT ![g] = starter'[g]] /\ IsStarter(starter'[g])
      /\ starter'[g].pc = "adding" /\ starter'[g].next = starter[g].next
      /\ starter'[g].read = services
    BY <1>1 DEF ServicesInv, IsStarter
<1>3. NextOf(g)' = NextOf(g)
    BY <1>2 DEF NextOf
<1>4. \A h \in Groups \ {g} : starter'[h] = starter[h] /\ NextOf(h)' = NextOf(h)
    BY <1>1, <1>2, StarterMoves
<1>5. AddsUnderLock'
    BY <1>1, <1>2, <1>4, NobodyAssumption DEF ServicesInv, AddsUnderLock
<1>6. RunningIsListed'
    <2> SUFFICES ASSUME NEW svc \in running
                 PROVE  svc \in services \/ ListensUnlisted(svc)'
        BY <1>1 DEF RunningIsListed
    <2>1. CASE ListensUnlisted(svc)
        <3>1. PICK h \in Groups : starter[h].pc \in {"add", "adding"} /\ NextOf(h) = svc
            BY <2>1 DEF ListensUnlisted
        <3>2. starter'[h].pc \in {"add", "adding"} /\ NextOf(h)' = svc
            BY <3>1, <1>2, <1>3, <1>4
        <3> QED BY <3>2 DEF ListensUnlisted
    <2> QED BY <2>1 DEF ServicesInv, RunningIsListed
<1> QED BY <1>1, <1>2, <1>5, <1>6, StarterMoves DEF ServicesInv

LEMMA AddWritesKeepsServices ==
    ASSUME ServicesInv, NEW g \in Groups, AddWrites(g)
    PROVE  ServicesInv'
<1>1. /\ starter[g].pc = "adding" /\ main.pc = "wg.Wait" /\ ServiceDone(g)
      /\ services' = starter[g].read \union {NextOf(g)}
      /\ UNCHANGED <<main, running, closed, storage>>
    BY StarterPhase DEF AddWrites
<1>2. services' = services \union {NextOf(g)} /\ svcMu = g
    BY <1>1 DEF ServicesInv, AddsUnderLock
<1>3. /\ starter' = [starter EXCEPT ![g] = starter'[g]] /\ IsStarter(starter'[g])
      /\ starter'[g].pc \in {"bind", "done"}
    BY <1>1, ServiceDoneMoves
<1>4. \A h \in Groups \ {g} : starter'[h] = starter[h] /\ NextOf(h)' = NextOf(h)
    BY <1>1, <1>3, StarterMoves
<1>5. \A h \in Groups : starter'[h].pc # "adding"
    BY <1>2, <1>3, <1>4 DEF ServicesInv, AddsUnderLock
<1>6. AddsUnderLock'
    BY <1>5 DEF AddsUnderLock
<1>7. RunningIsListed'
    <2> SUFFICES ASSUME NEW svc \in running
                 PROVE  svc \in services' \/ ListensUnlisted(svc)'
        BY <1>1 DEF RunningIsListed
    <2>1. CASE svc \in services
        BY <1>2, <2>1
    <2>2. CASE ListensUnlisted(svc)
        BY <1>2, <1>4, <2>2 DEF ListensUnlisted
    <2> QED BY <2>1, <2>2 DEF ServicesInv, RunningIsListed
<1> QED BY <1>1, <1>3, <1>6, <1>7, StarterMoves DEF ServicesInv

\* Start returns, the signal comes, services are closed one by one, then the storage.
LEMMA MainKeepsServices ==
    ASSUME ServicesInv,
           \/ Started \/ Signal \/ CloseStorage
           \/ \E svc \in services : CloseService(svc) \/ LoopEnds(svc)
    PROVE  ServicesInv'
<1>1. /\ starter' = starter /\ services' = services /\ svcMu' = svcMu
      /\ \A g \in Groups : NextOf(g)' = NextOf(g)
    BY DEF Started, Signal, CloseStorage, CloseService, LoopEnds, NextOf
<1>2. /\ main.pc \in {"wg.Wait", "runs", "closes", "closed"}
      /\ (\E svc \in services : LoopEnds(svc)) => main.pc \in {"closes", "closed"}
    BY DEF ServicesInv, ClosedStop, Started, Signal, CloseStorage, CloseService, LoopEnds
<1>3. /\ main'.pc \in {"runs", "closes", "closed"}
      /\ main' = [pc |-> main'.pc, stage |-> main'.stage]
    BY <1>2 DEF ServicesInv, Started, Signal, CloseStorage, CloseService, LoopEnds
<1>4. \A g \in Groups : starter[g].pc = "done"
    BY <1>2 DEF ServicesInv, StartersInPhase, Started, Signal, CloseStorage, CloseService, LoopEnds
<1>5. running' \subseteq running
    BY DEF Started, Signal, CloseStorage, CloseService, LoopEnds
<1>6. running \subseteq services
    BY <1>4 DEF ServicesInv, RunningIsListed, ListensUnlisted
<1>7. StartersInPhase' /\ AddsUnderLock' /\ RunningIsListed'
    BY <1>1, <1>3, <1>4, <1>5, <1>6 DEF StartersInPhase, AddsUnderLock, RunningIsListed
<1>8. StorageOutlives'
    BY DEF ServicesInv, StorageOutlives, Started, Signal, CloseStorage, CloseService, LoopEnds
<1>9. ShutdownClosesAll'
    <2>1. CASE CloseStorage
        BY <1>6, <2>1 DEF ServicesInv, ClosedStop, CloseStorage, AllClosed, ShutdownClosesAll
    <2>2. CASE Started \/ Signal \/ \E svc \in services : CloseService(svc) \/ LoopEnds(svc)
        BY <2>2 DEF ServicesInv, Started, Signal, CloseService, LoopEnds, ShutdownClosesAll
    <2> QED BY <2>1, <2>2
<1>10. ClosedStop'
    BY <1>2, <1>3 DEF ServicesInv, ClosedStop, Started, Signal, CloseStorage, CloseService, LoopEnds
<1> QED BY <1>1, <1>3, <1>7, <1>8, <1>9, <1>10 DEF ServicesInv

LEMMA UnseenKeepsServices ==
    ASSUME ServicesInv, UNCHANGED <<main, starter, svcMu, services, running, closed, storage>>
    PROVE  ServicesInv'
BY DEF ServicesInv, IsStarter, StartersInPhase, AddsUnderLock, RunningIsListed, ListensUnlisted,
       NextOf, ClosedStop, StorageOutlives, ShutdownClosesAll

LEMMA NextKeepsServices == ASSUME ServicesInv, [LifeNext]_lifeVars PROVE ServicesInv'
<1>1. CASE StageDone \/ ProvisionTLS
    BY <1>1, StageKeepsServices DEF StageDone, ProvisionTLS
<1>2. CASE \E g \in Groups : Bind(g) \/ BindFails(g) \/ NoDirectory(g) \/ AddReads(g) \/ AddWrites(g)
    BY <1>2, BindKeepsServices, BindFailsKeepsServices, AddReadsKeepsServices,
       AddWritesKeepsServices
<1>3. CASE \E r \in Requests : Arrives(r) \/ Captures(r) \/ Answers(r)
    BY <1>3, UnseenKeepsServices DEF Arrives, Captures, Answers
<1>4. CASE UNCHANGED lifeVars
    BY <1>4, UnseenKeepsServices DEF lifeVars
<1> QED BY <1>1, <1>2, <1>3, <1>4, StageFailsKeepsServices, MainKeepsServices DEF LifeNext

-------------------------------------------------------------------------------
(* Requests. *)

LEMMA RequestFields ==
    ASSUME NEW q \in RequestState, q.pc \in {"handled", "stored", "failed"}
    PROVE  /\ q.svc \in Serves
           /\ \A pc \in {"stored", "failed"} :
                 /\ [q EXCEPT !.pc = pc] \in RequestState
                 /\ [q EXCEPT !.pc = pc].pc = pc /\ [q EXCEPT !.pc = pc].svc = q.svc
BY DEF RequestState

LEMMA ArrivesKeepsRequests ==
    ASSUME RequestsInv, NEW r \in Requests, Arrives(r)
    PROVE  RequestsInv'
<1>1. PICK svc \in running \cap Serves :
          request' = [request EXCEPT ![r] = [pc |-> "handled", svc |-> svc]]
    BY DEF Arrives
<1>2. [pc |-> "handled", svc |-> svc] \in RequestState
    BY DEF RequestState
<1> QED BY <1>1, <1>2 DEF RequestsInv, FailsWhenClosed, AnsweredIsStored, Arrives

LEMMA CapturesKeepsRequests ==
    ASSUME RequestsInv, NEW r \in Requests, Captures(r)
    PROVE  RequestsInv'
<1>1. PICK pc \in {"stored", "failed"} :
          /\ request' = [request EXCEPT ![r].pc = pc]
          /\ pc = "failed" => ~storage /\ request[r].svc \notin FTPServices
    BY DEF Captures
<1>2. /\ request[r] \in RequestState /\ request[r].pc = "handled" /\ storage' = storage
      /\ request \in [Requests -> RequestState]
    BY DEF RequestsInv, Captures
<1>3. /\ [request[r] EXCEPT !.pc = pc] \in RequestState
      /\ [request[r] EXCEPT !.pc = pc].pc = pc
      /\ [request[r] EXCEPT !.pc = pc].svc = request[r].svc
    BY <1>2, RequestFields
<1>4. /\ request' \in [Requests -> RequestState]
      /\ request'[r].pc = pc /\ request'[r].svc = request[r].svc
      /\ \A q \in Requests \ {r} : request'[q] = request[q]
    BY <1>1, <1>2, <1>3
<1> QED BY <1>1, <1>2, <1>4 DEF RequestsInv, FailsWhenClosed, AnsweredIsStored

LEMMA ServesNoLoop == Serves \cap CloseSignals = {}
<1>1. \A g \in Groups : ToSet(g) \cap CloseSignals = {}
    <2> SUFFICES ASSUME NEW g \in Groups PROVE ToSet(g) \cap CloseSignals = {}
        OBVIOUS
    <2>1. \A i \in DOMAIN g : g[i] \notin CloseSignals
        BY DEF Groups, CloseSignals
    <2> QED BY <2>1 DEF ToSet
<1> QED BY <1>1 DEF Serves, CloseSignals

\* A request whose capture failed has lost its connection: nothing listens any more.
LEMMA AnswersKeepsRequests ==
    ASSUME LifeInv, NEW r \in Requests, Answers(r)
    PROVE  RequestsInv'
<1>1. /\ request[r] \in RequestState /\ request[r].pc \in {"stored", "failed"}
      /\ storage' = storage /\ request \in [Requests -> RequestState] /\ RequestsInv
    BY LifeInvParts DEF RequestsInv, Answers
<1>2. CASE request[r].svc \in running \union FTPServices
    <2>1. request[r].pc = "stored"
        BY <1>1, <1>2, RequestFields, ServesNoLoop
           DEF LifeInv, FailsWhenClosed, StorageOutlives, ShutdownClosesAll
    <2>2. request' = [request EXCEPT ![r] =
              [pc |-> "answered", svc |-> request[r].svc, stored |-> TRUE]]
        BY <1>2, <2>1 DEF Answers
    <2>3. [pc |-> "answered", svc |-> request[r].svc, stored |-> TRUE] \in RequestState
        BY <1>1, RequestFields DEF RequestState
    <2> QED BY <1>1, <2>2, <2>3 DEF RequestsInv, FailsWhenClosed, AnsweredIsStored
<1>3. CASE request[r].svc \notin running \union FTPServices
    <2>1. request' = [request EXCEPT ![r] = [pc |-> "dropped"]]
        BY <1>3 DEF Answers
    <2>2. [pc |-> "dropped"] \in RequestState
        BY DEF RequestState
    <2> QED BY <1>1, <2>1, <2>2 DEF RequestsInv, FailsWhenClosed, AnsweredIsStored
<1> QED BY <1>2, <1>3

LEMMA NextKeepsRequests == ASSUME LifeInv, [LifeNext]_lifeVars PROVE RequestsInv'
<1>0. RequestsInv
    BY LifeInvParts
<1>1. CASE request' = request /\ (storage' = storage \/ ~storage')
    BY <1>0, <1>1 DEF RequestsInv, FailsWhenClosed, AnsweredIsStored
<1>2. CASE \E r \in Requests : Arrives(r) \/ Captures(r) \/ Answers(r)
    BY <1>0, <1>2, ArrivesKeepsRequests, CapturesKeepsRequests, AnswersKeepsRequests
<1>3. CASE UNCHANGED lifeVars
    BY <1>1, <1>3 DEF lifeVars
<1> QED BY <1>1, <1>2, <1>3 DEF LifeNext, StageDone, StageFails, ProvisionTLS, Bind, BindFails,
           NoDirectory, AddReads, AddWrites, Started, Signal, CloseService, LoopEnds, CloseStorage

-------------------------------------------------------------------------------
(* The theorems. *)

\* Listening services are listed or about to be, the lock makes the list exact,
\* and the storage is closed last (server.go:119-282).
THEOREM LifeInvariant == LifeSpec => []LifeInv
<1>1. LifeInv /\ [LifeNext]_lifeVars => LifeInv'
    <2> SUFFICES ASSUME LifeInv, [LifeNext]_lifeVars PROVE LifeInv'
        OBVIOUS
    <2>1. ServicesInv' /\ RequestsInv'
        BY NextKeepsServices, NextKeepsRequests, LifeInvParts
    <2> QED BY <2>1 DEF LifeInv, LifeTypeOK, ServicesInv, RequestsInv
<1> QED BY <1>1, LifeInitially, PTL DEF LifeSpec

\* When Shutdown returns nothing listens, although several goroutines of Start add
\* services at the same time and any of them may fail; what still runs is a loop
\* that was told to end (server.go:225-282, tls.go:542, useragent.go:78-81).
THEOREM ShutdownIsComplete == LifeSpec => []ShutdownClosesAll
<1>1. LifeInv => ShutdownClosesAll
    BY DEF LifeInv
<1> QED BY <1>1, LifeInvariant, PTL

\* No request is answered whose interaction was lost to a closed storage
\* (server.go:256-272).
THEOREM AnswersAreStored == LifeSpec => []AnsweredIsStored
<1>1. LifeInv => AnsweredIsStored
    BY DEF LifeInv
<1> QED BY <1>1, LifeInvariant, PTL
===============================================================================
