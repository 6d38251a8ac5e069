------------------------------- MODULE Lifecycle --------------------------------
(***************************************************************************)
(* Start and Shutdown of oobsrv/server.go, as interactsh-srv's main calls  *)
(* them: set-up and services in dependency order, the non-fatal services   *)
(* side by side, then everything closed side by side and the storage last, *)
(* while handlers of requests still run.                                   *)
(*                                                                         *)
(* External: the Close of the protocol libraries.  miekg/dns and           *)
(* ldapserver wait for their handlers, net/http and go-smtp close the      *)
(* connections, so an answer is no longer delivered; for FTP only the      *)
(* listener is closed.                                                     *)
(***************************************************************************)
EXTENDS Naturals, Sequences, SequencesExt, FiniteSets

CONSTANTS
    Enabled,      \* the stages and services the configuration switches on
    Requests,     \* bound: requests that arrive
    MaxFailures,  \* bound: stages and services that fail
    Nobody

VARIABLES
    main,       \* the goroutine of main: [pc, stage]
    starter,    \* starter[g]: the goroutine that starts the services of g
    svcMu,      \* its holder
    services,   \* s.services
    running,    \* services that listen, or whose loop runs
    closed,     \* services whose Close has returned
    tlsConfig,  \* s.tlsConfig is set
    storage,    \* s.storage is open
    request,    \* request[r]: the request's service and how far it is
    failures    \* failures so far

lifeVars ==
    <<main, starter, svcMu, services, running, closed, tlsConfig, storage, request, failures>>

StartOrder ==
    <<"pprof", "uaTracker", "resolveIPs", "DNS-UDP", "DNS-TCP",
      "provisionTLS", "loadHTTPFiles", "HTTP">>

\* An error of these ends Start.
Fatal == {"pprof", "resolveIPs", "DNS-UDP", "loadHTTPFiles", "HTTP"}

\* These are not services: they only set fields.
SetUp == {"resolveIPs", "loadHTTPFiles"}

\* The non-fatal services, one goroutine for each list.
Groups ==
    {<<"HTTPS">>, <<"SMTP", "SMTP-STARTTLS", "SMTPS">>, <<"LDAP">>, <<"FTP", "FTPS">>}

\* Started only with a TLS configuration.
NeedsTLS == {"HTTPS", "SMTPS", "FTPS"}

\* Those that take requests; pprof has none that are captured.
Serves == {"DNS-UDP", "DNS-TCP", "HTTP"} \union UNION {ToSet(g) : g \in Groups}
ASSUME NobodyAssumption == Nobody \notin Groups

\* Close waits for the handlers, only tells the loop to end, or (all others, and the
\* certReloader for its loop) leaves nothing behind.
CloseWaits == {"DNS-UDP", "DNS-TCP", "LDAP"}
CloseSignals == {"uaTracker", "certEvictor"}
FTPServices == {"FTP", "FTPS"}

LifeInit ==
    /\ main = [pc |-> "starts", stage |-> 1]
    /\ starter = [g \in Groups |-> [pc |-> "waits", next |-> 1, read |-> {}]]
    /\ svcMu = Nobody
    /\ services = {} /\ running = {} /\ closed = {}
    /\ tlsConfig = FALSE /\ storage = TRUE
    /\ request = [r \in Requests |-> [pc |-> "none"]]
    /\ failures = 0

-------------------------------------------------------------------------------
(* Start. *)

Stage == StartOrder[main.stage]

\* Start goes on after a stage, or starts the goroutines.
GoesOn ==
    main' = IF main.stage < Len(StartOrder) THEN [main EXCEPT !.stage = @ + 1]
            ELSE [main EXCEPT !.pc = "wg.Wait"]
StartsGroups ==
    IF main.stage < Len(StartOrder) THEN UNCHANGED starter
    ELSE starter' = [g \in Groups |-> [starter[g] EXCEPT !.pc = "bind"]]

StageDone ==
    /\ main.pc = "starts" /\ Stage # "provisionTLS"
    /\ GoesOn /\ StartsGroups
    /\ IF Stage \in Enabled \ SetUp
       THEN services' = services \union {Stage} /\ running' = running \union {Stage}
       ELSE UNCHANGED <<services, running>>
    /\ UNCHANGED <<svcMu, closed, tlsConfig, storage, request, failures>>

\* A stage that need not work does not stop the rest; after an error of another
\* main exits without Shutdown.
StageFails ==
    /\ main.pc = "starts"
    /\ Stage \in Enabled \ {"uaTracker", "provisionTLS"}
    /\ failures < MaxFailures
    /\ failures' = failures + 1
    /\ IF Stage \in Fatal
       THEN /\ main' = [main EXCEPT !.pc = "exited"]
            /\ running' = {}
            /\ UNCHANGED starter
       ELSE GoesOn /\ StartsGroups /\ UNCHANGED running
    /\ UNCHANGED <<svcMu, services, closed, tlsConfig, storage, request>>

\* provisionTLS: with a certReloader if a certificate is given; with a certEvictor if
\* ACME was tried, whatever came of it, even a self-signed certificate or none; or
\* with neither.
ProvisionTLS ==
    /\ main.pc = "starts" /\ Stage = "provisionTLS"
    /\ GoesOn /\ StartsGroups
    /\ \/ UNCHANGED <<services, running>> /\ tlsConfig' \in BOOLEAN
       \/ \E loop \in {"certReloader", "certEvictor"} :
             /\ services' = services \union {loop} /\ running' = running \union {loop}
             /\ tlsConfig' \in IF loop = "certReloader" THEN {TRUE} ELSE BOOLEAN
    /\ UNCHANGED <<svcMu, closed, storage, request, failures>>

NextOf(g) == g[starter[g].next]

\* The goroutine of g is done with one service.
ServiceDone(g) ==
    starter' = [starter EXCEPT ![g] =
        [pc |-> IF @.next < Len(g) THEN "bind" ELSE "done", next |-> @.next + 1, read |-> {}]]

SwitchedOn(svc) == svc \in Enabled /\ (svc \in NeedsTLS => tlsConfig)

\* The listener is bound and served, or the service is switched off.
Bind(g) ==
    /\ starter[g].pc = "bind"
    /\ IF SwitchedOn(NextOf(g))
       THEN /\ running' = running \union {NextOf(g)}
            /\ starter' = [starter EXCEPT ![g].pc = "add"]
       ELSE ServiceDone(g) /\ UNCHANGED running
    /\ UNCHANGED <<main, svcMu, services, closed, tlsConfig, storage, request, failures>>

BindFails(g) ==
    /\ starter[g].pc = "bind" /\ SwitchedOn(NextOf(g))
    /\ failures < MaxFailures
    /\ failures' = failures + 1
    /\ ServiceDone(g)
    /\ UNCHANGED <<main, svcMu, services, running, closed, tlsConfig, storage, request>>

\* Without a directory for its files startFTP tries neither of its services.
NoDirectory(g) ==
    /\ starter[g].pc = "bind" /\ NextOf(g) = "FTP" /\ SwitchedOn("FTP")
    /\ failures < MaxFailures
    /\ failures' = failures + 1
    /\ starter' = [starter EXCEPT ![g].pc = "done"]
    /\ UNCHANGED <<main, svcMu, services, running, closed, tlsConfig, storage, request>>

\* Faulty variant: addService without its lock.
MayAppendUnlocked(g) == TRUE

MayAppend(g) == svcMu = Nobody

\* addService: the slice is read under the lock, and written back.
AddReads(g) ==
    /\ starter[g].pc = "add" /\ MayAppend(g)
    /\ svcMu' = g
    /\ starter' = [starter EXCEPT ![g] =
           [pc |-> "adding", next |-> @.next, read |-> services]]
    /\ UNCHANGED <<main, services, running, closed, tlsConfig, storage, request, failures>>

AddWrites(g) ==
    /\ starter[g].pc = "adding"
    /\ services' = starter[g].read \union {NextOf(g)}
    /\ svcMu' = Nobody
    /\ ServiceDone(g)
    /\ UNCHANGED <<main, running, closed, tlsConfig, storage, request, failures>>

\* Start returns.
Started ==
    /\ main.pc = "wg.Wait"
    /\ \A g \in Groups : starter[g].pc = "done"
    /\ main' = [main EXCEPT !.pc = "runs"]
    /\ UNCHANGED <<starter, svcMu, services, running, closed, tlsConfig, storage, request, failures>>

-------------------------------------------------------------------------------
(* Requests, as far as Shutdown can get in their way. *)

Arrives(r) ==
    /\ request[r].pc = "none"
    /\ \E svc \in running \cap Serves :
          request' = [request EXCEPT ![r] = [pc |-> "handled", svc |-> svc]]
    /\ UNCHANGED <<main, starter, svcMu, services, running, closed, tlsConfig, storage, failures>>

\* The capture.  FTP has the in-memory bucket, which is never closed.
Captures(r) ==
    /\ request[r].pc = "handled" /\ main.pc # "exited"
    /\ request' = [request EXCEPT ![r].pc =
          IF storage \/ request[r].svc \in FTPServices THEN "stored" ELSE "failed"]
    /\ UNCHANGED <<main, starter, svcMu, services, running, closed, tlsConfig, storage, failures>>

\* The answer, which an error of the storage does not change, after the capture: the
\* HTTP middleware holds the response back until then.  Without its
\* connection there is none; an FTP connection outlives its listener.
Answers(r) ==
    /\ request[r].pc \in {"stored", "failed"}
    /\ request' = [request EXCEPT ![r] =
          IF request[r].svc \in running \union FTPServices
          THEN [pc |-> "answered", svc |-> request[r].svc, stored |-> request[r].pc = "stored"]
          ELSE [pc |-> "dropped"]]
    /\ UNCHANGED <<main, starter, svcMu, services, running, closed, tlsConfig, storage, failures>>

-------------------------------------------------------------------------------
(* Shutdown. *)

Signal ==
    /\ main.pc = "runs"
    /\ main' = [main EXCEPT !.pc = "closes"]
    /\ UNCHANGED <<starter, svcMu, services, running, closed, tlsConfig, storage, request, failures>>

Busy(svc) == \E r \in Requests : request[r].pc \in {"handled", "stored", "failed"}
                                 /\ request[r].svc = svc

\* One of the goroutines that close a service each.
CloseService(svc) ==
    /\ main.pc = "closes"
    /\ svc \in services \ closed
    /\ svc \in CloseWaits => ~Busy(svc)
    /\ closed' = closed \union {svc}
    /\ running' = IF svc \in CloseSignals THEN running ELSE running \ {svc}
    /\ UNCHANGED <<main, starter, svcMu, services, tlsConfig, storage, request, failures>>

\* A loop that was told ends when its round, if it is in one, is over.
LoopEnds(svc) ==
    /\ svc \in CloseSignals \cap closed \cap running
    /\ running' = running \ {svc}
    /\ UNCHANGED <<main, starter, svcMu, services, closed, tlsConfig, storage, request, failures>>

\* Faulty variant: the storage is closed without waiting.
AllClosedUnchecked == TRUE

AllClosed == services \subseteq closed

CloseStorage ==
    /\ main.pc = "closes" /\ AllClosed
    /\ storage' = FALSE
    /\ main' = [main EXCEPT !.pc = "closed"]
    /\ UNCHANGED <<starter, svcMu, services, running, closed, tlsConfig, request, failures>>

LifeNext ==
    \/ StageDone \/ StageFails \/ ProvisionTLS
    \/ \E g \in Groups : Bind(g) \/ BindFails(g) \/ NoDirectory(g) \/ AddReads(g) \/ AddWrites(g)
    \/ Started
    \/ \E r \in Requests : Arrives(r) \/ Captures(r) \/ Answers(r)
    \/ Signal
    \/ \E svc \in services : CloseService(svc) \/ LoopEnds(svc)
    \/ CloseStorage

LifeSpec == LifeInit /\ [][LifeNext]_lifeVars

-------------------------------------------------------------------------------
(* When Shutdown returns nothing listens any more: every service that got as  *)
(* far as listening was added to the list it works through, although several   *)
(* goroutines add at the same time.  Only the two loops that Close merely      *)
(* tells to end, the tracker's and the evictor's, may be at their last round,  *)
(* and both were told (server.go:225-282, tls.go:542, useragent.go:78-81).     *)
ShutdownClosesAll == main.pc = "closed" => running \subseteq closed \cap CloseSignals

(* A request that is answered while the server shuts down was stored: nobody   *)
(* is told 250 or gets an answer whose lookup was lost, because the storage is *)
(* closed after the services, and the connections of a service with it         *)
(* (server.go:256-272).                                                        *)
AnsweredIsStored ==
    \A r \in Requests : request[r].pc = "answered" => request[r].stored
===============================================================================
