------------------------------- MODULE Serve --------------------------------
(***************************************************************************)
(* A server process from its start to its exit (cmd/server/main.go): run   *)
(* and serve, the HTTP server's Shutdown and the relay manager's Shutdown  *)
(* side by side under one deadline, composed with the relays of Relay. The *)
(* clock runs from the moment serve begins to shut down; what a handler    *)
(* does then takes at most the time its timeouts allow.                    *)
(***************************************************************************)
EXTENDS Relay

CONSTANTS Grace,         \* SHUTDOWN_GRACE_PERIOD
          DialTimeout,   \* WORKER_DIAL_TIMEOUT
          CloseFrame,    \* closeFrameTimeout
          TerminalQuery, \* terminalQueryTimeout and relayTransitionTimeout
          Buffer,        \* shutdownBuffer
          Query          \* how long the queries of a step that has no timeout take
                         \* when none of them hangs

ASSUME TimesAssumption ==
    /\ {Grace, DialTimeout, CloseFrame, TerminalQuery, Buffer, Query} \subseteq Nat
    /\ Query < Grace + Buffer /\ Buffer > 0
    /\ 2 * Query < Grace + DialTimeout + 2 * CloseFrame + TerminalQuery + Buffer

VARIABLES
    main,       \* where run stands
    result,     \* what run returns
    signalled,  \* SIGINT or SIGTERM has cancelled ctx
    http,       \* the HTTP server
    hijacked,   \* attachments whose connection was upgraded: not the server's any more
    clock,      \* time since serve began to shut down
    left,       \* left[a]: time the step a is in may still take
    hung        \* history: some query without a timeout has hung

serveVars == <<main, result, signalled, http>>
timeVars == <<clock, left, hung>>
allVars == <<vars, serveVars, hijacked, timeVars>>

ShutdownCleanupBudget == 2 * CloseFrame + TerminalQuery

\* Mutant: the dial of an attachment under way is left out.
shutdownTimeoutWithoutDial == Grace + ShutdownCleanupBudget + Buffer

shutdownTimeout == Grace + DialTimeout + ShutdownCleanupBudget + Buffer

\* The steps that query the database with the request's own context, which
\* has no deadline: the lookup of the key and of the session, StartSession,
\* and the second GetSession of a loser.
Queries == {"loading", "reserved", "rejected"}

\* How long a handler may stay in a step: its queries, its dial, its close
\* frames. A relay runs as long as its peers like; the rest takes no time.
StepTime(at) ==
    CASE at \in Queries -> Query
      [] at = "started" -> DialTimeout
      [] at = "failing" -> CloseFrame + TerminalQuery
      [] at = "closing" -> 2 * CloseFrame
      [] at = "recording" -> TerminalQuery
      [] at = "completing" -> ShutdownCleanupBudget
      [] OTHER -> 0

Untimed == {"idle", "done", "running"}

ServeTypeOK ==
    /\ TypeOK
    /\ main \in {"starting", "serving", "stopping", "returned", "exited"}
    /\ result \in {"none", "ok", "error"}
    /\ signalled \in BOOLEAN
    /\ http \in {"off", "serving", "draining", "closed", "expired"}
    /\ hijacked \subseteq Attachments
    /\ clock \in 0..shutdownTimeout
    /\ left \in [Attachments -> 0..shutdownTimeout]
    /\ hung \in BOOLEAN

ServeInit ==
    /\ Init
    /\ main = "starting"
    /\ result = "none"
    /\ signalled = FALSE
    /\ http = "off"
    /\ hijacked = {}
    /\ clock = 0
    /\ left = [a \in Attachments |-> 0]
    /\ hung = FALSE

\* Requests whose connection the HTTP server still tracks.
InHandler == {a \in Attachments : pc[a] \notin {"idle", "done"}} \ hijacked

Up == main \in {"serving", "stopping", "returned"}

\* What a step of the relays does here: a handler that goes on to its next
\* step gets the time of that step, or all the time there is when a query
\* without a timeout hangs there.
RelayStep ==
    /\ \E hang \in SUBSET {a \in Attachments : pc'[a] # pc[a] /\ pc'[a] \in Queries} :
         /\ hung' = (hung \/ hang # {})
         /\ left' = [a \in Attachments |->
                       IF a \in hang THEN shutdownTimeout
                       ELSE IF pc'[a] = pc[a] THEN left[a] ELSE StepTime(pc'[a])]
    /\ hijacked' = hijacked \cup {a \in Attachments : pc'[a] = "upgraded"}
    /\ UNCHANGED <<serveVars, clock>>

\* A step of main alone.
MainStep == UNCHANGED <<vars, hijacked, timeVars>>

-----------------------------------------------------------------------------
\* Open, Load, Migrate and net.Listen: any of them may fail.
Start ==
    /\ main = "starting"
    /\ \/ main' = "serving" /\ http' = "serving" /\ UNCHANGED result
       \/ main' = "returned" /\ result' = "error" /\ UNCHANGED http
    /\ UNCHANGED signalled
    /\ MainStep

Signal ==
    /\ ~signalled
    /\ main # "exited"
    /\ signalled' = TRUE
    /\ UNCHANGED <<main, result, http>>
    /\ MainStep

\* server.Serve returns an error by itself: no Shutdown of any kind.
ServeFails ==
    /\ main = "serving"
    /\ main' = "returned"
    /\ result' = "error"
    /\ UNCHANGED <<signalled, http>>
    /\ MainStep

\* Mutant: only the relays are shut down.
BeginShutdownOfRelays ==
    /\ main = "serving"
    /\ signalled
    /\ main' = "stopping"
    /\ UNCHANGED <<result, signalled, http>>
    /\ MainStep

\* ctx is done: server.Shutdown here, relayManager.Shutdown in a goroutine.
BeginShutdown ==
    /\ main = "serving"
    /\ signalled
    /\ main' = "stopping"
    /\ http' = "draining"
    /\ UNCHANGED <<result, signalled>>
    /\ MainStep

\* server.Shutdown returns when no connection of its own is left, or when
\* shutdownCtx is done.
HttpShutdownReturns ==
    /\ main = "stopping"
    /\ http = "draining"
    /\ \/ InHandler = {} /\ http' = "closed"
       \/ clock = shutdownTimeout /\ http' = "expired"
    /\ UNCHANGED <<main, result, signalled>>
    /\ MainStep

\* Mutant: serve does not wait for the relays.
ServeReturnsEarly ==
    /\ main = "stopping"
    /\ http \in {"closed", "expired"}
    /\ main' = "returned"
    /\ result' = IF http = "closed" THEN "ok" ELSE "error"
    /\ UNCHANGED <<signalled, http>>
    /\ MainStep

\* Both have returned. server.Serve has returned too: ErrServerClosed, or
\* an error of its own that it met before the Shutdown.
ServeReturns ==
    /\ main = "stopping"
    /\ http \in {"closed", "expired"}
    /\ shutdown \in {"clean", "expired"}
    /\ main' = "returned"
    /\ \/ http = "closed" /\ shutdown = "clean" /\ result' = "ok"
       \/ result' = "error"
    /\ UNCHANGED <<signalled, http>>
    /\ MainStep

\* The deferred server.Close, stopServices and pool.Close, then the exit:
\* what is still running ends with the process.
Exit ==
    /\ main = "returned"
    /\ main' = "exited"
    /\ UNCHANGED <<result, signalled, http>>
    /\ MainStep

\* What the goroutine of main does by itself.
MainRuns == Start \/ BeginShutdown \/ HttpShutdownReturns \/ ServeReturns \/ Exit

MainNext == MainRuns \/ Signal \/ ServeFails

\* The relay manager's Shutdown, under the same context.
ManagerShutdown ==
    /\ main = "stopping"
    /\ \/ ShutdownBegin
       \/ clock >= Grace /\ GraceOver
       \/ Stopped
       \/ ShutdownClean
       \/ clock = shutdownTimeout /\ ShutdownExpired
       \/ \E a \in Attachments : StopRelay(a)
    /\ RelayStep

HandlerNext(a) == Up /\ HandlerStep(a) /\ RelayStep

Renewal(a) == Up /\ renewHeartbeat(a) /\ RelayStep

\* A request gets in while the server has connections.
RequestNext(a) ==
    /\ Up
    /\ http \in {"serving", "draining"}
    /\ preflight(a)
    /\ RelayStep

OutsideNext ==
    /\ Up
    /\ \/ \E a \in Attachments : PeerGone(a)
       \/ \E s \in Sessions : EndElsewhere(s)
    /\ RelayStep

\* Time passes only while nobody has something to do at once.
Tick ==
    /\ main = "stopping"
    /\ clock < shutdownTimeout
    /\ shutdown \in {"grace", "final", "clean"}
    /\ ~(shutdown = "clean" /\ http = "closed")
    /\ shutdown = "grace" => clock < Grace
    /\ shutdown \in {"grace", "final"} => wg > 0
    /\ http = "draining" => InHandler # {}
    /\ \A a \in Attachments :
         /\ pc[a] \notin Untimed => left[a] > 0
         /\ pc[a] = "running" => event[a] = "none"
    /\ clock' = clock + 1
    /\ left' = [a \in Attachments |-> IF pc[a] \in Untimed THEN left[a] ELSE left[a] - 1]
    /\ UNCHANGED <<vars, serveVars, hijacked, hung>>

ServeNext ==
    \/ MainNext \/ ManagerShutdown \/ OutsideNext \/ Tick
    \/ \E a \in Attachments : RequestNext(a) \/ HandlerNext(a) \/ Renewal(a)

\* The runtime schedules main, Shutdown and the handlers; timers fire.
\* Nothing is assumed of clients, peers, signals and failures.
ServeSpec ==
    /\ ServeInit /\ [][ServeNext]_allVars
    /\ WF_allVars(MainRuns) /\ WF_allVars(ManagerShutdown) /\ WF_allVars(Tick)
    /\ \A a \in Attachments :
         WF_allVars(HandlerNext(a)) /\ WF_allVars(Renewal(a))

-----------------------------------------------------------------------------
(* Properties.                                                             *)

\* A process that exits with success has left nothing behind: the HTTP
\* server's Shutdown does not wait for upgraded connections and the relay
\* manager's does not wait for requests before BeginAttach, but between them
\* every handler has ended, and every session this process started has its
\* outcome in the database unless the write itself failed.
CleanExit ==
    main = "exited" /\ result = "ok" =>
        /\ \A a \in Attachments : pc[a] \in {"idle", "done"}
        /\ \A s \in Sessions : starter[s] # NoOne => session[s] \in Terminal \/ s \in lost

\* The deadline that run computes ("ShutdownCleanupBudget covers the two
\* sequential close-frame writes and the terminal database transition after
\* the shutdown grace period", relay/manager.go) is long enough for all that
\* has a timeout: no shutdown runs into it, whatever the attachments were
\* doing when the signal came, unless one of them hangs in a query on its
\* request's context (the key, GetSession, StartSession, GetSession again).
BudgetSuffices == "expired" \in {http, shutdown} => hung

\* A signal ends the process, in whatever state it finds it.
SignalExits == signalled ~> main = "exited"

\* A relay whose session was ended elsewhere is torn down, its registration
\* and its reservation given back, unless the process itself ends.
EndedSessionDetached ==
    \A a \in Attachments :
        pc[a] = "running" /\ session[sess[a]] # "running" ~> pc[a] = "done" \/ main = "exited"
=============================================================================
