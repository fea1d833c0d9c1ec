----------------------------- MODULE Reconcile ------------------------------
(***************************************************************************)
(* What ages decide about a session: the server that attaches and renews   *)
(* it (httpapi/relay.go, relay/manager.go), the worker's gateway that      *)
(* holds its connection and reports it (gateway.ts, worker.ts), the        *)
(* heartbeat that reconciles the report with the table (scheduler.go,      *)
(* sessions.sql), and the expiry sweep (rescuer.go). One worker; it has    *)
(* one row that it heartbeats, and may have others with its address, left  *)
(* by registrations whose answer was lost (control-plane.ts).              *)
(*                                                                         *)
(* Time is counted in ages: Tick makes every age one unit older, up to     *)
(* Cap, and waits for whatever has a deadline.                             *)
(***************************************************************************)
EXTENDS Integers

CONSTANTS Sessions,
          DialTimeout,    \* WORKER_DIAL_TIMEOUT
          Grace,          \* DefaultReconciliationGrace
          ReportTimeout,  \* the worker's time limit on a heartbeat request
          RenewInterval,  \* SESSION_HEARTBEAT_INTERVAL
          SessionTTL,     \* SESSION_HEARTBEAT_TTL
          PendingTTL,     \* PENDING_SESSION_TTL
          Cap,            \* bound on ages: beyond it nothing is told apart
          Faults          \* which of "crash", "write", "renew", "duplicate" may happen

\* What the configuration insists on; the grace and the time limit on a
\* report are constants of the code.
Load ==
    /\ {DialTimeout, RenewInterval, SessionTTL, PendingTTL} \subseteq Nat \ {0}
    /\ RenewInterval < SessionTTL
validateRuntimeConfig == DialTimeout < Grace

ASSUME ConfigAssumption ==
    /\ Grace \in Nat /\ ReportTimeout \in Nat \ {0}
    /\ Load /\ validateRuntimeConfig
ASSUME CapAssumption ==
    /\ Cap \in Nat
    /\ \A d \in {DialTimeout + ReportTimeout, Grace, SessionTTL, PendingTTL} : d < Cap
ASSUME FaultsAssumption == Faults \subseteq {"crash", "write", "renew", "duplicate"}

VARIABLES
    status,   \* status[s]: status column of the session's row
    started,  \* started[s]: age of started_at
    beat,     \* beat[s]: age of last_heartbeat; of expires_at too while pending
    foreign,  \* sessions whose worker_id is another row with the worker's address
    relay,    \* relay[s]: the server's end: "none", "dialing", "live" or "gone"
    timer,    \* timer[s]: age of the last tick of the renewal ticker
    dials,    \* upgrade requests on their way to the gateway
    gateway,  \* the gateway's map of connected sessions
    request,  \* the heartbeat request: "idle", "sent" or "answered"
    sent,     \* its age
    ids,      \* the session ids it reports
    stale     \* the stale ids its answer carries

rowVars == <<status, started, beat, foreign>>
serverVars == <<relay, timer>>
gatewayVars == <<dials, gateway>>
requestVars == <<request, sent, ids, stale>>
vars == <<rowVars, serverVars, gatewayVars, requestVars>>

Active == {"pending", "running"}
Terminal == {"completed", "failed", "expired"}
Ages == 0..Cap

TypeOK ==
    /\ status \in [Sessions -> Active \cup Terminal \cup {"none"}]
    /\ started \in [Sessions -> Ages]
    /\ beat \in [Sessions -> Ages]
    /\ foreign \subseteq Sessions
    /\ relay \in [Sessions -> {"none", "dialing", "live", "gone"}]
    /\ timer \in [Sessions -> Ages]
    /\ dials \subseteq Sessions
    /\ gateway \subseteq Sessions
    /\ request \in {"idle", "sent", "answered"}
    /\ sent \in Ages
    /\ ids \subseteq Sessions
    /\ stale \subseteq Sessions

Init ==
    /\ status = [s \in Sessions |-> "none"]
    /\ started = [s \in Sessions |-> 0]
    /\ beat = [s \in Sessions |-> 0]
    /\ foreign = {}
    /\ relay = [s \in Sessions |-> "none"]
    /\ timer = [s \in Sessions |-> 0]
    /\ dials = {}
    /\ gateway = {}
    /\ request = "idle"
    /\ sent = 0
    /\ ids = {}
    /\ stale = {}

-----------------------------------------------------------------------------
(* The conditions of the SQL statements.                                   *)

\* Mutant: the reconciliation has no grace for a session being dialled.
UnreportedNoGrace(s) == s \notin foreign /\ status[s] = "running" /\ s \notin ids

\* FailUnreportedWorkerSessions: started_at < now() - grace, on this row.
Unreported(s) ==
    s \notin foreign /\ status[s] = "running" /\ started[s] > Grace /\ s \notin ids

\* Mutant: only a pending session keeps its connection.
StaleUnlessPending == {s \in ids : status[s] # "pending"}

\* Mutant: the reported ids are looked up among the failed ones only.
StaleFailedOnly == {s \in ids : status[s] = "failed"}

\* ListStaleWorkerSessionIDs: what is not active on this row; the update
\* above touches none of the ids.
Stale == {s \in ids : s \in foreign \/ status[s] \notin Active}

\* Mutant: only pending sessions expire.
PastTTLPending(s) == status[s] = "pending" /\ (beat[s] > SessionTTL \/ beat[s] > PendingTTL)

\* ExpireDeadSessions.
PastTTL(s) ==
    \/ status[s] \in Active /\ beat[s] > SessionTTL
    \/ status[s] = "pending" /\ beat[s] > PendingTTL

Older(age) == IF age < Cap THEN age + 1 ELSE age

\* A guarded final update by the server; with "write" faults it may be lost.
Finish(s, from, to) ==
    \/ status' = [status EXCEPT ![s] = IF @ \in from THEN to ELSE @]
    \/ "write" \in Faults /\ UNCHANGED status

-----------------------------------------------------------------------------
(* The server.                                                             *)

\* Claimed on the row the worker heartbeats, or on one it does not know of.
InsertClaimedSession(s) ==
    /\ status[s] = "none"
    /\ status' = [status EXCEPT ![s] = "pending"]
    /\ beat' = [beat EXCEPT ![s] = 0]
    /\ \/ UNCHANGED foreign
       \/ "duplicate" \in Faults /\ foreign' = foreign \cup {s}
    /\ UNCHANGED <<started, serverVars, gatewayVars, requestVars>>

\* Mutant: last_heartbeat is left as the claim set it.
AttachKeepingBeat(s) ==
    /\ status[s] = "pending"
    /\ status' = [status EXCEPT ![s] = "running"]
    /\ started' = [started EXCEPT ![s] = 0]
    /\ relay' = [relay EXCEPT ![s] = "dialing"]
    /\ dials' = dials \cup {s}
    /\ UNCHANGED <<beat, foreign, timer, gateway, requestVars>>

\* StartSession, and the dial of the worker begins.
Attach(s) ==
    /\ status[s] = "pending"
    /\ status' = [status EXCEPT ![s] = "running"]
    /\ started' = [started EXCEPT ![s] = 0]
    /\ beat' = [beat EXCEPT ![s] = 0]
    /\ relay' = [relay EXCEPT ![s] = "dialing"]
    /\ dials' = dials \cup {s}
    /\ UNCHANGED <<foreign, timer, gateway, requestVars>>

\* The gateway's 101 is back and the client is upgraded: Run begins.
DialDone(s) ==
    /\ relay[s] = "dialing"
    /\ s \in gateway
    /\ relay' = [relay EXCEPT ![s] = "live"]
    /\ timer' = [timer EXCEPT ![s] = 0]
    /\ UNCHANGED <<rowVars, gatewayVars, requestVars>>

\* The dial times out or is refused, or the client's upgrade fails.
DialFail(s) ==
    /\ relay[s] = "dialing"
    /\ relay' = [relay EXCEPT ![s] = "gone"]
    /\ Finish(s, Active, "failed")
    /\ UNCHANGED <<started, beat, foreign, timer, gatewayVars, requestVars>>

\* A tick of renewHeartbeat: renewed, no longer running, or failed and
\* tried again at the next tick.
RenewSessionHeartbeat(s) ==
    /\ relay[s] = "live"
    /\ timer[s] >= RenewInterval
    /\ timer' = [timer EXCEPT ![s] = 0]
    /\ \/ /\ status[s] = "running"
          /\ beat' = [beat EXCEPT ![s] = 0]
          /\ UNCHANGED relay
       \/ /\ status[s] # "running"
          /\ relay' = [relay EXCEPT ![s] = "gone"]
          /\ UNCHANGED beat
       \/ "renew" \in Faults /\ UNCHANGED <<beat, relay>>
    /\ UNCHANGED <<status, started, foreign, gatewayVars, requestVars>>

\* A peer closes or is lost: the connections close, the outcome is written.
RelayEnds(s) ==
    /\ relay[s] = "live"
    /\ relay' = [relay EXCEPT ![s] = "gone"]
    /\ Finish(s, {"running"}, "completed") \/ Finish(s, Active, "failed")
    /\ UNCHANGED <<started, beat, foreign, timer, gatewayVars, requestVars>>

ServerCrash ==
    /\ "crash" \in Faults
    /\ relay' = [s \in Sessions |-> IF relay[s] \in {"dialing", "live"} THEN "gone"
                                                                       ELSE relay[s]]
    /\ UNCHANGED <<rowVars, timer, gatewayVars, requestVars>>

TerminateSession(s) ==
    /\ status[s] \in Active
    /\ status' = [status EXCEPT ![s] = "completed"]
    /\ UNCHANGED <<started, beat, foreign, serverVars, gatewayVars, requestVars>>

ExpireDeadSession(s) ==
    /\ PastTTL(s)
    /\ status' = [status EXCEPT ![s] = "expired"]
    /\ UNCHANGED <<started, beat, foreign, serverVars, gatewayVars, requestVars>>

-----------------------------------------------------------------------------
(* The worker.                                                             *)

\* acceptClient; the server may have given up by then.
GatewayAccept(s) ==
    /\ s \in dials
    /\ dials' = dials \ {s}
    /\ gateway' = gateway \cup {s}
    /\ UNCHANGED <<rowVars, serverVars, requestVars>>

\* rejectClient or abortDial.
GatewayReject(s) ==
    /\ s \in dials
    /\ dials' = dials \ {s}
    /\ UNCHANGED <<rowVars, serverVars, gateway, requestVars>>

\* closePeer: one of the two sockets closed.
GatewayDrop(s) ==
    /\ s \in gateway
    /\ gateway' = gateway \ {s}
    /\ UNCHANGED <<rowVars, serverVars, dials, requestVars>>

HeartbeatSend ==
    /\ request = "idle"
    /\ request' = "sent"
    /\ sent' = 0
    /\ ids' = gateway
    /\ UNCHANGED <<rowVars, serverVars, gatewayVars, stale>>

\* The heartbeat's transaction: fail the unreported, list the stale.
Heartbeat ==
    /\ request = "sent"
    /\ request' = "answered"
    /\ status' = [s \in Sessions |-> IF Unreported(s) THEN "failed" ELSE status[s]]
    /\ stale' = Stale
    /\ UNCHANGED <<started, beat, foreign, serverVars, gatewayVars, sent, ids>>

EndRequest ==
    /\ request' = "idle"
    /\ sent' = 0
    /\ ids' = {}
    /\ stale' = {}

\* The worker gets the answer and closes the stale sessions.
HeartbeatAnswer ==
    /\ request = "answered"
    /\ gateway' = gateway \ stale
    /\ EndRequest
    /\ UNCHANGED <<rowVars, serverVars, dials>>

\* The request or its answer is lost, or the worker's time limit passes.
HeartbeatLost ==
    /\ request # "idle"
    /\ EndRequest
    /\ UNCHANGED <<rowVars, serverVars, gatewayVars>>

-----------------------------------------------------------------------------
\* Nothing outlives its deadline: a dial, a renewal tick, a request.
Tick ==
    /\ \A s \in Sessions : /\ relay[s] = "dialing" => started[s] < DialTimeout
                           /\ relay[s] = "live" => timer[s] < RenewInterval
    /\ request # "idle" => sent < ReportTimeout
    /\ started' = [s \in Sessions |-> Older(started[s])]
    /\ beat' = [s \in Sessions |-> Older(beat[s])]
    /\ timer' = [s \in Sessions |-> IF relay[s] = "live" THEN Older(timer[s]) ELSE 0]
    /\ sent' = IF request = "idle" THEN 0 ELSE Older(sent)
    /\ UNCHANGED <<status, foreign, relay, gatewayVars, request, ids, stale>>

Next ==
    \/ \E s \in Sessions :
         \/ InsertClaimedSession(s) \/ Attach(s) \/ DialDone(s) \/ DialFail(s)
         \/ RenewSessionHeartbeat(s) \/ RelayEnds(s)
         \/ TerminateSession(s) \/ ExpireDeadSession(s)
         \/ GatewayAccept(s) \/ GatewayReject(s) \/ GatewayDrop(s)
    \/ ServerCrash
    \/ HeartbeatSend \/ Heartbeat \/ HeartbeatAnswer \/ HeartbeatLost
    \/ Tick

Spec == Init /\ [][Next]_vars

\* Time passes, timeouts and tickers fire, the rescuer sweeps, an upgrade
\* request ends one way or another, the worker keeps heartbeating and not
\* every heartbeat is lost. Nothing is assumed of the sockets: a gateway may
\* never notice that its peer is gone.
FairSpec ==
    /\ Spec
    /\ WF_vars(Tick)
    /\ \A s \in Sessions : /\ WF_vars(DialFail(s)) /\ WF_vars(RenewSessionHeartbeat(s))
                           /\ WF_vars(ExpireDeadSession(s))
                           /\ WF_vars(GatewayAccept(s) \/ GatewayReject(s))
    /\ WF_vars(HeartbeatSend) /\ SF_vars(Heartbeat) /\ SF_vars(HeartbeatAnswer)

-----------------------------------------------------------------------------
(* Properties.                                                             *)

\* What the timers must satisfy for the next two properties: more than the
\* code insists on. A dial begins with StartSession here; a query that takes
\* its time adds to it, and the default values leave the first no room.
ReportTuned == DialTimeout + ReportTimeout <= Grace
RenewTuned == DialTimeout + RenewInterval <= SessionTTL

\* A heartbeat never fails a session that the worker holds and the server
\* relays, although its report may be older than the connection.
NoFalseFailure ==
    [][\A s \in Sessions :
         status[s] = "running" /\ relay[s] = "live" /\ s \in gateway =>
             ~(status'[s] = "failed" /\ relay'[s] = "live")]_vars

\* The sweep never expires a session while the server dials or relays it:
\* StartSession and the renewals keep last_heartbeat young enough.
NoFalseExpiry ==
    [][\A s \in Sessions :
         status[s] = "running" /\ relay[s] \in {"dialing", "live"} =>
             status'[s] # "expired"]_vars

\* The worker is told to close only sessions that are over, unless a lost
\* answer of its registration left a second row and the session was claimed
\* there; and what it holds was started once: a late answer cannot cut a
\* session that it serves under the row it knows of.
StaleMeansOver ==
    /\ \A s \in stale : status[s] \in Terminal \/ s \in foreign
    /\ \A s \in gateway \cup dials : status[s] \in Terminal \cup {"running"}

\* A slot is not leaked: an active session that nobody relays ends, whatever
\* crashed and whichever writes were lost, or somebody attaches to it.
SlotFreed ==
    \A s \in Sessions :
        status[s] \in Active /\ relay[s] \in {"none", "gone"} ~>
            status[s] \in Terminal \/ relay[s] \in {"dialing", "live"}

\* A connection is not leaked: the gateway gives up the connection of a
\* session that is over even if it never sees its peer close.
ZombieClosed ==
    \A s \in Sessions : s \in gateway /\ status[s] \in Terminal ~> s \notin gateway
=============================================================================
