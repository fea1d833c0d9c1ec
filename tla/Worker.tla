------------------------------- MODULE Worker -------------------------------
(***************************************************************************)
(* The lifecycle of one worker process (worker.ts): start-up, registration *)
(* and re-registration, the heartbeat loop, draining, and shutdown, each a *)
(* coroutine that the others overtake while it awaits. The control plane   *)
(* is reduced to the status of the worker's row, the gateway to the        *)
(* sessions connected through it.                                          *)
(***************************************************************************)
EXTENDS Integers, FiniteSets

CONSTANTS Rows,      \* worker ids the control plane may hand out
          Sessions,
          NoRow

ASSUME NoRowAssumption == NoRow \notin Rows

VARIABLES
    state,       \* currentState
    boot,        \* what start() awaits
    id,          \* workerIdValue
    regRow,      \* row of a registration whose answer is under way
    hb,          \* what the heartbeat loop awaits
    answer,      \* status in the heartbeat's answer, "missing" for a 404
    drain,       \* requestDrain of a signal: "tell" while it awaits setStatus
    drainTimer,
    shut,        \* what runShutdown awaits
    row,         \* row[r]: status in the table, "none" if there is no such row
    sess,        \* sess[s]: the session as the gateway sees it; the name of
                 \* one that is over serves again
    forced       \* the shutdown was not the end of a drain

procVars == <<state, boot, id, regRow, hb, answer, drain, drainTimer, shut, forced>>
vars == <<procVars, row, sess>>

RowStatus == {"none", "available", "draining", "stalled", "shutting_down"}

Begun == shut # "none"
Alive == shut # "exited"

\* "late": connected after a shutdown was decided.
Connected == {s \in Sessions : sess[s] \in {"connected", "late"}}

\* Beside the types: currentState says whether a shutdown has begun.
TypeOK ==
    /\ state \in {"starting", "running", "draining", "shutting_down"}
    /\ boot \in {"launch", "listen", "register", "done"}
    /\ {id, regRow} \subseteq Rows \cup {NoRow}
    /\ hb \in {"off", "armed", "beat", "register", "tell"}
    /\ answer \in RowStatus \cup {"missing"}
    /\ drain \in {"none", "tell", "done"}
    /\ drainTimer \in BOOLEAN
    /\ shut \in {"none", "tell", "gateway", "browser", "exited"}
    /\ row \in [Rows -> RowStatus]
    /\ sess \in [Sessions -> {"free", "claimed", "connected", "late", "cut"}]
    /\ forced \in BOOLEAN
    /\ state = "shutting_down" <=> Begun

Init ==
    /\ state = "starting" /\ boot = "launch"
    /\ id = NoRow /\ regRow = NoRow
    /\ hb = "off" /\ answer = "none"
    /\ drain = "none" /\ drainTimer = FALSE
    /\ shut = "none" /\ forced = FALSE
    /\ row = [r \in Rows |-> "none"]
    /\ sess = [s \in Sessions |-> "free"]

-----------------------------------------------------------------------------
(* What several handlers do.                                               *)

\* armHeartbeat: the loop goes on unless a shutdown has stopped it.
armHeartbeat == IF Begun THEN "off" ELSE "armed"

\* The first call decides, every other one changes nothing; `h` is the
\* heartbeat loop, whose timer is cleared.
shutdown(f, h) ==
    /\ state' = "shutting_down"
    /\ shut' = IF Begun THEN shut ELSE "tell"
    /\ forced' = IF Begun THEN forced ELSE f
    /\ drainTimer' = (Begun /\ drainTimer)
    /\ hb' = IF h = "armed" THEN "off" ELSE h

\* The end of requestDrain in state `st`, with `open` sessions connected.
drainOrStop(st, open, h) ==
    \/ open = {} /\ shutdown(FALSE, h)
    \/ /\ open # {}
       /\ state' = st /\ hb' = h /\ drainTimer' = TRUE
       /\ UNCHANGED <<shut, forced>>

SettableFrom(to) ==
    IF to = "draining" THEN {"available", "draining"} ELSE RowStatus \ {"none"}

\* bestEffortStatus: the call takes effect, or is refused, lost or too late.
StatusApplied(to) ==
    /\ id # NoRow /\ row[id] \in SettableFrom(to)
    /\ row' = [row EXCEPT ![id] = to]

bestEffortStatus(to) == StatusApplied(to) \/ UNCHANGED row

-----------------------------------------------------------------------------
(* start(), registration and re-registration.                              *)

\* launchBrowser, then gateway.start; a shutdown meanwhile ends start().
BootStep ==
    /\ Alive
    /\ boot \in {"launch", "listen"}
    /\ boot' = IF Begun THEN "done" ELSE IF boot = "launch" THEN "listen" ELSE "register"
    /\ UNCHANGED <<state, id, regRow, hb, answer, drain, drainTimer, shut, forced, row, sess>>

\* The server inserts a row for one attempt; its answer may get lost, and a
\* later attempt then makes another row.
registerWorker(r, answered) ==
    /\ Alive
    /\ boot = "register" \/ hb = "register"
    /\ regRow = NoRow
    /\ row[r] = "none" /\ r # id
    /\ row' = [row EXCEPT ![r] = "available"]
    /\ regRow' = IF answered THEN r ELSE NoRow
    /\ UNCHANGED <<state, boot, id, hb, answer, drain, drainTimer, shut, forced, sess>>

\* Mutant: start() resumes after a shutdown.
BootRegisteredAnyway ==
    /\ Alive
    /\ boot = "register" /\ regRow # NoRow
    /\ boot' = "done" /\ regRow' = NoRow
    /\ id' = regRow /\ state' = "running" /\ hb' = "armed"
    /\ UNCHANGED <<answer, drain, drainTimer, shut, forced, row, sess>>

\* The answer is adopted unless the shutdown signal came first.
BootRegistered ==
    /\ Alive
    /\ boot = "register" /\ regRow # NoRow
    /\ boot' = "done" /\ regRow' = NoRow
    /\ \/ Begun /\ UNCHANGED <<id, state, hb>>
       \/ ~Begun /\ id' = regRow /\ state' = "running" /\ hb' = "armed"
    /\ UNCHANGED <<answer, drain, drainTimer, shut, forced, row, sess>>

\* A step of start() throws: the browser, the port, every attempt, or abort.
BootFails ==
    /\ Alive
    /\ boot # "done"
    /\ boot' = "done" /\ regRow' = NoRow
    /\ shutdown(TRUE, hb)
    /\ UNCHANGED <<id, answer, drain, row, sess>>

-----------------------------------------------------------------------------
(* The heartbeat loop.                                                     *)

heartbeatTick ==
    /\ Alive
    /\ hb = "armed"
    /\ hb' = "beat"
    /\ UNCHANGED <<state, boot, id, regRow, answer, drain, drainTimer, shut, forced, row, sess>>

\* The server's side: a stalled worker is revived, an unknown one is a 404.
ServerHeartbeat ==
    /\ Alive
    /\ hb = "beat" /\ answer = "none"
    /\ row' = [row EXCEPT ![id] = IF @ = "stalled" THEN "available" ELSE @]
    /\ answer' = IF row[id] = "none" THEN "missing" ELSE row'[id]
    /\ UNCHANGED <<state, boot, id, regRow, hb, drain, drainTimer, shut, forced, sess>>

\* Mutant: drain intent is not asserted again.
HeartbeatAnswerTrusting ==
    /\ Alive
    /\ hb = "beat" /\ answer \notin {"none", "missing"}
    /\ answer' = "none"
    /\ \/ Begun /\ hb' = "off" /\ UNCHANGED <<state, drainTimer, shut, forced>>
       \/ ~Begun /\ answer = "shutting_down" /\ shutdown(TRUE, "off")
       \/ /\ ~Begun /\ answer = "draining" /\ state = "running"
          /\ drainOrStop("draining", Connected, "armed")
       \/ /\ ~Begun /\ answer # "shutting_down" /\ (answer = "draining" => state # "running")
          /\ hb' = "armed" /\ UNCHANGED <<state, drainTimer, shut, forced>>
    /\ UNCHANGED <<boot, id, regRow, drain, row, sess>>

\* The answer: close stale sessions, which may end a drain, then follow the
\* status or, in a drain, assert it again.
HeartbeatAnswer ==
    /\ Alive
    /\ hb = "beat" /\ answer \notin {"none", "missing"}
    /\ answer' = "none"
    /\ \/ Begun /\ hb' = "off" /\ UNCHANGED <<state, drainTimer, shut, forced, sess>>
       \/ \E stale \in SUBSET Connected :
            LET open == Connected \ stale
                drained == state = "draining" /\ stale # {} /\ open = {}
            IN  /\ ~Begun
                /\ sess' = [s \in Sessions |-> IF s \in stale THEN "free" ELSE sess[s]]
                /\ \/ drained /\ shutdown(FALSE, "off")
                   \/ ~drained /\ answer = "shutting_down" /\ shutdown(TRUE, "off")
                   \/ /\ ~drained /\ answer = "draining" /\ state = "running"
                      /\ drainOrStop("draining", open, "armed")
                   \/ /\ ~drained /\ answer # "shutting_down"
                      /\ state = "draining" \/ answer # "draining"
                      /\ hb' = IF state = "draining" /\ answer # "draining"
                               THEN "tell" ELSE "armed"
                      /\ UNCHANGED <<state, drainTimer, shut, forced>>
    /\ UNCHANGED <<boot, id, regRow, drain, row>>

\* The request is lost, times out, or its answer does.
HeartbeatFails ==
    /\ Alive
    /\ hb = "beat"
    /\ hb' = armHeartbeat /\ answer' = "none"
    /\ UNCHANGED <<state, boot, id, regRow, drain, drainTimer, shut, forced, row, sess>>

\* 404: register again, also while draining. A shutdown makes it throw.
HeartbeatMissing ==
    /\ Alive
    /\ hb = "beat" /\ answer = "missing"
    /\ hb' = IF Begun THEN "off" ELSE "register"
    /\ answer' = "none"
    /\ UNCHANGED <<state, boot, id, regRow, drain, drainTimer, shut, forced, row, sess>>

HeartbeatRegistered ==
    /\ Alive
    /\ hb = "register" /\ regRow # NoRow
    /\ regRow' = NoRow
    /\ \/ Begun /\ hb' = "off" /\ UNCHANGED id
       \/ ~Begun /\ id' = regRow /\ hb' = IF state = "draining" THEN "tell" ELSE "armed"
    /\ UNCHANGED <<state, boot, answer, drain, drainTimer, shut, forced, row, sess>>

\* Mutant: the loop is not armed again when the registration fails.
HeartbeatUnregisteredStops ==
    /\ Alive
    /\ hb = "register"
    /\ hb' = "off" /\ regRow' = NoRow
    /\ UNCHANGED <<state, boot, id, answer, drain, drainTimer, shut, forced, row, sess>>

\* All attempts failed, one was refused for good, or the shutdown aborts it.
HeartbeatUnregistered ==
    /\ Alive
    /\ hb = "register"
    /\ hb' = armHeartbeat /\ regRow' = NoRow
    /\ UNCHANGED <<state, boot, id, answer, drain, drainTimer, shut, forced, row, sess>>

\* bestEffortStatus('draining') of the loop is over.
HeartbeatTold ==
    /\ Alive
    /\ hb = "tell"
    /\ bestEffortStatus("draining")
    /\ hb' = armHeartbeat
    /\ UNCHANGED <<state, boot, id, regRow, answer, drain, drainTimer, shut, forced, sess>>

-----------------------------------------------------------------------------
(* Draining and shutdown.                                                  *)

\* requestDrain of SIGTERM or SIGINT: a second one, or one before the worker
\* is running, forces the shutdown.
Signal ==
    /\ ~Begun
    /\ \/ state # "running" /\ shutdown(TRUE, hb) /\ UNCHANGED drain
       \/ /\ state = "running"
          /\ state' = "draining" /\ drain' = "tell"
          /\ UNCHANGED <<hb, drainTimer, shut, forced>>
    /\ UNCHANGED <<boot, id, regRow, answer, row, sess>>

\* Mutant: the drain has no time limit.
DrainToldUntimed ==
    /\ Alive
    /\ drain = "tell"
    /\ drain' = "done"
    /\ bestEffortStatus("draining")
    /\ IF Connected = {} THEN shutdown(FALSE, hb)
                         ELSE UNCHANGED <<state, shut, forced, drainTimer, hb>>
    /\ UNCHANGED <<boot, id, regRow, answer, sess>>

\* requestDrain goes on after its status call, whatever happened meanwhile.
DrainTold ==
    /\ Alive
    /\ drain = "tell"
    /\ drain' = "done"
    /\ bestEffortStatus("draining")
    /\ drainOrStop(state, Connected, hb)
    /\ UNCHANGED <<boot, id, regRow, answer, sess>>

DrainTimeout ==
    /\ Alive
    /\ drainTimer
    /\ shutdown(TRUE, hb)
    /\ UNCHANGED <<boot, id, regRow, answer, drain, row, sess>>

\* The browser exits unexpectedly, or an error reaches the process.
fatal ==
    /\ ~Begun
    /\ shutdown(TRUE, hb)
    /\ UNCHANGED <<boot, id, regRow, answer, drain, row, sess>>

\* runShutdown: the status call is over and the gateway cuts what it has.
ShutdownTold ==
    /\ shut = "tell"
    /\ shut' = "gateway"
    /\ bestEffortStatus("shutting_down")
    /\ sess' = [s \in Sessions |-> CASE sess[s] = "connected" -> "cut"
                                      [] sess[s] = "late" -> "free"
                                      [] OTHER -> sess[s]]
    /\ UNCHANGED <<state, boot, id, regRow, hb, answer, drain, drainTimer, forced>>

\* The gateway's servers are closed, or its time is up.
GatewayDown ==
    /\ shut = "gateway"
    /\ shut' = "browser"
    /\ UNCHANGED <<state, boot, id, regRow, hb, answer, drain, drainTimer, forced, row, sess>>

\* The browser is closed, or killed when that takes too long; then exit.
BrowserClosed ==
    /\ shut = "browser"
    /\ shut' = "exited"
    /\ UNCHANGED <<state, boot, id, regRow, hb, answer, drain, drainTimer, forced, row, sess>>

-----------------------------------------------------------------------------
(* Sessions and the control plane, as long as the worker lives.            *)

claim(s) ==
    /\ Alive
    /\ sess[s] = "free"
    /\ \E r \in Rows : row[r] = "available"
    /\ sess' = [sess EXCEPT ![s] = "claimed"]
    /\ UNCHANGED <<procVars, row>>

\* The gateway listens from before the registration until it shuts down.
dial(s) ==
    /\ sess[s] = "claimed"
    /\ boot \in {"register", "done"} /\ shut \in {"none", "tell"}
    /\ id # NoRow \/ boot = "register"
    /\ sess' = [sess EXCEPT ![s] = IF Begun THEN "late" ELSE "connected"]
    /\ UNCHANGED <<procVars, row>>

\* The dial fails or is never made.
dialFails(s) ==
    /\ Alive
    /\ sess[s] = "claimed"
    /\ sess' = [sess EXCEPT ![s] = "free"]
    /\ UNCHANGED <<procVars, row>>

\* Mutant: the first session to end ends the drain.
sessionCloseAny(s) ==
    /\ s \in Connected
    /\ sess' = [sess EXCEPT ![s] = "free"]
    /\ IF state = "draining" THEN shutdown(FALSE, hb)
                             ELSE UNCHANGED <<state, shut, forced, drainTimer, hb>>
    /\ UNCHANGED <<boot, id, regRow, answer, drain, row>>

\* A session ends; in a drain the last one to end stops the worker.
sessionClose(s) ==
    /\ s \in Connected
    /\ sess' = [sess EXCEPT ![s] = "free"]
    /\ IF state = "draining" /\ Connected = {s}
       THEN shutdown(FALSE, hb)
       ELSE UNCHANGED <<state, shut, forced, drainTimer, hb>>
    /\ UNCHANGED <<boot, id, regRow, answer, drain, row>>

\* The TTLs (30 s at the least by default) outlast a registration's answer
\* and a status call: such a row is not silent.
Recent(r) == r = regRow \/ (r = id /\ (hb = "tell" \/ answer # "none"))

StallSilentWorker(r) ==
    /\ Alive
    /\ row[r] = "available" /\ ~Recent(r)
    /\ row' = [row EXCEPT ![r] = "stalled"]
    /\ UNCHANGED <<procVars, sess>>

DeleteDeadWorker(r) ==
    /\ Alive
    /\ row[r] \in {"stalled", "draining", "shutting_down"} /\ ~Recent(r)
    /\ row' = [row EXCEPT ![r] = "none"]
    /\ UNCHANGED <<procVars, sess>>

\* The lifetime limit, an operator, or a call of this worker that was given
\* up and takes effect late.
SetWorkerStatus(r, to) ==
    /\ Alive
    /\ row[r] \in SettableFrom(to)
    /\ row' = [row EXCEPT ![r] = to]
    /\ UNCHANGED <<procVars, sess>>

Next ==
    \/ BootStep \/ BootRegistered \/ BootFails
    \/ \E r \in Rows, answered \in BOOLEAN : registerWorker(r, answered)
    \/ heartbeatTick \/ ServerHeartbeat \/ HeartbeatAnswer \/ HeartbeatFails
    \/ HeartbeatMissing \/ HeartbeatRegistered \/ HeartbeatUnregistered \/ HeartbeatTold
    \/ Signal \/ DrainTold \/ DrainTimeout \/ fatal \/ ShutdownTold \/ GatewayDown \/ BrowserClosed
    \/ \E s \in Sessions : claim(s) \/ dial(s) \/ dialFails(s) \/ sessionClose(s)
    \/ \E r \in Rows : StallSilentWorker(r) \/ DeleteDeadWorker(r)
    \/ \E r \in Rows, to \in {"draining", "shutting_down"} : SetWorkerStatus(r, to)

Spec == Init /\ [][Next]_vars

\* The event loop runs, every awaited call returns or times out, a call that
\* is repeated does not fail for ever, and the rescuer removes rows nobody
\* heartbeats. Sessions need not end and the drain timer need not fire.
FairSpec ==
    /\ Spec
    /\ WF_vars(heartbeatTick) /\ SF_vars(ServerHeartbeat)
    /\ SF_vars(HeartbeatAnswer \/ HeartbeatMissing)
    /\ SF_vars(\E r \in Rows : registerWorker(r, TRUE)) /\ SF_vars(HeartbeatRegistered)
    /\ WF_vars(HeartbeatTold) /\ SF_vars(HeartbeatTold /\ StatusApplied("draining"))
    /\ WF_vars(DrainTold) /\ WF_vars(ShutdownTold)
    /\ WF_vars(GatewayDown) /\ WF_vars(BrowserClosed)
    /\ \A r \in Rows : WF_vars(r # id /\ (StallSilentWorker(r) \/ DeleteDeadWorker(r)))

-----------------------------------------------------------------------------
(* Properties.                                                             *)

\* Once a shutdown has begun nothing that was awaited before it brings the
\* worker back: not start(), a registration, a heartbeat or a drain.
ShutdownFinal == [][state = "shutting_down" => state' = "shutting_down"]_vars

\* A worker that runs or drains keeps heartbeating: no error path of the
\* loop leaves it without a timer or a call under way.
HeartbeatAlive == state \in {"running", "draining"} => hb # "off" /\ id # NoRow

\* A drain cuts no session that was connected when it decided to stop; only
\* a forced shutdown does.
DrainSpares == (\E s \in Sessions : sess[s] = "cut") => forced

\* A drain is never left without an end in sight: its status call is under
\* way, or its timer is armed and a session is still connected. Whatever ends
\* the last session, meanwhile or later, stops the worker instead.
DrainWatched ==
    state = "draining" => drain = "tell" \/ (drainTimer /\ Connected # {})

\* The control plane learns of a drain, though the status call fails, the
\* row stalls and is revived, or the worker is deleted and registers anew.
DrainKnown ==
    state = "draining" ~> Begun \/ (id # NoRow /\ row[id] \in {"draining", "shutting_down"})

\* A running worker whose row was deleted gets a row again.
Reregistered ==
    state = "running" /\ row[id] = "none" ~> state # "running" \/ row[id] # "none"

\* A worker that drains or shuts down exits, or is waiting for a session with
\* its drain timer armed, whatever calls fail and whatever overtakes the drain.
DrainExits ==
    state \in {"draining", "shutting_down"} ~>
        shut = "exited" \/ (drainTimer /\ Connected # {})
=============================================================================
