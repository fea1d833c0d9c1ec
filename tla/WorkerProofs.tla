---------------------------- MODULE WorkerProofs ----------------------------
(***************************************************************************)
(* The worker's lifecycle, for every number of row ids and of sessions.    *)
(***************************************************************************)
EXTENDS Worker, TLAPS

\* The loop runs only for a worker that has an id.
HeartbeatId == hb # "off" => id # NoRow

\* A session is cut by a forced shutdown alone.
CutForced == \A s \in Sessions : sess[s] = "cut" => Begun /\ forced

\* A shutdown that ends a drain finds no session that was connected before.
Spared == Begun /\ ~forced => \A s \in Sessions : sess[s] # "connected"

IInv == TypeOK /\ HeartbeatId /\ HeartbeatAlive /\ DrainWatched /\ CutForced /\ Spared

-----------------------------------------------------------------------------
(* The steps in which several coroutines meet.                             *)

\* A status call leaves the rows typed, whether or not it takes effect.
LEMMA StatusTyped ==
    ASSUME TypeOK, NEW to \in RowStatus, bestEffortStatus(to)
    PROVE  row' \in [Rows -> RowStatus]
BY NoRowAssumption DEF TypeOK, bestEffortStatus, StatusApplied, RowStatus

\* A forced shutdown, by whatever coroutine: it may cut, and only the first
\* one decides.
LEMMA ForcedInv ==
    ASSUME IInv, shutdown(TRUE, hb), UNCHANGED <<id, answer, drain, row, sess>>,
           boot' \in {"launch", "listen", "register", "done"},
           regRow' \in Rows \cup {NoRow}
    PROVE  IInv'
<1> USE DEF IInv, shutdown, Begun
<1>1. TypeOK'
  BY DEF TypeOK
<1>2. HeartbeatId' /\ HeartbeatAlive' /\ DrainWatched'
  BY DEF HeartbeatId, HeartbeatAlive, DrainWatched
<1>3. CutForced' /\ Spared'
  BY DEF CutForced, Spared
<1> QED BY <1>1, <1>2, <1>3

\* The answer to a heartbeat: what it closes, and the status it brings,
\* against what the worker decided while it waited.
LEMMA HeartbeatAnswerInv ==
    ASSUME IInv, HeartbeatAnswer
    PROVE  IInv'
<1> USE DEF IInv, TypeOK, Begun, RowStatus, HeartbeatId, HeartbeatAlive,
            DrainWatched, CutForced, Spared, Connected
<1>1. CASE Begun
  <2>1. /\ hb' = "off" /\ answer' = "none"
        /\ UNCHANGED <<state, drainTimer, shut, forced, sess, boot, id, regRow, drain, row>>
    BY <1>1, Zenon DEF HeartbeatAnswer
  <2> QED BY <1>1, <2>1
<1>2. CASE ~Begun
  <2>1. PICK stale \in SUBSET Connected :
          LET open == Connected \ stale
              drained == state = "draining" /\ stale # {} /\ open = {}
          IN  /\ sess' = [s \in Sessions |-> IF s \in stale THEN "free" ELSE sess[s]]
              /\ \/ drained /\ shutdown(FALSE, "off")
                 \/ ~drained /\ answer = "shutting_down" /\ shutdown(TRUE, "off")
                 \/ /\ ~drained /\ answer = "draining" /\ state = "running"
                    /\ drainOrStop("draining", open, "armed")
                 \/ /\ ~drained /\ answer # "shutting_down"
                    /\ state = "draining" \/ answer # "draining"
                    /\ hb' = IF state = "draining" /\ answer # "draining"
                             THEN "tell" ELSE "armed"
                    /\ UNCHANGED <<state, drainTimer, shut, forced>>
    BY <1>2, Zenon DEF HeartbeatAnswer
  <2> DEFINE open == Connected \ stale
             drained == state = "draining" /\ stale # {} /\ open = {}
  <2>2. /\ UNCHANGED <<boot, id, regRow, drain, row>> /\ answer' = "none"
        /\ hb = "beat"
        /\ sess' = [s \in Sessions |-> IF s \in stale THEN "free" ELSE sess[s]]
    BY <2>1 DEF HeartbeatAnswer
  <2>3. Connected' = open
    BY <2>2
  <2>4. CASE open = {} /\ shutdown(FALSE, "off")
    BY <1>2, <2>2, <2>3, <2>4 DEF shutdown
  <2>5. CASE shutdown(TRUE, "off")
    BY <1>2, <2>2, <2>3, <2>5 DEF shutdown
  <2>6. CASE state = "running" /\ drainOrStop("draining", open, "armed")
    BY <1>2, <2>2, <2>3, <2>6 DEF drainOrStop, shutdown
  <2>7. CASE /\ ~drained /\ hb' \in {"tell", "armed"}
             /\ UNCHANGED <<state, drainTimer, shut, forced>>
    BY <1>2, <2>2, <2>3, <2>7
  <2> QED BY <2>1, <2>4, <2>5, <2>6, <2>7
<1> QED BY <1>1, <1>2

\* requestDrain after its status call, with or without sessions left.
LEMMA DrainToldInv ==
    ASSUME IInv, DrainTold
    PROVE  IInv'
<1> USE DEF IInv, TypeOK, Begun, HeartbeatId, HeartbeatAlive,
            DrainWatched, CutForced, Spared, Connected
<1>1. row' \in [Rows -> RowStatus]
  BY StatusTyped DEF DrainTold, RowStatus
<1>2. CASE Connected = {} /\ shutdown(FALSE, hb)
  BY <1>1, <1>2 DEF DrainTold, shutdown
<1>3. CASE /\ Connected # {}
           /\ drainTimer' = TRUE
           /\ UNCHANGED <<state, hb, shut, forced>>
  BY <1>1, <1>3 DEF DrainTold
<1> QED BY <1>2, <1>3 DEF DrainTold, drainOrStop

\* The gateway cuts what a forced shutdown finds connected.
LEMMA ShutdownToldInv ==
    ASSUME IInv, ShutdownTold
    PROVE  IInv'
<1> USE DEF IInv, TypeOK, Begun, HeartbeatId, HeartbeatAlive,
            DrainWatched, CutForced, Spared
<1>1. row' \in [Rows -> RowStatus]
  BY StatusTyped DEF ShutdownTold, RowStatus
<1>2. \A s \in Sessions :
        /\ sess'[s] \in {"free", "claimed", "late", "cut"}
        /\ sess'[s] = "cut" => sess[s] \in {"connected", "cut"}
  BY DEF ShutdownTold
<1> QED BY <1>1, <1>2 DEF ShutdownTold

\* A session ends, the last one of a drain or another.
LEMMA SessionCloseInv ==
    ASSUME IInv, NEW s \in Sessions, sessionClose(s)
    PROVE  IInv'
<1> USE DEF IInv, TypeOK, Begun, HeartbeatId, HeartbeatAlive,
            DrainWatched, CutForced, Spared
<1>1. Connected' = Connected \ {s}
  BY DEF sessionClose, Connected
<1>2. CASE Connected = {s} /\ shutdown(FALSE, hb)
  BY <1>1, <1>2 DEF sessionClose, shutdown, Connected
<1>3. CASE /\ ~(state = "draining" /\ Connected = {s})
           /\ UNCHANGED <<state, shut, forced, drainTimer, hb>>
  BY <1>1, <1>3 DEF sessionClose, Connected
<1> QED BY <1>2, <1>3 DEF sessionClose

-----------------------------------------------------------------------------
(* The inductive invariant.                                                *)

\* Every step of the worker, its sessions and the control plane preserves it.
LEMMA StepInv ==
    ASSUME IInv, [Next]_vars
    PROVE  IInv'
<1> USE NoRowAssumption
    DEF IInv, TypeOK, Begun, RowStatus, Connected, HeartbeatId, HeartbeatAlive,
        DrainWatched, CutForced, Spared
<1>1. CASE BootStep
  BY <1>1 DEF BootStep
<1>2. CASE BootRegistered
  BY <1>2 DEF BootRegistered
<1>3. CASE BootFails
  BY <1>3, ForcedInv DEF BootFails
<1>4. ASSUME NEW r \in Rows, NEW answered \in BOOLEAN, registerWorker(r, answered)
      PROVE  IInv'
  BY <1>4 DEF registerWorker
<1>5. CASE heartbeatTick
  BY <1>5 DEF heartbeatTick
<1>6. CASE ServerHeartbeat
  BY <1>6 DEF ServerHeartbeat
<1>7. CASE HeartbeatAnswer
  BY <1>7, HeartbeatAnswerInv
<1>8. CASE HeartbeatFails
  BY <1>8 DEF HeartbeatFails, armHeartbeat
<1>9. CASE HeartbeatMissing
  BY <1>9 DEF HeartbeatMissing
<1>10. CASE HeartbeatRegistered
  BY <1>10 DEF HeartbeatRegistered
<1>11. CASE HeartbeatUnregistered
  BY <1>11 DEF HeartbeatUnregistered, armHeartbeat
<1>12. CASE HeartbeatTold
  BY <1>12 DEF HeartbeatTold, armHeartbeat, bestEffortStatus, StatusApplied
<1>13. CASE Signal
  <2>1. CASE shutdown(TRUE, hb) /\ UNCHANGED drain
    BY <1>13, <2>1, ForcedInv DEF Signal
  <2>2. CASE /\ ~Begun /\ state = "running"
             /\ state' = "draining" /\ drain' = "tell"
             /\ UNCHANGED <<hb, drainTimer, shut, forced>>
    BY <1>13, <2>2 DEF Signal
  <2> QED BY <1>13, <2>1, <2>2, Zenon DEF Signal
<1>14. CASE DrainTold
  BY <1>14, DrainToldInv
<1>15. CASE DrainTimeout
  BY <1>15, ForcedInv DEF DrainTimeout
<1>16. CASE fatal
  BY <1>16, ForcedInv DEF fatal
<1>17. CASE ShutdownTold
  BY <1>17, ShutdownToldInv
<1>18. CASE GatewayDown
  BY <1>18 DEF GatewayDown
<1>19. CASE BrowserClosed
  BY <1>19 DEF BrowserClosed
<1>20. ASSUME NEW s \in Sessions, claim(s)
      PROVE  IInv'
  BY <1>20 DEF claim, procVars
<1>21. ASSUME NEW s \in Sessions, dial(s)
      PROVE  IInv'
  BY <1>21 DEF dial, procVars
<1>22. ASSUME NEW s \in Sessions, dialFails(s)
      PROVE  IInv'
  BY <1>22 DEF dialFails, procVars
<1>23. ASSUME NEW s \in Sessions, sessionClose(s)
      PROVE  IInv'
  BY <1>23, SessionCloseInv
<1>24. ASSUME NEW r \in Rows, StallSilentWorker(r)
      PROVE  IInv'
  BY <1>24 DEF StallSilentWorker, procVars
<1>25. ASSUME NEW r \in Rows, DeleteDeadWorker(r)
      PROVE  IInv'
  BY <1>25 DEF DeleteDeadWorker, procVars
<1>26. ASSUME NEW r \in Rows, NEW to \in {"draining", "shutting_down"}, SetWorkerStatus(r, to)
      PROVE  IInv'
  BY <1>26 DEF SetWorkerStatus, procVars, SettableFrom
<1>27. CASE UNCHANGED vars
  BY <1>27 DEF vars, procVars
<1>q. QED
  BY <1>1, <1>2, <1>3, <1>4, <1>5, <1>6, <1>7, <1>8, <1>9, <1>10, <1>11,
     <1>12, <1>13, <1>14, <1>15, <1>16, <1>17, <1>18, <1>19, <1>20, <1>21,
     <1>22, <1>23, <1>24, <1>25, <1>26, <1>27 DEF Next

\* The inductive invariant holds in every reachable state of the worker.
THEOREM WorkerInvariance == Spec => []IInv
<1>1. Init => IInv
  BY NoRowAssumption
     DEF Init, IInv, TypeOK, Begun, RowStatus, Connected, HeartbeatId, HeartbeatAlive,
         DrainWatched, CutForced, Spared
<1>2. IInv /\ [Next]_vars => IInv'
  BY StepInv
<1>q. QED
  BY <1>1, <1>2, PTL DEF Spec

-----------------------------------------------------------------------------
(* The theorems.                                                           *)

\* No error path of the heartbeat loop, in a re-registration, in a drain or
\* in between, leaves a worker that runs or drains without its loop.
THEOREM HeartbeatGoesOn == Spec => []HeartbeatAlive
<1>1. IInv => HeartbeatAlive
  BY DEF IInv
<1>q. QED
  BY <1>1, WorkerInvariance, PTL

\* runShutdown cuts a session only when requestDrain did not decide on it: a
\* drain that ends by itself, however the last sessions end, spares them all.
THEOREM DrainCutsNobody == Spec => []DrainSpares
<1>1. IInv => DrainSpares
  BY DEF IInv, CutForced, DrainSpares
<1>q. QED
  BY <1>1, WorkerInvariance, PTL

\* However signal, status answer, stale ids and closing sessions overtake one
\* another, a worker in state draining has its status call under way, or its
\* drain timer armed and a session to wait for.
THEOREM DrainNeverUnwatched == Spec => []DrainWatched
<1>1. IInv => DrainWatched
  BY DEF IInv
<1>q. QED
  BY <1>1, WorkerInvariance, PTL

\* Nothing that was awaited when the shutdown began brings the worker back.
THEOREM ShutdownStands == Spec => ShutdownFinal
<1>1. IInv /\ [Next]_vars => [state = "shutting_down" => state' = "shutting_down"]_vars
  <2> SUFFICES ASSUME IInv, [Next]_vars, state = "shutting_down"
               PROVE  state' = "shutting_down"
    OBVIOUS
  <2>1. Begun
    BY DEF IInv, TypeOK
  <2>2. Begun'
    BY <2>1 DEF Begun, Next, vars, procVars, shutdown, drainOrStop, BootStep, BootRegistered, BootFails, registerWorker, heartbeatTick, ServerHeartbeat, HeartbeatAnswer, HeartbeatFails, HeartbeatMissing, HeartbeatRegistered, HeartbeatUnregistered, HeartbeatTold, Signal, DrainTold, DrainTimeout, fatal, ShutdownTold, GatewayDown, BrowserClosed, claim, dial, dialFails, sessionClose, StallSilentWorker, DeleteDeadWorker, SetWorkerStatus
  <2>q. QED
    BY <2>2, StepInv DEF IInv, TypeOK
<1>q. QED
  BY <1>1, WorkerInvariance, PTL DEF Spec, ShutdownFinal
=============================================================================
