--------------------------- MODULE ReconcileProofs ---------------------------
(***************************************************************************)
(* Proofs that well-tuned timers keep the heartbeat and the sweep off the  *)
(* sessions in use, for every value of the constants of Reconcile.         *)
(***************************************************************************)
EXTENDS Reconcile, TLAPS

\* A session is dialled, connected and reported only once it was started.
Fresh ==
    \A s \in Sessions :
        /\ status[s] \in {"none", "pending"} =>
             s \notin gateway \cup dials \cup ids /\ relay[s] = "none"
        /\ s \in dials => s \notin gateway /\ relay[s] # "live"

\* The deadlines Tick waits for.
Deadlines ==
    /\ \A s \in Sessions : /\ relay[s] = "dialing" => started[s] <= DialTimeout
                           /\ relay[s] = "live" => timer[s] <= RenewInterval
    /\ request # "idle" => sent <= ReportTimeout

\* A relayed session that the gateway holds and the report does not name was
\* connected after the report was sent, so it is young.
Young ==
    \A s \in Sessions :
        request # "idle" /\ relay[s] = "live" /\ s \in gateway \ ids =>
            started[s] <= DialTimeout + sent

\* What the heartbeat's answer calls stale is over, or on another row.
Over == \A s \in stale : status[s] \in Terminal \/ s \in foreign

IInv == TypeOK /\ Fresh /\ Deadlines /\ Young /\ Over

\* The checks of the configuration, spelled out.
LEMMA ConfigFacts ==
    /\ {DialTimeout, ReportTimeout, RenewInterval, PendingTTL} \subseteq Nat \ {0}
    /\ Grace \in Nat /\ DialTimeout < Grace
    /\ SessionTTL \in Nat /\ RenewInterval < SessionTTL
BY ConfigAssumption DEF Load, validateRuntimeConfig

\* One unit older, within the bound on ages.
LEMMA OlderType ==
    ASSUME NEW a \in Ages
    PROVE  /\ Older(a) \in Ages
           /\ Older(a) <= a + 1
           /\ a < Cap => Older(a) = a + 1
BY CapAssumption DEF Ages, Older

\* The initial states satisfy the invariant.
LEMMA InvInit == Init => IInv
BY ConfigFacts, CapAssumption
DEF Init, IInv, TypeOK, Fresh, Deadlines, Young, Over, Ages, Active, Terminal

\* Every step keeps the types.
LEMMA TypeStep == ASSUME TypeOK, [Next]_vars PROVE TypeOK'
<1> USE DEF TypeOK, Active, Terminal, rowVars, serverVars, gatewayVars, requestVars
<1>0. 0 \in Ages BY CapAssumption DEF Ages
<1>1. CASE UNCHANGED vars BY <1>1 DEF vars
<1>2. ASSUME NEW s \in Sessions, InsertClaimedSession(s) PROVE TypeOK'
  BY <1>0, <1>2 DEF InsertClaimedSession
<1>3. ASSUME NEW s \in Sessions, Attach(s) PROVE TypeOK'
  BY <1>0, <1>3 DEF Attach
<1>4. ASSUME NEW s \in Sessions, DialDone(s) PROVE TypeOK'
  BY <1>0, <1>4 DEF DialDone
<1>5. ASSUME NEW s \in Sessions, DialFail(s) PROVE TypeOK'
  BY <1>5 DEF DialFail, Finish
<1>6. ASSUME NEW s \in Sessions, RenewSessionHeartbeat(s) PROVE TypeOK'
  BY <1>0, <1>6 DEF RenewSessionHeartbeat
<1>7. ASSUME NEW s \in Sessions, RelayEnds(s) PROVE TypeOK'
  BY <1>7 DEF RelayEnds, Finish
<1>8. ASSUME NEW s \in Sessions, TerminateSession(s) PROVE TypeOK'
  BY <1>8 DEF TerminateSession
<1>9. ASSUME NEW s \in Sessions, ExpireDeadSession(s) PROVE TypeOK'
  BY <1>9 DEF ExpireDeadSession
<1>10. ASSUME NEW s \in Sessions, GatewayAccept(s) \/ GatewayReject(s) \/ GatewayDrop(s)
       PROVE  TypeOK'
  BY <1>10 DEF GatewayAccept, GatewayReject, GatewayDrop
<1>11. CASE ServerCrash BY <1>11 DEF ServerCrash
<1>12. CASE HeartbeatSend BY <1>0, <1>12 DEF HeartbeatSend
<1>13. CASE Heartbeat
  <2>1. stale' \subseteq Sessions BY <1>13 DEF Heartbeat, Stale
  <2> QED BY <2>1, <1>13 DEF Heartbeat
<1>14. CASE HeartbeatAnswer BY <1>0, <1>14 DEF HeartbeatAnswer, EndRequest
<1>15. CASE HeartbeatLost BY <1>0, <1>15 DEF HeartbeatLost, EndRequest
<1>16. CASE Tick BY <1>0, <1>16, OlderType DEF Tick
<1> QED
  BY <1>1, <1>2, <1>3, <1>4, <1>5, <1>6, <1>7, <1>8, <1>9, <1>10, <1>11, <1>12,
     <1>13, <1>14, <1>15, <1>16
  DEF Next

\* Every step keeps the invariant: one step per action, for all its parts.
LEMMA InvStep == ASSUME IInv, [Next]_vars PROVE IInv'
<1>0. TypeOK' BY TypeStep DEF IInv
<1> USE ConfigFacts, CapAssumption
<1> USE DEF TypeOK, Fresh, Deadlines, Young, Over, Ages, Active, Terminal,
            rowVars, serverVars, gatewayVars, requestVars
<1>1. SUFFICES ASSUME TypeOK, Fresh, Deadlines, Young, Over, TypeOK'
               PROVE  Fresh' /\ Deadlines' /\ Young' /\ Over'
  BY <1>0 DEF IInv
<1>2. CASE UNCHANGED vars BY <1>1, <1>2 DEF vars
<1>3. ASSUME NEW s \in Sessions, InsertClaimedSession(s) PROVE Fresh' /\ Deadlines' /\ Young' /\ Over'
  BY <1>1, <1>3 DEF InsertClaimedSession
<1>4. ASSUME NEW s \in Sessions, Attach(s) PROVE Fresh' /\ Deadlines' /\ Young' /\ Over'
  BY <1>1, <1>4 DEF Attach
<1>5. ASSUME NEW s \in Sessions, DialDone(s) PROVE Fresh' /\ Deadlines' /\ Young' /\ Over'
  BY <1>1, <1>5 DEF DialDone
<1>6. ASSUME NEW s \in Sessions, DialFail(s) PROVE Fresh' /\ Deadlines' /\ Young' /\ Over'
  BY <1>1, <1>6 DEF DialFail, Finish
<1>7. ASSUME NEW s \in Sessions, RenewSessionHeartbeat(s) PROVE Fresh' /\ Deadlines' /\ Young' /\ Over'
  BY <1>1, <1>7 DEF RenewSessionHeartbeat
<1>8. ASSUME NEW s \in Sessions, RelayEnds(s) PROVE Fresh' /\ Deadlines' /\ Young' /\ Over'
  BY <1>1, <1>8 DEF RelayEnds, Finish
<1>9. ASSUME NEW s \in Sessions, TerminateSession(s) PROVE Fresh' /\ Deadlines' /\ Young' /\ Over'
  BY <1>1, <1>9 DEF TerminateSession
<1>10. ASSUME NEW s \in Sessions, ExpireDeadSession(s) PROVE Fresh' /\ Deadlines' /\ Young' /\ Over'
  BY <1>1, <1>10 DEF ExpireDeadSession, PastTTL
<1>11. ASSUME NEW s \in Sessions, GatewayAccept(s) PROVE Fresh' /\ Deadlines' /\ Young' /\ Over'
  BY <1>1, <1>11 DEF GatewayAccept
<1>12. ASSUME NEW s \in Sessions, GatewayReject(s) PROVE Fresh' /\ Deadlines' /\ Young' /\ Over'
  BY <1>1, <1>12 DEF GatewayReject
<1>13. ASSUME NEW s \in Sessions, GatewayDrop(s) PROVE Fresh' /\ Deadlines' /\ Young' /\ Over'
  BY <1>1, <1>13 DEF GatewayDrop
<1>14. CASE ServerCrash BY <1>1, <1>14 DEF ServerCrash
<1>15. CASE HeartbeatSend BY <1>1, <1>15 DEF HeartbeatSend
<1>16. CASE Heartbeat BY <1>1, <1>16 DEF Heartbeat, Unreported, Stale
<1>17. CASE HeartbeatAnswer BY <1>1, <1>17 DEF HeartbeatAnswer, EndRequest
<1>18. CASE HeartbeatLost BY <1>1, <1>18 DEF HeartbeatLost, EndRequest
<1>19. CASE Tick
  <2>1. Fresh' /\ Over' BY <1>1, <1>19 DEF Tick
  <2>2. Deadlines' BY <1>1, <1>19, OlderType DEF Tick
  <2>3. Young' BY <1>1, <1>19, OlderType DEF Tick
  <2> QED BY <2>1, <2>2, <2>3
<1> QED
  BY <1>2, <1>3, <1>4, <1>5, <1>6, <1>7, <1>8, <1>9, <1>10, <1>11, <1>12,
     <1>13, <1>14, <1>15, <1>16, <1>17, <1>18, <1>19
  DEF Next

\* The invariant holds throughout.
LEMMA Invariance == Spec => []IInv
BY InvInit, InvStep, PTL DEF Spec
\* The heartbeat's stale list names only sessions that are over, and those
\* claimed on another row with the worker's address.
THEOREM StaleListSafe == Spec => []StaleMeansOver
<1>1. IInv => StaleMeansOver
  BY DEF IInv, TypeOK, Fresh, Over, StaleMeansOver, Active, Terminal
<1> QED BY <1>1, Invariance, PTL

\* If the grace covers a dial and the report's time limit, no heartbeat fails
\* a session that its worker holds and its server relays.
THEOREM HeldNeverFailed == ReportTuned => (Spec => NoFalseFailure)
<1> DEFINE Held(s) == status[s] = "running" /\ relay[s] = "live" /\ s \in gateway
           Kept(s) == ~(status'[s] = "failed" /\ relay'[s] = "live")
<1>1. ASSUME ReportTuned, IInv, [Next]_vars, NEW s \in Sessions, Held(s) PROVE Kept(s)
  <2> USE <1>1 DEF IInv, TypeOK
  <2> USE DEF rowVars, serverVars, gatewayVars, requestVars
  <2>1. CASE UNCHANGED vars BY <2>1 DEF vars
  <2>2. CASE Heartbeat
    <3>1. ~Unreported(s)
      BY <2>2, ConfigFacts DEF Heartbeat, Unreported, Young, Deadlines, ReportTuned, Ages
    <3> QED BY <2>2, <3>1 DEF Heartbeat
  <2>3. ASSUME NEW u \in Sessions, DialFail(u) PROVE Kept(s)
    BY <2>3 DEF DialFail, Finish
  <2>4. ASSUME NEW u \in Sessions, RelayEnds(u) PROVE Kept(s)
    BY <2>4 DEF RelayEnds, Finish
  <2>5. ASSUME NEW u \in Sessions,
               \/ InsertClaimedSession(u) \/ Attach(u) \/ DialDone(u)
               \/ RenewSessionHeartbeat(u) \/ TerminateSession(u) \/ ExpireDeadSession(u)
               \/ GatewayAccept(u) \/ GatewayReject(u) \/ GatewayDrop(u)
        PROVE  Kept(s)
    BY <2>5 DEF InsertClaimedSession, Attach, DialDone, RenewSessionHeartbeat,
                TerminateSession, ExpireDeadSession, GatewayAccept, GatewayReject, GatewayDrop
  <2>6. CASE ServerCrash \/ HeartbeatSend \/ HeartbeatAnswer \/ HeartbeatLost \/ Tick
    BY <2>6 DEF ServerCrash, HeartbeatSend, HeartbeatAnswer, HeartbeatLost, Tick
  <2> QED BY <2>1, <2>2, <2>3, <2>4, <2>5, <2>6 DEF Next
<1>2. SUFFICES ASSUME ReportTuned PROVE Spec => NoFalseFailure
  OBVIOUS
<1>3. IInv /\ [Next]_vars =>
        [\A s \in Sessions :
           status[s] = "running" /\ relay[s] = "live" /\ s \in gateway =>
               ~(status'[s] = "failed" /\ relay'[s] = "live")]_vars
  BY <1>1, <1>2
<1> QED BY <1>3, Invariance, PTL DEF Spec, NoFalseFailure

\* With prompt renewals, last_heartbeat is never older than this.
Renewed ==
    \A s \in Sessions :
        /\ relay[s] = "dialing" => beat[s] <= started[s]
        /\ status[s] = "running" /\ relay[s] = "live" => beat[s] <= DialTimeout + timer[s]

\* Every step keeps that, unless a renewal may fail.
LEMMA RenewedStep ==
    ASSUME "renew" \notin Faults, IInv, Renewed, [Next]_vars
    PROVE  Renewed'
<1> USE ConfigFacts, CapAssumption
<1> USE DEF IInv, TypeOK, Fresh, Deadlines, Renewed, Ages, Active, Terminal,
            rowVars, serverVars, gatewayVars, requestVars
<1>1. CASE UNCHANGED vars BY <1>1 DEF vars
<1>2. ASSUME NEW s \in Sessions, InsertClaimedSession(s) \/ Attach(s) PROVE Renewed'
  BY <1>2 DEF InsertClaimedSession, Attach
<1>3. ASSUME NEW s \in Sessions, DialDone(s) \/ RenewSessionHeartbeat(s) PROVE Renewed'
  BY <1>3 DEF DialDone, RenewSessionHeartbeat
<1>4. ASSUME NEW s \in Sessions, DialFail(s) \/ RelayEnds(s) PROVE Renewed'
  BY <1>4 DEF DialFail, RelayEnds, Finish
<1>5. ASSUME NEW s \in Sessions,
             \/ TerminateSession(s) \/ ExpireDeadSession(s)
             \/ GatewayAccept(s) \/ GatewayReject(s) \/ GatewayDrop(s)
      PROVE  Renewed'
  BY <1>5 DEF TerminateSession, ExpireDeadSession, GatewayAccept, GatewayReject, GatewayDrop
<1>6. CASE ServerCrash BY <1>6 DEF ServerCrash
<1>7. CASE Heartbeat BY <1>7 DEF Heartbeat
<1>8. CASE HeartbeatSend \/ HeartbeatAnswer \/ HeartbeatLost
  BY <1>8 DEF HeartbeatSend, HeartbeatAnswer, HeartbeatLost
<1>9. CASE Tick
  <2>1. ASSUME NEW s \in Sessions, relay[s] = "dialing" PROVE Older(beat[s]) <= Older(started[s])
    BY <2>1, <1>9, OlderType DEF Tick, Older
  <2>2. ASSUME NEW s \in Sessions, status[s] = "running", relay[s] = "live"
        PROVE  Older(beat[s]) <= DialTimeout + Older(timer[s])
    BY <2>2, <1>9, OlderType DEF Tick, Older
  <2> QED BY <1>9, <2>1, <2>2 DEF Tick
<1> QED BY <1>1, <1>2, <1>3, <1>4, <1>5, <1>6, <1>7, <1>8, <1>9 DEF Next

\* If the session TTL covers a dial and a renewal interval, and renewals do
\* not fail, no sweep expires a session that is being dialled or relayed.
THEOREM InUseNeverExpired ==
    RenewTuned /\ "renew" \notin Faults => (Spec => NoFalseExpiry)
<1> DEFINE InUse(s) == status[s] = "running" /\ relay[s] \in {"dialing", "live"}
           Spared(s) == status'[s] # "expired"
<1>1. Init => Renewed BY DEF Init, Renewed
<1>2. ASSUME RenewTuned, IInv, Renewed, [Next]_vars, NEW s \in Sessions, InUse(s)
      PROVE  Spared(s)
  <2> USE <1>2 DEF IInv, TypeOK
  <2> USE DEF rowVars, serverVars, gatewayVars, requestVars
  <2>1. CASE UNCHANGED vars BY <2>1 DEF vars
  <2>2. ASSUME NEW u \in Sessions, ExpireDeadSession(u) PROVE Spared(s)
    <3>1. ~PastTTL(s)
      BY ConfigFacts DEF PastTTL, Renewed, Deadlines, RenewTuned, Ages
    <3> QED BY <2>2, <3>1 DEF ExpireDeadSession
  <2>3. ASSUME NEW u \in Sessions, DialFail(u) \/ RelayEnds(u) PROVE Spared(s)
    BY <2>3 DEF DialFail, RelayEnds, Finish
  <2>4. ASSUME NEW u \in Sessions,
               \/ InsertClaimedSession(u) \/ Attach(u) \/ DialDone(u)
               \/ RenewSessionHeartbeat(u) \/ TerminateSession(u)
               \/ GatewayAccept(u) \/ GatewayReject(u) \/ GatewayDrop(u)
        PROVE  Spared(s)
    BY <2>4 DEF InsertClaimedSession, Attach, DialDone, RenewSessionHeartbeat,
                TerminateSession, GatewayAccept, GatewayReject, GatewayDrop
  <2>5. CASE Heartbeat BY <2>5 DEF Heartbeat
  <2>6. CASE ServerCrash \/ HeartbeatSend \/ HeartbeatAnswer \/ HeartbeatLost \/ Tick
    BY <2>6 DEF ServerCrash, HeartbeatSend, HeartbeatAnswer, HeartbeatLost, Tick
  <2> QED BY <2>1, <2>2, <2>3, <2>4, <2>5, <2>6 DEF Next
<1>3. SUFFICES ASSUME RenewTuned, "renew" \notin Faults PROVE Spec => NoFalseExpiry
  OBVIOUS
<1>4. IInv /\ Renewed /\ [Next]_vars => Renewed'
  BY <1>3, RenewedStep
<1>5. IInv /\ Renewed /\ [Next]_vars =>
        [\A s \in Sessions :
           status[s] = "running" /\ relay[s] \in {"dialing", "live"} =>
               status'[s] # "expired"]_vars
  BY <1>2, <1>3
<1> QED BY <1>1, <1>4, <1>5, Invariance, PTL DEF Spec, NoFalseExpiry

-----------------------------------------------------------------------------
(* The session rows, as SessionLife promises them.                         *)

Life == INSTANCE SessionLife

\* Whatever the reports, timers, crashes and lost writes, a session is
\* started once and its first outcome stands.
THEOREM ReconcileImplementsSessionLife == Spec => Life!Spec
<1>1. Init => Life!Init
  BY DEF Init, Life!Init
<1>2. ASSUME TypeOK, [Next]_vars PROVE [Life!Next]_status
  <2> USE <1>2 DEF TypeOK
  <2>0. ASSUME NEW over \in SUBSET Sessions, NEW to \in Terminal,
               \A s \in over : status[s] \in Active,
               status' = [s \in Sessions |-> IF s \in over THEN to ELSE status[s]]
        PROVE  Life!Next
    BY <2>0 DEF Life!Next, Life!End, Life!Active, Life!Terminal, Active, Terminal
  <2>1. ASSUME NEW s \in Sessions, NEW to \in Terminal, status[s] \in Active,
               status' = [status EXCEPT ![s] = to]
        PROVE  Life!Next
    <3>1. status' = [x \in Sessions |-> IF x \in {s} THEN to ELSE status[x]]
      BY <2>1
    <3>q. QED
      BY <2>0, <2>1, <3>1
  <2>2. ASSUME NEW s \in Sessions, NEW from \in SUBSET Active, NEW to \in Terminal,
               Finish(s, from, to)
        PROVE  [Life!Next]_status
    BY <2>1, <2>2 DEF Finish
  <2>3. ASSUME NEW s \in Sessions, DialFail(s) \/ RelayEnds(s) PROVE [Life!Next]_status
    <3>1. Finish(s, Active, "failed") \/ Finish(s, {"running"}, "completed")
      BY <2>3 DEF DialFail, RelayEnds
    <3>2. {"running"} \in SUBSET Active /\ Active \in SUBSET Active
          /\ "failed" \in Terminal /\ "completed" \in Terminal
      BY DEF Active, Terminal
    <3>q. QED
      BY <2>2, <3>1, <3>2
  <2>4. ASSUME NEW s \in Sessions, InsertClaimedSession(s) \/ Attach(s)
        PROVE  Life!Next
    BY <2>4 DEF InsertClaimedSession, Attach, Life!Next, Life!Claim, Life!Start
  <2>5. ASSUME NEW s \in Sessions, TerminateSession(s) \/ ExpireDeadSession(s)
        PROVE  Life!Next
    <3>1. "completed" \in Terminal /\ "expired" \in Terminal /\ "pending" \in Active
      BY DEF Active, Terminal
    <3>q. QED
      BY <2>1, <2>5, <3>1 DEF TerminateSession, ExpireDeadSession, PastTTL
  <2>6. CASE Heartbeat
    <3> DEFINE over == {s \in Sessions : Unreported(s)}
    <3>1. status' = [s \in Sessions |-> IF s \in over THEN "failed" ELSE status[s]]
      BY <2>6 DEF Heartbeat
    <3>2. \A s \in over : status[s] \in Active
      BY DEF Unreported, Active
    <3>3. "failed" \in Terminal /\ over \in SUBSET Sessions
      BY DEF Terminal
    <3> HIDE DEF over
    <3>q. QED
      BY <2>0, <3>1, <3>2, <3>3
  <2>q. QED
    BY <2>3, <2>4, <2>5, <2>6
       DEF Next, vars, rowVars, DialDone, RenewSessionHeartbeat, GatewayAccept, GatewayReject,
           GatewayDrop, ServerCrash, HeartbeatSend, HeartbeatAnswer, HeartbeatLost, Tick
<1>3. IInv => TypeOK
  BY DEF IInv
<1>q. QED
  BY <1>1, <1>2, <1>3, Invariance, PTL DEF Spec, Life!Spec
=============================================================================
