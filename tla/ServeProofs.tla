----------------------------- MODULE ServeProofs ----------------------------
(***************************************************************************)
(* The shutdown of a server process, for every number of attachments and   *)
(* sessions and every setting of the timeouts.                             *)
(***************************************************************************)
EXTENDS Serve, RelayProofs

ServeTyped ==
    /\ main \in {"starting", "serving", "stopping", "returned", "exited"}
    /\ result \in {"none", "ok", "error"}
    /\ signalled \in BOOLEAN
    /\ http \in {"off", "serving", "draining", "closed", "expired"}
    /\ hijacked \subseteq Attachments
    /\ clock \in 0..shutdownTimeout
    /\ left \in [Attachments -> 0..shutdownTimeout]
    /\ hung \in BOOLEAN

\* A registered relay is in the registry under its session.
InRegistry == \A a \in Attachments : pc[a] \in Registered => live[sess[a]] = a

\* Shutdown reaches every relay that runs when the grace is over.
ToldToStop ==
    \A a \in Attachments :
        pc[a] = "running" =>
            /\ shutdown = "stopping" => a \in stops \/ event[a] # "none"
            /\ shutdown = "final" => event[a] # "none"

\* An upgraded connection is past its reservation.
Upgraded == \A a \in hijacked : pc[a] \notin {"idle", "loading", "loaded"}

\* The HTTP server's Shutdown has left no handler but the upgraded ones.
HttpClosed == http = "closed" => InHandler = {}

\* Success is what both have reported.
OkMeans ==
    result = "ok" =>
        main \in {"returned", "exited"} /\ http = "closed" /\ shutdown = "clean"

\* The clock against the phases of the shutdown.
Phases ==
    /\ shutdown = "no" => clock = 0
    /\ shutdown \in {"grace", "stopping"} => clock <= Grace
    /\ main = "stopping" => http \notin {"off", "serving"}
    /\ \A a \in Attachments : pc[a] = "running" => clock <= Grace
    /\ \A a \in Attachments : pc[a] = "loaded" => left[a] = 0

\* The time a handler may need once its present step is over.
After(at) ==
    CASE at = "reserved" -> IF Query > DialTimeout + ShutdownCleanupBudget THEN Query
                            ELSE DialTimeout + ShutdownCleanupBudget
      [] at \in {"started", "dialed", "upgraded"} -> ShutdownCleanupBudget
      [] at = "closing" -> TerminalQuery
      [] OTHER -> 0

\* The steps that take time or end at once.
Timed == (Outstanding \cup {"loading"}) \ {"running"}

\* Unless a query hangs, everybody is done before the deadline.
InTime ==
    ~hung =>
        /\ clock < shutdownTimeout
        /\ \A a \in Attachments :
             pc[a] \in Timed =>
                 clock + left[a] + After(pc[a]) < shutdownTimeout

SInv ==
    /\ IInv /\ ServeTyped /\ InRegistry /\ ToldToStop
    /\ Upgraded /\ HttpClosed /\ OkMeans
    /\ Phases /\ InTime /\ BudgetSuffices

-----------------------------------------------------------------------------
(* The relays inside the process.                                          *)

\* Every step of the process is a step of the relays or leaves them alone.
LEMMA StepRefines == [ServeNext]_allVars => [Next]_vars
<1> USE DEF vars
<1>1. MainNext => UNCHANGED vars
  BY DEF MainNext, Start, Signal, ServeFails, BeginShutdown, HttpShutdownReturns, ServeReturns,
         Exit, MainRuns, MainStep
<1>2. ManagerShutdown => Next
  BY DEF ManagerShutdown, Next
<1>3. OutsideNext => Next
  BY DEF OutsideNext, Next
<1>4. \A a \in Attachments : RequestNext(a) \/ HandlerNext(a) \/ Renewal(a) => Next
  BY DEF RequestNext, HandlerNext, Renewal, Next
<1>5. Tick => UNCHANGED vars
  BY DEF Tick
<1> QED BY <1>1, <1>2, <1>3, <1>4, <1>5 DEF ServeNext, allVars

\* The process implements the specification of its relays, so what holds of
\* these under Spec holds under ServeSpec.
THEOREM ServeImplementsRelay == ServeSpec => Spec
<1>1. ServeInit => Init
  BY DEF ServeInit
<1> QED BY <1>1, StepRefines, PTL DEF ServeSpec, Spec
-----------------------------------------------------------------------------
(* The steps of a handler.                                                 *)

\* Where a handler may go from where it stands.
Move(from, to) ==
    \/ to = from
    \/ from = "idle" /\ to = "loading"
    \/ from = "loading" /\ to \in {"loaded", "done"}
    \/ from = "loaded" /\ to \in {"reserved", "done"}
    \/ from = "reserved" /\ to \in {"started", "failing", "rejected"}
    \/ from = "started" /\ to \in {"dialed", "failing"}
    \/ from = "dialed" /\ to \in {"upgraded", "failing"}
    \/ from = "upgraded" /\ to \in {"running", "completing", "releasing"}
    \/ from = "running" /\ to = "closing"
    \/ from = "closing" /\ to = "recording"
    \/ from = "recording" /\ to = "unregistering"
    \/ from \in {"rejected", "failing", "completing"} /\ to = "releasing"
    \/ from \in {"releasing", "unregistering"} /\ to = "done"

\* Nobody gets in, is reserved or registered once the manager drains.
Entries(a) ==
    pc'[a] # pc[a] /\ pc'[a] \in {"loading", "reserved", "running"} => shutdown = "no"

\* Every step of the relays moves the handlers this way.
LEMMA Moves ==
    ASSUME TypedButCount, [Next]_vars
    PROVE  \A a \in Attachments : Move(pc[a], pc'[a]) /\ Entries(a)
<1> USE DEF TypedButCount, Goto, Move, Entries
<1>1. CASE UNCHANGED vars
  BY <1>1 DEF vars, handlerVars
<1>2. ASSUME NEW b \in Attachments, preflight(b)
      PROVE  \A a \in Attachments : Move(pc[a], pc'[a]) /\ Entries(a)
  BY <1>2 DEF preflight, draining
<1>3. ASSUME NEW b \in Attachments, HandlerStep(b)
      PROVE  \A a \in Attachments : Move(pc[a], pc'[a]) /\ Entries(a)
  <2>1. CASE Load(b) \/ BeginAttach(b)
    BY <2>1 DEF Load, BeginAttach, draining
  <2>2. CASE StartSession(b) \/ writeRejectedStart(b) \/ dialWorker(b) \/ Upgrade(b)
    BY <2>2 DEF StartSession, writeRejectedStart, dialWorker, Upgrade
  <2>3. CASE register(b)
    BY <2>3 DEF register, draining
  <2>4. CASE failSession(b) \/ Release(b) \/ CompleteDraining(b)
    BY <2>4 DEF failSession, Release, CompleteDraining
  <2>5. CASE Receive(b) \/ Joined(b) \/ recordOutcome(b) \/ unregister(b)
    BY <2>5 DEF Receive, Joined, recordOutcome, unregister
  <2>6. CASE Closed(b)
    BY <2>6 DEF Closed, GoroutineEnds
  <2> QED BY <1>3, <2>1, <2>2, <2>3, <2>4, <2>5, <2>6 DEF HandlerStep
<1>4. CASE pc' = pc
  BY <1>4
<1>5. (\E b \in Attachments : PeerGone(b) \/ renewHeartbeat(b) \/ StopRelay(b)) => pc' = pc
  BY DEF PeerGone, renewHeartbeat, StopRelay, GoroutineEnds
<1>6. ShutdownBegin \/ GraceOver \/ Stopped \/ ShutdownClean \/ ShutdownExpired => pc' = pc
  BY DEF ShutdownBegin, GraceOver, Stopped, ShutdownClean, ShutdownExpired, handlerVars
<1>7. (\E s \in Sessions : EndElsewhere(s)) => pc' = pc
  BY DEF EndElsewhere, handlerVars
<1> HIDE DEF TypedButCount, Goto, Move, Entries
<1> QED BY <1>1, <1>2, <1>3, <1>4, <1>5, <1>6, <1>7 DEF Next

\* A registered relay stays in the registry until it unregisters.
LEMMA RegistryKept ==
    ASSUME IInv, InRegistry, [Next]_vars
    PROVE  InRegistry'
<1> USE DEF IInv, TypedButCount, InRegistry, Registered
<1>1. CASE live' = live /\ sess' = sess /\ \A a \in Attachments : pc'[a] \in Registered => pc[a] \in Registered
  BY <1>1
<1>2. ASSUME NEW b \in Attachments, preflight(b) \/ Load(b) PROVE InRegistry'
  BY <1>2 DEF preflight, Load, Goto, managerVars
<1>3. ASSUME NEW b \in Attachments, register(b) PROVE InRegistry'
  <2>1. sess[b] \in Sessions /\ live[sess[b]] = NoOne
    BY <1>3, NotRegisteredTwice DEF register, Owned, Bound
  <2> SUFFICES ASSUME NEW a \in Attachments, pc'[a] \in Registered PROVE live'[sess'[a]] = a
    OBVIOUS
  <2>2. CASE pc' = [pc EXCEPT ![b] = "running"] /\ live' = [live EXCEPT ![sess[b]] = b]
    <3>1. a # b => pc[a] \in Registered
      BY <2>2
    <3>2. a # b => sess[a] # sess[b]
      BY <3>1, <2>1, NoOneAssumption
    <3> QED BY <1>3, <2>1, <2>2, <3>1, <3>2 DEF register
  <2>3. CASE live' = live /\ pc'[b] \notin Registered
    BY <1>3, <2>3 DEF register, Goto
  <2> QED BY <1>3, <2>2, <2>3 DEF register, Goto
<1>4. ASSUME NEW b \in Attachments, unregister(b) PROVE InRegistry'
  BY <1>4 DEF unregister, Goto, Owned, Bound
<1>5. ASSUME NEW b \in Attachments, HandlerStep(b), ~Load(b), ~register(b), ~unregister(b) PROVE InRegistry'
  <2>1. live' = live /\ sess' = sess
    BY <1>5 DEF HandlerStep, Load, BeginAttach, StartSession, writeRejectedStart, dialWorker, Upgrade, failSession, Release,
         CompleteDraining, Receive, Closed, Joined, recordOutcome, GoroutineEnds, managerVars
  <2>2. \A a \in Attachments : pc'[a] \in Registered => pc[a] \in Registered
    BY <1>5 DEF HandlerStep, Load, BeginAttach, StartSession, writeRejectedStart, dialWorker, Upgrade, failSession, Release,
         CompleteDraining, Receive, Closed, Joined, recordOutcome, GoroutineEnds, Goto
  <2> QED BY <2>1, <2>2, <1>1
<1>6. (\E b \in Attachments : PeerGone(b) \/ renewHeartbeat(b) \/ StopRelay(b))
         => live' = live /\ sess' = sess /\ pc' = pc
  BY DEF PeerGone, renewHeartbeat, StopRelay, GoroutineEnds, managerVars
<1>7. ShutdownBegin \/ GraceOver \/ Stopped \/ ShutdownClean \/ ShutdownExpired
         => live' = live /\ sess' = sess /\ pc' = pc
  BY DEF ShutdownBegin, GraceOver, Stopped, ShutdownClean, ShutdownExpired, handlerVars
<1>8. (\E s \in Sessions : EndElsewhere(s)) => live' = live /\ sess' = sess /\ pc' = pc
  BY DEF EndElsewhere, handlerVars, managerVars
<1>9. UNCHANGED vars => live' = live /\ sess' = sess /\ pc' = pc
  BY DEF vars, handlerVars, managerVars
<1> QED BY <1>1, <1>2, <1>3, <1>4, <1>5, <1>6, <1>7, <1>8, <1>9 DEF Next

\* Shutdown collects every running relay, and each keeps its first event.
LEMMA StopsReach ==
    ASSUME IInv, InRegistry, ToldToStop, [Next]_vars
    PROVE  ToldToStop'
<1> USE DEF IInv, TypedButCount
<1>1. \A a \in Attachments : event[a] # "none" => event'[a] # "none"
  BY DEF Next, vars, handlerVars, preflight, HandlerStep, Load, BeginAttach, StartSession, writeRejectedStart, dialWorker, Upgrade,
         failSession, Release, register, CompleteDraining, Receive, Closed, Joined, recordOutcome,
         unregister, GoroutineEnds, Send, PeerGone, renewHeartbeat, StopRelay, ShutdownBegin, GraceOver,
         Stopped, ShutdownClean, ShutdownExpired, EndElsewhere
<1>2. \A a \in Attachments : pc'[a] = "running" => pc[a] = "running" \/ shutdown = "no"
  BY Moves DEF Move, Entries
<1>3. CASE shutdown' = shutdown /\ stops' = stops
  BY <1>1, <1>2, <1>3 DEF ToldToStop
<1>4. ASSUME NEW b \in Attachments, StopRelay(b) PROVE ToldToStop'
  BY <1>4 DEF StopRelay, Send, ToldToStop
<1>5. CASE GraceOver
  <2> SUFFICES ASSUME NEW a \in Attachments, pc[a] = "running" PROVE a \in stops'
    BY <1>5 DEF GraceOver, ToldToStop, handlerVars
  <2>1. sess[a] \in Sessions /\ live[sess[a]] = a
    BY DEF InRegistry, Registered, Owned, Bound
  <2> QED BY <1>5, <2>1, NoOneAssumption DEF GraceOver
<1>6. CASE Stopped
  BY <1>6 DEF Stopped, ToldToStop, handlerVars
<1>7. CASE ShutdownBegin \/ ShutdownClean \/ ShutdownExpired
  BY <1>7 DEF ShutdownBegin, ShutdownClean, ShutdownExpired, ToldToStop
<1>8. (\E b \in Attachments : \/ preflight(b)
                             \/ HandlerStep(b) \/ PeerGone(b) \/ renewHeartbeat(b))
         => shutdown' = shutdown /\ stops' = stops
  BY DEF preflight, HandlerStep, Load, BeginAttach, StartSession, writeRejectedStart, dialWorker, Upgrade, failSession, Release,
         register, CompleteDraining, Receive, Closed, Joined, recordOutcome, unregister,
         GoroutineEnds, PeerGone, renewHeartbeat, managerVars
<1>9. UNCHANGED vars \/ (\E s \in Sessions : EndElsewhere(s)) => shutdown' = shutdown /\ stops' = stops
  BY DEF vars, managerVars, EndElsewhere
<1> QED BY <1>3, <1>4, <1>5, <1>6, <1>7, <1>8, <1>9 DEF Next
-----------------------------------------------------------------------------
(* The process.                                                            *)

\* Every step of a handler fits into the deadline.
LEMMA StepTimes ==
    /\ shutdownTimeout \in Nat
    /\ \A at : StepTime(at) \in 0..shutdownTimeout
BY TimesAssumption DEF StepTime, Queries, ShutdownCleanupBudget, shutdownTimeout

\* The phases of the manager's Shutdown follow each other.
LEMMA PhaseOrder ==
    ASSUME [Next]_vars
    PROVE  \/ shutdown' = shutdown
           \/ shutdown = "no" /\ shutdown' = "grace"
           \/ shutdown = "grace" /\ shutdown' = "stopping"
           \/ shutdown = "stopping" /\ shutdown' = "final"
           \/ shutdown \in {"grace", "final"} /\ shutdown' \in {"clean", "expired"}
BY DEF Next, vars, managerVars, preflight, HandlerStep, Load, BeginAttach, StartSession, writeRejectedStart, dialWorker, Upgrade,
       failSession, Release, register, CompleteDraining, Receive, Closed, Joined, recordOutcome,
       unregister, GoroutineEnds, PeerGone, renewHeartbeat, StopRelay, ShutdownBegin, GraceOver,
       Stopped, ShutdownClean, ShutdownExpired, EndElsewhere

\* A step of the relays: requests get in only while the server has
\* connections, and Shutdown expires only at the deadline.
LEMMA RelaySteps ==
    ASSUME SInv, Next, RelayStep,
           (\E a \in Attachments : pc[a] = "idle" /\ pc'[a] # "idle") => http \in {"serving", "draining"},
           shutdown' = "expired" => shutdown = "expired" \/ clock = shutdownTimeout
    PROVE  SInv'
<1>0. /\ IInv' /\ InRegistry' /\ ToldToStop'
      /\ \A a \in Attachments : Move(pc[a], pc'[a]) /\ Entries(a)
  BY NextInv, RegistryKept, StopsReach, Moves DEF SInv, IInv
<1>t. TypedButCount /\ TypedButCount'
  BY <1>0 DEF SInv, IInv
<1> USE DEF RelayStep, serveVars
<1>1. ServeTyped'
  <2>1. PICK hang \in SUBSET Attachments :
            left' = [a \in Attachments |-> IF a \in hang THEN shutdownTimeout
                                           ELSE IF pc'[a] = pc[a] THEN left[a] ELSE StepTime(pc'[a])]
    OBVIOUS
  <2>2. left' \in [Attachments -> 0..shutdownTimeout]
    BY <2>1, StepTimes DEF SInv, ServeTyped
  <2> QED BY <2>2 DEF SInv, ServeTyped
<1>2. Upgraded'
  BY <1>0, <1>t DEF SInv, ServeTyped, Upgraded, Move
<1>3. HttpClosed'
  BY <1>0, <1>t DEF SInv, ServeTyped, HttpClosed, InHandler, Move
<1>4. OkMeans'
  BY PhaseOrder DEF SInv, OkMeans
<1>5. Phases'
  <2>1. (shutdown = "no" => clock = 0)' /\ (shutdown \in {"grace", "stopping"} => clock <= Grace)'
    BY PhaseOrder, TimesAssumption DEF SInv, Phases
  <2>2. \A a \in Attachments : pc'[a] = "running" => clock' <= Grace
    BY <1>0, TimesAssumption DEF SInv, Phases, Move, Entries
  <2>3. \A a \in Attachments : pc'[a] = "loaded" => left'[a] = 0
    <3> SUFFICES ASSUME NEW a \in Attachments, pc'[a] = "loaded" PROVE left'[a] = 0
      OBVIOUS
    <3>1. left'[a] = IF pc'[a] = pc[a] THEN left[a] ELSE StepTime(pc'[a])
      BY DEF Queries
    <3> QED BY <3>1 DEF SInv, Phases, StepTime, Queries
  <2> QED BY <2>1, <2>2, <2>3 DEF SInv, Phases
<1>6. InTime'
  <2> SUFFICES ASSUME ~hung'
               PROVE  /\ clock < shutdownTimeout
                      /\ \A a \in Attachments : pc'[a] \in Timed =>
                             clock + left'[a] + After(pc'[a]) < shutdownTimeout
    BY DEF InTime
  <2>1. ~hung /\ left' = [a \in Attachments |-> IF pc'[a] = pc[a] THEN left[a] ELSE StepTime(pc'[a])]
    OBVIOUS
  <2>2. clock < shutdownTimeout
    BY <2>1 DEF SInv, InTime
  <2> SUFFICES ASSUME NEW a \in Attachments, pc'[a] \in Timed
               PROVE  clock + left'[a] + After(pc'[a]) < shutdownTimeout
    BY <2>2
  <2>3. left[a] \in Nat /\ clock \in Nat
    BY StepTimes DEF SInv, ServeTyped
  <2>4. CASE pc'[a] = pc[a]
    BY <2>1, <2>4 DEF SInv, InTime
  <2>5. CASE pc'[a] # pc[a] /\ pc[a] \in {"idle", "loaded"}
    <3>1. pc'[a] \in {"loading", "reserved"} /\ clock = 0
      BY <1>0, <2>5 DEF Move, Entries, Timed, Outstanding, SInv, Phases
    <3> QED BY <3>1, <2>1, <2>5, TimesAssumption
            DEF StepTime, Queries, After, shutdownTimeout, ShutdownCleanupBudget
  <2>6. CASE pc'[a] # pc[a] /\ pc[a] = "running"
    <3>1. pc'[a] = "closing" /\ clock <= Grace
      BY <1>0, <2>6 DEF Move, SInv, Phases
    <3> QED BY <3>1, <2>1, <2>3, <2>6, TimesAssumption
            DEF StepTime, Queries, After, shutdownTimeout, ShutdownCleanupBudget
  <2>7. CASE pc'[a] # pc[a] /\ pc[a] \notin {"idle", "loaded", "running"}
    <3>1. pc[a] \in Timed
      BY <1>0, <2>7 DEF Move, Timed, Outstanding
    <3>2. clock + left[a] + After(pc[a]) < shutdownTimeout
      BY <2>1, <3>1 DEF SInv, InTime
    <3>3. left'[a] = StepTime(pc'[a])
      BY <2>1, <2>7
    <3>4. StepTime(pc'[a]) + After(pc'[a]) <= After(pc[a])
      BY <1>0, <2>7, <3>1, TimesAssumption
         DEF Move, StepTime, Queries, After, ShutdownCleanupBudget, Timed, Outstanding
    <3>5. StepTime(pc'[a]) \in Nat /\ After(pc'[a]) \in Nat /\ After(pc[a]) \in Nat
      BY TimesAssumption DEF StepTime, Queries, After, ShutdownCleanupBudget
    <3> QED BY <2>3, <3>2, <3>3, <3>4, <3>5, StepTimes
  <2> QED BY <2>4, <2>5, <2>6, <2>7
<1>7. BudgetSuffices'
  <2>1. ~hung' => ~hung
    OBVIOUS
  <2>2. ~hung => http # "expired" /\ shutdown # "expired" /\ clock # shutdownTimeout
    BY StepTimes DEF SInv, InTime, BudgetSuffices
  <2> QED BY <2>1, <2>2 DEF BudgetSuffices
<1> QED BY <1>0, <1>1, <1>2, <1>3, <1>4, <1>5, <1>6, <1>7 DEF SInv

\* What the relays and the clock are made of stays as it is.
LEMMA RelaysKept ==
    ASSUME SInv, UNCHANGED <<vars, hijacked, timeVars>>
    PROVE  IInv' /\ InRegistry' /\ ToldToStop' /\ Upgraded' /\ InTime' /\ UNCHANGED InHandler
<1>1. IInv'
  BY NextInv DEF SInv
<1>2. InRegistry' /\ ToldToStop' /\ Upgraded'
  BY DEF SInv, InRegistry, ToldToStop, Upgraded, vars, handlerVars, managerVars
<1>3. InTime'
  BY DEF SInv, InTime, timeVars, vars, handlerVars
<1>4. UNCHANGED InHandler
  BY DEF InHandler, vars, handlerVars
<1> QED BY <1>1, <1>2, <1>3, <1>4

\* The steps of main.
LEMMA MainSteps ==
    ASSUME SInv, MainNext
    PROVE  SInv'
<1>0. UNCHANGED <<vars, hijacked, timeVars>>
  BY DEF MainNext, Start, Signal, ServeFails, BeginShutdown, HttpShutdownReturns, ServeReturns,
         Exit, MainRuns, MainStep
<1>1. IInv' /\ InRegistry' /\ ToldToStop' /\ Upgraded' /\ InTime' /\ UNCHANGED InHandler
  BY <1>0, RelaysKept
<1>2. UNCHANGED <<pc, shutdown, hijacked, clock, left, hung>>
  BY <1>0 DEF vars, handlerVars, managerVars, timeVars
<1> USE DEF MainNext, Start, Signal, ServeFails, BeginShutdown, HttpShutdownReturns, ServeReturns,
           Exit, MainRuns
<1>3. ServeTyped'
  BY <1>2 DEF SInv, ServeTyped
<1>4. HttpClosed'
  BY <1>1 DEF SInv, HttpClosed
<1>5. OkMeans'
  BY <1>2 DEF SInv, OkMeans
<1>6. Phases'
  BY <1>2 DEF SInv, Phases
<1>7. BudgetSuffices'
  <2>1. ~hung => clock # shutdownTimeout
    BY StepTimes DEF SInv, InTime
  <2> QED BY <1>2, <2>1 DEF SInv, BudgetSuffices
<1> QED BY <1>1, <1>3, <1>4, <1>5, <1>6, <1>7 DEF SInv

\* Time passes only while somebody who is in time still has time left.
LEMMA TickStep ==
    ASSUME SInv, Tick
    PROVE  SInv'
<1>0. /\ clock \in Nat /\ clock' = clock + 1 /\ clock' \in 0..shutdownTimeout
      /\ left \in [Attachments -> 0..shutdownTimeout]
      /\ \A a \in Attachments : left'[a] = IF pc[a] \in Untimed THEN left[a] ELSE left[a] - 1
      /\ UNCHANGED <<pc, shutdown, hijacked, hung, main, result, signalled, http>>
  BY StepTimes DEF SInv, ServeTyped, Tick, vars, handlerVars, managerVars, serveVars
<1>1. IInv' /\ InRegistry' /\ ToldToStop' /\ Upgraded'
  <2>1. UNCHANGED vars /\ UNCHANGED hijacked
    BY DEF Tick
  <2>2. IInv'
    BY <2>1, NextInv DEF SInv
  <2> QED BY <2>1, <2>2 DEF SInv, InRegistry, ToldToStop, Upgraded, vars, handlerVars, managerVars
<1>2. ServeTyped'
  <2>1. left' \in [Attachments -> 0..shutdownTimeout]
    BY <1>0, StepTimes DEF Tick
  <2> QED BY <1>0, <2>1 DEF SInv, ServeTyped
<1>3. HttpClosed' /\ OkMeans' /\ BudgetSuffices'
  BY <1>0 DEF SInv, HttpClosed, OkMeans, BudgetSuffices, InHandler
<1>4. \A a \in Attachments : pc[a] = "running" => shutdown = "grace"
  <2> SUFFICES ASSUME NEW a \in Attachments, pc[a] = "running" PROVE shutdown = "grace"
    OBVIOUS
  <2>1. shutdown # "final"
    BY DEF Tick, SInv, ToldToStop
  <2>2. shutdown # "clean"
    BY CleanNone DEF SInv, IInv, Outstanding
  <2> QED BY <2>1, <2>2 DEF Tick
<1>5. Phases'
  BY <1>0, <1>4, TimesAssumption DEF SInv, Phases, Tick, Untimed
<1>6. InTime'
  <2> SUFFICES ASSUME ~hung
               PROVE  /\ clock + 1 < shutdownTimeout
                      /\ \A a \in Attachments : pc[a] \in Timed =>
                             clock + 1 + left'[a] + After(pc[a]) < shutdownTimeout
    BY <1>0 DEF InTime
  <2>1. \A a \in Attachments : pc[a] \in Timed =>
            /\ left[a] \in Nat /\ left[a] > 0 /\ left'[a] = left[a] - 1
            /\ After(pc[a]) \in Nat
            /\ clock + left[a] + After(pc[a]) < shutdownTimeout
    <3> SUFFICES ASSUME NEW a \in Attachments, pc[a] \in Timed
                 PROVE  /\ left[a] \in Nat /\ left[a] > 0 /\ left'[a] = left[a] - 1
                        /\ After(pc[a]) \in Nat
                        /\ clock + left[a] + After(pc[a]) < shutdownTimeout
      OBVIOUS
    <3>1. pc[a] \notin Untimed
      BY DEF Untimed, Timed, Outstanding
    <3>2. After(pc[a]) \in Nat
      BY TimesAssumption DEF After, ShutdownCleanupBudget
    <3>3. left[a] > 0 /\ clock + left[a] + After(pc[a]) < shutdownTimeout
      BY <3>1 DEF Tick, SInv, InTime
    <3> QED BY <1>0, <3>1, <3>2, <3>3, StepTimes
  <2>2. clock + 1 < shutdownTimeout
    <3>1. CASE shutdown = "grace"
      BY <1>0, <3>1, TimesAssumption DEF Tick, shutdownTimeout, ShutdownCleanupBudget
    <3>2. CASE shutdown = "final"
      <4>1. CountedIn(pc) # {}
        BY <3>2, FS_EmptySet DEF Tick, SInv, IInv, WaitGroupExact, CountedIn
      <4>2. PICK a \in Attachments : pc[a] \in Outstanding
        BY <4>1 DEF CountedIn
      <4>3. pc[a] # "running"
        BY <1>4, <3>2
      <4>4. pc[a] \in Timed
        BY <4>2, <4>3 DEF Timed
      <4> QED BY <4>4, <2>1, <1>0, StepTimes
    <3>3. CASE shutdown = "clean"
      <4>1. http = "draining"
        BY <3>3 DEF Tick, SInv, Phases, ServeTyped, BudgetSuffices
      <4>2. PICK a \in Attachments : pc[a] \notin {"idle", "done"}
        BY <4>1 DEF Tick, InHandler
      <4>3. pc[a] \notin Outstanding
        BY <3>3, CleanNone DEF SInv, IInv
      <4>4. CASE pc[a] = "loaded"
        BY <4>4 DEF Tick, Untimed, SInv, Phases
      <4>5. CASE pc[a] = "loading"
        <5>1. pc[a] \in Timed
          BY <4>5 DEF Timed
        <5> QED BY <5>1, <2>1, <1>0, StepTimes
      <4> QED BY <4>2, <4>3, <4>4, <4>5 DEF SInv, IInv, TypedButCount, Places
    <3> QED BY <3>1, <3>2, <3>3 DEF Tick
  <2> QED BY <2>1, <2>2, <1>0, StepTimes
<1> QED BY <1>1, <1>2, <1>3, <1>5, <1>6 DEF SInv

\* A process starts in the invariant.
LEMMA ServeStarts == ServeInit => SInv
<1> SUFFICES ASSUME ServeInit PROVE SInv
  OBVIOUS
<1>1. IInv
  BY InitInv DEF ServeInit
<1>2. \A a \in Attachments : pc[a] = "idle"
  BY DEF ServeInit, Init
<1>3. ServeTyped
  <2>1. 0 \in 0..shutdownTimeout
    BY StepTimes
  <2> QED BY <2>1 DEF ServeInit, ServeTyped
<1>4. InRegistry /\ ToldToStop /\ Upgraded /\ HttpClosed /\ OkMeans /\ Phases /\ BudgetSuffices
  BY <1>2 DEF ServeInit, Init, InRegistry, Registered, ToldToStop, Upgraded, HttpClosed, OkMeans, Phases,
              BudgetSuffices
<1>5. InTime
  BY <1>2, TimesAssumption DEF ServeInit, InTime, Timed, Outstanding, shutdownTimeout, ShutdownCleanupBudget
<1> QED BY <1>1, <1>3, <1>4, <1>5 DEF SInv

\* Every step of the process keeps it.
LEMMA ServeStep == SInv /\ [ServeNext]_allVars => SInv'
<1> SUFFICES ASSUME SInv, [ServeNext]_allVars PROVE SInv'
  OBVIOUS
<1>t. TypedButCount
  BY DEF SInv, IInv
<1>1. CASE UNCHANGED allVars
  BY <1>1, RelaysKept DEF SInv, allVars, serveVars, timeVars, ServeTyped, HttpClosed, OkMeans, Phases,
       BudgetSuffices, vars, handlerVars, managerVars
<1>2. CASE MainNext
  BY <1>2, MainSteps
<1>3. CASE ManagerShutdown
  <2>1. Next
    BY <1>3 DEF ManagerShutdown, Next
  <2>2. RelayStep /\ pc' = pc
    BY <1>3 DEF ManagerShutdown, ShutdownBegin, GraceOver, Stopped, ShutdownClean, ShutdownExpired,
                StopRelay, handlerVars
  <2>3. shutdown' = "expired" => shutdown = "expired" \/ clock = shutdownTimeout
    BY <1>3 DEF ManagerShutdown, ShutdownBegin, GraceOver, Stopped, ShutdownClean, StopRelay
  <2> QED BY <2>1, <2>2, <2>3, RelaySteps
<1>4. CASE OutsideNext
  <2>1. Next /\ RelayStep
    BY <1>4 DEF OutsideNext, Next
  <2>2. pc' = pc /\ shutdown' = shutdown
    BY <1>4 DEF OutsideNext, PeerGone, GoroutineEnds, EndElsewhere, handlerVars, managerVars
  <2> QED BY <2>1, <2>2, RelaySteps
<1>5. ASSUME NEW b \in Attachments, RequestNext(b) PROVE SInv'
  <2>1. Next /\ RelayStep /\ http \in {"serving", "draining"}
    BY <1>5 DEF RequestNext, Next
  <2>2. shutdown' = shutdown
    BY <1>5 DEF RequestNext, preflight, managerVars
  <2> QED BY <2>1, <2>2, RelaySteps
<1>6. ASSUME NEW b \in Attachments, HandlerNext(b) PROVE SInv'
  <2>1. Next /\ RelayStep
    BY <1>6 DEF HandlerNext, Next
  <2>2. shutdown' = shutdown
    BY <1>6 DEF HandlerNext, HandlerStep, Load, BeginAttach, StartSession, writeRejectedStart, dialWorker, Upgrade, failSession,
         Release, register, CompleteDraining, Receive, Closed, Joined, recordOutcome, unregister,
         GoroutineEnds, managerVars
  <2>3. \A a \in Attachments : pc[a] = "idle" => pc'[a] = "idle"
    BY <1>6, <1>t DEF HandlerNext, HandlerStep, Load, BeginAttach, StartSession, writeRejectedStart, dialWorker, Upgrade, failSession,
         Release, register, CompleteDraining, Receive, Closed, Joined, recordOutcome, unregister,
         GoroutineEnds, Goto, TypedButCount
  <2> QED BY <2>1, <2>2, <2>3, RelaySteps
<1>7. ASSUME NEW b \in Attachments, Renewal(b) PROVE SInv'
  <2>1. Next /\ RelayStep
    BY <1>7 DEF Renewal, Next
  <2>2. pc' = pc /\ shutdown' = shutdown
    BY <1>7 DEF Renewal, renewHeartbeat, GoroutineEnds, managerVars
  <2> QED BY <2>1, <2>2, RelaySteps
<1>8. CASE Tick
  BY <1>8, TickStep
<1> QED BY <1>1, <1>2, <1>3, <1>4, <1>5, <1>6, <1>7, <1>8 DEF ServeNext

\* The inductive invariant of the process.
THEOREM ServeInvariance == ServeSpec => []SInv
BY ServeStarts, ServeStep, PTL DEF ServeSpec

\* A process that exits with success has ended every handler and settled
\* every session it started, although neither of the two Shutdowns that run
\* side by side waits for all of them.
THEOREM CleanExitHolds == ServeSpec => []CleanExit
<1>1. SInv => CleanExit
  <2> SUFFICES ASSUME SInv, result = "ok"
               PROVE  /\ \A a \in Attachments : pc[a] \in {"idle", "done"}
                      /\ \A s \in Sessions : starter[s] # NoOne => session[s] \in Terminal \/ s \in lost
    BY DEF CleanExit
  <2>1. http = "closed" /\ shutdown = "clean"
    BY DEF SInv, OkMeans
  <2>2. \A a \in Attachments : pc[a] \notin Outstanding
    BY <2>1, CleanNone DEF SInv, IInv
  <2>3. \A a \in Attachments : pc[a] \in {"idle", "loading", "loaded", "done"}
    BY <2>2 DEF SInv, IInv, TypedButCount, Places
  <2>4. \A a \in Attachments : pc[a] \notin {"loading", "loaded"}
    BY <2>1 DEF SInv, HttpClosed, InHandler, Upgraded
  <2>5. \A s \in Sessions : starter[s] # NoOne => session[s] \in Terminal \/ s \in lost
    BY <2>2 DEF SInv, IInv, TypedButCount, Owned, OutcomeOwed, Owing, Outstanding
  <2> QED BY <2>3, <2>4, <2>5
<1> QED BY <1>1, ServeInvariance, PTL

\* The deadline that run computes is never reached unless a query on a
\* request's own context hangs, for every grace, dial timeout and close-frame
\* and query timeout, as long as such a query otherwise takes less than the
\* grace and the buffer, and two of them less than the deadline.
THEOREM DeadlineSuffices == ServeSpec => []BudgetSuffices
<1>1. SInv => BudgetSuffices
  BY DEF SInv
<1> QED BY <1>1, ServeInvariance, PTL
=============================================================================
