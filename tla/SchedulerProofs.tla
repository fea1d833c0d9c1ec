-------------------------- MODULE SchedulerProofs ---------------------------
(***************************************************************************)
(* TLAPS proofs about Scheduler and CapacityReport, for any number of      *)
(* workers, sessions, requests, rescuers and browsers and any slots,       *)
(* limits and TTLs their assumptions allow.                                *)
(***************************************************************************)
EXTENDS CapacityReport, FiniteSetTheorems, TLAPS

\* Fields of the rows and locals, and rows changed one field at a time.
LEMMA RowTypes ==
    ASSUME NEW row \in WorkerRow, NEW st \in WorkerStatus, NEW n \in Nat, NEW h \in Nat
    PROVE  /\ row.status \in WorkerStatus
           /\ row.last_heartbeat \in Nat
           /\ row.lifetime_sessions \in Nat
           /\ [row EXCEPT !.status = st] \in WorkerRow
           /\ [row EXCEPT !.lifetime_sessions = n] \in WorkerRow
           /\ [status |-> st, last_heartbeat |-> h, lifetime_sessions |-> n] \in WorkerRow
  BY DEF WorkerRow

\* The fields of a session row.
LEMMA SessionTypes ==
    ASSUME NEW row \in SessionRow, NEW st \in SessionStatus,
           NEW w \in Workers \cup {NoWorker}
    PROVE  /\ row.status \in SessionStatus
           /\ row.worker \in Workers \cup {NoWorker}
           /\ [row EXCEPT !.status = st] \in SessionRow
           /\ [row EXCEPT !.status = st].status = st
           /\ [row EXCEPT !.status = st].worker = row.worker
           /\ [status |-> st, worker |-> w] \in SessionRow
  BY DEF SessionRow

\* The fields of a claim's locals.
LEMMA ClaimFields ==
    ASSUME NEW l \in ClaimLocals
    PROVE  /\ l.ranked \in Seq(Workers)
           /\ l.excluded \in SUBSET Workers
           /\ l.attempts \in Nat
           /\ l.now \in Nat
  BY DEF ClaimLocals

\* A claim's locals after each change SelectClaimableWorker and LockRow make.
LEMMA ClaimTypes ==
    ASSUME NEW l \in ClaimLocals, NEW n \in Nat, NEW q \in Seq(Workers),
           NEW x \in SUBSET Workers
    PROVE  /\ [l EXCEPT !.now = n] \in ClaimLocals
           /\ [l EXCEPT !.ranked = q] \in ClaimLocals
           /\ [l EXCEPT !.excluded = x, !.attempts = n] \in ClaimLocals
  BY DEF ClaimLocals

\* The locals of a request that claims nothing.
LEMMA NoClaimType == NoClaim \in ClaimLocals /\ <<>> \in Seq(Workers)
<1>1. <<>> \in Seq(Workers)
  OBVIOUS
<1>2. {} \in SUBSET Workers
  OBVIOUS
<1> QED
  BY <1>1, <1>2 DEF NoClaim, ClaimLocals

\* An ordering SelectClaimableWorker picks is a sequence of workers.
LEMMA RankedType ==
    ASSUME NEW E \in SUBSET Workers, NEW q \in Ranked(E)
    PROVE  q \in Seq(Workers)
<1>1. Cardinality(E) \in Nat
  BY WorkersAssumption, FS_Subset, FS_CardinalityType
<1>2. q \in [1..Cardinality(E) -> Workers]
  BY DEF Ranked
<1> QED
  BY <1>1, <1>2

\* TypeOK is inductive together with: who holds a row lock has a worker.
Typed ==
    /\ TypeOK
    /\ \A c \in Clients : pc[c] \in Holding => target[c] \in Workers

\* The initial state is typed.
LEMMA TypedInit == Init => Typed
  BY NoClaimType DEF NoWorker, Init, Typed, TypeOK, Holding, WorkerRow, SessionRow, WorkerStatus, SessionStatus

\* Every step keeps the types: one step per action.
LEMMA TypedStep == ASSUME Typed, [Next]_vars PROVE Typed'
<1> USE NoClaimType DEF NoWorker, Typed
<1>1. ASSUME NEW c \in Clients, ClaimStep(c) PROVE Typed'
  <2> USE DEF dbVars, hbVars, sweepVars, Holding
  <2>0. claim[c] \in ClaimLocals /\ NoWorker \in Workers \cup {NoWorker}
    BY DEF TypeOK
  <2>1. CASE Request(c)
    BY <2>1 DEF Request, TypeOK
  <2>2. CASE ClaimBegin(c)
    <3>1. [claim[c] EXCEPT !.now = now] \in ClaimLocals
      BY <2>0, ClaimTypes DEF TypeOK
    <3> QED
      BY <2>2, <3>1 DEF ClaimBegin, TypeOK
  <2>3. CASE SelectClaimableWorker(c)
    <3> DEFINE E == {w \in Matches[c] \ claim[c].excluded :
                       Claimable(worker[w], claim[c].now) /\ HasSlot(w)}
    <3>1. PICK q \in Ranked(E) : claim' = [claim EXCEPT ![c].ranked = q]
      BY <2>3 DEF SelectClaimableWorker
    <3>2. E \in SUBSET Workers
      BY MatchesAssumption
    <3>3. [claim[c] EXCEPT !.ranked = q] \in ClaimLocals
      BY <2>0, <3>2, RankedType, ClaimTypes
    <3> QED
      BY <2>3, <3>1, <3>3 DEF SelectClaimableWorker, TypeOK
  <2>4. CASE LockRow(c)
    <3>0. claim[c].ranked \in Seq(Workers) /\ claim[c].ranked # <<>>
      BY <2>4, <2>0, ClaimFields DEF LockRow
    <3>1. /\ Head(claim[c].ranked) \in Workers
          /\ Tail(claim[c].ranked) \in Seq(Workers)
      BY <3>0
    <3>2. /\ [claim[c] EXCEPT !.ranked = <<>>] \in ClaimLocals
          /\ [claim[c] EXCEPT !.ranked = Tail(claim[c].ranked)] \in ClaimLocals
      BY <2>0, <3>1, ClaimTypes
    <3> QED
      BY <2>4, <3>1, <3>2 DEF LockRow, TypeOK
  <2>5. ASSUME NEW full \in SUBSET Workers, NoCapacity(c, full)
        PROVE  /\ pc' \in [Clients -> {"idle", "attempt", "begun", "ranked"} \cup Holding]
               /\ target' \in [Clients -> Workers \cup {NoWorker}]
               /\ claim' \in [Clients -> ClaimLocals]
               /\ \A d \in Clients : pc'[d] \in Holding => target'[d] \in Workers
    <3>1. [NoClaim EXCEPT !.excluded = claim[c].excluded \cup full,
                          !.attempts = claim[c].attempts + 1] \in ClaimLocals
      <4>1. claim[c].excluded \cup full \in SUBSET Workers /\ claim[c].attempts + 1 \in Nat
        BY <2>0, ClaimFields
      <4> QED
        BY <4>1, ClaimTypes
    <3> QED
      BY <2>5, <3>1 DEF NoCapacity, TypeOK
  <2>6. CASE SelectNone(c)
    BY <2>6, <2>5 DEF SelectNone, TypeOK
  <2>7. CASE Recount(c)
    <3>1. CASE HasSlot(target[c])
      BY <2>7, <3>1 DEF Recount, TypeOK
    <3>2. CASE ~HasSlot(target[c])
      BY <2>7, <2>5, <3>2 DEF Recount, TypeOK
    <3> QED
      BY <3>1, <3>2
  <2>8. CASE AbortClaim(c)
    BY <2>8 DEF AbortClaim, TypeOK
  <2>9. ASSUME NEW s \in Sessions, CommitClaim(c, s) PROVE Typed'
    <3>1. target[c] \in Workers
      BY <2>9 DEF CommitClaim
    <3>2. [worker[target[c]] EXCEPT !.lifetime_sessions =
             worker[target[c]].lifetime_sessions + 1] \in WorkerRow
      BY <3>1 DEF TypeOK, WorkerRow
    <3>3. [status |-> "pending", worker |-> target[c]] \in SessionRow
      BY <3>1 DEF SessionRow, SessionStatus, Active
    <3> QED
      BY <2>9, <3>1, <3>2, <3>3 DEF CommitClaim, TypeOK
  <2> QED
    BY <1>1, <2>1, <2>2, <2>3, <2>4, <2>6, <2>7, <2>8, <2>9 DEF ClaimStep
<1>2. ASSUME NEW w \in Workers, WorkerStep(w) PROVE Typed'
  <2> USE DEF dbVars, claimVars, hbVars, sweepVars, WorkerStatus, Live
  <2>0. worker[w] \in WorkerRow /\ hbnow[w] \in Nat /\ now \in Nat
    BY DEF TypeOK
  <2>1. CASE RegisterWorker(w)
    <3>1. [status |-> "available", last_heartbeat |-> now, lifetime_sessions |-> 0]
            \in WorkerRow
      BY <2>0 DEF WorkerRow
    <3> QED
      BY <2>1, <3>1 DEF RegisterWorker, TypeOK
  <2>2. CASE HeartbeatBegin(w)
    BY <2>2 DEF HeartbeatBegin, TypeOK
  <2>3. CASE UpdateWorkerHeartbeat(w)
    BY <2>3 DEF UpdateWorkerHeartbeat, EndHeartbeat, TypeOK
  <2>4. CASE AbortHeartbeat(w)
    BY <2>4 DEF AbortHeartbeat, EndHeartbeat, TypeOK
  <2>5. ASSUME NEW failed \in SUBSET Sessions, CommitHeartbeat(w, failed) PROVE Typed'
    <3>1. AfterHeartbeat(worker[w]) \in WorkerStatus
      BY <2>0 DEF WorkerRow, AfterHeartbeat, Revived
    <3>2. [status |-> AfterHeartbeat(worker[w]), last_heartbeat |-> hbnow[w],
           lifetime_sessions |-> worker[w].lifetime_sessions] \in WorkerRow
      BY <2>0, <3>1 DEF WorkerRow
    <3>3. \A s \in Sessions : [session[s] EXCEPT !.status = "failed"] \in SessionRow
      BY DEF TypeOK, SessionRow, SessionStatus, Terminal
    <3>4. worker' \in [Workers -> WorkerRow]
      BY <2>5, <3>2 DEF CommitHeartbeat, TypeOK
    <3>5. session' \in [Sessions -> SessionRow]
      BY <2>5, <3>3 DEF CommitHeartbeat, TypeOK
    <3> QED
      BY <2>5, <3>4, <3>5 DEF CommitHeartbeat, EndHeartbeat, TypeOK
  <2>6. ASSUME NEW to \in {"draining", "shutting_down"}, SetWorkerStatus(w, to)
        PROVE Typed'
    <3>1. [worker[w] EXCEPT !.status = to] \in WorkerRow
      BY <2>0 DEF WorkerRow
    <3> QED
      BY <2>6, <3>1 DEF SetWorkerStatus, TypeOK
  <2> QED
    BY <1>2, <2>1, <2>2, <2>3, <2>4, <2>5, <2>6 DEF WorkerStep
<1>3. ASSUME NEW s \in Sessions, SessionStep(s) PROVE Typed'
  <2>1. PICK from \in {{"pending"}, {"running"}, Active},
             to \in {"running", "completed", "failed"} : Transition(s, from, to)
    BY <1>3 DEF SessionStep, StartSession, CompleteSession, FailSession, TerminateSession
  <2>2. [session[s] EXCEPT !.status = to] \in SessionRow
    BY DEF TypeOK, SessionRow, SessionStatus, Active, Terminal
  <2> QED
    BY <2>1, <2>2 DEF Transition, TypeOK, claimVars, hbVars, sweepVars
<1>4. ASSUME NEW r \in Rescuers, SweepStep(r) PROVE Typed'
  <2> USE DEF dbVars, claimVars, hbVars
  <2>0. \A w \in Workers, st \in {"stalled", "deleted"} :
          [worker[w] EXCEPT !.status = st] \in WorkerRow
    BY DEF TypeOK, WorkerRow, WorkerStatus, Live
  <2>1. CASE StallScan(r)
    BY <2>1 DEF StallScan, TypeOK
  <2>2. CASE StallSilentWorkers(r)
    <3>1. worker' \in [Workers -> WorkerRow]
      BY <2>0, <2>2 DEF StallSilentWorkers, TypeOK
    <3> QED
      BY <2>2, <3>1 DEF StallSilentWorkers, EndSweepTx, TypeOK
  <2>3. CASE DeleteScan(r)
    BY <2>3 DEF DeleteScan, TypeOK
  <2>4. CASE DeleteDeadWorkers(r)
    <3>1. worker' \in [Workers -> WorkerRow]
      BY <2>0, <2>4 DEF DeleteDeadWorkers, TypeOK
    <3> QED
      BY <2>4, <3>1 DEF DeleteDeadWorkers, EndSweepTx, TypeOK
  <2>5. CASE AbortSweep(r)
    BY <2>5 DEF AbortSweep, EndSweepTx, TypeOK
  <2>6. ASSUME NEW expired \in SUBSET Sessions, ExpireDeadSessions(r, expired)
        PROVE Typed'
    <3>1. \A s \in Sessions : [session[s] EXCEPT !.status = "expired"] \in SessionRow
      BY DEF TypeOK, SessionRow, SessionStatus, Terminal
    <3>2. session' \in [Sessions -> SessionRow]
      BY <2>6, <3>1 DEF ExpireDeadSessions, TypeOK
    <3> QED
      BY <2>6, <3>2 DEF ExpireDeadSessions, TypeOK
  <2> QED
    BY <1>4, <2>1, <2>2, <2>3, <2>4, <2>5, <2>6 DEF SweepStep
<1>5. CASE Tick
  BY <1>5 DEF Tick, TypeOK, dbVars, claimVars, hbVars, sweepVars
<1>6. CASE UNCHANGED vars
  BY <1>6 DEF vars, TypeOK, dbVars, claimVars, hbVars, sweepVars
<1> QED
  BY <1>1, <1>2, <1>3, <1>4, <1>5, <1>6 DEF Next

\* Type correctness of the tables and of every transaction's locals.
THEOREM TypeCorrect == Spec => []TypeOK
<1>1. Typed => TypeOK
  BY DEF Typed
<1> QED
  BY <1>1, TypedInit, TypedStep, PTL DEF Spec

-----------------------------------------------------------------------------
(* The inductive invariant behind the safety theorems.                     *)

\* A row lock has one holder.
LockExclusive ==
    /\ \A c, d \in Clients : pc[c] \in Holding /\ pc[d] \in Holding
                                /\ target[c] = target[d] => c = d
    /\ \A c \in Clients : pc[c] \in Holding => hbpc[target[c]] # "locked"

\* What a claim found out about the row it locked stays true until it commits.
HoldersFit ==
    \A c \in Clients :
        /\ pc[c] \in Holding => /\ worker[target[c]].status = "available"
                                 /\ UnderLifetime(worker[target[c]])
        /\ pc[c] = "counted" => HasSlot(target[c])

\* Ids not used yet refer to nothing.
Unused ==
    /\ \A s \in Sessions : session[s].status = "none" => session[s].worker = NoWorker
    /\ \A w \in Workers : worker[w].status = "unregistered" =>
                              worker[w].lifetime_sessions = 0

\* now() of an open transaction is in the past; a heartbeat's not far in it.
Clock ==
    /\ \A w \in Workers : hbpc[w] # "idle" => /\ hbnow[w] <= now
                                                /\ now <= hbnow[w] + HeartbeatTimeout
    /\ \A r \in Rescuers : sweepNow[r] <= now

\* A row the deletion matched has had a heartbeat since, too recent for the
\* deletion's now(), or it is still out of service and empty.
SweepSafe ==
    \A r \in Rescuers : sweep[r] = "deleting" =>
        \A w \in matched[r] :
            \/ /\ worker[w].last_heartbeat >= sweepNow[r] - WorkerTTL
               /\ worker[w].last_heartbeat >= sweepNow[r] - StalledTTL
            \/ /\ worker[w].status \notin {"unregistered", "available"}
               /\ ActiveOn(w) = {}

DbInv == CapacityInvariant /\ LifetimeBound /\ NoOrphan /\ Unused
LockInv == LockExclusive /\ HoldersFit
TimeInv == Clock /\ SweepSafe
IInv == Typed /\ DbInv /\ LockInv /\ TimeInv

-----------------------------------------------------------------------------
(* How the sets of sessions on a worker change.                            *)

\* The sets of sessions of a worker are finite.
LEMMA SessionSets ==
    ASSUME NEW w \in Workers
    PROVE  /\ IsFiniteSet(ActiveOn(w)) /\ Cardinality(ActiveOn(w)) \in Nat
           /\ IsFiniteSet(UsedBy(w)) /\ Cardinality(UsedBy(w)) \in Nat
<1>1. ActiveOn(w) \subseteq Sessions /\ UsedBy(w) \subseteq Sessions
  BY DEF ActiveOn, UsedBy
<1> QED
  BY <1>1, SessionsAssumption, FS_Subset, FS_CardinalityType

\* Sessions only end: no worker gains one.
LEMMA Shrink ==
    ASSUME \A s \in Sessions :
              /\ session'[s].worker = session[s].worker
              /\ session'[s].status \in Active => session[s].status \in Active,
           NEW w \in Workers
    PROVE  /\ ActiveOn(w)' \subseteq ActiveOn(w)
           /\ UsedBy(w)' = UsedBy(w)
           /\ HasSlot(w) => HasSlot(w)'
           /\ Cardinality(ActiveOn(w)) <= MaxSlots[w] =>
                Cardinality(ActiveOn(w))' <= MaxSlots[w]
<1>1. ActiveOn(w)' \subseteq ActiveOn(w)
  BY DEF ActiveOn
<1>2. UsedBy(w)' = UsedBy(w)
  BY DEF UsedBy
<1>3. Cardinality(ActiveOn(w)') <= Cardinality(ActiveOn(w)) /\ Cardinality(ActiveOn(w)') \in Nat
  BY <1>1, SessionSets, FS_Subset, FS_CardinalityType
<1>4. MaxSlots[w] \in Nat
  BY SlotsAssumption
<1> QED
  BY <1>1, <1>2, <1>3, <1>4, SessionSets DEF HasSlot

\* A claim commits: one worker gains one session.
LEMMA Grow ==
    ASSUME Typed, Unused, NEW c \in Clients, NEW s \in Sessions, CommitClaim(c, s),
           NEW w \in Workers
    PROVE  /\ target[c] \in Workers
           /\ w # target[c] => ActiveOn(w)' = ActiveOn(w) /\ UsedBy(w)' = UsedBy(w)
           /\ w = target[c] =>
                /\ ActiveOn(w)' = ActiveOn(w) \cup {s} /\ s \notin ActiveOn(w)
                /\ UsedBy(w)' = UsedBy(w) \cup {s} /\ s \notin UsedBy(w)
                /\ Cardinality(ActiveOn(w))' = Cardinality(ActiveOn(w)) + 1
                /\ Cardinality(UsedBy(w))' = Cardinality(UsedBy(w)) + 1
           /\ \A v \in Workers : s \notin UsedBy(v)
<1>1. target[c] \in Workers /\ pc[c] = "counted"
  BY DEF Typed, CommitClaim, Holding
<1>2. session[s].status = "none" /\ session[s].worker = NoWorker
  BY DEF CommitClaim, Unused
<1>3. \A x \in Sessions : session'[x] = IF x = s THEN [status |-> "pending", worker |-> target[c]]
                                        ELSE session[x]
  BY DEF CommitClaim, Typed, TypeOK
<1>4. NoWorker \notin Workers
  BY WorkersAssumption DEF NoWorker
<1>5. s \notin ActiveOn(w) /\ \A v \in Workers : s \notin UsedBy(v)
  BY <1>2, <1>4 DEF ActiveOn, UsedBy
<1>6. w # target[c] => ActiveOn(w)' = ActiveOn(w) /\ UsedBy(w)' = UsedBy(w)
  BY <1>2, <1>3, <1>4 DEF ActiveOn, UsedBy
<1>7. w = target[c] => ActiveOn(w)' = ActiveOn(w) \cup {s} /\ UsedBy(w)' = UsedBy(w) \cup {s}
  BY <1>2, <1>3, <1>4 DEF ActiveOn, UsedBy, Active
<1>8. w = target[c] => /\ Cardinality(ActiveOn(w))' = Cardinality(ActiveOn(w)) + 1
                       /\ Cardinality(UsedBy(w))' = Cardinality(UsedBy(w)) + 1
  BY <1>5, <1>7, SessionSets, FS_AddElement
<1> QED
  BY <1>1, <1>5, <1>6, <1>7, <1>8

\* The sessions table changes in no step but these.
LEMMA SessionFrame ==
    ASSUME Typed, [Next]_vars
    PROVE  \/ \E c \in Clients, s \in Sessions : CommitClaim(c, s)
           \/ \A s \in Sessions :
                /\ session'[s].worker = session[s].worker
                /\ session'[s].status \in Active => session[s].status \in Active
                /\ session'[s].status = "none" <=> session[s].status = "none"
                /\ session[s].status \in Terminal => session'[s] = session[s]
                /\ session[s].status = "running" => session'[s].status # "pending"
<1> DEFINE Keeps == \A s \in Sessions :
                /\ session'[s].worker = session[s].worker
                /\ session'[s].status \in Active => session[s].status \in Active
                /\ session'[s].status = "none" <=> session[s].status = "none"
                /\ session[s].status \in Terminal => session'[s] = session[s]
                /\ session[s].status = "running" => session'[s].status # "pending"
<1>0. CASE UNCHANGED session
  BY <1>0
<1>1. ASSUME NEW c \in Clients, ClaimStep(c)
      PROVE  UNCHANGED session \/ \E s \in Sessions : CommitClaim(c, s)
  BY <1>1 DEF ClaimStep, Request, ClaimBegin, SelectClaimableWorker, LockRow, SelectNone,
              Recount, AbortClaim, dbVars
<1>2. ASSUME NEW w \in Workers, NEW failed \in SUBSET Sessions, CommitHeartbeat(w, failed)
      PROVE  Keeps
  <2>1. \A s \in Sessions : session'[s] = IF s \in failed
                                 THEN [session[s] EXCEPT !.status = "failed"] ELSE session[s]
    BY <1>2 DEF CommitHeartbeat
  <2>2. \A s \in failed : session[s].status = "running"
    BY <1>2 DEF CommitHeartbeat
  <2>3. \A s \in Sessions : session[s] \in SessionRow
    BY DEF Typed, TypeOK
  <2> QED
    BY <2>1, <2>2, <2>3 DEF SessionRow, Active, Terminal
<1>3. ASSUME NEW w \in Workers, WorkerStep(w)
      PROVE  UNCHANGED session \/ \E failed \in SUBSET Sessions : CommitHeartbeat(w, failed)
  BY <1>3 DEF WorkerStep, RegisterWorker, HeartbeatBegin, UpdateWorkerHeartbeat,
              AbortHeartbeat, SetWorkerStatus, dbVars
<1>4. ASSUME NEW s \in Sessions, SessionStep(s) PROVE Keeps
  <2>1. PICK from \in {{"pending"}, {"running"}, Active},
             to \in {"running", "completed", "failed"} :
               Transition(s, from, to) /\ (to = "running" => from = {"pending"})
    BY <1>4 DEF SessionStep, StartSession, CompleteSession, FailSession, TerminateSession
  <2>2. session[s].status \in from /\ session' = [session EXCEPT ![s].status = to]
    BY <2>1 DEF Transition
  <2>3. \A x \in Sessions : session[x] \in SessionRow /\ session \in [Sessions -> SessionRow]
    BY DEF Typed, TypeOK
  <2> QED
    BY <2>1, <2>2, <2>3 DEF SessionRow, Active, Terminal
<1>5. ASSUME NEW r \in Rescuers, NEW expired \in SUBSET Sessions, ExpireDeadSessions(r, expired)
      PROVE  Keeps
  <2>1. \A s \in Sessions : session'[s] = IF s \in expired
                                 THEN [session[s] EXCEPT !.status = "expired"] ELSE session[s]
    BY <1>5 DEF ExpireDeadSessions
  <2>2. \A s \in expired : session[s].status \in Active
    BY <1>5 DEF ExpireDeadSessions
  <2>3. \A s \in Sessions : session[s] \in SessionRow
    BY DEF Typed, TypeOK
  <2> QED
    BY <2>1, <2>2, <2>3 DEF SessionRow, Active, Terminal
<1>6. ASSUME NEW r \in Rescuers, SweepStep(r)
      PROVE  UNCHANGED session \/ \E expired \in SUBSET Sessions : ExpireDeadSessions(r, expired)
  BY <1>6 DEF SweepStep, StallScan, StallSilentWorkers, DeleteScan, DeleteDeadWorkers,
              AbortSweep, dbVars
<1>7. CASE Tick \/ UNCHANGED vars
  BY <1>0, <1>7 DEF Tick, vars, dbVars
<1> QED
  BY <1>0, <1>1, <1>2, <1>3, <1>4, <1>5, <1>6, <1>7 DEF Next

\* A worker row changes in no step but these.
Counted(c, s, w) ==
    /\ CommitClaim(c, s) /\ w = target[c]
    /\ worker'[w] = [worker[w] EXCEPT !.lifetime_sessions = worker[w].lifetime_sessions + 1]
Registered(w) ==
    /\ worker[w].status = "unregistered" /\ worker'[w].status = "available"
    /\ worker'[w].last_heartbeat = now /\ worker'[w].lifetime_sessions = 0
Beaten(w) ==
    /\ hbpc[w] = "locked" /\ worker'[w].status = AfterHeartbeat(worker[w])
    /\ worker'[w].last_heartbeat = hbnow[w]
    /\ worker'[w].lifetime_sessions = worker[w].lifetime_sessions
Set(w, to) ==
    /\ ~Locked(w) /\ worker[w].status \in SettableFrom(to)
    /\ worker'[w] = [worker[w] EXCEPT !.status = to]
Stalled(r, w) ==
    /\ ~Locked(w) /\ Silent(worker[w], sweepNow[r])
    /\ worker'[w] = [worker[w] EXCEPT !.status = "stalled"]
Deleted(r, w) ==
    /\ sweep[r] = "deleting" /\ w \in matched[r]
    /\ ~Locked(w) /\ Dead(worker[w], sweepNow[r])
    /\ worker'[w] = [worker[w] EXCEPT !.status = "deleted"]

WorkerMove(w) ==
    \/ worker'[w] = worker[w]
    \/ \E c \in Clients, s \in Sessions : Counted(c, s, w)
    \/ Registered(w) \/ Beaten(w)
    \/ \E to \in {"draining", "shutting_down"} : Set(w, to)
    \/ \E r \in Rescuers : Stalled(r, w) \/ Deleted(r, w)

\* A worker row changes in no step but these.
LEMMA WorkerFrame ==
    ASSUME Typed, [Next]_vars, NEW w \in Workers
    PROVE  WorkerMove(w)
<1>0. CASE UNCHANGED worker
  BY <1>0 DEF WorkerMove
<1>t. worker \in [Workers -> WorkerRow]
  BY DEF Typed, TypeOK
<1>1. ASSUME NEW c \in Clients, ClaimStep(c) PROVE WorkerMove(w)
  <2>1. UNCHANGED worker \/ \E s \in Sessions : CommitClaim(c, s)
    BY <1>1 DEF ClaimStep, Request, ClaimBegin, SelectClaimableWorker, LockRow, SelectNone,
                Recount, AbortClaim, dbVars
  <2>2. ASSUME NEW s \in Sessions, CommitClaim(c, s) PROVE WorkerMove(w)
    BY <2>2, <1>t DEF CommitClaim, WorkerMove, Counted
  <2> QED
    BY <2>1, <2>2, <1>0
<1>2. ASSUME NEW v \in Workers, WorkerStep(v) PROVE WorkerMove(w)
  <2>1. CASE RegisterWorker(v)
    BY <2>1, <1>t DEF RegisterWorker, WorkerMove, Registered
  <2>2. ASSUME NEW failed \in SUBSET Sessions, CommitHeartbeat(v, failed)
        PROVE WorkerMove(w)
    BY <2>2, <1>t DEF CommitHeartbeat, WorkerMove, Beaten
  <2>3. ASSUME NEW to \in {"draining", "shutting_down"}, SetWorkerStatus(v, to)
        PROVE WorkerMove(w)
    BY <2>3, <1>t DEF SetWorkerStatus, WorkerMove, Set
  <2>4. CASE HeartbeatBegin(v) \/ UpdateWorkerHeartbeat(v) \/ AbortHeartbeat(v)
    BY <2>4, <1>0 DEF HeartbeatBegin, UpdateWorkerHeartbeat, AbortHeartbeat, dbVars
  <2> QED
    BY <1>2, <2>1, <2>2, <2>3, <2>4 DEF WorkerStep
<1>3. ASSUME NEW s \in Sessions, SessionStep(s) PROVE WorkerMove(w)
  BY <1>3, <1>0 DEF SessionStep, StartSession, CompleteSession, FailSession,
                    TerminateSession, Transition
<1>4. ASSUME NEW r \in Rescuers, SweepStep(r) PROVE WorkerMove(w)
  <2>1. CASE StallSilentWorkers(r)
    BY <2>1, <1>t DEF StallSilentWorkers, WorkerMove, Stalled
  <2>2. CASE DeleteDeadWorkers(r)
    BY <2>2, <1>t DEF DeleteDeadWorkers, WorkerMove, Deleted
  <2>3. CASE ~StallSilentWorkers(r) /\ ~DeleteDeadWorkers(r)
    BY <1>4, <2>3, <1>0 DEF SweepStep, StallScan, DeleteScan, AbortSweep,
                            ExpireDeadSessions, dbVars
  <2> QED
    BY <2>1, <2>2, <2>3
<1>5. CASE Tick \/ UNCHANGED vars
  BY <1>0, <1>5 DEF Tick, vars, dbVars
<1> QED
  BY <1>1, <1>2, <1>3, <1>4, <1>5 DEF Next

\* The fields of a row before and after each kind of change.
LEMMA MoveFields ==
    ASSUME Typed, Typed', NEW w \in Workers
    PROVE  /\ worker[w] \in WorkerRow /\ worker'[w] \in WorkerRow
           /\ worker[w].lifetime_sessions \in Nat /\ worker[w].last_heartbeat \in Nat
           /\ worker'[w].lifetime_sessions \in Nat /\ worker'[w].last_heartbeat \in Nat
           /\ \A c \in Clients, s \in Sessions : Counted(c, s, w) =>
                /\ worker'[w].status = worker[w].status
                /\ worker'[w].last_heartbeat = worker[w].last_heartbeat
                /\ worker'[w].lifetime_sessions = worker[w].lifetime_sessions + 1
           /\ \A st \in WorkerStatus : worker'[w] = [worker[w] EXCEPT !.status = st] =>
                /\ worker'[w].status = st
                /\ worker'[w].last_heartbeat = worker[w].last_heartbeat
                /\ worker'[w].lifetime_sessions = worker[w].lifetime_sessions
<1>1. worker[w] \in WorkerRow /\ worker'[w] \in WorkerRow
  BY DEF Typed, TypeOK
<1> QED
  BY <1>1 DEF WorkerRow, Counted

-----------------------------------------------------------------------------
(* Every step keeps the inductive invariant.                               *)

\* Every step keeps the invariants of the tables.
LEMMA DbStep == ASSUME IInv, Typed', [Next]_vars PROVE DbInv'
<1> USE DEF IInv, DbInv, LockInv
<1>s. \A st \in {"draining", "shutting_down", "stalled", "deleted"} : st \in WorkerStatus
  BY DEF WorkerStatus, Live
<1>1. CASE \E c \in Clients, s \in Sessions : CommitClaim(c, s)
  <2> PICK c \in Clients, s \in Sessions : CommitClaim(c, s)
    BY <1>1
  <2>1. /\ target[c] \in Workers /\ pc[c] = "counted"
        /\ worker[target[c]].status = "available" /\ UnderLifetime(worker[target[c]])
        /\ HasSlot(target[c])
    BY DEF Typed, CommitClaim, HoldersFit, Holding
  <2>2. ASSUME NEW w \in Workers
        PROVE  IF w = target[c]
               THEN /\ worker'[w].status = worker[w].status
                    /\ worker'[w].lifetime_sessions = worker[w].lifetime_sessions + 1
               ELSE worker'[w] = worker[w]
    BY <2>1 DEF CommitClaim, Typed, TypeOK, WorkerRow
  <2>3. CapacityInvariant'
    <3> SUFFICES ASSUME NEW w \in Workers PROVE Cardinality(ActiveOn(w))' <= MaxSlots[w]
      BY DEF CapacityInvariant
    <3>1. MaxSlots[w] \in Nat /\ Cardinality(ActiveOn(w)) \in Nat
      BY SlotsAssumption, SessionSets
    <3>2. CASE w = target[c]
      BY <3>1, <3>2, <2>1, Grow DEF HasSlot
    <3>3. CASE w # target[c]
      BY <3>3, Grow DEF CapacityInvariant
    <3> QED
      BY <3>2, <3>3
  <2>4. LifetimeBound'
    <3> SUFFICES ASSUME NEW w \in Workers
                 PROVE  /\ worker'[w].lifetime_sessions = Cardinality(UsedBy(w))'
                        /\ MaxLifetime > 0 => worker'[w].lifetime_sessions <= MaxLifetime
      BY DEF LifetimeBound
    <3>1. worker[w].lifetime_sessions \in Nat
      BY DEF Typed, TypeOK, WorkerRow
    <3>2. CASE w = target[c]
      BY <3>1, <3>2, <2>1, <2>2, Grow, BoundsAssumption DEF LifetimeBound, UnderLifetime
    <3>3. CASE w # target[c]
      BY <3>3, <2>2, Grow DEF LifetimeBound
    <3> QED
      BY <3>2, <3>3
  <2>5. NoOrphan'
    BY <2>1, <2>2, Grow DEF NoOrphan
  <2>6. Unused'
    <3>1. \A x \in Sessions : session'[x] = IF x = s
                 THEN [status |-> "pending", worker |-> target[c]] ELSE session[x]
      BY DEF CommitClaim, Typed, TypeOK
    <3> QED
      BY <3>1, <2>1, <2>2 DEF Unused
  <2> QED
    BY <2>3, <2>4, <2>5, <2>6
<1>2. CASE ~\E c \in Clients, s \in Sessions : CommitClaim(c, s)
  <2>1. \A s \in Sessions :
          /\ session'[s].worker = session[s].worker
          /\ session'[s].status \in Active => session[s].status \in Active
          /\ session'[s].status = "none" <=> session[s].status = "none"
    BY <1>2, SessionFrame
  <2>2. ASSUME NEW w \in Workers
        PROVE  /\ ActiveOn(w)' \subseteq ActiveOn(w) /\ UsedBy(w)' = UsedBy(w)
               /\ Cardinality(ActiveOn(w))' <= MaxSlots[w]
    BY <2>1, Shrink DEF CapacityInvariant
  <2>3. CapacityInvariant'
    BY <2>2 DEF CapacityInvariant
  <2>4. ASSUME NEW w \in Workers
        PROVE  /\ worker'[w].lifetime_sessions = worker[w].lifetime_sessions
               /\ worker'[w].status = "unregistered" => worker[w].status = "unregistered"
               /\ worker'[w].status = "deleted" =>
                    worker[w].status = "deleted" \/ \E r \in Rescuers : Deleted(r, w)
    <3>1. CASE Registered(w)
      BY <3>1 DEF Registered, Unused
    <3>2. CASE Beaten(w)
      BY <3>2 DEF Beaten, AfterHeartbeat, Revived
    <3>3. ASSUME NEW st \in {"draining", "shutting_down", "stalled"},
                 worker'[w] = [worker[w] EXCEPT !.status = st]
          PROVE  /\ worker'[w].lifetime_sessions = worker[w].lifetime_sessions
                 /\ worker'[w].status \notin {"unregistered", "deleted"}
      BY <3>3, <1>s, MoveFields
    <3>4. ASSUME NEW r \in Rescuers, Deleted(r, w)
          PROVE  /\ worker'[w].lifetime_sessions = worker[w].lifetime_sessions
                 /\ worker'[w].status = "deleted"
      BY <3>4, <1>s, MoveFields DEF Deleted
    <3>5. /\ \A c \in Clients, s \in Sessions : ~Counted(c, s, w)
          /\ \A to \in {"draining", "shutting_down"} : Set(w, to) =>
                worker'[w] = [worker[w] EXCEPT !.status = to]
          /\ \A r \in Rescuers : Stalled(r, w) =>
                worker'[w] = [worker[w] EXCEPT !.status = "stalled"]
      BY <1>2 DEF Counted, Set, Stalled
    <3> QED
      BY <3>1, <3>2, <3>3, <3>4, <3>5, WorkerFrame DEF WorkerMove
  <2>5. LifetimeBound'
    BY <2>2, <2>4 DEF LifetimeBound
  <2>6. Unused'
    BY <2>1, <2>4 DEF Unused
  <2>7. NoOrphan'
    <3> SUFFICES ASSUME NEW w \in Workers, worker'[w].status = "deleted"
                 PROVE  ActiveOn(w)' = {}
      BY DEF NoOrphan
    <3>1. CASE worker[w].status = "deleted"
      BY <3>1, <2>2 DEF NoOrphan
    <3>2. ASSUME NEW r \in Rescuers, Deleted(r, w) PROVE ActiveOn(w)' = {}
      <4>1. /\ worker[w].last_heartbeat \in Nat /\ sweepNow[r] \in Nat
            /\ WorkerTTL \in Nat /\ StalledTTL \in Nat
        BY MoveFields, BoundsAssumption DEF Typed, TypeOK
      <4>2. ~ /\ worker[w].last_heartbeat >= sweepNow[r] - WorkerTTL
              /\ worker[w].last_heartbeat >= sweepNow[r] - StalledTTL
        BY <3>2, <4>1 DEF Deleted, Dead
      <4>3. ActiveOn(w) = {}
        BY <3>2, <4>2 DEF Deleted, TimeInv, SweepSafe
      <4> QED
        BY <4>3, <2>2
    <3> QED
      BY <2>4, <3>1, <3>2
  <2> QED
    BY <2>3, <2>5, <2>6, <2>7
<1> QED
  BY <1>1, <1>2

\* The row locks change hands in no step but these.
LockMove ==
    \/ UNCHANGED <<pc, target, hbpc>>
    \/ /\ UNCHANGED hbpc
       /\ \E c \in Clients : \E st \in {"idle", "attempt", "begun", "ranked"} :
            /\ pc' = [pc EXCEPT ![c] = st]
            /\ \A d \in Clients \ {c} : target'[d] = target[d]
    \/ /\ UNCHANGED <<hbpc, worker, session>>
       /\ \E c \in Clients, w \in Workers :
            /\ ~Locked(w) /\ Claimable(worker[w], claim[c].now)
            /\ pc' = [pc EXCEPT ![c] = "locked"] /\ target' = [target EXCEPT ![c] = w]
    \/ /\ UNCHANGED <<hbpc, worker, session, target>>
       /\ \E c \in Clients : /\ pc[c] = "locked" /\ HasSlot(target[c])
                              /\ pc' = [pc EXCEPT ![c] = "counted"]
    \/ /\ UNCHANGED <<pc, target>>
       /\ \E w \in Workers :
            \/ hbpc' = [hbpc EXCEPT ![w] = "idle"] \/ hbpc' = [hbpc EXCEPT ![w] = "begun"]
            \/ ~Locked(w) /\ hbpc' = [hbpc EXCEPT ![w] = "locked"]

\* What a step does to the row locks.
LEMMA LockFrame == ASSUME Typed, [Next]_vars PROVE LockMove
<1>1. ASSUME NEW c \in Clients, ClaimStep(c) PROVE LockMove
  <2> USE DEF hbVars, dbVars
  <2>t. pc \in [Clients -> {"idle", "attempt", "begun", "ranked"} \cup Holding]
        /\ target \in [Clients -> Workers \cup {NoWorker}] /\ claim[c] \in ClaimLocals
    BY DEF Typed, TypeOK
  <2>1. CASE Request(c) \/ ClaimBegin(c) \/ SelectClaimableWorker(c)
    BY <2>1, <2>t DEF Request, ClaimBegin, SelectClaimableWorker, LockMove
  <2>2. CASE LockRow(c)
    <3>1. Head(claim[c].ranked) \in Workers
      <4>1. claim[c].ranked \in Seq(Workers) /\ claim[c].ranked # <<>>
        BY <2>2, <2>t, ClaimFields DEF LockRow
      <4> QED
        BY <4>1
    <3> QED
      BY <2>2, <3>1 DEF LockRow, LockMove
  <2>3. CASE SelectNone(c)
    BY <2>3, <2>t DEF SelectNone, NoCapacity, LockMove
  <2>4. CASE Recount(c)
    BY <2>4, <2>t DEF Recount, NoCapacity, LockMove
  <2>5. CASE AbortClaim(c) \/ \E s \in Sessions : CommitClaim(c, s)
    BY <2>5, <2>t DEF AbortClaim, CommitClaim, LockMove
  <2> QED
    BY <1>1, <2>1, <2>2, <2>3, <2>4, <2>5 DEF ClaimStep
<1>2. ASSUME NEW w \in Workers, WorkerStep(w) PROVE LockMove
  BY <1>2 DEF WorkerStep, RegisterWorker, HeartbeatBegin, UpdateWorkerHeartbeat,
              AbortHeartbeat, CommitHeartbeat, EndHeartbeat, SetWorkerStatus,
              LockMove, claimVars, hbVars
<1>3. ASSUME NEW s \in Sessions, SessionStep(s) PROVE LockMove
  BY <1>3 DEF SessionStep, StartSession, CompleteSession, FailSession,
              TerminateSession, Transition, LockMove, claimVars, hbVars
<1>4. ASSUME NEW r \in Rescuers, SweepStep(r) PROVE LockMove
  BY <1>4 DEF SweepStep, StallScan, StallSilentWorkers, ExpireDeadSessions, DeleteScan,
              DeleteDeadWorkers, AbortSweep, LockMove, claimVars, hbVars
<1>5. CASE Tick \/ UNCHANGED vars
  BY <1>5 DEF Tick, vars, LockMove, claimVars, hbVars
<1> QED
  BY <1>1, <1>2, <1>3, <1>4, <1>5 DEF Next

\* Every step keeps the row locks exclusive and their holders within capacity.
LEMMA LockStep == ASSUME IInv, Typed', [Next]_vars PROVE LockInv'
<1> USE DEF IInv, LockInv
<1>t. /\ pc \in [Clients -> {"idle", "attempt", "begun", "ranked"} \cup Holding]
      /\ target \in [Clients -> Workers \cup {NoWorker}]
      /\ hbpc \in [Workers -> {"idle", "begun", "locked"}]
      /\ \A c \in Clients : pc[c] \in Holding => target[c] \in Workers
  BY DEF Typed, TypeOK
<1>1. LockExclusive'
  BY <1>t, LockFrame DEF LockMove, LockExclusive, Locked, Holds, Holding
<1>2. HoldersFit'
  <2> SUFFICES ASSUME NEW c \in Clients, NEW w \in Workers, w = target'[c],
                      pc'[c] \in Holding
               PROVE  /\ worker'[w].status = "available" /\ UnderLifetime(worker'[w])
                      /\ pc'[c] = "counted" => HasSlot(w)'
    BY DEF Typed, HoldersFit, Holding, HasSlot, ActiveOn
  <2>1. \/ /\ pc[c] \in Holding /\ target[c] = w
           /\ pc'[c] = "counted" => pc[c] = "counted" \/ HasSlot(w)
        \/ /\ Claimable(worker[w], claim[c].now) /\ UNCHANGED worker
           /\ pc'[c] = "locked"
    BY <1>t, LockFrame DEF LockMove, Holding
  <2>2. CASE /\ pc[c] \in Holding /\ target[c] = w
             /\ pc'[c] = "counted" => pc[c] = "counted" \/ HasSlot(w)
    <3>0. /\ worker[w].status = "available" /\ UnderLifetime(worker[w])
          /\ pc'[c] = "counted" => HasSlot(w)
          /\ Locked(w) /\ hbpc[w] # "locked"
      BY <2>2 DEF HoldersFit, LockExclusive, Locked, Holds
    <3>1. ASSUME NEW d \in Clients, NEW s \in Sessions, CommitClaim(d, s)
          PROVE  target[d] # w
      <4>1. pc[d] = "counted" /\ pc'[d] = "idle"
        BY <3>1, <1>t DEF CommitClaim
      <4> QED
        BY <4>1, <2>2 DEF LockExclusive, Holding
    <3>2. worker'[w] = worker[w]
      BY <3>0, <3>1, WorkerFrame
         DEF WorkerMove, Counted, Registered, Beaten, Set, Stalled, Deleted
    <3>3. HasSlot(w) => HasSlot(w)'
      <4>1. CASE \E d \in Clients, s \in Sessions : CommitClaim(d, s)
        <5> PICK d \in Clients, s \in Sessions : CommitClaim(d, s)
          BY <4>1
        <5>1. ActiveOn(w)' = ActiveOn(w)
          BY <3>1, Grow DEF DbInv
        <5> QED
          BY <5>1 DEF HasSlot
      <4>2. CASE ~\E d \in Clients, s \in Sessions : CommitClaim(d, s)
        BY <4>2, SessionFrame, Shrink
      <4> QED
        BY <4>1, <4>2
    <3> QED
      BY <3>0, <3>2, <3>3
  <2>3. CASE /\ Claimable(worker[w], claim[c].now) /\ UNCHANGED worker
             /\ pc'[c] = "locked"
    BY <2>3 DEF Claimable
  <2> QED
    BY <2>1, <2>2, <2>3
<1> QED
  BY <1>1, <1>2

\* Every step keeps the ages that protect a deletion from a fresh claim.
LEMMA TimeStep == ASSUME IInv, Typed', [Next]_vars PROVE TimeInv'
<1> USE DEF IInv, TimeInv
<1>t. /\ now \in Nat /\ hbnow \in [Workers -> Nat] /\ sweepNow \in [Rescuers -> Nat]
      /\ hbpc \in [Workers -> {"idle", "begun", "locked"}]
      /\ sweep \in [Rescuers -> {"idle", "stall", "expire", "delete", "deleting"}]
      /\ matched \in [Rescuers -> SUBSET Workers]
      /\ HeartbeatTimeout \in Nat /\ WorkerTTL \in Nat /\ StalledTTL \in Nat
  BY BoundsAssumption DEF Typed, TypeOK
\* The clock and the open heartbeats.
<1>1. \/ UNCHANGED <<now, hbpc, hbnow>>
      \/ now' = now /\ \E w \in Workers :
           /\ \A v \in Workers \ {w} : hbpc'[v] = hbpc[v] /\ hbnow'[v] = hbnow[v]
           /\ \/ hbpc'[w] = "idle"
              \/ hbnow'[w] = now
              \/ hbpc[w] # "idle" /\ hbnow'[w] = hbnow[w]
      \/ /\ now' = now + 1 /\ UNCHANGED <<hbpc, hbnow>>
         /\ \A w \in Workers : hbpc[w] # "idle" => now < hbnow[w] + HeartbeatTimeout
  <2>1. ASSUME NEW c \in Clients, ClaimStep(c) PROVE UNCHANGED <<now, hbpc, hbnow>>
    BY <2>1 DEF ClaimStep, Request, ClaimBegin, SelectClaimableWorker, LockRow, SelectNone,
                Recount, AbortClaim, CommitClaim, hbVars
  <2>2. ASSUME NEW w \in Workers, WorkerStep(w)
        PROVE  \/ UNCHANGED <<now, hbpc, hbnow>>
               \/ /\ now' = now
                  /\ \A v \in Workers \ {w} : hbpc'[v] = hbpc[v] /\ hbnow'[v] = hbnow[v]
                  /\ \/ hbpc'[w] = "idle"
                     \/ hbnow'[w] = now
                     \/ hbpc[w] # "idle" /\ hbnow'[w] = hbnow[w]
    <3>1. CASE RegisterWorker(w) \/ \E to \in {"draining", "shutting_down"} : SetWorkerStatus(w, to)
      BY <3>1 DEF RegisterWorker, SetWorkerStatus, hbVars
    <3>2. CASE HeartbeatBegin(w)
      BY <3>2, <1>t DEF HeartbeatBegin
    <3>3. CASE UpdateWorkerHeartbeat(w)
      BY <3>3, <1>t DEF UpdateWorkerHeartbeat, EndHeartbeat
    <3>4. CASE AbortHeartbeat(w) \/ \E failed \in SUBSET Sessions : CommitHeartbeat(w, failed)
      BY <3>4, <1>t DEF AbortHeartbeat, CommitHeartbeat, EndHeartbeat
    <3> QED
      BY <2>2, <3>1, <3>2, <3>3, <3>4 DEF WorkerStep
  <2>3. ASSUME NEW s \in Sessions, SessionStep(s) PROVE UNCHANGED <<now, hbpc, hbnow>>
    BY <2>3 DEF SessionStep, StartSession, CompleteSession, FailSession,
                TerminateSession, Transition, hbVars
  <2>4. ASSUME NEW r \in Rescuers, SweepStep(r) PROVE UNCHANGED <<now, hbpc, hbnow>>
    BY <2>4 DEF SweepStep, StallScan, StallSilentWorkers, ExpireDeadSessions, DeleteScan,
                DeleteDeadWorkers, AbortSweep, hbVars
  <2>5. CASE Tick
    BY <2>5 DEF Tick, hbVars
  <2>6. CASE UNCHANGED vars
    BY <2>6 DEF vars, hbVars
  <2> QED
    BY <2>1, <2>2, <2>3, <2>4, <2>5, <2>6 DEF Next
\* The open sweeps.
<1>2. ASSUME NEW r \in Rescuers
      PROVE  \/ UNCHANGED <<sweep[r], sweepNow[r], matched[r]>>
             \/ sweep'[r] # "deleting" /\ sweepNow'[r] \in {0, now, sweepNow[r]}
             \/ /\ UNCHANGED <<now, worker, session>> /\ sweepNow'[r] = now
                /\ matched'[r] = {w \in Workers : Dead(worker[w], now) /\ ActiveOn(w) = {}}
  <2>1. ASSUME NEW c \in Clients, ClaimStep(c) PROVE UNCHANGED sweepVars
    BY <2>1 DEF ClaimStep, Request, ClaimBegin, SelectClaimableWorker, LockRow, SelectNone,
                Recount, AbortClaim, CommitClaim
  <2>2. ASSUME NEW w \in Workers, WorkerStep(w) PROVE UNCHANGED sweepVars
    BY <2>2 DEF WorkerStep, RegisterWorker, HeartbeatBegin, UpdateWorkerHeartbeat,
                AbortHeartbeat, CommitHeartbeat, SetWorkerStatus
  <2>3. ASSUME NEW s \in Sessions, SessionStep(s) PROVE UNCHANGED sweepVars
    BY <2>3 DEF SessionStep, StartSession, CompleteSession, FailSession,
                TerminateSession, Transition
  <2>4. ASSUME NEW q \in Rescuers, SweepStep(q)
        PROVE  \/ UNCHANGED <<sweep[r], sweepNow[r], matched[r]>>
               \/ sweep'[r] # "deleting" /\ sweepNow'[r] \in {0, now, sweepNow[r]}
               \/ /\ UNCHANGED <<now, worker, session>> /\ sweepNow'[r] = now
                  /\ matched'[r] = {w \in Workers : Dead(worker[w], now) /\ ActiveOn(w) = {}}
    <3>1. CASE StallScan(q)
      BY <3>1, <1>t DEF StallScan
    <3>2. CASE StallSilentWorkers(q) \/ DeleteDeadWorkers(q) \/ AbortSweep(q)
      BY <3>2, <1>t DEF StallSilentWorkers, DeleteDeadWorkers, AbortSweep, EndSweepTx
    <3>3. CASE \E expired \in SUBSET Sessions : ExpireDeadSessions(q, expired)
      BY <3>3, <1>t DEF ExpireDeadSessions
    <3>4. CASE DeleteScan(q)
      BY <3>4, <1>t DEF DeleteScan, dbVars
    <3> QED
      BY <2>4, <3>1, <3>2, <3>3, <3>4 DEF SweepStep
  <2>5. CASE Tick \/ UNCHANGED vars
    BY <2>5 DEF Tick, vars, sweepVars
  <2> QED
    BY <2>1, <2>2, <2>3, <2>4, <2>5 DEF Next, sweepVars
<1>3. Clock'
  <2>1. ASSUME NEW w \in Workers, hbpc'[w] # "idle"
        PROVE  hbnow'[w] <= now' /\ now' <= hbnow'[w] + HeartbeatTimeout
    BY <1>1, <1>t, <2>1 DEF Clock
  <2>2. ASSUME NEW r \in Rescuers PROVE sweepNow'[r] <= now'
    <3>1. now <= now' /\ now' \in Nat
      BY <1>1, <1>t
    <3> QED
      BY <1>2, <1>t, <3>1 DEF Clock
  <2> QED
    BY <2>1, <2>2 DEF Clock
<1>4. SweepSafe'
  <2> SUFFICES ASSUME NEW r \in Rescuers, sweep'[r] = "deleting", NEW w \in matched'[r]
               PROVE  \/ /\ worker'[w].last_heartbeat >= sweepNow'[r] - WorkerTTL
                         /\ worker'[w].last_heartbeat >= sweepNow'[r] - StalledTTL
                      \/ /\ worker'[w].status \notin {"unregistered", "available"}
                         /\ ActiveOn(w)' = {}
    BY DEF SweepSafe
  <2>t. w \in Workers
    BY DEF Typed, TypeOK
  <2>1. CASE /\ UNCHANGED <<now, worker, session>> /\ sweepNow'[r] = now
             /\ matched'[r] = {v \in Workers : Dead(worker[v], now) /\ ActiveOn(v) = {}}
    <3>1. ActiveOn(w)' = ActiveOn(w)
      BY <2>1 DEF ActiveOn
    <3> QED
      BY <2>1, <3>1 DEF Dead
  <2>2. CASE UNCHANGED <<sweep[r], sweepNow[r], matched[r]>>
    <3>f. /\ worker[w].last_heartbeat \in Nat /\ worker'[w].last_heartbeat \in Nat
          /\ sweepNow[r] \in Nat /\ sweepNow[r] <= now
      BY <1>t, <2>t, MoveFields DEF Clock
    <3>1. CASE Beaten(w)
      <4>1. hbnow[w] \in Nat /\ now <= hbnow[w] + HeartbeatTimeout
        BY <3>1, <1>t, <2>t DEF Beaten, Clock
      <4> QED
        BY <3>1, <4>1, <3>f, <2>2, <1>t, TTLAssumption DEF Beaten
    <3>2. CASE Registered(w)
      BY <3>2, <3>f, <2>2, <1>t DEF Registered
    <3>3. CASE ~Beaten(w) /\ ~Registered(w)
      <4>1. /\ worker'[w].last_heartbeat = worker[w].last_heartbeat
            /\ worker[w].status \notin {"unregistered", "available"} =>
                 worker'[w].status \notin {"unregistered", "available"}
        <5>1. ASSUME NEW st \in {"draining", "shutting_down", "stalled", "deleted"},
                     worker'[w] = [worker[w] EXCEPT !.status = st]
              PROVE  /\ worker'[w].last_heartbeat = worker[w].last_heartbeat
                     /\ worker'[w].status = st
          BY <5>1, <2>t, MoveFields DEF WorkerStatus, Live
        <5>2. ASSUME NEW c \in Clients, NEW s \in Sessions, Counted(c, s, w)
              PROVE  /\ worker'[w].last_heartbeat = worker[w].last_heartbeat
                     /\ worker'[w].status = worker[w].status
          BY <5>2, <2>t, MoveFields
        <5>3. /\ \A to \in {"draining", "shutting_down"} : Set(w, to) =>
                   worker'[w] = [worker[w] EXCEPT !.status = to]
              /\ \A q \in Rescuers : Stalled(q, w) =>
                   worker'[w] = [worker[w] EXCEPT !.status = "stalled"]
              /\ \A q \in Rescuers : Deleted(q, w) =>
                   worker'[w] = [worker[w] EXCEPT !.status = "deleted"]
          BY DEF Set, Stalled, Deleted
        <5> QED
          BY <3>3, <5>1, <5>2, <5>3, <2>t, WorkerFrame DEF WorkerMove
      <4>2. worker[w].status \notin {"unregistered", "available"} =>
              ActiveOn(w)' \subseteq ActiveOn(w)
        <5>1. CASE \E c \in Clients, s \in Sessions : CommitClaim(c, s)
          <6> PICK c \in Clients, s \in Sessions : CommitClaim(c, s)
            BY <5>1
          <6>1. worker[target[c]].status = "available"
            BY DEF CommitClaim, LockInv, HoldersFit, Holding
          <6> QED
            BY <6>1, <2>t, Grow DEF DbInv
        <5>2. CASE ~\E c \in Clients, s \in Sessions : CommitClaim(c, s)
          BY <5>2, <2>t, SessionFrame, Shrink
        <5> QED
          BY <5>1, <5>2
      <4> QED
        BY <4>1, <4>2, <2>2 DEF SweepSafe
    <3> QED
      BY <3>1, <3>2, <3>3
  <2> QED
    BY <1>2, <2>1, <2>2
<1> QED
  BY <1>3, <1>4

\* The initial state satisfies the inductive invariant.
LEMMA InvInit == Init => IInv
<1> SUFFICES ASSUME Init PROVE IInv
  OBVIOUS
<1>1. Typed
  BY TypedInit
<1>2. ASSUME NEW w \in Workers PROVE ActiveOn(w) = {} /\ UsedBy(w) = {}
  BY WorkersAssumption DEF Init, ActiveOn, UsedBy, Active, NoWorker
<1>3. Cardinality({}) = 0
  BY FS_EmptySet
<1>4. DbInv
  <2>1. \A w \in Workers : /\ worker[w].status = "unregistered"
                            /\ worker[w].lifetime_sessions = 0
    BY DEF Init
  <2>2. CapacityInvariant
    BY <1>2, <1>3, SlotsAssumption DEF CapacityInvariant
  <2>3. LifetimeBound
    BY <1>2, <1>3, <2>1, BoundsAssumption DEF LifetimeBound
  <2>4. NoOrphan /\ Unused
    BY <1>2, <2>1 DEF Init, NoOrphan, Unused
  <2> QED
    BY <2>2, <2>3, <2>4 DEF DbInv
<1>5. LockInv
  <2>1. \A c \in Clients : pc[c] \notin Holding /\ pc[c] # "counted"
    BY DEF Init, Holding
  <2> QED
    BY <2>1 DEF LockInv, LockExclusive, HoldersFit
<1>6. TimeInv
  <2>1. /\ \A w \in Workers : hbpc[w] = "idle"
        /\ \A r \in Rescuers : sweep[r] = "idle" /\ sweepNow[r] = 0
        /\ now = 0
    BY DEF Init
  <2> QED
    BY <2>1 DEF TimeInv, Clock, SweepSafe
<1> QED
  BY <1>1, <1>4, <1>5, <1>6 DEF IInv

\* Every step keeps the inductive invariant.
LEMMA InvStep == ASSUME IInv, [Next]_vars PROVE IInv'
<1>1. Typed'
  BY TypedStep DEF IInv
<1> QED
  BY <1>1, DbStep, LockStep, TimeStep DEF IInv

\* The inductive invariant holds throughout.
LEMMA Invariance == Spec => []IInv
  BY InvInit, InvStep, PTL DEF Spec

\* No interleaving of claims, heartbeats, status requests and sweeps ever
\* gives a worker more active sessions than its slots.
THEOREM NeverOverbooked == Spec => []CapacityInvariant
<1>1. IInv => CapacityInvariant
  BY DEF IInv, DbInv
<1> QED
  BY <1>1, Invariance, PTL

\* The lifetime counter is exact and never passes the limit.
THEOREM LifetimeNeverPassed == Spec => []LifetimeBound
<1>1. IInv => LifetimeBound
  BY DEF IInv, DbInv
<1> QED
  BY <1>1, Invariance, PTL

\* The deletion sweep never removes a worker that holds an active session,
\* provided a heartbeat transaction is shorter than both TTLs.
THEOREM NeverOrphaned == Spec => []NoOrphan
<1>1. IInv => NoOrphan
  BY DEF IInv, DbInv
<1> QED
  BY <1>1, Invariance, PTL

-----------------------------------------------------------------------------
(* Action properties and the refinement of Capacity.                       *)

\* What the steps do to one worker, seen from outside.
LEMMA GateStep ==
    ASSUME IInv, IInv', [Next]_vars, NEW w \in Workers
    PROVE  /\ Abstract!GateMove(GateOf(worker[w].status), GateOf(worker'[w].status))
           /\ worker[w].status = "draining" =>
                worker'[w].status \in {"draining", "shutting_down", "deleted"}
           /\ worker[w].status = "shutting_down" =>
                worker'[w].status \in {"shutting_down", "deleted"}
           /\ worker[w].status = "deleted" => worker'[w].status = "deleted"
<1> DEFINE old == worker[w].status
           new == worker'[w].status
<1>t. Typed /\ Typed' /\ old \in WorkerStatus /\ new \in WorkerStatus
  BY DEF IInv, Typed, TypeOK, WorkerRow
<1>1. \/ old = new
      \/ old = "unregistered" /\ new = "available"
      \/ new = AfterHeartbeat(worker[w])
      \/ new \in {"draining", "shutting_down"} /\ old \in SettableFrom(new)
      \/ old = "available" /\ new = "stalled"
      \/ old \in {"shutting_down", "stalled", "draining"} /\ new = "deleted"
  <2>1. ASSUME NEW st \in {"draining", "shutting_down", "stalled", "deleted"},
               worker'[w] = [worker[w] EXCEPT !.status = st]
        PROVE  new = st
    BY <2>1, <1>t, MoveFields DEF WorkerStatus, Live
  <2>2. ASSUME NEW c \in Clients, NEW s \in Sessions, Counted(c, s, w) PROVE new = old
    BY <2>2, <1>t, MoveFields
  <2>3. CASE Registered(w) \/ Beaten(w)
    BY <2>3 DEF Registered, Beaten
  <2>4. ASSUME NEW to \in {"draining", "shutting_down"}, Set(w, to)
        PROVE  new = to /\ old \in SettableFrom(to)
    BY <2>1, <2>4 DEF Set
  <2>5. ASSUME NEW r \in Rescuers, Stalled(r, w) PROVE old = "available" /\ new = "stalled"
    BY <2>1, <2>5 DEF Stalled, Silent
  <2>6. ASSUME NEW r \in Rescuers, Deleted(r, w)
        PROVE  old \in {"shutting_down", "stalled", "draining"} /\ new = "deleted"
    BY <2>1, <2>6 DEF Deleted, Dead
  <2> QED
    BY <1>t, <2>2, <2>3, <2>4, <2>5, <2>6, WorkerFrame DEF WorkerMove
<1>2. AfterHeartbeat(worker[w]) = old \/ (AfterHeartbeat(worker[w]) \in {"available", "draining"}
                                          /\ old \in {"available", "stalled"})
  BY DEF AfterHeartbeat, Revived
<1> HIDE DEF old, new
<1>3. old \in SettableFrom(new) /\ new \in {"draining", "shutting_down"} =>
        /\ old \in Live
        /\ new = "draining" => old \in {"available", "draining"}
  BY DEF SettableFrom, Live
<1>4. /\ old = "draining" => new \in {"draining", "shutting_down", "deleted"}
      /\ old = "shutting_down" => new \in {"shutting_down", "deleted"}
      /\ old = "deleted" => new = "deleted"
  BY <1>1, <1>2, <1>3 DEF Live
<1>5. Abstract!GateMove(GateOf(old), GateOf(new))
  BY <1>t, <1>4 DEF Abstract!GateMove, GateOf, WorkerStatus, Live
<1> QED
  BY <1>4, <1>5 DEF old, new

\* What the steps do to the sessions of one worker.
LEMMA GrowthStep ==
    ASSUME IInv, [Next]_vars, NEW w \in Workers, worker[w].status # "available"
    PROVE  ActiveOn(w)' \subseteq ActiveOn(w)
<1>1. CASE \E c \in Clients, s \in Sessions : CommitClaim(c, s)
  <2> PICK c \in Clients, s \in Sessions : CommitClaim(c, s)
    BY <1>1
  <2>1. worker[target[c]].status = "available"
    BY DEF CommitClaim, IInv, LockInv, HoldersFit, Holding
  <2> QED
    BY <2>1, Grow DEF IInv, DbInv
<1>2. CASE ~\E c \in Clients, s \in Sessions : CommitClaim(c, s)
  BY <1>2, SessionFrame, Shrink DEF IInv
<1> QED
  BY <1>1, <1>2

\* A worker out of service gains no session, whatever a claim saw earlier.
THEOREM ClosedNeverGrows == Spec => OnlyAvailableGrows
<1>1. ASSUME IInv, [Next]_vars
      PROVE  [\A w \in Workers : worker[w].status # "available" =>
                                    ActiveOn(w)' \subseteq ActiveOn(w)]_vars
  BY <1>1, GrowthStep
<1> QED
  BY <1>1, Invariance, PTL DEF Spec, OnlyAvailableGrows

\* Drain and shutdown intent survive every heartbeat and every sweep.
THEOREM IntentNeverLost == Spec => IntentKept
<1>1. ASSUME IInv, IInv', [Next]_vars
      PROVE  [\A w \in Workers :
                /\ worker[w].status = "draining" =>
                     worker'[w].status \in {"draining", "shutting_down", "deleted"}
                /\ worker[w].status = "shutting_down" =>
                     worker'[w].status \in {"shutting_down", "deleted"}
                /\ worker[w].status = "deleted" => worker'[w].status = "deleted"]_vars
  BY <1>1, GateStep
<1> QED
  BY <1>1, Invariance, PTL DEF Spec, IntentKept

\* The first outcome of a session is its last: completion, failure,
\* termination and expiry may race, and only one of them takes effect.
THEOREM FirstOutcomeStands == Spec => OutcomeFinal
<1> DEFINE Final ==
      \A s \in Sessions :
         /\ session[s].status \in Terminal => session'[s] = session[s]
         /\ session[s].status \in Active =>
              /\ session'[s].worker = session[s].worker
              /\ session'[s].status \notin {"none"}
              /\ session[s].status = "running" => session'[s].status # "pending"
<1>1. ASSUME IInv, [Next]_vars PROVE Final
  <2>1. CASE \E c \in Clients, s \in Sessions : CommitClaim(c, s)
    <3> PICK c \in Clients, s \in Sessions : CommitClaim(c, s)
      BY <2>1
    <3>1. /\ session[s].status = "none"
          /\ \A x \in Sessions \ {s} : session'[x] = session[x]
      BY <1>1 DEF CommitClaim, IInv, Typed, TypeOK
    <3> QED
      BY <3>1 DEF Active, Terminal
  <2>2. CASE ~\E c \in Clients, s \in Sessions : CommitClaim(c, s)
    BY <1>1, <2>2, SessionFrame DEF IInv, Active
  <2> QED
    BY <2>1, <2>2
<1> QED
  BY <1>1, Invariance, PTL DEF Spec, OutcomeFinal

\* The tables and their transactions implement Capacity.
THEOREM SchedulerImplementsCapacity == Spec => ImplementsCapacity
<1>1. Init => Abstract!Init
  <2> SUFFICES ASSUME Init PROVE Abstract!Init
    OBVIOUS
  <2>1. ASSUME NEW w \in Workers
        PROVE ActiveOn(w) = {} /\ UsedBy(w) = {} /\ GateOf(worker[w].status) = "closed"
    BY WorkersAssumption DEF Init, ActiveOn, UsedBy, Active, NoWorker, GateOf
  <2> QED
    BY <2>1 DEF Abstract!Init
<1>2. ASSUME IInv, IInv', [Next]_vars PROVE [Abstract!Next]_(Abstract!vars)
  <2>1. CASE \E c \in Clients, s \in Sessions : CommitClaim(c, s)
    <3> PICK c \in Clients, s \in Sessions : CommitClaim(c, s)
      BY <2>1
    <3>1. /\ target[c] \in Workers /\ worker[target[c]].status = "available"
          /\ UnderLifetime(worker[target[c]]) /\ HasSlot(target[c])
      BY <1>2 DEF CommitClaim, IInv, Typed, LockInv, HoldersFit, Holding
    <3>2. /\ \A w \in Workers : ActiveOn(w)' = IF w = target[c] THEN ActiveOn(w) \cup {s}
                                                              ELSE ActiveOn(w)
          /\ \A w \in Workers : UsedBy(w)' = IF w = target[c] THEN UsedBy(w) \cup {s}
                                                            ELSE UsedBy(w)
          /\ \A w \in Workers : s \notin UsedBy(w)
      BY <1>2, <3>1, Grow DEF IInv, DbInv
    <3>3. \A w \in Workers : worker'[w].status = worker[w].status
      BY <1>2, <3>1 DEF CommitClaim, IInv, Typed, TypeOK, WorkerRow
    <3>4. MaxLifetime = 0 \/ Cardinality(UsedBy(target[c])) < MaxLifetime
      BY <1>2, <3>1 DEF UnderLifetime, IInv, DbInv, LifetimeBound
    <3>5. Abstract!Admit(target[c], s)
      <4>1. GateOf(worker[target[c]].status) = "open"
        BY <3>1 DEF GateOf
      <4>2. [w \in Workers |-> ActiveOn(w)]' =
              [[w \in Workers |-> ActiveOn(w)] EXCEPT ![target[c]] = @ \cup {s}]
        BY <3>2
      <4>3. [w \in Workers |-> UsedBy(w)]' =
              [[w \in Workers |-> UsedBy(w)] EXCEPT ![target[c]] = @ \cup {s}]
        BY <3>2
      <4>4. [w \in Workers |-> GateOf(worker[w].status)]' =
              [w \in Workers |-> GateOf(worker[w].status)]
        BY <3>3
      <4>5. Cardinality(ActiveOn(target[c])) < MaxSlots[target[c]]
        BY <3>1 DEF HasSlot
      <4>6. \A S : Abstract!Cardinality(S) = Cardinality(S)
        BY DEF Abstract!Cardinality, Cardinality
      <4> QED
        BY <3>1, <3>2, <3>4, <4>1, <4>2, <4>3, <4>4, <4>5, <4>6 DEF Abstract!Admit
    <3> QED
      BY <3>1, <3>5 DEF Abstract!Next
  <2>2. CASE ~\E c \in Clients, s \in Sessions : CommitClaim(c, s)
    <3>1. ASSUME NEW w \in Workers
          PROVE  /\ ActiveOn(w)' \subseteq ActiveOn(w) /\ UsedBy(w)' = UsedBy(w)
                 /\ ActiveOn(w)' \in SUBSET Sessions
      <4>1. ActiveOn(w)' \in SUBSET Sessions
        BY DEF ActiveOn
      <4> QED
        BY <1>2, <2>2, <4>1, SessionFrame, Shrink DEF IInv
    <3>2. ASSUME NEW w \in Workers
          PROVE  /\ Abstract!GateMove(GateOf(worker[w].status), GateOf(worker'[w].status))
                 /\ GateOf(worker'[w].status) \in Abstract!Gates
                 /\ GateOf(worker'[w].status) = "gone" => ActiveOn(w)' = {}
      <4>1. worker'[w].status \in WorkerStatus
        BY <1>2 DEF IInv, Typed, TypeOK, WorkerRow
      <4>2. GateOf(worker'[w].status) = "gone" => worker'[w].status = "deleted"
        BY <4>1 DEF GateOf, WorkerStatus, Live
      <4>3. GateOf(worker'[w].status) \in Abstract!Gates
        BY <4>1 DEF GateOf, WorkerStatus, Live, Abstract!Gates
      <4>4. worker'[w].status = "deleted" => ActiveOn(w)' = {}
        BY <1>2 DEF IInv, DbInv, NoOrphan
      <4>5. Abstract!GateMove(GateOf(worker[w].status), GateOf(worker'[w].status))
        BY <1>2, GateStep
      <4> QED
        BY <4>2, <4>3, <4>4, <4>5
    <3>3. Abstract!Withdraw
      BY <3>1, <3>2 DEF Abstract!Withdraw
    <3> QED
      BY <3>3 DEF Abstract!Next
  <2> QED
    BY <2>1, <2>2
<1> QED
  BY <1>1, <1>2, Invariance, PTL DEF Spec, ImplementsCapacity, Abstract!Spec

-----------------------------------------------------------------------------
(* Sums over finite sets. Induction is by a minimal counterexample.        *)

\* A non-empty set of subsets of a finite set has a minimal member: what a
\* proof by induction over finite sets comes down to.
LEMMA MinimalSubset ==
    ASSUME NEW S, IsFiniteSet(S), NEW T \in SUBSET SUBSET S, T # {}
    PROVE  \E m \in T : IsFiniteSet(m) /\ \A x \in m : m \ {x} \notin T
<1>1. IsWellFoundedOn(StrictSubsetOrdering(S), FiniteSubsetsOf(S))
  BY FS_StrictSubsetOrderingWellFounded
<1>2. T \subseteq FiniteSubsetsOf(S)
  BY FS_FiniteSubsetsOfFinite
<1>3. PICK m \in T : \A y \in T : ~(<<y, m>> \in StrictSubsetOrdering(S))
  BY <1>1, <1>2, WFMin
<1>4. \A x \in m : m \ {x} \notin T
  BY <1>3 DEF StrictSubsetOrdering
<1>q. QED
  BY <1>2, <1>3, <1>4 DEF FiniteSubsetsOf

\* F[x] units for each x of S.
Units(F, S) == {p \in S \X Nat : p[2] \in 1..F[p[1]]}

\* No elements, no units.
LEMMA UnitsEmpty == \A F : Units(F, {}) = {}
BY DEF Units

\* An element takes its own units with it.
LEMMA UnitsRemove ==
    ASSUME NEW D, NEW F \in [D -> Nat], NEW S \in SUBSET D, NEW x \in S,
           IsFiniteSet(Units(F, S \ {x}))
    PROVE  /\ IsFiniteSet(Units(F, S))
           /\ Cardinality(Units(F, S)) = F[x] + Cardinality(Units(F, S \ {x}))
<1> DEFINE rest == Units(F, S \ {x})
           mine == {x} \X (1..F[x])
<1>1. F[x] \in Nat
  OBVIOUS
<1>2. Units(F, S) = rest \cup mine /\ rest \cap mine = {}
  BY <1>1 DEF Units
<1>3. IsFiniteSet(1..F[x]) /\ Cardinality(1..F[x]) = F[x]
  BY <1>1, FS_Interval
<1>4. IsFiniteSet({x}) /\ Cardinality({x}) = 1
  BY FS_Singleton
<1>5. IsFiniteSet(mine) /\ Cardinality(mine) = 1 * F[x]
  BY <1>3, <1>4, FS_Product
<1>6. /\ IsFiniteSet(rest \cup mine)
      /\ Cardinality(rest \cup mine)
           = Cardinality(rest) + Cardinality(mine) - Cardinality(rest \cap mine)
  BY <1>5, FS_Union
<1>7. Cardinality(rest) \in Nat /\ Cardinality({}) = 0
  BY FS_CardinalityType, FS_EmptySet
<1> HIDE DEF rest, mine
<1>8. Cardinality(rest \cap mine) = 0
  BY <1>2, <1>7
<1>9. Cardinality(rest \cup mine) = F[x] + Cardinality(rest)
  BY <1>1, <1>5, <1>6, <1>7, <1>8
<1>q. QED
  BY <1>2, <1>6, <1>9 DEF rest

\* There are finitely many units.
LEMMA UnitsFinite ==
    ASSUME NEW D, NEW F \in [D -> Nat], NEW S \in SUBSET D, IsFiniteSet(S)
    PROVE  IsFiniteSet(Units(F, S))
<1> DEFINE bad == {B \in SUBSET S : ~IsFiniteSet(Units(F, B))}
<1>1. SUFFICES bad = {}
  OBVIOUS
<1>2. SUFFICES ASSUME bad # {} PROVE FALSE
  OBVIOUS
<1>3. PICK m \in bad : \A x \in m : m \ {x} \notin bad
  BY <1>2, MinimalSubset
<1>4. m # {}
  BY <1>3, UnitsEmpty, FS_EmptySet
<1>5. PICK x \in m : TRUE
  BY <1>4
<1>6. IsFiniteSet(Units(F, m \ {x}))
  BY <1>3, <1>5
<1>q. QED
  BY <1>3, <1>5, <1>6, UnitsRemove

\* The equation that defines the sum.
SumsUp(g, F, S) ==
    g = [s \in SUBSET S |->
            IF s = {} THEN 0
            ELSE F[CHOOSE x \in s : TRUE] + g[s \ {CHOOSE x \in s : TRUE}]]

\* SumFunctionOnSet is the function chosen to satisfy it.
LEMMA SumDef ==
    ASSUME NEW F, NEW S
    PROVE  SumFunctionOnSet(F, S) = (CHOOSE g : SumsUp(g, F, S))[S]
BY DEF SumFunctionOnSet, FoldFunctionOnSet, MapThenFoldSet, SumsUp

\* The sum counts the units: such a function exists, and there is only one.
LEMMA SumCounts ==
    ASSUME NEW D, NEW F \in [D -> Nat], NEW S \in SUBSET D, IsFiniteSet(S)
    PROVE  SumFunctionOnSet(F, S) = Cardinality(Units(F, S))
<1> DEFINE h == [s \in SUBSET S |-> Cardinality(Units(F, s))]
           g == CHOOSE f : SumsUp(f, F, S)
<1>1. ASSUME NEW s \in SUBSET S, s # {}, NEW x \in s
      PROVE  h[s] = F[x] + h[s \ {x}]
  <2>1. IsFiniteSet(s \ {x}) /\ s \ {x} \in SUBSET S
    BY FS_Subset
  <2>2. IsFiniteSet(Units(F, s \ {x}))
    BY <2>1, UnitsFinite
  <2>q. QED
    BY <1>1, <2>1, <2>2, UnitsRemove
<1>2. h[{}] = 0
  BY UnitsEmpty, FS_EmptySet
<1>3. SumsUp(h, F, S)
  <2>1. \A s \in SUBSET S :
          h[s] = IF s = {} THEN 0
                 ELSE F[CHOOSE x \in s : TRUE] + h[s \ {CHOOSE x \in s : TRUE}]
    <3> SUFFICES ASSUME NEW s \in SUBSET S, s # {}
                 PROVE  h[s] = F[CHOOSE x \in s : TRUE] + h[s \ {CHOOSE x \in s : TRUE}]
      BY <1>2
    <3>1. (CHOOSE x \in s : TRUE) \in s
      OBVIOUS
    <3> HIDE DEF h
    <3>q. QED
      BY <1>1, <3>1
  <2>2. h = [s \in SUBSET S |-> h[s]]
    OBVIOUS
  <2> HIDE DEF h
  <2>q. QED
    BY <2>1, <2>2 DEF SumsUp
<1> HIDE DEF h
<1>4. SumsUp(g, F, S)
  BY <1>3
<1> HIDE DEF g
<1>5. \A s \in SUBSET S : s # {} =>
        \E x \in s : g[s] = F[x] + g[s \ {x}]
  <2> SUFFICES ASSUME NEW s \in SUBSET S, s # {}
               PROVE  \E x \in s : g[s] = F[x] + g[s \ {x}]
    OBVIOUS
  <2>1. (CHOOSE x \in s : TRUE) \in s
    OBVIOUS
  <2>2. g[s] = F[CHOOSE x \in s : TRUE] + g[s \ {CHOOSE x \in s : TRUE}]
    BY <1>4 DEF SumsUp
  <2>q. QED
    BY <2>1, <2>2
<1>6. g[{}] = 0
  BY <1>4 DEF SumsUp
<1> DEFINE bad == {s \in SUBSET S : g[s] # h[s]}
<1>7. bad = {}
  <2> SUFFICES ASSUME bad # {} PROVE FALSE
    OBVIOUS
  <2>1. PICK m \in bad : \A x \in m : m \ {x} \notin bad
    BY MinimalSubset
  <2>2. m # {}
    BY <1>2, <1>6, <2>1
  <2>3. PICK x \in m : g[m] = F[x] + g[m \ {x}]
    BY <1>5, <2>1, <2>2
  <2>4. g[m \ {x}] = h[m \ {x}]
    BY <2>1, <2>3
  <2>q. QED
    BY <1>1, <2>1, <2>2, <2>3, <2>4
<1>8. h[S] = Cardinality(Units(F, S))
  BY DEF h
<1>9. g[S] = h[S]
  BY <1>7
<1>q. QED
  BY <1>8, <1>9, SumDef DEF g
\* What the proofs below need of a sum of naturals over a finite set.
LEMMA SumProperties ==
    ASSUME NEW D, NEW F \in [D -> Nat], NEW S \in SUBSET D, IsFiniteSet(S)
    PROVE  /\ SumFunctionOnSet(F, S) \in Nat
           /\ SumFunctionOnSet(F, S) > 0 <=> \E x \in S : F[x] > 0
           /\ \A x \in S : SumFunctionOnSet(F, S) = F[x] + SumFunctionOnSet(F, S \ {x})
<1>1. /\ IsFiniteSet(Units(F, S))
      /\ SumFunctionOnSet(F, S) = Cardinality(Units(F, S))
  BY UnitsFinite, SumCounts
<1>2. Cardinality(Units(F, S)) \in Nat
  BY <1>1, FS_CardinalityType
<1>3. Cardinality(Units(F, S)) > 0 <=> \E x \in S : F[x] > 0
  <2>1. Units(F, S) # {} <=> \E x \in S : F[x] > 0
    <3>1. ASSUME NEW x \in S, F[x] > 0 PROVE <<x, 1>> \in Units(F, S)
      BY <3>1 DEF Units
    <3>2. ASSUME NEW p \in Units(F, S) PROVE p[1] \in S /\ F[p[1]] > 0
      BY <3>2 DEF Units
    <3>q. QED
      BY <3>1, <3>2
  <2>q. QED
    BY <1>1, <1>2, <2>1, FS_EmptySet
<1>4. ASSUME NEW x \in S
      PROVE  SumFunctionOnSet(F, S) = F[x] + SumFunctionOnSet(F, S \ {x})
  <2>1. IsFiniteSet(S \ {x}) /\ S \ {x} \in SUBSET D
    BY FS_Subset
  <2>2. /\ IsFiniteSet(Units(F, S \ {x}))
        /\ SumFunctionOnSet(F, S \ {x}) = Cardinality(Units(F, S \ {x}))
    BY <2>1, UnitsFinite, SumCounts
  <2>q. QED
    BY <1>1, <2>2, UnitsRemove
<1>q. QED
  BY <1>1, <1>2, <1>3, <1>4

\* The empty sum.
LEMMA SumEmpty == ASSUME NEW D, NEW F \in [D -> Nat] PROVE SumFunctionOnSet(F, {}) = 0
BY SumCounts, UnitsEmpty, FS_EmptySet

\* Sums subtract.
LEMMA SumDifference ==
    ASSUME NEW D, NEW F \in [D -> Nat], NEW G \in [D -> Nat], NEW H \in [D -> Nat],
           NEW S \in SUBSET D, IsFiniteSet(S), \A x \in S : F[x] = G[x] - H[x]
    PROVE  SumFunctionOnSet(F, S) = SumFunctionOnSet(G, S) - SumFunctionOnSet(H, S)
<1> DEFINE bad == {B \in SUBSET S :
                     SumFunctionOnSet(F, B) # SumFunctionOnSet(G, B) - SumFunctionOnSet(H, B)}
<1> SUFFICES ASSUME bad # {} PROVE FALSE
  OBVIOUS
<1>1. PICK m \in bad : IsFiniteSet(m) /\ \A x \in m : m \ {x} \notin bad
  BY MinimalSubset
<1>2. m # {}
  <2>1. /\ SumFunctionOnSet(F, {}) = 0
        /\ SumFunctionOnSet(G, {}) = 0
        /\ SumFunctionOnSet(H, {}) = 0
    BY SumEmpty
  <2>q. QED
    BY <1>1, <2>1
<1>3. PICK x \in m : TRUE
  BY <1>2
<1>4. /\ SumFunctionOnSet(F, m) = F[x] + SumFunctionOnSet(F, m \ {x})
      /\ SumFunctionOnSet(G, m) = G[x] + SumFunctionOnSet(G, m \ {x})
      /\ SumFunctionOnSet(H, m) = H[x] + SumFunctionOnSet(H, m \ {x})
  <2>1. m \in SUBSET D
    BY <1>1
  <2>q. QED
    BY <1>1, <1>3, <2>1, SumProperties
<1>5. SumFunctionOnSet(F, m \ {x}) = SumFunctionOnSet(G, m \ {x}) - SumFunctionOnSet(H, m \ {x})
  BY <1>1, <1>3
<1>6. IsFiniteSet(m \ {x}) /\ m \ {x} \in SUBSET D
  BY <1>1, FS_Subset
<1>7. /\ SumFunctionOnSet(G, m \ {x}) \in Nat
      /\ SumFunctionOnSet(H, m \ {x}) \in Nat
  BY <1>6, SumProperties
<1>8. x \in S /\ F[x] \in Nat /\ G[x] \in Nat /\ H[x] \in Nat
  BY <1>1, <1>3
<1>q. QED
  BY <1>1, <1>4, <1>5, <1>7, <1>8

\* The sizes of disjoint parts add up to the size of the whole.
LEMMA SumOfParts ==
    ASSUME NEW D, NEW U, IsFiniteSet(U), NEW A \in [D -> SUBSET U],
           NEW S \in SUBSET D, IsFiniteSet(S),
           \A x, y \in D : x # y => A[x] \cap A[y] = {},
           NEW F, F = [x \in D |-> Cardinality(A[x])]
    PROVE  SumFunctionOnSet(F, S) = Cardinality(UNION {A[x] : x \in S})
<1> DEFINE All(B) == UNION {A[x] : x \in B}
           bad == {B \in SUBSET S : SumFunctionOnSet(F, B) # Cardinality(All(B))}
<1>0. \A x \in D : IsFiniteSet(A[x]) /\ Cardinality(A[x]) \in Nat
  BY FS_Subset, FS_CardinalityType
<1>1. F \in [D -> Nat]
  BY <1>0
<1> SUFFICES ASSUME bad # {} PROVE FALSE
  OBVIOUS
<1>2. PICK m \in bad : IsFiniteSet(m) /\ \A x \in m : m \ {x} \notin bad
  BY MinimalSubset
<1>3. m # {}
  <2>1. All({}) = {}
    OBVIOUS
  <2>2. SumFunctionOnSet(F, {}) = 0
    BY <1>1, SumEmpty
  <2>q. QED
    BY <1>2, <2>1, <2>2, FS_EmptySet
<1>4. PICK x \in m : TRUE
  BY <1>3
<1>5. F[x] = Cardinality(A[x]) /\ x \in D
  BY <1>2, <1>4
<1>6. SumFunctionOnSet(F, m) = F[x] + SumFunctionOnSet(F, m \ {x})
  BY <1>1, <1>2, <1>4, SumProperties
<1>7. SumFunctionOnSet(F, m \ {x}) = Cardinality(All(m \ {x}))
  BY <1>2, <1>4
<1>8. /\ All(m) = A[x] \cup All(m \ {x})
      /\ A[x] \cap All(m \ {x}) = {}
  BY <1>2, <1>4
<1>9. IsFiniteSet(All(m \ {x})) /\ Cardinality(All(m \ {x})) \in Nat
  <2>1. All(m \ {x}) \in SUBSET U
    BY <1>2
  <2>q. QED
    BY <2>1, FS_Subset, FS_CardinalityType
<1> HIDE DEF All
<1>10. Cardinality(All(m)) = Cardinality(A[x]) + Cardinality(All(m \ {x})) - Cardinality({})
  <2>1. IsFiniteSet(A[x])
    BY <1>0, <1>5
  <2>2. Cardinality(A[x] \cup All(m \ {x}))
          = Cardinality(A[x]) + Cardinality(All(m \ {x})) - Cardinality(A[x] \cap All(m \ {x}))
    BY <1>9, <2>1, FS_Union
  <2>q. QED
    BY <1>8, <2>2
<1>11. Cardinality(All(m)) = SumFunctionOnSet(F, m)
  BY <1>0, <1>5, <1>6, <1>7, <1>9, <1>10, FS_EmptySet
<1>q. QED
  BY <1>2, <1>11

-----------------------------------------------------------------------------
(* The capacity report.                                                    *)

\* GREATEST of two numbers.
LEMMA MaxOfTwo ==
    ASSUME NEW a \in Int
    PROVE  Max({a, 0}) = IF a > 0 THEN a ELSE 0
BY DEF Max

\* The sessions of a worker are finitely many, of different workers disjoint.
LEMMA ActiveSets ==
    /\ \A w \in Workers : /\ ActiveOn(w) \in SUBSET Sessions
                          /\ IsFiniteSet(ActiveOn(w))
                          /\ Cardinality(ActiveOn(w)) \in Nat
    /\ \A v, w \in Workers : v # w => ActiveOn(v) \cap ActiveOn(w) = {}
<1>1. \A w \in Workers : ActiveOn(w) \in SUBSET Sessions
  BY DEF ActiveOn
<1>2. \A v, w \in Workers : v # w => ActiveOn(v) \cap ActiveOn(w) = {}
  BY DEF ActiveOn
<1>q. QED
  BY <1>1, <1>2, SessionSets

\* Without overbooking GREATEST has nothing to hide.
LEMMA FreeSlotsExact ==
    ASSUME CapacityInvariant
    PROVE  \A w \in Workers :
             /\ MaxSlots[w] \in Nat
             /\ FreeSlots(w) \in Nat
             /\ FreeSlots(w) = MaxSlots[w] - Cardinality(ActiveOn(w))
             /\ FreeSlots(w) > 0 <=> HasSlot(w)
<1> SUFFICES ASSUME NEW w \in Workers
             PROVE  /\ MaxSlots[w] \in Nat
                    /\ FreeSlots(w) \in Nat
                    /\ FreeSlots(w) = MaxSlots[w] - Cardinality(ActiveOn(w))
                    /\ FreeSlots(w) > 0 <=> HasSlot(w)
  OBVIOUS
<1>1. MaxSlots[w] \in Nat /\ Cardinality(ActiveOn(w)) \in Nat
  BY SlotsAssumption, ActiveSets
<1>2. Cardinality(ActiveOn(w)) <= MaxSlots[w]
  BY DEF CapacityInvariant
<1>3. FreeSlots(w) = IF MaxSlots[w] - Cardinality(ActiveOn(w)) > 0
                     THEN MaxSlots[w] - Cardinality(ActiveOn(w)) ELSE 0
  BY <1>1, MaxOfTwo DEF FreeSlots
<1>q. QED
  BY <1>1, <1>2, <1>3 DEF HasSlot

\* The row of one browser.
LEMMA BrowserRow ==
    ASSUME CapacityInvariant, NEW b \in Browsers
    PROVE  LET report == GetCapacityByBrowser(b)
               onEligible == UNION {ActiveOn(w) : w \in {v \in WorkersOf(b) : Eligible(v)}}
           IN  /\ report.available_slots > 0 <=>
                    \E w \in WorkersOf(b) : Claimable(worker[w], now) /\ HasSlot(w)
               /\ report.available_slots = report.max_slots - Cardinality(onEligible)
<1> DEFINE eligible == {w \in WorkersOf(b) : Eligible(w)}
           Free == [w \in Workers |-> FreeSlots(w)]
           On == [w \in Workers |-> ActiveOn(w)]
           Count == [w \in Workers |-> Cardinality(On[w])]
<1>1. eligible \in SUBSET Workers /\ IsFiniteSet(eligible)
  <2>1. eligible \in SUBSET Workers
    BY DEF WorkersOf
  <2>q. QED
    BY <2>1, WorkersAssumption, FS_Subset
<1>2. /\ GetCapacityByBrowser(b).available_slots = SumFunctionOnSet(Free, eligible)
      /\ GetCapacityByBrowser(b).max_slots = SumFunctionOnSet(MaxSlots, eligible)
  BY DEF GetCapacityByBrowser
<1>3. /\ Free \in [Workers -> Nat]
      /\ MaxSlots \in [Workers -> Nat]
      /\ Count \in [Workers -> Nat]
      /\ On \in [Workers -> SUBSET Sessions]
  BY FreeSlotsExact, ActiveSets, SlotsAssumption
<1>4. \A w \in Workers : Free[w] = MaxSlots[w] - Count[w]
  BY FreeSlotsExact
<1>5. \A v, w \in Workers : v # w => On[v] \cap On[w] = {}
  BY ActiveSets
<1>6. \A w \in eligible : Free[w] > 0 <=> HasSlot(w)
  BY <1>1, FreeSlotsExact
<1>7. \A w \in WorkersOf(b) : Eligible(w) <=> Claimable(worker[w], now)
  BY DEF Eligible, Claimable, UnderLifetime
<1>8. UNION {On[w] : w \in eligible} = UNION {ActiveOn(w) : w \in eligible}
  BY <1>1
<1>9. SumFunctionOnSet(Count, eligible) = Cardinality(UNION {On[w] : w \in eligible})
  <2>1. Count = [w \in Workers |-> Cardinality(On[w])]
    OBVIOUS
  <2> HIDE DEF On, Count, eligible
  <2>q. QED
    BY <1>1, <1>3, <1>5, <2>1, SessionsAssumption, SumOfParts
<1> HIDE DEF Free, Count, On
<1>10. SumFunctionOnSet(Free, eligible)
         = SumFunctionOnSet(MaxSlots, eligible) - SumFunctionOnSet(Count, eligible)
  <2> HIDE DEF eligible
  <2>q. QED
    BY <1>1, <1>3, <1>4, SumDifference
<1>11. SumFunctionOnSet(Free, eligible) > 0 <=> \E w \in eligible : Free[w] > 0
  <2> HIDE DEF eligible
  <2>q. QED
    BY <1>1, <1>3, SumProperties
<1>12. (\E w \in eligible : Free[w] > 0) <=>
         \E w \in WorkersOf(b) : Claimable(worker[w], now) /\ HasSlot(w)
  BY <1>6, <1>7
<1>q. QED
  BY <1>2, <1>8, <1>9, <1>10, <1>11, <1>12

\* An active session is on a worker.
Placed == \A s \in Sessions : session[s].status \in Active => session[s].worker \in Workers

\* No transition takes a session off its worker.
LEMMA PlacedAlways == Spec => []Placed
<1>1. Init => Placed
  BY DEF Init, Placed, Active
<1>2. ASSUME IInv, Placed, [Next]_vars PROVE Placed'
  <2>1. CASE \E c \in Clients, s \in Sessions : CommitClaim(c, s)
    <3> PICK c \in Clients, s \in Sessions : CommitClaim(c, s)
      BY <2>1
    <3>1. target[c] \in Workers
      BY <1>2 DEF CommitClaim, Holding, IInv, Typed
    <3>2. \A x \in Sessions : session'[x] = IF x = s
                 THEN [status |-> "pending", worker |-> target[c]] ELSE session[x]
      BY <1>2 DEF CommitClaim, IInv, Typed, TypeOK
    <3>q. QED
      BY <1>2, <3>1, <3>2 DEF Placed
  <2>2. CASE ~\E c \in Clients, s \in Sessions : CommitClaim(c, s)
    BY <1>2, <2>2, SessionFrame DEF IInv, Placed
  <2>q. QED
    BY <2>1, <2>2
<1>q. QED
  BY <1>1, <1>2, Invariance, PTL DEF Spec

\* The totals count every active session once.
LEMMA TotalSessions ==
    ASSUME Placed
    PROVE  Total("active_sessions") =
             Cardinality({s \in Sessions : session[s].status \in Active})
<1> DEFINE Of == [b \in Browsers |-> UNION {ActiveOn(w) : w \in WorkersOf(b)}]
           Count == [b \in Browsers |-> Cardinality(Of[b])]
<1>1. Of \in [Browsers -> SUBSET Sessions]
  BY DEF ActiveOn
<1>2. \A a, b \in Browsers : a # b => Of[a] \cap Of[b] = {}
  BY DEF ActiveOn, WorkersOf
<1>3. UNION {Of[b] : b \in Browsers} = {s \in Sessions : session[s].status \in Active}
  <2>1. ASSUME NEW s \in Sessions, session[s].status \in Active
        PROVE  \E b \in Browsers : s \in Of[b]
    <3>1. session[s].worker \in Workers
      BY <2>1 DEF Placed
    <3>2. BrowserOf[session[s].worker] \in Browsers
      BY <3>1, BrowserAssumption
    <3>q. QED
      BY <2>1, <3>1, <3>2 DEF ActiveOn, WorkersOf
  <2>2. ASSUME NEW b \in Browsers, NEW s \in Of[b]
        PROVE  s \in Sessions /\ session[s].status \in Active
    BY DEF ActiveOn
  <2> HIDE DEF Of
  <2>q. QED
    BY <2>1, <2>2
<1>4. Total("active_sessions") = SumFunctionOnSet(Count, Browsers)
  BY DEF Total, SumFunction, GetCapacityByBrowser
<1>5. SumFunctionOnSet(Count, Browsers) = Cardinality(UNION {Of[b] : b \in Browsers})
  <2>1. Count = [b \in Browsers |-> Cardinality(Of[b])]
    OBVIOUS
  <2>2. Browsers \in SUBSET Browsers /\ IsFiniteSet(Browsers)
    BY BrowserAssumption
  <2> HIDE DEF Of, Count
  <2>q. QED
    BY <1>1, <1>2, <2>1, <2>2, SessionsAssumption, SumOfParts
<1>q. QED
  BY <1>3, <1>4, <1>5

\* GET /capacity tells the truth at every moment, for any fleet: it reports
\* free slots exactly when a claim would find one, and miscounts no session.
THEOREM CapacityAlwaysHonest == Spec => []CapacityHonest
<1>1. ASSUME IInv, Placed PROVE CapacityHonest
  BY <1>1, BrowserRow, TotalSessions DEF IInv, DbInv, CapacityHonest
<1>q. QED
  BY <1>1, Invariance, PlacedAlways, PTL

-----------------------------------------------------------------------------
(* The claim's ORDER BY.                                                   *)

\* What the ORDER BY compares are numbers.
LEMMA RankKeys ==
    ASSUME Typed
    PROVE  \A w \in Workers : /\ w \in Nat
                              /\ worker[w].lifetime_sessions \in Nat
                              /\ Cardinality(ActiveOn(w)) \in Nat
<1>1. \A w \in Workers : worker[w].lifetime_sessions \in Nat
  BY DEF Typed, TypeOK, WorkerRow
<1>q. QED
  BY <1>1, ActiveSets, WorkersAssumption

\* It puts any two workers in one order and not in the other.
LEMMA BeforeIsTotal ==
    ASSUME Typed
    PROVE  /\ \A v, w \in Workers : v # w => Before(v, w) \/ Before(w, v)
           /\ \A v, w \in Workers : ~(Before(v, w) /\ Before(w, v))
           /\ \A u, v, w \in Workers : Before(u, v) /\ Before(v, w) => Before(u, w)
  BY RankKeys DEF Before

\* The worker of m that the ORDER BY puts last.
IsLast(x, m) == x \in m /\ \A v \in m \ {x} : Before(v, x)

\* Some worker comes last.
LEMMA LastExists ==
    ASSUME Typed, NEW E \in SUBSET Workers, E # {}
    PROVE  \E x \in E : IsLast(x, E)
<1> DEFINE bad == {B \in SUBSET Workers : B # {} /\ ~\E x \in B : IsLast(x, B)}
<1> SUFFICES ASSUME bad # {} PROVE FALSE
  OBVIOUS
<1>1. PICK m \in bad : \A x \in m : m \ {x} \notin bad
  BY WorkersAssumption, MinimalSubset
<1>2. PICK x \in m : TRUE
  BY <1>1
<1>3. CASE m \ {x} = {}
  BY <1>1, <1>2, <1>3 DEF IsLast
<1>4. CASE m \ {x} # {}
  <2>1. PICK y \in m \ {x} : IsLast(y, m \ {x})
    BY <1>1, <1>4
  <2>2. x \in Workers /\ y \in Workers /\ m \subseteq Workers
    BY <1>1, <1>2, <2>1
  <2>3. CASE Before(x, y)
    BY <1>1, <2>1, <2>3 DEF IsLast
  <2>4. CASE Before(y, x)
    <3>1. \A v \in m \ {x} : Before(v, x)
      BY <2>1, <2>2, <2>4, BeforeIsTotal DEF IsLast
    <3>q. QED
      BY <1>1, <1>2, <3>1 DEF IsLast
  <2>q. QED
    BY <2>1, <2>2, <2>3, <2>4, BeforeIsTotal
<1>q. QED
  BY <1>3, <1>4

\* One worker less, one place less.
LEMMA OneLess ==
    ASSUME NEW E \in SUBSET Workers, NEW x \in E
    PROVE  /\ IsFiniteSet(E) /\ Cardinality(E) \in Nat \ {0}
           /\ IsFiniteSet(E \ {x}) /\ Cardinality(E \ {x}) = Cardinality(E) - 1
<1>1. IsFiniteSet(E)
  BY WorkersAssumption, FS_Subset
<1>2. IsFiniteSet(E \ {x}) /\ Cardinality(E \ {x}) = Cardinality(E) - 1
  BY <1>1, FS_RemoveElement
<1>3. Cardinality(E) \in Nat /\ Cardinality(E \ {x}) \in Nat
  BY <1>1, <1>2, FS_CardinalityType
<1>q. QED
  BY <1>1, <1>2, <1>3

\* A ranking without its last place ranks the workers without the last one.
LEMMA RankedCut ==
    ASSUME Typed, NEW E \in SUBSET Workers, NEW x \in E, IsLast(x, E),
           NEW q \in Ranked(E)
    PROVE  LET n == Cardinality(E)
           IN  /\ q[n] = x
               /\ [i \in 1..n-1 |-> q[i]] \in Ranked(E \ {x})
<1> DEFINE n == Cardinality(E)
<1>1. /\ IsFiniteSet(E) /\ n \in Nat /\ n > 0
      /\ IsFiniteSet(E \ {x}) /\ Cardinality(E \ {x}) = n - 1
  BY OneLess
<1>2. IsFiniteSet(1..n) /\ Cardinality(1..n) = n
  BY <1>1, FS_Interval
<1> HIDE DEF n
<1>3. /\ q \in [1..n -> E]
      /\ \A i, j \in 1..n : i < j => Before(q[i], q[j])
  BY DEF Ranked, n
<1>4. \A i, j \in 1..n : i # j => q[i] # q[j]
  <2> SUFFICES ASSUME NEW i \in 1..n, NEW j \in 1..n, i < j, q[i] = q[j] PROVE FALSE
    BY <1>1
  <2>q. QED
    BY <1>3, BeforeIsTotal
<1>5. PICK k \in 1..n : q[k] = x
  <2> SUFFICES ASSUME \A i \in 1..n : q[i] # x PROVE FALSE
    OBVIOUS
  <2>1. q \in [1..n -> E \ {x}]
    BY <1>3
  <2>2. \E i, j \in 1..n : i # j /\ q[i] = q[j]
    BY <1>1, <1>2, <2>1, FS_PigeonHole
  <2>q. QED
    BY <1>4, <2>2
<1>6. k = n
  <2> SUFFICES ASSUME k < n PROVE FALSE
    BY <1>1
  <2>1. n \in 1..n /\ q[n] \in E \ {x}
    BY <1>1, <1>3, <1>4, <1>5
  <2>2. Before(x, q[n]) /\ Before(q[n], x)
    BY <1>3, <1>5, <2>1 DEF IsLast
  <2>q. QED
    BY <2>1, <2>2, BeforeIsTotal
<1> DEFINE p == [i \in 1..n-1 |-> q[i]]
<1>7. p \in [1..n-1 -> E \ {x}]
  BY <1>1, <1>3, <1>4, <1>5, <1>6
<1>8. \A i, j \in 1..n-1 : i < j => Before(p[i], p[j])
  BY <1>1, <1>3
<1> HIDE DEF p
<1>9. p \in Ranked(E \ {x})
  BY <1>1, <1>7, <1>8 DEF Ranked
<1>q. QED
  BY <1>5, <1>6, <1>9 DEF n, p

\* The last worker put behind a ranking of the others ranks them all.
LEMMA RankedAppend ==
    ASSUME Typed, NEW E \in SUBSET Workers, NEW x \in E, IsLast(x, E),
           NEW q \in Ranked(E \ {x})
    PROVE  [i \in 1..Cardinality(E) |-> IF i = Cardinality(E) THEN x ELSE q[i]] \in Ranked(E)
<1> DEFINE n == Cardinality(E)
           p == [i \in 1..n |-> IF i = n THEN x ELSE q[i]]
<1>1. n \in Nat \ {0} /\ Cardinality(E \ {x}) = n - 1
  BY OneLess, Zenon
<1> HIDE DEF n
<1>2. /\ q \in [1..n-1 -> E \ {x}]
      /\ \A i, j \in 1..n-1 : i < j => Before(q[i], q[j])
  BY <1>1 DEF Ranked
<1>3. p \in [1..n -> E]
  BY <1>1, <1>2
<1>4. ASSUME NEW i \in 1..n, NEW j \in 1..n, i < j PROVE Before(p[i], p[j])
  <2>1. i \in 1..n-1 /\ p[i] = q[i] /\ q[i] \in E \ {x}
    BY <1>1, <1>2, <1>4
  <2>2. CASE j = n
    BY <2>1, <2>2 DEF IsLast
  <2>3. CASE j # n
    BY <1>1, <1>2, <1>4, <2>1, <2>3
  <2>q. QED
    BY <2>2, <2>3
<1>q. QED
  BY <1>3, <1>4 DEF Ranked, n

\* The ORDER BY leaves no choice: whatever the table holds, every set of
\* workers has one ranking, so SelectClaimableWorker is neither blocked nor
\* undetermined, on any snapshot of any reachable state.
OneRanking == \A E \in SUBSET Workers : \E q : Ranked(E) = {q}

THEOREM RankingDetermined == Spec => []OneRanking
<1>1. ASSUME Typed PROVE OneRanking
  <2> DEFINE bad == {E \in SUBSET Workers : ~\E q : Ranked(E) = {q}}
  <2> SUFFICES ASSUME bad # {} PROVE FALSE
    BY DEF OneRanking
  <2>1. PICK m \in bad : IsFiniteSet(m) /\ \A x \in m : m \ {x} \notin bad
    BY WorkersAssumption, MinimalSubset
  <2>2. m # {}
    <3> SUFFICES ASSUME m = {} PROVE FALSE
      OBVIOUS
    <3>1. Cardinality({}) = 0 /\ 1..0 = {}
      BY FS_EmptySet
    <3>2. Ranked({}) = {[i \in {} |-> i]}
      BY <3>1 DEF Ranked
    <3>q. QED
      BY <2>1, <3>2
  <2>3. PICK x \in m : IsLast(x, m)
    BY <1>1, <2>1, <2>2, LastExists
  <2>4. PICK r : Ranked(m \ {x}) = {r}
    BY <2>1, <2>3
  <2> DEFINE n == Cardinality(m)
             p == [i \in 1..n |-> IF i = n THEN x ELSE r[i]]
  <2>5. n \in Nat /\ n > 0
    BY <2>1, <2>2, FS_CardinalityType, FS_EmptySet
  <2>6. p \in Ranked(m)
    <3>1. r \in Ranked(m \ {x}) /\ m \in SUBSET Workers
      BY <2>1, <2>4
    <3>q. QED
      BY <1>1, <2>3, <3>1, RankedAppend
  <2>7. ASSUME NEW q \in Ranked(m) PROVE q = p
    <3>1. q[n] = x /\ [i \in 1..n-1 |-> q[i]] \in Ranked(m \ {x})
      BY <1>1, <2>1, <2>3, RankedCut
    <3>2. [i \in 1..n-1 |-> q[i]] = r
      BY <2>4, <3>1
    <3>3. q \in [1..n -> m]
      BY DEF Ranked
    <3> HIDE DEF n
    <3>4. \A i \in 1..n : q[i] = p[i]
      BY <2>5, <3>1, <3>2
    <3>q. QED
      BY <3>3, <3>4
  <2>8. Ranked(m) = {p}
    BY <2>6, <2>7
  <2>q. QED
    BY <2>1, <2>8
<1>q. QED
  BY <1>1, Invariance, PTL DEF IInv

-----------------------------------------------------------------------------
(* The session rows, as SessionLife promises them.                         *)

StatusColumn == [s \in Sessions |-> session[s].status]
Life == INSTANCE SessionLife WITH status <- StatusColumn

\* A set of active sessions ends with one outcome.
LEMMA EndsAreEnd ==
    ASSUME NEW over \in SUBSET Sessions, NEW to \in Terminal,
           \A s \in over : session[s].status \in Active,
           \A s \in Sessions : session'[s].status = IF s \in over THEN to ELSE session[s].status
    PROVE  Life!Next
<1>1. Life!End(over, to)
  BY DEF Life!End, Life!Active, Active, StatusColumn
<1>2. to \in Life!Terminal
  BY DEF Life!Terminal, Terminal
<1>q. QED
  BY <1>1, <1>2 DEF Life!Next

\* All transactions of all replicas together: a session row is inserted as
\* pending, started at most once and ended at most once.
THEOREM SchedulerImplementsSessionLife == Spec => Life!Spec
<1>1. Init => Life!Init
  BY DEF Init, Life!Init, StatusColumn
<1>2. ASSUME Typed, [Next]_vars PROVE [Life!Next]_StatusColumn
  <2>0. \A s \in Sessions : session[s] \in SessionRow /\ session \in [Sessions -> SessionRow]
    BY <1>2 DEF Typed, TypeOK
  <2>1. ASSUME NEW c \in Clients, NEW s \in Sessions, CommitClaim(c, s) PROVE Life!Next
    <3>1. /\ session[s].status = "none"
          /\ session' = [session EXCEPT ![s] = [status |-> "pending", worker |-> target[c]]]
      BY <2>1 DEF CommitClaim
    <3>2. StatusColumn' = [StatusColumn EXCEPT ![s] = "pending"]
      BY <2>0, <3>1 DEF StatusColumn
    <3>3. Life!Claim(s)
      BY <3>1, <3>2 DEF Life!Claim, StatusColumn
    <3>q. QED
      BY <3>3 DEF Life!Next
  <2>2. ASSUME NEW c \in Clients, ClaimStep(c) PROVE [Life!Next]_StatusColumn
    <3>1. UNCHANGED session \/ \E s \in Sessions : CommitClaim(c, s)
      BY <2>2 DEF ClaimStep, Request, ClaimBegin, SelectClaimableWorker, LockRow, SelectNone,
                  Recount, AbortClaim, dbVars
    <3>q. QED
      BY <2>1, <3>1 DEF StatusColumn
  <2>3. ASSUME NEW w \in Workers, WorkerStep(w) PROVE [Life!Next]_StatusColumn
    <3>1. CASE UNCHANGED session
      BY <3>1 DEF StatusColumn
    <3>2. ASSUME NEW failed \in SUBSET Sessions, CommitHeartbeat(w, failed) PROVE Life!Next
      <4>1. \A s \in Sessions : session'[s] = IF s \in failed
                                   THEN [session[s] EXCEPT !.status = "failed"] ELSE session[s]
        BY <3>2 DEF CommitHeartbeat
      <4>2. \A s \in Sessions :
              session'[s].status = IF s \in failed THEN "failed" ELSE session[s].status
        BY <2>0, <4>1 DEF SessionRow
      <4>3. \A s \in failed : session[s].status \in Active
        BY <3>2 DEF CommitHeartbeat, Active
      <4>4. "failed" \in Terminal
        BY DEF Terminal
      <4>q. QED
        BY <4>2, <4>3, <4>4, EndsAreEnd
    <3>q. QED
      BY <2>3, <3>1, <3>2 DEF WorkerStep, RegisterWorker, HeartbeatBegin, UpdateWorkerHeartbeat,
                              AbortHeartbeat, SetWorkerStatus, dbVars
  <2>4. ASSUME NEW s \in Sessions, StartSession(s) PROVE Life!Next
    <3>1. session[s].status = "pending" /\ session' = [session EXCEPT ![s].status = "running"]
      BY <2>4 DEF StartSession, Transition
    <3>2. StatusColumn' = [StatusColumn EXCEPT ![s] = "running"]
      BY <2>0, <3>1 DEF StatusColumn, SessionRow
    <3>3. Life!Start(s)
      BY <3>1, <3>2 DEF Life!Start, StatusColumn
    <3>q. QED
      BY <3>3 DEF Life!Next
  <2>5. ASSUME NEW s \in Sessions, CompleteSession(s) \/ FailSession(s) \/ TerminateSession(s)
        PROVE  Life!Next
    <3>1. PICK to \in Terminal :
            session[s].status \in Active /\ session' = [session EXCEPT ![s].status = to]
      BY <2>5 DEF CompleteSession, FailSession, TerminateSession, Transition, Active, Terminal
    <3>2. \A x \in Sessions :
            session'[x].status = IF x \in {s} THEN to ELSE session[x].status
      BY <2>0, <3>1 DEF SessionRow
    <3>q. QED
      BY <3>1, <3>2, EndsAreEnd
  <2>6. ASSUME NEW r \in Rescuers, SweepStep(r) PROVE [Life!Next]_StatusColumn
    <3>1. CASE UNCHANGED session
      BY <3>1 DEF StatusColumn
    <3>2. ASSUME NEW expired \in SUBSET Sessions, ExpireDeadSessions(r, expired) PROVE Life!Next
      <4>1. \A s \in Sessions : session'[s] = IF s \in expired
                                   THEN [session[s] EXCEPT !.status = "expired"] ELSE session[s]
        BY <3>2 DEF ExpireDeadSessions
      <4>2. \A s \in Sessions :
              session'[s].status = IF s \in expired THEN "expired" ELSE session[s].status
        BY <2>0, <4>1 DEF SessionRow
      <4>3. \A s \in expired : session[s].status \in Active
        BY <3>2 DEF ExpireDeadSessions
      <4>4. "expired" \in Terminal
        BY DEF Terminal
      <4>q. QED
        BY <4>2, <4>3, <4>4, EndsAreEnd
    <3>q. QED
      BY <2>6, <3>1, <3>2 DEF SweepStep, StallScan, StallSilentWorkers, DeleteScan,
                              DeleteDeadWorkers, AbortSweep, dbVars
  <2>7. CASE Tick \/ UNCHANGED vars
    BY <2>7 DEF Tick, vars, dbVars, StatusColumn
  <2>q. QED
    BY <1>2, <2>2, <2>3, <2>4, <2>5, <2>6, <2>7 DEF Next, SessionStep
<1>q. QED
  BY <1>1, <1>2, Invariance, PTL DEF Spec, IInv, Life!Spec
=============================================================================
