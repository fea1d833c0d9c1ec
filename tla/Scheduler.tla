----------------------------- MODULE Scheduler ------------------------------
(***************************************************************************)
(* The workers and sessions tables and every transaction of the control    *)
(* plane that writes them, one action per statement where another          *)
(* transaction can run in between: the claim (scheduler.go, claimOnce),    *)
(* the heartbeat (scheduler.go, Heartbeat), the rescuer's three sweeps     *)
(* (rescuer.go), worker registration and status requests, and the session  *)
(* transitions of the relay and of the API.                                *)
(*                                                                         *)
(* PostgreSQL READ COMMITTED, as the code relies on it: now() is the       *)
(* instant of BEGIN; a statement sees what was committed when it started;  *)
(* an update or FOR UPDATE of a row changed since then re-evaluates the    *)
(* conditions on that row's new version, but not its subqueries' counts;   *)
(* uncommitted writes are seen by nobody else, so they appear at COMMIT.   *)
(***************************************************************************)
EXTENDS Integers, FiniteSets, Sequences

CONSTANTS Workers,          \* worker ids, numbers because the claim orders by id
          Sessions,         \* session ids; uuid.New() never repeats one
          Clients,          \* requests being admitted, on any replica
          Rescuers,         \* one rescuer loop per replica
          MaxSlots,         \* MaxSlots[w]: max_slots of worker w
          Matches,          \* Matches[c]: workers with c's browser and version prefix
          MaxLifetime,      \* MAX_LIFETIME_SESSIONS; 0 is no limit
          MaxAttempts,      \* maxClaimAttempts
          WorkerTTL,        \* WORKER_HEARTBEAT_TTL
          StalledTTL,       \* STALLED_WORKER_TTL
          HeartbeatTimeout, \* longest life of a heartbeat transaction
          MaxNow            \* bound on the clock

ASSUME WorkersAssumption == Workers \subseteq Nat \ {0} /\ IsFiniteSet(Workers)
ASSUME SessionsAssumption == IsFiniteSet(Sessions)
ASSUME SlotsAssumption == MaxSlots \in [Workers -> Nat \ {0}]
ASSUME MatchesAssumption == Matches \in [Clients -> SUBSET Workers]
ASSUME BoundsAssumption ==
    /\ MaxLifetime \in Nat
    /\ MaxAttempts \in Nat \ {0}
    /\ WorkerTTL \in Nat
    /\ StalledTTL \in Nat
    /\ HeartbeatTimeout \in Nat
    /\ MaxNow \in Nat

\* The worker aborts a heartbeat request after 5s (control-plane.ts), which
\* cancels its transaction; both TTLs are meant to be longer than that.
ASSUME TTLAssumption ==
    /\ HeartbeatTimeout <= WorkerTTL
    /\ HeartbeatTimeout <= StalledTTL

VARIABLES
    now,       \* the database clock
    worker,    \* worker[w]: the committed row of w
    session,   \* session[s]: the committed row of s
    pc,        \* pc[c]: where the claim of c stands
    target,    \* target[c]: the worker row c selected
    claim,     \* claim[c]: the claim's other locals
    hbpc,      \* hbpc[w]: where the heartbeat transaction of w stands
    hbnow,     \* hbnow[w]: its now()
    sweep,     \* sweep[r]: where the sweep of r stands
    sweepNow,  \* sweepNow[r]: now() of its open transaction
    matched    \* matched[r]: the worker rows its open statement matched

dbVars == <<worker, session>>
claimVars == <<pc, target, claim>>
hbVars == <<hbpc, hbnow>>
sweepVars == <<sweep, sweepNow, matched>>
vars == <<now, dbVars, claimVars, hbVars, sweepVars>>

NoWorker == 0
Live == {"available", "draining", "stalled", "shutting_down"}
WorkerStatus == Live \cup {"unregistered", "deleted"}
Active == {"pending", "running"}
Terminal == {"completed", "failed", "expired"}
SessionStatus == Active \cup Terminal \cup {"none"}
Holding == {"locked", "counted"}  \* claim states between FOR UPDATE and COMMIT
NoClaim == [now |-> 0, ranked |-> <<>>, excluded |-> {}, attempts |-> 0]

-----------------------------------------------------------------------------
ActiveOn(w) == {s \in Sessions : session[s].worker = w /\ session[s].status \in Active}
UsedBy(w) == {s \in Sessions : session[s].worker = w}

\* A claim or a heartbeat holds the row lock of w.
Holds(c, w) == pc[c] \in Holding /\ target[c] = w
Locked(w) == (\E c \in Clients : Holds(c, w)) \/ hbpc[w] = "locked"

UnderLifetime(row) == MaxLifetime = 0 \/ row.lifetime_sessions < MaxLifetime

\* Mutant: the claim forgets the lifetime limit.
ClaimableForever(row, t) ==
    row.status = "available" /\ row.last_heartbeat > t - WorkerTTL

\* The conditions of SelectClaimableWorker on the columns of the worker row.
Claimable(row, t) ==
    /\ row.status = "available"
    /\ row.last_heartbeat > t - WorkerTTL
    /\ UnderLifetime(row)

\* CountActiveSessionsByWorker against max_slots, in the state it runs in.
HasSlot(w) == Cardinality(ActiveOn(w)) < MaxSlots[w]

\* ORDER BY lifetime_sessions DESC, active_count ASC, id.
Before(v, w) ==
    LET lv == worker[v].lifetime_sessions
        lw == worker[w].lifetime_sessions
        av == Cardinality(ActiveOn(v))
        aw == Cardinality(ActiveOn(w))
    IN  \/ lv > lw
        \/ lv = lw /\ av < aw
        \/ lv = lw /\ av = aw /\ v < w

\* The orderings of the set E of workers that the ORDER BY allows: just one.
Ranked(E) ==
    {q \in [1..Cardinality(E) -> E] :
        \A i, j \in 1..Cardinality(E) : i < j => Before(q[i], q[j])}

\* Mutant: the stall sweep drops the predicate workers.sql calls load-bearing.
SilentAnyStatus(row, t) == row.status \in Live /\ row.last_heartbeat < t - WorkerTTL

\* StallSilentWorkers and DeleteDeadWorkers: the conditions on the worker row.
Silent(row, t) == row.status = "available" /\ row.last_heartbeat < t - WorkerTTL

Dead(row, t) ==
    \/ row.status = "shutting_down" /\ row.last_heartbeat < t - WorkerTTL
    \/ row.status \in {"stalled", "draining"} /\ row.last_heartbeat < t - StalledTTL

\* The status a heartbeat leaves: it revives a stalled worker.
Revived(status) == IF status = "stalled" THEN "available" ELSE status

\* ... and drains an available worker that has used up its lifetime.
AfterHeartbeat(row) ==
    IF /\ MaxLifetime > 0
       /\ row.lifetime_sessions >= MaxLifetime
       /\ Revived(row.status) = "available"
    THEN "draining"
    ELSE Revived(row.status)

\* The statuses from which SetWorkerStatus moves a worker to `to`.
SettableFrom(to) ==
    IF to = "draining" THEN {"available", "draining"} ELSE Live

-----------------------------------------------------------------------------
WorkerRow == [status : WorkerStatus, last_heartbeat : Nat, lifetime_sessions : Nat]
SessionRow == [status : SessionStatus, worker : Workers \cup {NoWorker}]
ClaimLocals == [now : Nat, ranked : Seq(Workers), excluded : SUBSET Workers, attempts : Nat]

TypeOK ==
    /\ now \in Nat
    /\ worker \in [Workers -> WorkerRow]
    /\ session \in [Sessions -> SessionRow]
    /\ pc \in [Clients -> {"idle", "attempt", "begun", "ranked"} \cup Holding]
    /\ target \in [Clients -> Workers \cup {NoWorker}]
    /\ claim \in [Clients -> ClaimLocals]
    /\ hbpc \in [Workers -> {"idle", "begun", "locked"}]
    /\ hbnow \in [Workers -> Nat]
    /\ sweep \in [Rescuers -> {"idle", "stall", "expire", "delete", "deleting"}]
    /\ sweepNow \in [Rescuers -> Nat]
    /\ matched \in [Rescuers -> SUBSET Workers]

Init ==
    /\ now = 0
    /\ worker = [w \in Workers |-> [status |-> "unregistered", last_heartbeat |-> 0,
                                    lifetime_sessions |-> 0]]
    /\ session = [s \in Sessions |-> [status |-> "none", worker |-> NoWorker]]
    /\ pc = [c \in Clients |-> "idle"]
    /\ target = [c \in Clients |-> NoWorker]
    /\ claim = [c \in Clients |-> NoClaim]
    /\ hbpc = [w \in Workers |-> "idle"]
    /\ hbnow = [w \in Workers |-> 0]
    /\ sweep = [r \in Rescuers |-> "idle"]
    /\ sweepNow = [r \in Rescuers |-> 0]
    /\ matched = [r \in Rescuers |-> {}]

-----------------------------------------------------------------------------
(* Claim: a request tries claimOnce up to MaxAttempts times.               *)

Request(c) ==
    /\ pc[c] = "idle"
    /\ pc' = [pc EXCEPT ![c] = "attempt"]
    /\ UNCHANGED <<now, dbVars, target, claim, hbVars, sweepVars>>

ClaimBegin(c) ==
    /\ pc[c] = "attempt"
    /\ pc' = [pc EXCEPT ![c] = "begun"]
    /\ claim' = [claim EXCEPT ![c].now = now]
    /\ UNCHANGED <<now, dbVars, target, hbVars, sweepVars>>

\* The snapshot of SelectClaimableWorker: the matching rows, in order.
SelectClaimableWorker(c) ==
    /\ pc[c] = "begun"
    /\ \E q \in Ranked({w \in Matches[c] \ claim[c].excluded :
                           Claimable(worker[w], claim[c].now) /\ HasSlot(w)}) :
         claim' = [claim EXCEPT ![c].ranked = q]
    /\ pc' = [pc EXCEPT ![c] = "ranked"]
    /\ UNCHANGED <<now, dbVars, target, hbVars, sweepVars>>

\* Mutant: the row is locked without looking at its current version.
LockRowUnchecked(c) ==
    /\ pc[c] = "ranked"
    /\ claim[c].ranked # <<>>
    /\ ~Locked(Head(claim[c].ranked))
    /\ pc' = [pc EXCEPT ![c] = "locked"]
    /\ target' = [target EXCEPT ![c] = Head(claim[c].ranked)]
    /\ claim' = [claim EXCEPT ![c].ranked = <<>>]
    /\ UNCHANGED <<now, dbVars, hbVars, sweepVars>>

\* FOR UPDATE SKIP LOCKED: the next row is locked if it is free and its
\* current version still qualifies, and skipped if not.
LockRow(c) ==
    /\ pc[c] = "ranked"
    /\ claim[c].ranked # <<>>
    /\ LET w == Head(claim[c].ranked)
       IN  IF ~Locked(w) /\ Claimable(worker[w], claim[c].now)
           THEN /\ pc' = [pc EXCEPT ![c] = "locked"]
                /\ target' = [target EXCEPT ![c] = w]
                /\ claim' = [claim EXCEPT ![c].ranked = <<>>]
           ELSE /\ claim' = [claim EXCEPT ![c].ranked = Tail(@)]
                /\ UNCHANGED <<pc, target>>
    /\ UNCHANGED <<now, dbVars, hbVars, sweepVars>>

\* The attempt ends in ErrNoCapacity and rolls back; the loop of Claim tries
\* again, now without the workers in full, until its attempts are used up.
NoCapacity(c, full) ==
    /\ target' = [target EXCEPT ![c] = NoWorker]
    /\ IF claim[c].attempts + 1 < MaxAttempts
       THEN /\ pc' = [pc EXCEPT ![c] = "attempt"]
            /\ claim' = [claim EXCEPT ![c] = [NoClaim EXCEPT
                            !.excluded = claim[c].excluded \cup full,
                            !.attempts = claim[c].attempts + 1]]
       ELSE /\ pc' = [pc EXCEPT ![c] = "idle"]
            /\ claim' = [claim EXCEPT ![c] = NoClaim]

SelectNone(c) ==
    /\ pc[c] = "ranked"
    /\ claim[c].ranked = <<>>
    /\ NoCapacity(c, {})
    /\ UNCHANGED <<now, dbVars, hbVars, sweepVars>>

\* Mutant: the claim trusts the count of the snapshot it selected from.
RecountSkipped(c) ==
    /\ pc[c] = "locked"
    /\ pc' = [pc EXCEPT ![c] = "counted"]
    /\ UNCHANGED <<now, dbVars, target, claim, hbVars, sweepVars>>

\* The recount takes a fresh snapshot while the row lock is held.
Recount(c) ==
    /\ pc[c] = "locked"
    /\ IF HasSlot(target[c])
       THEN pc' = [pc EXCEPT ![c] = "counted"] /\ UNCHANGED <<target, claim>>
       ELSE NoCapacity(c, {target[c]})
    /\ UNCHANGED <<now, dbVars, hbVars, sweepVars>>

\* Mutant: lifetime_sessions - 1 for lifetime_sessions + 1.
CommitClaimCountingDown(c, s) ==
    /\ pc[c] = "counted"
    /\ session[s].status = "none"
    /\ session' = [session EXCEPT ![s] = [status |-> "pending", worker |-> target[c]]]
    /\ worker' = [worker EXCEPT ![target[c]].lifetime_sessions = @ - 1]
    /\ pc' = [pc EXCEPT ![c] = "idle"]
    /\ target' = [target EXCEPT ![c] = NoWorker]
    /\ claim' = [claim EXCEPT ![c] = NoClaim]
    /\ UNCHANGED <<now, hbVars, sweepVars>>

\* InsertClaimedSession, IncrementWorkerLifetimeSessions and a COMMIT that
\* takes effect, whether or not the server learns of it.
CommitClaim(c, s) ==
    /\ pc[c] = "counted"
    /\ session[s].status = "none"
    /\ session' = [session EXCEPT ![s] = [status |-> "pending", worker |-> target[c]]]
    /\ worker' = [worker EXCEPT ![target[c]].lifetime_sessions = @ + 1]
    /\ pc' = [pc EXCEPT ![c] = "idle"]
    /\ target' = [target EXCEPT ![c] = NoWorker]
    /\ claim' = [claim EXCEPT ![c] = NoClaim]
    /\ UNCHANGED <<now, hbVars, sweepVars>>

\* A cancelled request, a failed statement or a lost connection rolls back.
AbortClaim(c) ==
    /\ pc[c] # "idle"
    /\ pc' = [pc EXCEPT ![c] = "idle"]
    /\ target' = [target EXCEPT ![c] = NoWorker]
    /\ claim' = [claim EXCEPT ![c] = NoClaim]
    /\ UNCHANGED <<now, dbVars, hbVars, sweepVars>>

ClaimStep(c) ==
    \/ Request(c) \/ ClaimBegin(c) \/ SelectClaimableWorker(c)
    \/ LockRow(c) \/ SelectNone(c) \/ Recount(c) \/ AbortClaim(c)
    \/ \E s \in Sessions : CommitClaim(c, s)

-----------------------------------------------------------------------------
(* The worker's own requests: register, heartbeat, status.                 *)

RegisterWorker(w) ==
    /\ worker[w].status = "unregistered"
    /\ worker' = [worker EXCEPT ![w] = [status |-> "available", last_heartbeat |-> now,
                                        lifetime_sessions |-> 0]]
    /\ UNCHANGED <<now, session, claimVars, hbVars, sweepVars>>

EndHeartbeat(w) ==
    /\ hbpc' = [hbpc EXCEPT ![w] = "idle"]
    /\ hbnow' = [hbnow EXCEPT ![w] = 0]

HeartbeatBegin(w) ==
    /\ hbpc[w] = "idle"
    /\ worker[w].status # "unregistered"
    /\ hbpc' = [hbpc EXCEPT ![w] = "begun"]
    /\ hbnow' = [hbnow EXCEPT ![w] = now]
    /\ UNCHANGED <<now, dbVars, claimVars, sweepVars>>

\* UpdateWorkerHeartbeat waits for the row lock; a deleted row answers 404.
UpdateWorkerHeartbeat(w) ==
    /\ hbpc[w] = "begun"
    /\ ~Locked(w)
    /\ IF worker[w].status \in Live
       THEN hbpc' = [hbpc EXCEPT ![w] = "locked"] /\ UNCHANGED hbnow
       ELSE EndHeartbeat(w)
    /\ UNCHANGED <<now, dbVars, claimVars, sweepVars>>

\* The rest of the heartbeat up to its COMMIT. Which running sessions it
\* fails depends on the report and on their age, which Reconcile models:
\* here it is any of them.
CommitHeartbeat(w, failed) ==
    /\ hbpc[w] = "locked"
    /\ \A s \in failed : session[s] = [status |-> "running", worker |-> w]
    /\ worker' = [worker EXCEPT ![w] = [status |-> AfterHeartbeat(@),
                                        last_heartbeat |-> hbnow[w],
                                        lifetime_sessions |-> @.lifetime_sessions]]
    /\ session' = [s \in Sessions |-> IF s \in failed
                                      THEN [session[s] EXCEPT !.status = "failed"]
                                      ELSE session[s]]
    /\ EndHeartbeat(w)
    /\ UNCHANGED <<now, claimVars, sweepVars>>

AbortHeartbeat(w) ==
    /\ hbpc[w] # "idle"
    /\ EndHeartbeat(w)
    /\ UNCHANGED <<now, dbVars, claimVars, sweepVars>>

SetWorkerStatus(w, to) ==
    /\ worker[w].status \in SettableFrom(to)
    /\ ~Locked(w)
    /\ worker' = [worker EXCEPT ![w].status = to]
    /\ UNCHANGED <<now, session, claimVars, hbVars, sweepVars>>

WorkerStep(w) ==
    \/ RegisterWorker(w) \/ HeartbeatBegin(w) \/ UpdateWorkerHeartbeat(w)
    \/ AbortHeartbeat(w)
    \/ \E failed \in SUBSET Sessions : CommitHeartbeat(w, failed)
    \/ \E to \in {"draining", "shutting_down"} : SetWorkerStatus(w, to)

-----------------------------------------------------------------------------
(* Session transitions of the relay and the API, one statement each.       *)

Transition(s, from, to) ==
    /\ session[s].status \in from
    /\ session' = [session EXCEPT ![s].status = to]
    /\ UNCHANGED <<now, worker, claimVars, hbVars, sweepVars>>

StartSession(s) == Transition(s, {"pending"}, "running")
CompleteSession(s) == Transition(s, {"running"}, "completed")
\* Mutant: FailSession without its status condition.
FailSessionAlways(s) == Transition(s, Active \cup Terminal, "failed")
FailSession(s) == Transition(s, Active, "failed")
TerminateSession(s) == Transition(s, Active, "completed")

SessionStep(s) ==
    StartSession(s) \/ CompleteSession(s) \/ FailSession(s) \/ TerminateSession(s)

-----------------------------------------------------------------------------
(* The rescuer's sweep: stall, expire, delete, each in its own transaction. *)

\* The transaction of r ends and its sweep goes on to `next`.
EndSweepTx(r, next) ==
    /\ sweep' = [sweep EXCEPT ![r] = next]
    /\ sweepNow' = [sweepNow EXCEPT ![r] = 0]
    /\ matched' = [matched EXCEPT ![r] = {}]

\* StallSilentWorkers begins: the rows its snapshot matches.
StallScan(r) ==
    /\ sweep[r] = "idle"
    /\ sweep' = [sweep EXCEPT ![r] = "stall"]
    /\ sweepNow' = [sweepNow EXCEPT ![r] = now]
    /\ matched' = [matched EXCEPT ![r] = {w \in Workers : Silent(worker[w], now)}]
    /\ UNCHANGED <<now, dbVars, claimVars, hbVars>>

\* It waits for their locks, re-evaluates the condition and commits.
StallSilentWorkers(r) ==
    /\ sweep[r] = "stall"
    /\ \A w \in matched[r] : ~Locked(w)
    /\ worker' = [w \in Workers |->
                    IF w \in matched[r] /\ Silent(worker[w], sweepNow[r])
                    THEN [worker[w] EXCEPT !.status = "stalled"]
                    ELSE worker[w]]
    /\ EndSweepTx(r, "expire")
    /\ UNCHANGED <<now, session, claimVars, hbVars>>

\* Which active sessions are past their TTL is Reconcile's matter: here any.
ExpireDeadSessions(r, expired) ==
    /\ sweep[r] = "expire"
    /\ \A s \in expired : session[s].status \in Active
    /\ session' = [s \in Sessions |-> IF s \in expired
                                      THEN [session[s] EXCEPT !.status = "expired"]
                                      ELSE session[s]]
    /\ sweep' = [sweep EXCEPT ![r] = "delete"]
    /\ UNCHANGED <<now, worker, sweepNow, matched, claimVars, hbVars>>

\* DeleteDeadWorkers begins; its NOT EXISTS is evaluated on this snapshot.
DeleteScan(r) ==
    /\ sweep[r] = "delete"
    /\ sweep' = [sweep EXCEPT ![r] = "deleting"]
    /\ sweepNow' = [sweepNow EXCEPT ![r] = now]
    /\ matched' = [matched EXCEPT ![r] =
                     {w \in Workers : Dead(worker[w], now) /\ ActiveOn(w) = {}}]
    /\ UNCHANGED <<now, dbVars, claimVars, hbVars>>

\* Mutant: the snapshot's match is not re-evaluated once the lock is held.
DeleteMatchedWorkers(r) ==
    /\ sweep[r] = "deleting"
    /\ \A w \in matched[r] : ~Locked(w)
    /\ worker' = [w \in Workers |-> IF w \in matched[r]
                                    THEN [worker[w] EXCEPT !.status = "deleted"]
                                    ELSE worker[w]]
    /\ EndSweepTx(r, "idle")
    /\ UNCHANGED <<now, session, claimVars, hbVars>>

\* It waits for the locks, re-evaluates the row's own columns and commits.
DeleteDeadWorkers(r) ==
    /\ sweep[r] = "deleting"
    /\ \A w \in matched[r] : ~Locked(w)
    /\ worker' = [w \in Workers |->
                    IF w \in matched[r] /\ Dead(worker[w], sweepNow[r])
                    THEN [worker[w] EXCEPT !.status = "deleted"]
                    ELSE worker[w]]
    /\ EndSweepTx(r, "idle")
    /\ UNCHANGED <<now, session, claimVars, hbVars>>

\* A failed or timed-out statement rolls back and ends the whole sweep.
AbortSweep(r) ==
    /\ sweep[r] # "idle"
    /\ EndSweepTx(r, "idle")
    /\ UNCHANGED <<now, dbVars, claimVars, hbVars>>

SweepStep(r) ==
    \/ StallScan(r) \/ StallSilentWorkers(r) \/ DeleteScan(r)
    \/ DeleteDeadWorkers(r) \/ AbortSweep(r)
    \/ \E expired \in SUBSET Sessions : ExpireDeadSessions(r, expired)

-----------------------------------------------------------------------------
\* Time passes, but not beyond the life of an open heartbeat transaction.
Tick ==
    /\ now < MaxNow
    /\ \A w \in Workers : hbpc[w] # "idle" => now < hbnow[w] + HeartbeatTimeout
    /\ now' = now + 1
    /\ UNCHANGED <<dbVars, claimVars, hbVars, sweepVars>>

Next ==
    \/ \E c \in Clients : ClaimStep(c)
    \/ \E w \in Workers : WorkerStep(w)
    \/ \E s \in Sessions : SessionStep(s)
    \/ \E r \in Rescuers : SweepStep(r)
    \/ Tick

Spec == Init /\ [][Next]_vars

-----------------------------------------------------------------------------
(* Properties.                                                             *)

\* No interleaving of claims overbooks a worker: the recount under the row
\* lock (scheduler.go, "Capacity invariant") keeps active sessions within
\* max_slots although SelectClaimableWorker counts on an older snapshot.
CapacityInvariant == \A w \in Workers : Cardinality(ActiveOn(w)) <= MaxSlots[w]

\* The lifetime counter counts exactly the sessions a worker was given, and
\* concurrent claims never push it past MAX_LIFETIME_SESSIONS.
LifetimeBound ==
    \A w \in Workers :
        /\ worker[w].lifetime_sessions = Cardinality(UsedBy(w))
        /\ MaxLifetime > 0 => worker[w].lifetime_sessions <= MaxLifetime

\* The deletion sweep never removes the row of a worker that holds an active
\* session, although its NOT EXISTS ran on a snapshot taken before it got
\* the row locks.
NoOrphan ==
    \A w \in Workers : worker[w].status = "deleted" => ActiveOn(w) = {}

\* A worker that is draining, shutting down, stalled or gone gains no
\* session, whatever a claim saw before the status changed: once drained it
\* stays drained, so its process may exit.
OnlyAvailableGrows ==
    [][\A w \in Workers :
         worker[w].status # "available" => ActiveOn(w)' \subseteq ActiveOn(w)]_vars

\* Neither a heartbeat nor a sweep overwrites drain or shutdown intent
\* (workers.sql, UpdateWorkerHeartbeat and StallSilentWorkers).
IntentKept ==
    [][\A w \in Workers :
         /\ worker[w].status = "draining" =>
              worker'[w].status \in {"draining", "shutting_down", "deleted"}
         /\ worker[w].status = "shutting_down" =>
              worker'[w].status \in {"shutting_down", "deleted"}
         /\ worker[w].status = "deleted" => worker'[w].status = "deleted"]_vars

\* The first outcome of a session stands: the relay's completion, the API's
\* termination, the heartbeat's failure and the sweep's expiry may all race
\* for it, and no session changes its worker.
OutcomeFinal ==
    [][\A s \in Sessions :
         /\ session[s].status \in Terminal => session'[s] = session[s]
         /\ session[s].status \in Active =>
              /\ session'[s].worker = session[s].worker
              /\ session'[s].status \notin {"none"}
              /\ session[s].status = "running" => session'[s].status # "pending"]_vars

\* The tables under all these transactions implement the promise of
\* Capacity: one atomic check-and-take per admitted session.
GateOf(status) ==
    CASE status = "available" -> "open"
      [] status \in {"unregistered", "stalled"} -> "closed"
      [] status \in {"draining", "shutting_down"} -> "retired"
      [] status = "deleted" -> "gone"

Abstract == INSTANCE Capacity WITH
    active <- [w \in Workers |-> ActiveOn(w)],
    used <- [w \in Workers |-> UsedBy(w)],
    gate <- [w \in Workers |-> GateOf(worker[w].status)]

\* Scheduler implements Capacity.
ImplementsCapacity == Abstract!Spec
=============================================================================
