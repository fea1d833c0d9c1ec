# playwright-distributed: a verification development

TLA+ modules for the control plane of playwright-distributed and the parts of
its workers that the control plane depends on, the TLC runs that check them on
small instances, and TLAPS proofs for every size of the system.

## The system

Clients connect a Playwright WebSocket to the **server**. The server claims a
slot of a **worker** in PostgreSQL, dials the worker and relays the two
connections. Any number of server replicas share the database; they hold no
other common state.

| Component | State it keeps | Operations | What makes it correct |
|---|---|---|---|
| Claims (`scheduler.go` `Claim`, `claimOnce`) | rows of `workers`, `sessions`; row locks | select a worker `FOR UPDATE SKIP LOCKED`, recount, insert, increment, commit | never more active sessions than slots or lifetime allows; only available workers gain |
| Heartbeat (`scheduler.go` `Heartbeat`) | `last_heartbeat`, worker status | revive, fail unreported sessions, list stale ids, drain at the lifetime limit | keeps drain intent; never fails a session in use; leaks no connection |
| Rescuer (`rescuer.go`) | none beyond the tables | stall, expire, delete, each its own transaction, on every replica | orphans no session; frees every abandoned slot |
| Admission (`Admit`, `waker.go`, `listener.go`) | queue counter, one channel per waiter, LISTEN connection | fast claim, queue, wait, poll, deadline, drain | exact counter; truthful answers; nobody sleeps for ever beside a free slot |
| Relay handler (`httpapi/relay.go`) | one reservation per attachment | preflight, start, dial, upgrade, fail | one winner per session; losers harmless |
| Relay manager (`relay/manager.go`) | registry, WaitGroup, `draining` | run, renew, record the outcome, shut down | shutdown waits for every attachment and loses no outcome |
| HTTP API (`httpapi/server.go`) | none | register, heartbeat, set status, create, read and delete sessions | its writes are the transitions above |
| Capacity query (`workers.sql`, `server.go`) | none | aggregate eligible workers and active sessions by browser | agrees with what a claim would find |
| Authentication (`httpapi/auth.go`) | `authRequired` latch of each process | count keys, latch, look up and touch the token's key | an answer an atomic check could have given; once locked, locked for the process lifetime |
| API-key command (`apikey/command.go`) | rows of `api_keys` | create, print, clean up, revoke | the latch and the answers above hold against it |
| Configuration (`config.go`) | none | load, validate | the timeouts fit each other |
| Process (`cmd/server/main.go`) | the HTTP server, one shutdown deadline | start, serve, shut down HTTP server and relays side by side, exit | a signal ends it; success means nothing was left behind; the deadline is long enough |
| Worker gateway (`gateway.ts`) | connected and pending sessions | accept, reject, pipe, close, shut down | each dial is settled once; the report is what is connected |
| Worker lifecycle (`worker.ts`, `control-plane.ts`) | state, timers, worker id | register, heartbeat, drain, shut down | drains before it exits; exits once |

Interactions. Replicas meet only in the tables: row locks, guarded updates and
`NOTIFY capacity_changed`. Server and worker meet in the heartbeat (report,
stale ids, status) and in the dial of a session. Inside a server the handler
and the relay manager share the reservation and the WaitGroup; the listener
and the queued requests share the waker; `serve` starts both shutdowns, each of
which sees only some of the connections. Key commands and servers meet in
`api_keys` alone.

What is hard. Snapshots older than the locks taken after them; commits whose
answer is lost; a report older than the connection it should contain; wake-ups
that come between a check and a wait, or not at all; shutdown against
attachments in flight; crashes that leave rows nobody renews; a latch set by
whichever request happens to count a key. `PROJECT.json`
lists each of these hazards at its line with the properties aimed at it.

## Modules

| Module | Models | State and actions |
|---|---|---|
| `Capacity` | the promise: an atomic check-and-take of a slot | `active`, `used` and `gate` per worker; `Admit`, `Withdraw` |
| `SessionLife` | the promise: the life of a session row | the status column; `Claim`, `Start`, `End` |
| `Scheduler` | all transactions on the two tables | committed rows in `worker` and `session`; locals and progress of every open claim, heartbeat and sweep; one action per statement where another transaction can run in between |
| `Admission` | `Admit`, the waker and the listener of one process | `pc[c]` is the place in `Admit`; `owner` is the slots in the database; `note` a notification under way; the history `silent` marks the waiters beside whom a slot was freed without a word to them |
| `Relay` | attach, `Manager.Run` and `Manager.Shutdown` of one process | `pc[a]` is the place in the handler (`preflight`, loading the session, `attach`, a loser's `writeRejectedStart`) or in `Run`; `live`, `wg`, `shutdown` are the manager's fields; `lost` records failed final writes |
| `Reconcile` | what ages decide about a session | row, relay, gateway connection and heartbeat request, with ages instead of timestamps; `foreign` is the sessions claimed on another row with the worker's address |
| `Gateway` | the worker's gateway | both sockets of every upgrade request and the gateway's tables; one action per event handler |
| `Worker` | the lifecycle of a worker process | one variable per coroutine (`boot`, `hb`, `drain`, `shut`) saying what it awaits; `row` is what the control plane has of the worker |
| `CapacityReport` (extends `Scheduler`) | `GET /capacity` | operators on the tables: `GetCapacityByBrowser`, `Total` |
| `Serve` (extends `Relay`) | a server process from start to exit | `main` is the place in `run` and `serve`; `http` the HTTP server; `hijacked` the upgraded connections; `clock` and `left` the time since the shutdown began and what each handler's step may still take; the history `hung` says that a query without a timeout has hung |
| `Auth` | `Authenticate` on several processes, the key command | `key` is the rows, `create` the command's progress, `required` the latches, `pc` the place in `Authenticate`; one action per query and per critical section |
| `SchedulerProofs`, `AdmissionProofs`, `RelayProofs`, `ServeProofs`, `ReconcileProofs`, `GatewayProofs`, `AuthProofs`, `WorkerProofs` | theorems | |
| `MCScheduler`, `MCAdmission`, `MCRelay`, `MCServe`, `MCReconcile`, `MCGateway`, `MCAuth` | instances for TLC | |

`Scheduler` implements `Capacity`: the refinement mapping takes the active
sessions of a worker, the sessions it was ever given, and its status as a gate
(available is open; unregistered and stalled closed; draining and shutting
down retired; deleted gone).

`Serve` composes the relays with the process around them. Every step of `Relay`
is taken here together with `RelayStep`, which hands a handler the time of its
next step; steps of the manager's `Shutdown` also wait for `serve` to start it,
its grace timer and its deadline for the clock. The clock stands still while
somebody could act at once, so that a deadline is missed only for want of time.
`ServeImplementsRelay` says that nothing else happens to the relays.

Otherwise the modules share boundaries rather than variables. `Scheduler` lets a
heartbeat fail and a sweep expire *any* eligible set of sessions; `Reconcile`
says which, by age. `Admission` takes a claim as one step on `owner`;
`Scheduler` shows what such a step does to the tables. `Relay` lets anything
end a session elsewhere (`EndElsewhere`); `Scheduler` and `Reconcile` are that
elsewhere. `Reconcile` and `Worker` see the gateway as the set of connected
sessions; `Gateway` shows how that set comes about. `Worker` lets the rows
stall, vanish and change status as `Scheduler` does.

Three modules have the status of the session rows, each next to other state:
`Scheduler` (workers and locks), `Relay` (attachments) and `Reconcile` (ages).
`SessionLife` is what they have in common: a statement claims one session, starts
one pending session, or ends a set of active ones with one outcome. Each of the
three is proved to implement it, so none of them lets a row do what the others
exclude. `Relay` begins with claimed sessions, hence the initial states of
`SessionLife`.

### How the code is read

* **PostgreSQL at READ COMMITTED** (external). `now()` is the time of BEGIN. A
  statement sees what was committed when it started. An update or a
  `FOR UPDATE` of a row changed since then waits for its lock and re-evaluates
  the conditions on the row's own columns, but neither the lateral count nor
  the `NOT EXISTS`. Uncommitted writes are visible to nobody else, so a
  transaction's writes appear in its commit action.
* **The claim's `ORDER BY ... FOR UPDATE SKIP LOCKED LIMIT 1`** ranks once on
  the snapshot and then tries rows one by one, each in its own action.
* **A commit that fails** may or may not have taken effect: `CommitClaim`
  covers the one, `AbortClaim` the other, and `Admission` lets the request
  learn neither.
* **Database errors**, cancelled requests and lost connections are
  nondeterministic aborts or failed writes.
* **Copying.** Both copy directions of a relay behave alike and are one
  goroutine; of the event channel only the oldest entry matters, since `Run`
  reads once.
* **Close codes** are reduced to whether the event is normal.
* **The branch of `Admit`** that returns a cancellation error after
  `queueWaitError` has found none cannot be reached, since the claim's context
  ends only with one of the contexts `queueWaitError` looks at; it is not a
  step of the model.
* **Node** runs one handler at a time: an action of `Gateway` or `Worker` is the
  code from one `await` or event to the next.
* **A status call** of the worker that was given up may still take effect later;
  `SetWorkerStatus` of `Worker` covers that, as well as operators and the
  lifetime limit.
* **`ws`** (external) answers a malformed handshake itself and destroys the
  socket, without a call back; that is `Malformed` of `Gateway`.
* **`registerDuplicate`** is in the model but unreachable; `OneRelay` is why.
* **`http.Server`** (external): `Shutdown` closes the listeners, waits for the
  connections the server still tracks, and returns the context's error if that
  is done first. A hijacked connection is not tracked: nobody but the relay
  manager waits for an upgraded request. Requests on open connections are still
  handled while it drains.
* **A command's reply may be lost**: `apikey create` may have inserted the row
  it believes it has not, may fail to print the token, and may fail to delete
  the row it could not print.

### Abstractions and their price

* One heartbeat of a worker is in flight at a time: `armHeartbeat` runs in the
  `finally` of the previous tick.
* A heartbeat transaction lives no longer than `HeartbeatTimeout`: the worker
  aborts the request after 5 s, and the server's request context with it.
  `TTLAssumption` says both TTLs are at least that long. The defaults (30 s and
  10 min) are; the configuration does not check it.
* `Admission` has one-slot workers and takes the eight attempts of the fast
  claim as one step.
* `Relay` is one process; other replicas are part of `EndElsewhere`.
* `Serve` has the relay requests and no others; another API request in a query
  that hangs delays `server.Shutdown` in the same way. A queued admission
  answers at once when the drain begins (`DrainEmptiesQueue`), and a claim under
  way is cancelled by the signal through the lifecycle context. Upgrading a
  connection, joining the copy goroutines and registering take no time.
* Four queries of a relay request run under its own context, which has no
  timeout: the lookup (and touch) of the key, `GetSession`, `StartSession`, and
  the `GetSession` of `writeRejectedStart`. (Only the count of keys has one,
  `authQueryTimeout`.) The steps they belong to are `Queries`: each takes
  at most `Query`, or hangs, up to the whole deadline, and `hung` remembers that.
  `TimesAssumption` says that a step that does not hang is shorter than grace
  and buffer together, that two of them are shorter than the whole deadline, and
  that the buffer is not empty.
* In `Auth` a token is the key it belongs to; hashing, header syntax and the
  parsing of arguments are reduced to that, and a wrong or missing token is
  `NoToken`. A client can only have a token that was printed. `list` only reads.
* In `Reconcile` there is one worker, which heartbeats one row. With the fault
  "duplicate" a session may be claimed on another row with the worker's address,
  left by a registration whose answer was lost; the report and its answer are
  then about a row the session does not belong to. That such a row stalls and is
  swept is in `Scheduler` and `Worker`.
* In `Reconcile` the dial begins with `StartSession`: `DialTimeout` stands for
  the dial and for what `StartSession` took after its transaction set
  `started_at`. That query has no timeout; when it takes noticeable time,
  `ReportTuned` and `RenewTuned` ask for that much more.
* `Worker` has one process; the ids of deleted rows are used again, which stands
  for new ones, and the number of registration attempts is not bounded. A row
  is not swept while the answer to its registration or heartbeat is being
  acted on: that takes seconds, the TTLs at least 30 s by default.
* `Gateway` leaves out backpressure, and reduces a socket to whether it
  connects, is open, was told to close, died or is closed.
* Worker addresses, browser and version (reduced to `Matches`), metadata and
  the key a session is attributed to are left out, as are the reads that only
  answer a request, other than `GET /capacity`.

## Runs

| Run | Instance | Distinct states | Shows |
|---|---|---|---|
| `SchedulerClaims` | a two-slot and a one-slot worker, 3 sessions, 2 requests, lifetime 2, clock still | 285,000 | `TypeOK`, `CapacityInvariant`, `LifetimeBound`, `CapacityHonest`, `OutcomeFinal`, `OnlyAvailableGrows`, `ImplementsCapacity` |
| `SchedulerSweep` | 1 worker, session, request of 2 attempts and rescuer, TTLs 1, clock to 4 | 411,000 | `NoOrphan`, `IntentKept` |
| `AdmissionQueue` | 2 requests, 1 slot, queue of 1, every silent event | 104,000 | `QueueAccounting`, `AnswerHonest`, `NoLostWakeup`, `PollingFallback`, `EveryRequestAnswered`, `DrainEmptiesQueue` |
| `ServeShutdown` | 2 attachments, 1 session, a signal; grace 1, dial 3, other times 1, queries may hang | 235,000 | `WaitGroupExact`, `CleanMeansFinished`, `OneRelay`, `CleanExit`, `BudgetSuffices`, `EndedSessionDetached`, `SignalExits` |
| `RelayLoser` | 2 attachments, 1 session | violation | `LoserHarmless` fails |
| `ReconcileTimers` | 2 sessions, a second row, dial 1, report 1, grace 2, renewal 1, TTL 2 | 408,000 | `StaleMeansOver`, `NoFalseFailure`, `NoFalseExpiry` |
| `ReconcileLeaks` | 1 session, crashes, lost writes and renewals, a second row | 3,300 | `SlotFreed`, `ZombieClosed` |
| `ReconcileGrace` | 1 session, dial 1, report 2, grace 2 | violation | `NoFalseFailure` fails |
| `GatewayTables` | 3 requests, 2 of them for one session, a shutdown | 6,300 | `TablesAgree`, `NoHalfOpen`, `ShutdownQuiet`, `DialSettled` |
| `WorkerLifecycle` | 2 row ids, 2 sessions | 62,000 | `HeartbeatAlive`, `DrainSpares`, `DrainWatched`, `ShutdownFinal`, `DrainKnown`, `Reregistered`, `DrainExits` |
| `AuthLatch` | 2 processes, 2 requests, 2 keys, restarts | 536,000 | `AnswerLinearizes`, `LockIsFinal` |
| `AuthFirstKey` | 1 process, request and key | violation | `FirstKeyLocks` fails |

Why the bounds are enough. Overbooking needs two claims and one slot; exceeding
the lifetime needs one more session than the limit, hence three for two. Two
workers make a claim skip a locked or full row and try the next. Further
attempts of a claim are in `SchedulerSweep`, and in the proofs without a bound.
The sweep's
races need a worker to register, fall silent past its TTL, be scanned, revive
and be claimed, which the clock's four units allow with TTLs of one. One queue
place and two requests make the queue full with a waiter inside, and a slot
freed while both look for one. Two attachments race for one session, one still
before `BeginAttach` or in its dial when the other is relayed and the signal
comes; the dial is the longest of the times, so that leaving it out of the
deadline shows. Two processes let one lock while the other is open, two keys
let one be revoked while the other is created, two requests let one set the
latch between the other's queries. More waiters, attachments, processes and
keys are covered by the proofs.
Two requests for one session let events of the older connection meet the
newer one. Two sessions let one end in a drain while the other goes on, and
their names serve again; two row ids allow a duplicate registration beside the
worker's own row, or its old row beside the new one.
Ages saturate at `Cap`, beyond every deadline, so the clock of `Reconcile` is
unbounded. None of the safety results rests on these bounds: they are all
proved below.

`CHECK_DEADLOCK FALSE` appears only where the system ends: with `Serve` and
`Worker`, whose processes exit, with `Relay`, whose attachments are finite, and
with `Gateway`, whose requests are.

### Fairness

* `Admission`: weak fairness of each request's goroutine: it is scheduled, its
  timer fires and its database calls return. Nothing is assumed of clients, of
  sessions ending, or of notifications.
* `Serve`: weak fairness of the goroutine of `run` and `serve` (`MainRuns`), of
  the relay manager's shutdown, of the
  handlers (the runtime schedules them; dials and writes have timeouts), of the
  renewal ticker and of the passing of time. Nothing is assumed of clients and
  peers (a silent client is not assumed to leave), of signals or of failures;
  a query without a timeout that hangs need not return before the deadline.
* `Reconcile`: time passes, timeouts and tickers fire, the rescuer sweeps, an
  upgrade request is settled, the worker keeps sending heartbeats, and not
  every heartbeat is lost (strong fairness of the transaction and of the
  answer). Sockets need not notice a vanished peer.
* `Gateway`: the handshake with the browser runs into its time limit
  (`upstreamHandshakeTimeoutMs`), and a socket that was told to close or died
  emits its close event. Nothing is assumed of open sockets.
* `Worker`: the event loop runs; awaited calls return or time out (5 s for a
  registration or heartbeat, 2.5 s for clean-up steps); a call that is tried
  again and again succeeds at some time (strong fairness); the rescuer removes
  rows nobody heartbeats. Sessions need not end and the drain timer need not
  fire, so that `DrainKnown` does not hold by exiting; `DrainExits` therefore
  allows a worker to wait for a session with its drain timer armed.

### What the runs found

* **`RelayLoser`.** `attach` reacts to any error of `StartSession` with
  `failSession`, and `FailSession` also matches a `running` row. If two clients
  attach to one session and the second one's call fails, because its client
  went away or the database call failed, the session the first one has started
  is marked failed and its relay is cut at the next renewal. The tests of
  concurrent attaches expect "one winner" and rejections. This error path is the
  only cause: `OnlyFailedStartHarms` proves that without it losers are harmless.
* **`ReconcileGrace`.** `validateRuntimeConfig` accepts every dial timeout below
  the 15 s grace, and the comment on `DefaultReconciliationGrace` asks for no
  more. A report is up to 5 s older than the transaction that applies it, so
  the grace must cover the dial *and* the report: with
  `WORKER_DIAL_TIMEOUT` above 10 s a session that the worker holds and the
  server relays can be failed. `HeldNeverFailed` proves that it cannot when both
  fit, the dial counted from `started_at`. The defaults (10 s + 5 s) fit with
  equality: there is no slack, and the time `StartSession` takes to return,
  which comes before the dial's own 10 s, is not covered.
* **`AuthFirstKey`.** The server's README says "Create the first API key to lock
  the running server" and that it "stays locked for its process lifetime, even
  if you later revoke every key". The latch is set only by a request that counts
  an active key. In the trace the key is created, printed and revoked, and only
  then does the first request arrive: it counts zero and passes without a
  token. Once a process has demanded a token the promise
  holds: `LockNeverOpens` proves it.

## Proofs

Everything below holds for all values of the constants that satisfy the named
assumptions: all finite sets of workers, sessions, browsers, queued clients and
attachments, any sets of slots, requests, rescuers, processes and keys. Every
safety property that a run checks is stated by a theorem.

### `SchedulerProofs`

Theorems: `TypeCorrect`, `NeverOverbooked`, `LifetimeNeverPassed`,
`NeverOrphaned`, `ClosedNeverGrows`, `IntentNeverLost`, `FirstOutcomeStands`,
`SchedulerImplementsCapacity`, `CapacityAlwaysHonest`, `RankingDetermined` and
`SchedulerImplementsSessionLife`.

None of the invariants is inductive alone. The inductive invariant has four
parts:

* the types;
* what holds of the committed rows: the capacity and lifetime bounds, no
  orphan, and `Unused` (a session id not yet inserted has no worker);
* the locks: `LockExclusive` (one holder per worker row) and `HoldersFit` (a
  claim past its lock holds a row that still qualifies, and past its recount
  the row still has a free slot). `HoldersFit` is the code's "capacity
  invariant": it survives because nobody else inserts sessions or changes the
  row of a locked worker;
* time: `Clock` (no transaction begins in the future, no heartbeat is older
  than its limit) and `SweepSafe` (a worker that a deletion scan matched and
  that would still be deleted holds no active session). `SweepSafe` is why the
  stale `NOT EXISTS` does no harm: to be given a session after the scan a
  worker must first be available, hence must have heartbeated, and by
  `TTLAssumption` that heartbeat is too young for the re-evaluated condition.

The refinement follows from the invariant: `CommitClaim` maps to `Admit`,
whose guards are `HoldersFit`; every other step maps to `Withdraw` or to
stuttering.

`CapacityAlwaysHonest` is about sums over sets. A sum of naturals over a finite
set is shown to be the number of its units (`SumCounts`), after which cardinality
does the rest: the sum of differences is the difference of the sums, the sizes
of disjoint parts add up, and a sum is positive when a term is. Induction over
finite sets is done by a minimal counterexample (`MinimalSubset`, from the
library's theorem that the strict subset ordering is well founded), since the
library's induction theorems take an operator as a parameter. No worker being
overbooked is what makes `GREATEST(max_slots - active, 0)` the plain difference.

`RankingDetermined` shows that `Ranked`, from which `SelectClaimableWorker`
takes its order, has exactly one element for every set of workers: `Before` is a
strict total order (`BeforeIsTotal`), a set of workers has a last one
(`LastExists`), and a ranking is a ranking of the others with the last one
behind it (`RankedCut`, `RankedAppend`). So the action is neither blocked, which
would hide behaviours from every other result, nor a choice the code does not
have.

### `ReconcileProofs`

Theorems: `StaleListSafe` (over, or claimed on another row:
`ListStaleWorkerSessionIDs` lists what is not active on the row that heartbeats,
so a running session on a second row is closed); `HeldNeverFailed` under `ReportTuned` (dial plus
report time fit in the grace); `InUseNeverExpired` under `RenewTuned` (dial
plus renewal interval fit in the TTL) when renewals do not fail. The invariant
bounds the ages: a dial is never older than its timeout, a request never older
than its limit, and a running session that the worker holds and the pending
report lacks was started at most dial timeout plus the report's age ago
(`Young`). The code checks weaker relations than the two tunings; the defaults
satisfy both, the first with equality. `ReconcileImplementsSessionLife` needs the types only.

### `GatewayProofs`

Theorems: `TablesAlwaysAgree`, `NothingHalfOpen`, `ShutdownStaysQuiet`, for any
set of session ids and requests. The three invariants need each other, the
types, and `Fresh` (a request not handled yet has no socket and is in no
table). Two lemmas carry the argument: `CloseInv` for every event that ends a
connection, connected or not, and `AbortInv` for every event that gives up a
dial.

### `AdmissionProofs`

Theorems: `AdmissionTypeCorrect`, `QueueIsExact`, `AnswersAreHonest`,
`WakeupsKept`. `QueueAccounting` is inductive with the types: a lemma for each
way a step stays in, enters or leaves the queue. `AnswerHonest` needs them only.
`NoLostWakeup` speaks of waiting requests, so `LookInv` follows a request from
the moment it looks for a slot: while it looks, a worker it found full and that
is free again has been announced, is being announced or was freed silently
(`silent`), and after a look that found nothing the same holds of every free
slot.

### `RelayProofs` and `ServeProofs`

Theorems: `WaitGroupIsExact`, `CleanShutdownFinished`, `AtMostOneRelay`,
`RelayImplementsSessionLife`, and `OnlyFailedStartHarms`. The invariant adds who may have started a session (`Owner`, and `Unstarted` for
those nobody has), which attachments are registered (`LiveRelays`), that a
session whose attachment is over has an outcome or a lost write
(`OutcomeOwed`), and that a clean shutdown leaves no reservation
(`CleanEmpty`).

`OnlyFailedStartHarms` is about `LoserHarmless`, which the code violates. Its
premise, `StartErrsAfterEffect`, keeps every behaviour of `Spec` but those in
which a `StartSession` call that changed nothing returns an error; then whoever
fails a session has started it (`FailerStarted`).

`ServeImplementsRelay` proves that each step of `Serve` is a step of `Relay` or
leaves its variables alone, so the theorems about `Relay` hold of the process. On top of
them `CleanExitHolds` needs that a closed HTTP server has no handler left but the
upgraded ones (`HttpClosed`) and what a successful result means (`OkMeans`).
`DeadlineSuffices` needs that the stop reaches every relay that runs when the
grace is over (`ToldToStop`), the clock's place in each phase (`Phases`), and
`InTime`: the clock, what a handler's step may still take and what can follow it
stay below the deadline, unless a query without a timeout hangs. That is the
argument behind the sum in `run`: a handler dials at most once, a relay ends with
the grace at the latest, and then two close frames and one write remain. A
request that loses makes two untimed queries after the signal at most, without a
dial; one that was loading is turned away by `BeginAttach`.

### `AuthProofs`

Theorems: `AnswersLinearize`, `LockNeverOpens`. The invariant says at each place
of `Authenticate` what an atomic check could have said since the request
arrived (`Recorded`), that a request which goes on to judge the token has the
latch behind it (`LatchBehind`), that an answer is among those verdicts
(`Answered`), and that a process that has demanded a token is latched
(`DemandedLatched`). The second look at the latch after a count of zero is what
makes the first two hold together.

### `WorkerProofs`

Theorems: `HeartbeatGoesOn`, `DrainCutsNobody`, `DrainNeverUnwatched`,
`ShutdownStands`, for any sets of row ids and sessions. The inductive invariant
adds to the types and to `HeartbeatAlive` and `DrainWatched`:

* `HeartbeatId`: the heartbeat loop runs only for a worker that has a row id,
  which it keeps through every re-registration and failure;
* `CutForced` and `Spared`: a session was cut only by a forced shutdown, and
  a shutdown that a drain decided on finds no session connected before the
  decision. `DrainSpares` is not inductive without it: the decision and the
  closing of the gateway are an await apart.

A lemma for each answer that may come late (`HeartbeatAnswerInv`,
`DrainToldInv`, `ShutdownToldInv`, `SessionCloseInv`) does the part of
the proof that the interleaving makes hard.

### Only model-checked

Liveness under fairness (`PollingFallback`, `EveryRequestAnswered`,
`DrainEmptiesQueue`, `EndedSessionDetached`, `SignalExits`, `SlotFreed`,
`ZombieClosed`, `DialSettled`, `DrainKnown`, `Reregistered`, `DrainExits`) is
out of the prover's reach. The violations are TLC's counterexamples.

## Not modelled

* Version routing: a pure function from a version string to a prefix, whose
  result the claim takes as `Matches`.
* The reads of the API other than `GET /capacity`, the health routes, and all
  encodings.
* Connection pool and migrations; the parsing of configuration on both sides;
  logging.
* The generated API client, benchmarks and scripts.

A session claimed just before a drain may reach a worker that has decided to
stop: its dial fails, or it is cut when it connected during the shutdown's
status call. The repository promises nothing to such a session, so `DrainSpares`
speaks of the sessions connected when the decision is made.

## Plan

Done, in this order: `Capacity` and `Scheduler` with their proofs, `Admission`,
`Relay`, `Reconcile` with its proofs, `Gateway` with its proofs, `Worker`,
`Auth` with its proofs, `CapacityReport`, the proofs of `Relay`, `Serve` with
its proofs, the proofs of `Admission`, of `Worker` and of `CapacityReport`, and
`SessionLife` with the three proofs that it is implemented.

Left:

1. `Worker` composed with `Reconcile`: `foreign` has the sessions claimed on the
   row of a registration whose answer was lost, but not how long such a row
   stays claimable.
2. The lock order of the bulk worker updates of two rescuers.
3. Theorems: the safety half of the liveness properties (a waiting request has a
   timer, a dial has a limit), as `DrainNeverUnwatched` is of `DrainExits`.
