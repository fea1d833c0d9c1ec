----------------------------- MODULE Admission ------------------------------
(***************************************************************************)
(* Admission of requests in one server process: the fast claim, the        *)
(* bounded queue, the wait for capacity, the waker fed by LISTEN/NOTIFY,   *)
(* the polling fallback, deadlines, cancellation and drain (Admit in       *)
(* scheduler.go, waker.go, listener.go). The database is the ownership of  *)
(* slots; a slot stands for a worker with one slot. How a claim            *)
(* transaction takes it is the matter of Scheduler.                        *)
(***************************************************************************)
EXTENDS Integers, FiniteSets

CONSTANTS Clients,   \* requests of this process
          Slots,     \* worker slots, shared with the other replicas
          MaxQueue   \* MAX_QUEUE_SIZE

ASSUME QueueAssumption == MaxQueue \in Nat
ASSUME ClientsAssumption == IsFiniteSet(Clients)
ASSUME OwnerAssumption == Clients \cap {"free", "down", "other"} = {}

VARIABLES
    owner,      \* owner[x]: "free", "down" (worker out of service), "other"
                \* (another replica's session), or the request that claimed x
    pc,         \* pc[c]: where Admit stands for c
    result,     \* result[c]: what Admit returned
    excluded,   \* excluded[c]: the workers c found full
    ctx,        \* ctx[c]: which of "cancelled", "deadline" has happened
    wake,       \* wake[c]: the waker's one-element channel of c
    queued,     \* the counter of enterQueue and leaveQueue
    note,       \* a notification is on its way to the listener
    listening,  \* the LISTEN connection is up
    draining,   \* lifecycleCtx is done
    silent      \* history: capacity was gained, or a claim of c failed, with no
                \* wake-up for it since c last began to look for a slot

dbVars == <<owner, note>>
vars == <<owner, pc, result, excluded, ctx, wake, queued, note, listening, draining, silent>>

InQueue == {"check", "claiming", "missed", "waiting"}
Results == {"none", "session", "draining", "queue_full", "timeout",
            "cancelled", "error", "uncertain"}

TypeOK ==
    /\ owner \in [Slots -> {"free", "down", "other"} \cup Clients]
    /\ pc \in [Clients -> {"idle", "fast", "recheck", "enter", "done"} \cup InQueue]
    /\ result \in [Clients -> Results]
    /\ excluded \in [Clients -> SUBSET Slots]
    /\ ctx \in [Clients -> SUBSET {"cancelled", "deadline"}]
    /\ wake \in [Clients -> BOOLEAN]
    /\ queued \in 0..MaxQueue
    /\ note \in BOOLEAN
    /\ listening \in BOOLEAN
    /\ draining \in BOOLEAN
    /\ silent \in [Clients -> BOOLEAN]

Init ==
    /\ owner \in [Slots -> {"free", "down", "other"}]
    /\ pc = [c \in Clients |-> "idle"]
    /\ result = [c \in Clients |-> "none"]
    /\ excluded = [c \in Clients |-> {}]
    /\ ctx = [c \in Clients |-> {}]
    /\ wake = [c \in Clients |-> FALSE]
    /\ queued = 0
    /\ note = FALSE
    /\ listening = TRUE
    /\ draining = FALSE
    /\ silent = [c \in Clients |-> FALSE]

-----------------------------------------------------------------------------
Free == {x \in Slots : owner[x] = "free"}
OwnedBy(c) == {x \in Slots : owner[x] = c}

\* queueWaitError: the reason to stop waiting, in the order of its checks.
queueWaitError(c) ==
    IF "cancelled" \in ctx[c] THEN "cancelled"
    ELSE IF draining THEN "draining"
    ELSE IF "deadline" \in ctx[c] THEN "timeout" ELSE "none"

\* History: the requests in the queue are not told of a gain of capacity.
Unheard == silent' = [c \in Clients |-> silent[c] \/ pc[c] \in InQueue]

\* History: c begins to look for a slot, or leaves the queue.
LookAgain(c) == silent' = [silent EXCEPT ![c] = FALSE]

\* The update that ends a session, or makes capacity, and pg_notify in the
\* same transaction: lost if nobody listens.
Release(x) ==
    /\ owner' = [owner EXCEPT ![x] = "free"]
    /\ IF listening THEN note' = TRUE /\ UNCHANGED silent
                    ELSE Unheard /\ UNCHANGED note

Goto(c, to) == pc' = [pc EXCEPT ![c] = to]

Return(c, r) ==
    /\ Goto(c, "done")
    /\ result' = [result EXCEPT ![c] = r]
    /\ excluded' = [excluded EXCEPT ![c] = {}]

\* A return from inside the queue runs the deferred calls: the timer is
\* stopped, the waker unsubscribed and the queue left.
Leave(c, r) ==
    /\ Return(c, r)
    /\ wake' = [wake EXCEPT ![c] = FALSE]
    /\ LookAgain(c)
    /\ queued' = queued - 1

-----------------------------------------------------------------------------
(* Before the queue.                                                       *)

Arrive(c) ==
    /\ pc[c] = "idle"
    /\ IF draining THEN Return(c, "draining")
       ELSE Goto(c, "fast") /\ UNCHANGED <<result, excluded>>
    /\ UNCHANGED <<dbVars, ctx, wake, queued, listening, draining, silent>>

FastHit(c, x) ==
    /\ pc[c] = "fast"
    /\ x \in Free
    /\ owner' = [owner EXCEPT ![x] = c]
    /\ Return(c, "session")
    /\ UNCHANGED <<note, ctx, wake, queued, listening, draining, silent>>

\* No worker has room, or SKIP LOCKED passed over the rows that have.
FastNone(c) ==
    /\ pc[c] = "fast"
    /\ Goto(c, "recheck")
    /\ UNCHANGED <<dbVars, result, excluded, ctx, wake, queued, listening, draining, silent>>

FastError(c) ==
    /\ pc[c] = "fast"
    /\ Return(c, IF "cancelled" \in ctx[c] THEN "cancelled" ELSE "error")
    /\ UNCHANGED <<dbVars, ctx, wake, queued, listening, draining, silent>>

\* COMMIT failed, having taken effect or not.
FastUncertain(c) ==
    /\ pc[c] = "fast"
    /\ (\E x \in Free : owner' = [owner EXCEPT ![x] = c]) \/ UNCHANGED owner
    /\ Return(c, "uncertain")
    /\ UNCHANGED <<note, ctx, wake, queued, listening, draining, silent>>

CheckDraining(c) ==
    /\ pc[c] = "recheck"
    /\ IF draining THEN Return(c, "draining")
       ELSE Goto(c, "enter") /\ UNCHANGED <<result, excluded>>
    /\ UNCHANGED <<dbVars, ctx, wake, queued, listening, draining, silent>>

\* Mutant: > for >= in the bound.
enterQueueOneMore(c) ==
    /\ pc[c] = "enter"
    /\ IF queued > MaxQueue
       THEN Return(c, "queue_full") /\ UNCHANGED queued
       ELSE /\ queued' = queued + 1
            /\ Goto(c, "check")
            /\ UNCHANGED <<result, excluded>>
    /\ UNCHANGED <<dbVars, ctx, wake, listening, draining, silent>>

enterQueue(c) ==
    /\ pc[c] = "enter"
    /\ IF queued >= MaxQueue
       THEN Return(c, "queue_full") /\ UNCHANGED queued
       ELSE /\ queued' = queued + 1
            /\ Goto(c, "check")
            /\ UNCHANGED <<result, excluded>>
    /\ UNCHANGED <<dbVars, ctx, wake, listening, draining, silent>>

-----------------------------------------------------------------------------
(* The loop of Admit.                                                      *)

\* Mutant: the loop never looks at the contexts between claims.
LeaveOrNever(c, next) ==
    /\ Goto(c, next) /\ UNCHANGED <<result, wake, queued, silent>>
    /\ excluded' = [excluded EXCEPT ![c] = IF next = "waiting" THEN {} ELSE @]

\* Go on to `next` unless there is a reason to stop.
LeaveOr(c, next) ==
    IF queueWaitError(c) # "none"
    THEN Leave(c, queueWaitError(c))
    ELSE Goto(c, next) /\ UNCHANGED <<result, wake, queued, silent>>
         /\ excluded' = [excluded EXCEPT ![c] = IF next = "waiting" THEN {} ELSE @]

Check(c) ==
    /\ pc[c] = "check"
    /\ LeaveOr(c, "claiming")
    /\ UNCHANGED <<dbVars, ctx, listening, draining>>

\* A claim that committed wins, even if the deadline or the drain came first.
ClaimHit(c, x) ==
    /\ pc[c] = "claiming"
    /\ x \in Free \ excluded[c]
    /\ owner' = [owner EXCEPT ![x] = c]
    /\ Leave(c, "session")
    /\ UNCHANGED <<note, ctx, listening, draining>>

\* The recount found the selected worker full: try again at once without it.
ClaimFull(c, x) ==
    /\ pc[c] = "claiming"
    /\ x \in Slots \ (Free \cup excluded[c])
    /\ owner[x] # "down"
    /\ excluded' = [excluded EXCEPT ![c] = @ \cup {x}]
    /\ Goto(c, "check")
    /\ UNCHANGED <<dbVars, result, ctx, wake, queued, listening, draining, silent>>

\* No other worker has room, or SKIP LOCKED passed over the rows that have.
ClaimNone(c) ==
    /\ pc[c] = "claiming"
    /\ silent' = [silent EXCEPT ![c] = @ \/ ~(Free \subseteq excluded[c])]
    /\ Goto(c, "missed")
    /\ UNCHANGED <<dbVars, result, excluded, ctx, wake, queued, listening, draining>>

\* The claim rolled back: cancelled by its context, or a database error.
ClaimError(c) ==
    /\ pc[c] = "claiming"
    /\ silent' = [silent EXCEPT ![c] = TRUE]
    /\ Goto(c, "missed")
    /\ UNCHANGED <<dbVars, result, excluded, ctx, wake, queued, listening, draining>>

\* Mutant: an uncertain commit is retried like any failed claim.
ClaimUncertainRetried(c) ==
    /\ pc[c] = "claiming"
    /\ \/ \E x \in Free \ excluded[c] : owner' = [owner EXCEPT ![x] = c]
       \/ UNCHANGED owner
    /\ Goto(c, "missed")
    /\ UNCHANGED <<note, result, excluded, ctx, wake, queued, listening, draining, silent>>

\* COMMIT failed, having taken effect or not: never retried.
ClaimUncertain(c) ==
    /\ pc[c] = "claiming"
    /\ \/ \E x \in Free \ excluded[c] : owner' = [owner EXCEPT ![x] = c]
       \/ UNCHANGED owner
    /\ Leave(c, "uncertain")
    /\ UNCHANGED <<note, ctx, listening, draining>>

Missed(c) ==
    /\ pc[c] = "missed"
    /\ LeaveOr(c, "waiting")
    /\ UNCHANGED <<dbVars, ctx, listening, draining>>

\* The select: any of its ready cases.
ContextDone(c) ==
    /\ pc[c] = "waiting"
    /\ ctx[c] # {}
    /\ Leave(c, queueWaitError(c))
    /\ UNCHANGED <<dbVars, ctx, listening, draining>>

DrainDone(c) ==
    /\ pc[c] = "waiting"
    /\ draining
    /\ Leave(c, "draining")
    /\ UNCHANGED <<dbVars, ctx, listening, draining>>

Woken(c) ==
    /\ pc[c] = "waiting"
    /\ wake[c]
    /\ wake' = [wake EXCEPT ![c] = FALSE]
    /\ LookAgain(c)
    /\ Goto(c, "check")
    /\ UNCHANGED <<dbVars, result, excluded, ctx, queued, listening, draining>>

\* Mutant: the timer is not reset, so it fires only while a wake-up is there.
PollTickOnce(c) ==
    /\ pc[c] = "waiting"
    /\ wake[c]
    /\ LookAgain(c)
    /\ Goto(c, "check")
    /\ UNCHANGED <<dbVars, result, excluded, ctx, wake, queued, listening, draining>>

PollTick(c) ==
    /\ pc[c] = "waiting"
    /\ LookAgain(c)
    /\ Goto(c, "check")
    /\ UNCHANGED <<dbVars, result, excluded, ctx, wake, queued, listening, draining>>

-----------------------------------------------------------------------------
(* After the answer: the session of a request ends, by its relay or, when  *)
(* nobody knows of it, by the pending TTL; the request is forgotten.       *)

EndSession(c, x) ==
    /\ pc[c] = "done"
    /\ owner[x] = c
    /\ Release(x)
    /\ UNCHANGED <<pc, result, excluded, ctx, wake, queued, listening, draining>>

Forget(c) ==
    /\ pc[c] = "done"
    /\ OwnedBy(c) = {}
    /\ Goto(c, "idle")
    /\ result' = [result EXCEPT ![c] = "none"]
    /\ ctx' = [ctx EXCEPT ![c] = {}]
    /\ UNCHANGED <<dbVars, excluded, wake, queued, listening, draining, silent>>

\* The steps of the goroutine that runs Admit.
AdmitStep(c) ==
    \/ FastNone(c) \/ FastError(c) \/ FastUncertain(c) \/ CheckDraining(c) \/ enterQueue(c)
    \/ Check(c) \/ ClaimNone(c) \/ ClaimError(c) \/ ClaimUncertain(c) \/ Missed(c)
    \/ ContextDone(c) \/ DrainDone(c) \/ Woken(c) \/ PollTick(c)
    \/ \E x \in Slots : FastHit(c, x) \/ ClaimHit(c, x) \/ ClaimFull(c, x)

-----------------------------------------------------------------------------
(* Contexts, the listener, drain and the rest of the fleet.                *)

Cancel(c) ==
    /\ pc[c] \notin {"idle", "done"}
    /\ ctx' = [ctx EXCEPT ![c] = @ \cup {"cancelled"}]
    /\ UNCHANGED <<dbVars, pc, result, excluded, wake, queued, listening, draining, silent>>

\* QUEUE_WAIT_TIMEOUT runs from the entry into the queue.
Deadline(c) ==
    /\ pc[c] \in InQueue
    /\ "deadline" \notin ctx[c]
    /\ ctx' = [ctx EXCEPT ![c] = @ \cup {"deadline"}]
    /\ UNCHANGED <<dbVars, pc, result, excluded, wake, queued, listening, draining, silent>>

\* Mutant: an unbuffered channel, whose send succeeds only in the select.
WakeUnbuffered ==
    /\ note
    /\ note' = FALSE
    /\ wake' = [c \in Clients |-> wake[c] \/ pc[c] = "waiting"]
    /\ UNCHANGED <<owner, pc, result, excluded, ctx, queued, listening, draining, silent>>

\* The listener gets a notification and wakes every subscriber; a waiter
\* that has a wake-up already keeps just that one.
Wake ==
    /\ note
    /\ note' = FALSE
    /\ wake' = [c \in Clients |-> wake[c] \/ pc[c] \in InQueue]
    /\ UNCHANGED <<owner, pc, result, excluded, ctx, queued, listening, draining, silent>>

Disconnect ==
    /\ listening
    /\ listening' = FALSE
    /\ note' = FALSE
    /\ IF note THEN Unheard ELSE UNCHANGED silent
    /\ UNCHANGED <<owner, pc, result, excluded, ctx, wake, queued, draining>>

Reconnect ==
    /\ ~listening
    /\ listening' = TRUE
    /\ UNCHANGED <<dbVars, pc, result, excluded, ctx, wake, queued, draining, silent>>

BeginDrain ==
    /\ ~draining
    /\ draining' = TRUE
    /\ UNCHANGED <<dbVars, pc, result, excluded, ctx, wake, queued, listening, silent>>

\* Other replicas claim and release, workers stall, register and revive. A
\* registration notifies; a revival does not.
Fleet ==
    /\ \E x \in Slots :
         \/ /\ owner[x] = "free"
            /\ \E o \in {"other", "down"} : owner' = [owner EXCEPT ![x] = o]
            /\ UNCHANGED <<note, silent>>
         \/ owner[x] \in {"other", "down"} /\ Release(x)
         \/ /\ owner[x] = "down"
            /\ owner' = [owner EXCEPT ![x] = "free"]
            /\ Unheard /\ UNCHANGED note
    /\ UNCHANGED <<pc, result, excluded, ctx, wake, queued, listening, draining>>

Next ==
    \/ \E c \in Clients : \/ Arrive(c) \/ AdmitStep(c) \/ Forget(c)
                          \/ \E x \in Slots : EndSession(c, x)
                          \/ Cancel(c) \/ Deadline(c)
    \/ Wake \/ Disconnect \/ Reconnect \/ BeginDrain \/ Fleet

Spec == Init /\ [][Next]_vars

\* The runtime schedules the goroutine, its timer fires and its database
\* calls return. Nothing is assumed of clients, sessions or notifications.
FairSpec == Spec /\ \A c \in Clients : WF_vars(AdmitStep(c))

-----------------------------------------------------------------------------
(* Properties.                                                             *)

\* The queue counter counts the requests inside the queue, on every way in
\* and out of Admit, and never passes MAX_QUEUE_SIZE.
QueueAccounting ==
    /\ queued = Cardinality({c \in Clients : pc[c] \in InQueue})
    /\ queued <= MaxQueue

\* The answer tells the truth about the database: a request takes at most
\* one slot, and only one answered with a session or with an uncertain
\* commit may have left a session row behind. Timeout, drain, cancellation
\* and a full queue leave none, although each may strike in mid-claim.
AnswerHonest ==
    \A c \in Clients :
        /\ \A x, y \in OwnedBy(c) : x = y
        /\ OwnedBy(c) # {} => pc[c] = "done" /\ result[c] \in {"session", "uncertain"}

\* A request sleeps beside a free slot only when nothing could have told it:
\* unless, since it last began to look, a worker was revived, the LISTEN
\* connection was down, or its claim failed or met a locked row, the wake-up
\* is in its channel or on its way.
NoLostWakeup ==
    \A c \in Clients :
        pc[c] = "waiting" /\ Free # {} => wake[c] \/ note \/ silent[c]

\* The polling fallback covers all the gains of capacity that wake nobody:
\* a request does not sleep for ever beside a free slot.
PollingFallback ==
    \A c \in Clients :
        pc[c] = "waiting" /\ Free # {} ~> pc[c] # "waiting" \/ Free = {}

\* A request whose deadline passed, whose client left, or whose server
\* drains gets its answer, wherever in Admit it is.
EveryRequestAnswered ==
    \A c \in Clients :
        pc[c] \notin {"idle", "done"} /\ (ctx[c] # {} \/ draining) ~> pc[c] = "done"

\* Drain empties the queue for good, though a request that passed its drain
\* check may still enter afterwards.
DrainEmptiesQueue == draining ~> [](queued = 0)
=============================================================================
