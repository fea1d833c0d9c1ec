------------------------------- MODULE Relay --------------------------------
(***************************************************************************)
(* Attaching clients to sessions and relaying them in one server process:  *)
(* the handler's attach (httpapi/relay.go), the relay manager's            *)
(* reservations, registry, teardown and outcome (relay/manager.go), and    *)
(* its Shutdown, against everything else that may end a session.           *)
(***************************************************************************)
EXTENDS Integers, FiniteSets

CONSTANTS Attachments,  \* relay requests, implicit or explicit
          Sessions,     \* sessions, claimed and pending at first
          NoOne

ASSUME NoOneAssumption == NoOne \notin Attachments \cup Sessions
ASSUME FiniteAssumption == IsFiniteSet(Attachments)

VARIABLES
    session,   \* session[s]: status in the database
    starter,   \* starter[s]: the attachment whose StartSession took effect
    lost,      \* sessions for which a final write of this process failed
    pc,        \* pc[a]: where the handler stands
    sess,      \* sess[a]: the session it attaches to
    event,     \* event[a]: the oldest event in Run's channel; only that is read
    alive,     \* alive[a]: the goroutines of Run still running
    live,      \* live[s]: the manager's map of registered relays
    wg,        \* the manager's WaitGroup
    shutdown,  \* where Shutdown stands; from "grace" on, draining is set
    stops      \* the relays Shutdown still has to stop

handlerVars == <<pc, sess, event, alive>>
managerVars == <<live, wg, shutdown, stops>>
vars == <<session, starter, lost, handlerVars, managerVars>>

Active == {"pending", "running"}
Terminal == {"completed", "failed", "expired"}
\* Both copy directions behave alike and are one goroutine here.
Goroutines == {"copy", "ping", "renew"}
\* Between BeginAttach and the end of the reservation or of the relay.
Outstanding == {"reserved", "rejected", "started", "dialed", "upgraded", "running", "closing",
                "recording", "unregistering", "failing", "completing", "releasing"}
Places == Outstanding \cup {"idle", "loading", "loaded", "done"}

TypeOK ==
    /\ session \in [Sessions -> Active \cup Terminal]
    /\ starter \in [Sessions -> Attachments \cup {NoOne}]
    /\ lost \subseteq Sessions
    /\ pc \in [Attachments -> Places]
    /\ sess \in [Attachments -> Sessions \cup {NoOne}]
    /\ event \in [Attachments -> {"none", "normal", "failed"}]
    /\ alive \in [Attachments -> SUBSET Goroutines]
    /\ live \in [Sessions -> Attachments \cup {NoOne}]
    /\ wg \in 0..Cardinality(Attachments)
    /\ shutdown \in {"no", "grace", "stopping", "final", "clean", "expired"}
    /\ stops \subseteq Attachments

Init ==
    /\ session = [s \in Sessions |-> "pending"]
    /\ starter = [s \in Sessions |-> NoOne]
    /\ lost = {}
    /\ pc = [a \in Attachments |-> "idle"]
    /\ sess = [a \in Attachments |-> NoOne]
    /\ event = [a \in Attachments |-> "none"]
    /\ alive = [a \in Attachments |-> {}]
    /\ live = [s \in Sessions |-> NoOne]
    /\ wg = 0
    /\ shutdown = "no"
    /\ stops = {}

draining == shutdown # "no"
Goto(a, to) == pc' = [pc EXCEPT ![a] = to]

\* A guarded update that ends s: done, without effect, or failed and lost.
Finish(s, from, to) ==
    \/ /\ session' = [session EXCEPT ![s] = IF @ \in from THEN to ELSE @]
       /\ UNCHANGED lost
    \/ /\ lost' = lost \cup {s}
       /\ UNCHANGED session

\* stop: a send to the channel that never blocks; the first event is kept.
Send(a, e) == event' = [event EXCEPT ![a] = IF @ = "none" THEN e ELSE @]

-----------------------------------------------------------------------------
(* attach.                                                                 *)

\* preflight: a request gets in while the manager is accepting.
preflight(a) ==
    /\ pc[a] = "idle"
    /\ ~draining
    /\ Goto(a, "loading")
    /\ UNCHANGED <<session, starter, lost, sess, event, alive, managerVars>>

\* authenticateRelay, then Admit (implicit) or GetSession (explicit): a
\* session just claimed or read as pending, or the request is refused.
Load(a) ==
    /\ pc[a] = "loading"
    /\ \/ \E s \in Sessions : /\ session[s] = "pending"
                              /\ sess' = [sess EXCEPT ![a] = s]
                              /\ Goto(a, "loaded")
       \/ Goto(a, "done") /\ UNCHANGED sess
    /\ UNCHANGED <<session, starter, lost, event, alive, managerVars>>

\* Refused while draining: the session stays pending until its TTL.
BeginAttach(a) ==
    /\ pc[a] = "loaded"
    /\ IF draining THEN Goto(a, "done") /\ UNCHANGED wg
       ELSE Goto(a, "reserved") /\ wg' = wg + 1
    /\ UNCHANGED <<session, starter, lost, sess, event, alive, live, shutdown, stops>>

\* Mutant: the update is not guarded by the pending status.
StartSessionUnguarded(a) ==
    /\ pc[a] = "reserved"
    /\ session' = [session EXCEPT ![sess[a]] = "running"]
    /\ starter' = [starter EXCEPT ![sess[a]] = a]
    /\ Goto(a, "started")
    /\ UNCHANGED <<lost, sess, event, alive, managerVars>>

\* StartSession: it starts the session, finds it no longer pending, or
\* fails, with or without having taken effect.
StartSession(a) ==
    /\ pc[a] = "reserved"
    /\ \/ /\ session[sess[a]] = "pending"
          /\ session' = [session EXCEPT ![sess[a]] = "running"]
          /\ starter' = [starter EXCEPT ![sess[a]] = a]
          /\ \E to \in {"started", "failing"} : Goto(a, to)
       \/ /\ session[sess[a]] # "pending"
          /\ Goto(a, "rejected")
          /\ UNCHANGED <<session, starter>>
       \/ Goto(a, "failing") /\ UNCHANGED <<session, starter>>
    /\ UNCHANGED <<lost, sess, event, alive, managerVars>>

\* GetSession again, for the wording of the refusal.
writeRejectedStart(a) ==
    /\ pc[a] = "rejected"
    /\ Goto(a, "releasing")
    /\ UNCHANGED <<session, starter, lost, sess, event, alive, managerVars>>

dialWorker(a) ==
    /\ pc[a] = "started"
    /\ \E to \in {"dialed", "failing"} : Goto(a, to)
    /\ UNCHANGED <<session, starter, lost, sess, event, alive, managerVars>>

Upgrade(a) ==
    /\ pc[a] = "dialed"
    /\ \E to \in {"upgraded", "failing"} : Goto(a, to)
    /\ UNCHANGED <<session, starter, lost, sess, event, alive, managerVars>>

failSession(a) ==
    /\ pc[a] = "failing"
    /\ Finish(sess[a], Active, "failed")
    /\ Goto(a, "releasing")
    /\ UNCHANGED <<starter, sess, event, alive, managerVars>>

\* The deferred Release of a reservation that Run did not adopt.
Release(a) ==
    /\ pc[a] = "releasing"
    /\ wg' = wg - 1
    /\ Goto(a, "done")
    /\ UNCHANGED <<session, starter, lost, sess, event, alive, live, shutdown, stops>>

-----------------------------------------------------------------------------
(* Run.                                                                    *)

\* Mutant: a draining manager turns the relay away without its outcome.
registerForgetsOutcome(a) ==
    /\ pc[a] = "upgraded"
    /\ IF draining \/ live[sess[a]] # NoOne
       THEN Goto(a, "releasing") /\ UNCHANGED <<live, alive>>
       ELSE /\ live' = [live EXCEPT ![sess[a]] = a]
            /\ alive' = [alive EXCEPT ![a] = Goroutines]
            /\ Goto(a, "running")
    /\ UNCHANGED <<session, starter, lost, sess, event, wg, shutdown, stops>>

\* Mutant: the registry does not look at draining.
registerWhileDraining(a) ==
    /\ pc[a] = "upgraded"
    /\ live[sess[a]] = NoOne
    /\ live' = [live EXCEPT ![sess[a]] = a]
    /\ alive' = [alive EXCEPT ![a] = Goroutines]
    /\ Goto(a, "running")
    /\ UNCHANGED <<session, starter, lost, sess, event, wg, shutdown, stops>>

register(a) ==
    /\ pc[a] = "upgraded"
    /\ IF draining THEN Goto(a, "completing") /\ UNCHANGED <<live, alive>>
       ELSE IF live[sess[a]] # NoOne THEN Goto(a, "releasing") /\ UNCHANGED <<live, alive>>
       ELSE /\ live' = [live EXCEPT ![sess[a]] = a]
            /\ alive' = [alive EXCEPT ![a] = Goroutines]
            /\ Goto(a, "running")
    /\ UNCHANGED <<session, starter, lost, sess, event, wg, shutdown, stops>>

\* registerDraining: both peers are closed and the session is completed.
CompleteDraining(a) ==
    /\ pc[a] = "completing"
    /\ Finish(sess[a], {"running"}, "completed")
    /\ Goto(a, "releasing")
    /\ UNCHANGED <<starter, sess, event, alive, managerVars>>

GoroutineEnds(a, g, e) ==
    /\ g \in alive[a]
    /\ alive' = [alive EXCEPT ![a] = @ \ {g}]
    /\ Send(a, e)
    /\ UNCHANGED <<session, starter, lost, pc, sess, managerVars>>

\* A peer closes or its connection fails.
PeerGone(a) ==
    \/ \E e \in {"normal", "failed"} : GoroutineEnds(a, "copy", e)
    \/ GoroutineEnds(a, "ping", "failed")

\* Mutant: a renewal without a row is taken for a passing error.
renewHeartbeatTolerant(a) ==
    /\ pc[a] = "running"
    /\ session[sess[a]] # "running"
    /\ UNCHANGED vars

\* The renewal finds the session no longer running: it was terminated.
renewHeartbeat(a) ==
    /\ pc[a] = "running"
    /\ session[sess[a]] # "running"
    /\ GoroutineEnds(a, "renew", "normal")

\* Run takes the event, cancels and closes both connections; that ends the
\* goroutines, and Run waits for them.
Receive(a) ==
    /\ pc[a] = "running"
    /\ event[a] # "none"
    /\ Goto(a, "closing")
    /\ UNCHANGED <<session, starter, lost, sess, event, alive, managerVars>>

Closed(a) ==
    /\ pc[a] = "closing"
    /\ \E g \in alive[a] : GoroutineEnds(a, g, "failed")

Joined(a) ==
    /\ pc[a] = "closing"
    /\ alive[a] = {}
    /\ Goto(a, "recording")
    /\ UNCHANGED <<session, starter, lost, sess, event, alive, managerVars>>

recordOutcome(a) ==
    /\ pc[a] = "recording"
    /\ IF event[a] = "normal" THEN Finish(sess[a], {"running"}, "completed")
                              ELSE Finish(sess[a], Active, "failed")
    /\ Goto(a, "unregistering")
    /\ UNCHANGED <<starter, sess, event, alive, managerVars>>

\* Mutant: register leaves the reservation unconsumed, so that the handler's
\* deferred Release gives back what unregister already gave back.
unregisterUnconsumed(a) ==
    /\ pc[a] = "unregistering"
    /\ live' = [live EXCEPT ![sess[a]] = NoOne]
    /\ wg' = wg - 1
    /\ Goto(a, "releasing")
    /\ UNCHANGED <<session, starter, lost, sess, event, alive, shutdown, stops>>

unregister(a) ==
    /\ pc[a] = "unregistering"
    /\ live' = [live EXCEPT ![sess[a]] = NoOne]
    /\ wg' = wg - 1
    /\ Goto(a, "done")
    /\ UNCHANGED <<session, starter, lost, sess, event, alive, shutdown, stops>>

\* The handler's own steps.
HandlerStep(a) ==
    \/ Load(a) \/ BeginAttach(a) \/ StartSession(a) \/ writeRejectedStart(a)
    \/ dialWorker(a) \/ Upgrade(a) \/ failSession(a) \/ Release(a)
    \/ register(a) \/ CompleteDraining(a) \/ Receive(a) \/ Closed(a)
    \/ Joined(a) \/ recordOutcome(a) \/ unregister(a)

-----------------------------------------------------------------------------
(* Shutdown.                                                               *)

ShutdownBegin ==
    /\ shutdown = "no"
    /\ shutdown' = "grace"
    /\ UNCHANGED <<session, starter, lost, handlerVars, live, wg, stops>>

\* The grace is over: collect the stop functions of the live relays.
GraceOver ==
    /\ shutdown = "grace"
    /\ shutdown' = "stopping"
    /\ stops' = {live[s] : s \in {t \in Sessions : live[t] # NoOne}}
    /\ UNCHANGED <<session, starter, lost, handlerVars, live, wg>>

StopRelay(a) ==
    /\ shutdown = "stopping"
    /\ a \in stops
    /\ stops' = stops \ {a}
    /\ Send(a, "normal")
    /\ UNCHANGED <<session, starter, lost, pc, sess, alive, live, wg, shutdown>>

Stopped ==
    /\ shutdown = "stopping"
    /\ stops = {}
    /\ shutdown' = "final"
    /\ UNCHANGED <<session, starter, lost, handlerVars, live, wg, stops>>

\* wg.Wait has returned.
ShutdownClean ==
    /\ shutdown \in {"grace", "final"}
    /\ wg = 0
    /\ shutdown' = "clean"
    /\ UNCHANGED <<session, starter, lost, handlerVars, live, wg, stops>>

ShutdownExpired ==
    /\ shutdown \in {"grace", "final"}
    /\ shutdown' = "expired"
    /\ UNCHANGED <<session, starter, lost, handlerVars, live, wg, stops>>

-----------------------------------------------------------------------------
\* A termination request, a worker's heartbeat or the rescuer ends a session.
EndElsewhere(s) ==
    /\ session[s] \in Active
    /\ \E to \in Terminal : session' = [session EXCEPT ![s] = to]
    /\ UNCHANGED <<starter, lost, handlerVars, managerVars>>

Next ==
    \/ \E a \in Attachments : \/ preflight(a)
                              \/ HandlerStep(a) \/ PeerGone(a) \/ renewHeartbeat(a)
                              \/ StopRelay(a)
    \/ ShutdownBegin \/ GraceOver \/ Stopped \/ ShutdownClean \/ ShutdownExpired
    \/ \E s \in Sessions : EndElsewhere(s)

Spec == Init /\ [][Next]_vars

-----------------------------------------------------------------------------
(* Properties.                                                             *)

\* The WaitGroup counts exactly the outstanding attachments: each is counted
\* from BeginAttach and given back once, by Release or by unregister.
WaitGroupExact ==
    wg = Cardinality({a \in Attachments : pc[a] \in Outstanding})

\* Shutdown returns nil only when no attachment is under way, and when every
\* session this process started has its outcome in the database, unless the
\* write itself failed.
CleanMeansFinished ==
    shutdown = "clean" =>
        /\ \A a \in Attachments : pc[a] \notin Outstanding
        /\ \A s \in Sessions : starter[s] # NoOne => session[s] \in Terminal \/ s \in lost

PastStart == {"started", "dialed", "upgraded", "running", "closing",
              "recording", "unregistering", "completing"}

\* Whatever the number of clients that attach to one pending session, at
\* most one gets past StartSession, so Run never meets a duplicate.
OneRelay ==
    \A a, b \in Attachments :
        a # b /\ sess[a] # NoOne /\ sess[a] = sess[b] =>
            /\ ~(pc[a] \in PastStart /\ pc[b] \in PastStart)
            /\ pc[a] = "upgraded" => live[sess[a]] = NoOne

\* An attachment that lost the race for a session has no effect on it: the
\* winner's session goes on.
LoserHarmless ==
    [][\A a \in Attachments :
         /\ pc[a] = "failing" /\ starter[sess[a]] \notin {a, NoOne}
         => session'[sess[a]] = session[sess[a]] \/ pc'[a] = pc[a]]_vars
=============================================================================
