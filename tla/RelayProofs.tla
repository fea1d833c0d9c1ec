----------------------------- MODULE RelayProofs ----------------------------
(***************************************************************************)
(* The relay manager's accounting, for every number of attachments and     *)
(* sessions.                                                               *)
(***************************************************************************)
EXTENDS Relay, FiniteSetTheorems, TLAPS

\* A handler past its load has a session.
Bound == \A a \in Attachments : pc[a] \notin {"idle", "loading", "done"} => sess[a] \in Sessions

\* A pending session was started by nobody.
Unstarted == \A s \in Sessions : session[s] = "pending" => starter[s] = NoOne

\* Who is past StartSession is the one whose StartSession took effect.
Owner == \A a \in Attachments : pc[a] \in PastStart => starter[sess[a]] = a

\* What is registered is a relay of that session.
Registered == {"running", "closing", "recording", "unregistering"}
LiveRelays ==
    \A s \in Sessions : live[s] # NoOne => pc[live[s]] \in Registered /\ sess[live[s]] = s

\* A started session has its outcome, or its starter is on the way to it.
Owing == {"started", "dialed", "upgraded", "running", "closing", "recording",
          "failing", "completing"}
OutcomeOwed ==
    \A s \in Sessions :
        starter[s] # NoOne =>
            \/ session[s] \in Terminal \/ s \in lost
            \/ pc[starter[s]] \in Owing /\ sess[starter[s]] = s

\* wg.Wait returned because the count was zero, and it stays so.
CleanEmpty == shutdown = "clean" => wg = 0

Owned == Bound /\ Unstarted /\ Owner /\ LiveRelays /\ OutcomeOwed

\* The type invariant but for the range of the count, which WaitGroupExact gives.
TypedButCount ==
    /\ session \in [Sessions -> Active \cup Terminal]
    /\ starter \in [Sessions -> Attachments \cup {NoOne}]
    /\ lost \subseteq Sessions
    /\ pc \in [Attachments -> Places]
    /\ sess \in [Attachments -> Sessions \cup {NoOne}]
    /\ event \in [Attachments -> {"none", "normal", "failed"}]
    /\ alive \in [Attachments -> SUBSET Goroutines]
    /\ live \in [Sessions -> Attachments \cup {NoOne}]
    /\ shutdown \in {"no", "grace", "stopping", "final", "clean", "expired"}
    /\ stops \subseteq Attachments

IInv == TypedButCount /\ Owned /\ WaitGroupExact /\ CleanEmpty

-----------------------------------------------------------------------------
(* Counting attachments.                                                   *)

CountedIn(p) == {a \in Attachments : p[a] \in Outstanding}

\* The sets counted are finite.
LEMMA CountFinite ==
    ASSUME NEW p
    PROVE  /\ IsFiniteSet(CountedIn(p))
           /\ Cardinality(CountedIn(p)) \in 0..Cardinality(Attachments)
<1>1. CountedIn(p) \in SUBSET Attachments
  BY DEF CountedIn
<1>2. Cardinality(Attachments) \in Nat
  BY FiniteAssumption, FS_CardinalityType
<1>3. IsFiniteSet(CountedIn(p)) /\ Cardinality(CountedIn(p)) <= Cardinality(Attachments)
  BY <1>1, FiniteAssumption, FS_Subset
<1>4. Cardinality(CountedIn(p)) \in Nat
  BY <1>3, FS_CardinalityType
<1> QED BY <1>2, <1>3, <1>4

\* A handler that enters the counted steps adds one.
LEMMA CountEnter ==
    ASSUME NEW p, NEW q, NEW a \in Attachments,
           p[a] \notin Outstanding, q[a] \in Outstanding,
           \A b \in Attachments \ {a} : q[b] = p[b]
    PROVE  Cardinality(CountedIn(q)) = Cardinality(CountedIn(p)) + 1
<1>1. CountedIn(q) = CountedIn(p) \cup {a} /\ a \notin CountedIn(p)
  BY DEF CountedIn
<1> QED BY <1>1, CountFinite, FS_AddElement

\* One that leaves them takes one away.
LEMMA CountLeave ==
    ASSUME NEW p, NEW q, NEW a \in Attachments,
           p[a] \in Outstanding, q[a] \notin Outstanding,
           \A b \in Attachments \ {a} : q[b] = p[b]
    PROVE  Cardinality(CountedIn(q)) = Cardinality(CountedIn(p)) - 1
<1>1. CountedIn(q) = CountedIn(p) \ {a} /\ a \in CountedIn(p)
  BY DEF CountedIn
<1> QED BY <1>1, CountFinite, FS_RemoveElement

\* The type invariant follows.
LEMMA TypedFromCount == IInv => TypeOK
<1> SUFFICES ASSUME IInv PROVE TypeOK
  OBVIOUS
<1>1. wg = Cardinality(CountedIn(pc))
  BY DEF IInv, WaitGroupExact, CountedIn
<1> QED BY <1>1, CountFinite DEF IInv, TypedButCount, TypeOK

\* Nobody but the relay itself can be registered for its session.
LEMMA NotRegisteredTwice ==
    ASSUME TypedButCount, Owned, NEW a \in Attachments, pc[a] = "upgraded"
    PROVE  live[sess[a]] = NoOne
<1>1. sess[a] \in Sessions /\ starter[sess[a]] = a
  BY DEF Owned, Bound, Owner, PastStart
<1>2. SUFFICES ASSUME live[sess[a]] # NoOne PROVE FALSE
  OBVIOUS
<1> DEFINE b == live[sess[a]]
<1>3. b \in Attachments /\ pc[b] \in Registered /\ sess[b] = sess[a]
  BY <1>1, <1>2 DEF Owned, LiveRelays, TypedButCount
<1>4. starter[sess[b]] = b
  BY <1>3 DEF Owned, Owner, PastStart, Registered
<1> QED BY <1>1, <1>3, <1>4 DEF Registered

\* Init establishes the invariant.
LEMMA InitInv == Init => IInv
<1> SUFFICES ASSUME Init PROVE IInv
  OBVIOUS
<1>1. TypedButCount
  BY DEF Init, TypedButCount, Active, Places
<1>2. Owned
  BY NoOneAssumption DEF Init, Owned, Bound, Unstarted, Owner, LiveRelays, OutcomeOwed, PastStart
<1>3. WaitGroupExact
  <2>1. {a \in Attachments : pc[a] \in Outstanding} = {}
    BY DEF Init, Outstanding
  <2> QED BY <2>1, FS_EmptySet DEF Init, WaitGroupExact
<1>4. CleanEmpty
  BY DEF Init, CleanEmpty
<1> QED BY <1>1, <1>2, <1>3, <1>4 DEF IInv
-----------------------------------------------------------------------------
(* Steps.                                                                  *)

\* A step that leaves the WaitGroup and the counted handlers alone.
LEMMA CountStays ==
    ASSUME WaitGroupExact, wg' = wg,
           \A b \in Attachments : pc[b] \in Outstanding <=> pc'[b] \in Outstanding
    PROVE  WaitGroupExact'
<1>1. {b \in Attachments : pc'[b] \in Outstanding} = {b \in Attachments : pc[b] \in Outstanding}
  OBVIOUS
<1> QED BY <1>1 DEF WaitGroupExact

\* Once the count was found to be zero there is no attachment to count.
LEMMA CleanNone ==
    ASSUME WaitGroupExact, CleanEmpty, shutdown = "clean"
    PROVE  \A a \in Attachments : pc[a] \notin Outstanding
<1>1. Cardinality(CountedIn(pc)) = 0
  BY DEF WaitGroupExact, CleanEmpty, CountedIn
<1>2. CountedIn(pc) = {}
  BY <1>1, CountFinite, FS_EmptySet
<1> QED BY <1>2 DEF CountedIn

\* A write that may end a session leaves every session that had its
\* outcome with one, and makes none pending.
LEMMA FinishEnds ==
    ASSUME TypedButCount, NEW s \in Sessions, NEW to \in Terminal,
           NEW from \in {{"running"}, Active}, Finish(s, from, to)
    PROVE  /\ session' \in [Sessions -> Active \cup Terminal]
           /\ lost' \subseteq Sessions
           /\ \A t \in Sessions : /\ session'[t] = "pending" => session[t] = "pending"
                                  /\ session[t] \in Terminal => session'[t] \in Terminal
                                  /\ t \in lost => t \in lost'
           /\ session[s] # "pending" => session'[s] \in Terminal \/ s \in lost'
BY DEF Finish, TypedButCount, Active, Terminal

\* A request gets in.
LEMMA preflightInv ==
    ASSUME IInv, NEW a \in Attachments, preflight(a)
    PROVE  IInv'
<1> USE NoOneAssumption DEF IInv, preflight, Goto, managerVars
<1>1. TypedButCount'
  BY DEF TypedButCount, Active, Terminal, Outstanding, Places
<1>2. Owned'
  BY <1>1 DEF TypedButCount, Owned, Bound, Unstarted, Owner, LiveRelays, OutcomeOwed,
         PastStart, Registered, Owing, Active, Terminal
<1>3. WaitGroupExact'
  BY CountStays DEF TypedButCount, Outstanding
<1>4. CleanEmpty'
  BY DEF TypedButCount, CleanEmpty, draining
<1> QED BY <1>1, <1>2, <1>3, <1>4

\* A request finds a pending session, or is refused.
LEMMA LoadInv ==
    ASSUME IInv, NEW a \in Attachments, Load(a)
    PROVE  IInv'
<1> USE NoOneAssumption DEF IInv, Load, Goto, managerVars
<1>1. TypedButCount'
  BY DEF TypedButCount, Active, Terminal, Outstanding, Places
<1>2. Owned'
  BY <1>1 DEF TypedButCount, Owned, Bound, Unstarted, Owner, LiveRelays, OutcomeOwed,
         PastStart, Registered, Owing, Active, Terminal
<1>3. WaitGroupExact'
  BY CountStays DEF TypedButCount, Outstanding
<1>4. CleanEmpty'
  BY DEF TypedButCount, CleanEmpty, draining
<1> QED BY <1>1, <1>2, <1>3, <1>4

\* A reservation is counted, or refused while draining.
LEMMA BeginAttachInv ==
    ASSUME IInv, NEW a \in Attachments, BeginAttach(a)
    PROVE  IInv'
<1> USE NoOneAssumption DEF IInv, BeginAttach, Goto
<1>1. TypedButCount'
  BY DEF TypedButCount, Active, Terminal, Outstanding, Places
<1>2. Owned'
  BY <1>1 DEF TypedButCount, Owned, Bound, Unstarted, Owner, LiveRelays, OutcomeOwed,
         PastStart, Registered, Owing, Active, Terminal
<1>3. WaitGroupExact'
  <2>1. CASE draining
    BY <2>1, CountStays DEF TypedButCount, Outstanding
  <2>2. CASE ~draining
    <3>1. Cardinality(CountedIn(pc')) = Cardinality(CountedIn(pc)) + 1
      BY <2>2, CountEnter DEF TypedButCount, Outstanding
    <3> QED BY <2>2, <3>1 DEF WaitGroupExact, CountedIn
  <2> QED BY <2>1, <2>2
<1>4. CleanEmpty'
  BY DEF TypedButCount, CleanEmpty, draining
<1> QED BY <1>1, <1>2, <1>3, <1>4

\* Only a pending session is started, and it gets its first starter.
LEMMA StartSessionInv ==
    ASSUME IInv, NEW a \in Attachments, StartSession(a)
    PROVE  IInv'
<1> USE NoOneAssumption DEF IInv, StartSession, Goto, managerVars
<1>1. TypedButCount'
  BY DEF TypedButCount, Active, Terminal, Outstanding, Places
<1>2. Owned'
  BY <1>1 DEF TypedButCount, Owned, Bound, Unstarted, Owner, LiveRelays, OutcomeOwed,
         PastStart, Registered, Owing, Active, Terminal
<1>3. WaitGroupExact'
  BY CountStays DEF TypedButCount, Outstanding
<1>4. CleanEmpty'
  BY DEF TypedButCount, CleanEmpty, draining
<1> QED BY <1>1, <1>2, <1>3, <1>4

\* A loser looks up why it lost.
LEMMA writeRejectedStartInv ==
    ASSUME IInv, NEW a \in Attachments, writeRejectedStart(a)
    PROVE  IInv'
<1> USE NoOneAssumption DEF IInv, writeRejectedStart, Goto, managerVars
<1>1. TypedButCount'
  BY DEF TypedButCount, Active, Terminal, Outstanding, Places
<1>2. Owned'
  BY <1>1 DEF TypedButCount, Owned, Bound, Unstarted, Owner, LiveRelays, OutcomeOwed,
         PastStart, Registered, Owing, Active, Terminal
<1>3. WaitGroupExact'
  BY CountStays DEF TypedButCount, Outstanding
<1>4. CleanEmpty'
  BY DEF TypedButCount, CleanEmpty, draining
<1> QED BY <1>1, <1>2, <1>3, <1>4

\* The worker answers the dial, or not.
LEMMA dialWorkerInv ==
    ASSUME IInv, NEW a \in Attachments, dialWorker(a)
    PROVE  IInv'
<1> USE NoOneAssumption DEF IInv, dialWorker, Goto, managerVars
<1>1. TypedButCount'
  BY DEF TypedButCount, Active, Terminal, Outstanding, Places
<1>2. Owned'
  BY <1>1 DEF TypedButCount, Owned, Bound, Unstarted, Owner, LiveRelays, OutcomeOwed,
         PastStart, Registered, Owing, Active, Terminal
<1>3. WaitGroupExact'
  BY CountStays DEF TypedButCount, Outstanding
<1>4. CleanEmpty'
  BY DEF TypedButCount, CleanEmpty, draining
<1> QED BY <1>1, <1>2, <1>3, <1>4

\* The client is upgraded, or not.
LEMMA UpgradeInv ==
    ASSUME IInv, NEW a \in Attachments, Upgrade(a)
    PROVE  IInv'
<1> USE NoOneAssumption DEF IInv, Upgrade, Goto, managerVars
<1>1. TypedButCount'
  BY DEF TypedButCount, Active, Terminal, Outstanding, Places
<1>2. Owned'
  BY <1>1 DEF TypedButCount, Owned, Bound, Unstarted, Owner, LiveRelays, OutcomeOwed,
         PastStart, Registered, Owing, Active, Terminal
<1>3. WaitGroupExact'
  BY CountStays DEF TypedButCount, Outstanding
<1>4. CleanEmpty'
  BY DEF TypedButCount, CleanEmpty, draining
<1> QED BY <1>1, <1>2, <1>3, <1>4

\* A failed attachment settles the session it may have started.
LEMMA failSessionInv ==
    ASSUME IInv, NEW a \in Attachments, failSession(a)
    PROVE  IInv'
<1> USE NoOneAssumption DEF IInv, failSession, Goto, managerVars
<1>0. sess[a] \in Sessions
  BY DEF Owned, Bound
<1>f. /\ session' \in [Sessions -> Active \cup Terminal]
      /\ lost' \subseteq Sessions
      /\ \A t \in Sessions : /\ session'[t] = "pending" => session[t] = "pending"
                             /\ session[t] \in Terminal => session'[t] \in Terminal
                             /\ t \in lost => t \in lost'
      /\ session[sess[a]] # "pending" => session'[sess[a]] \in Terminal \/ sess[a] \in lost'
  BY <1>0, FinishEnds DEF Terminal
<1>1. TypedButCount'
  BY <1>f DEF TypedButCount, Outstanding, Places
<1>2. Owned'
  <2>1. (Bound /\ Unstarted /\ Owner /\ LiveRelays)'
    BY <1>f DEF TypedButCount, Owned, Bound, Unstarted, Owner, LiveRelays, PastStart, Registered
  <2>2. OutcomeOwed'
    <3> SUFFICES ASSUME NEW s \in Sessions, starter[s] # NoOne
                 PROVE  \/ session'[s] \in Terminal \/ s \in lost'
                        \/ pc'[starter[s]] \in Owing /\ sess'[starter[s]] = s
      BY DEF OutcomeOwed
    <3>1. CASE session[s] \in Terminal \/ s \in lost
      BY <3>1, <1>f
    <3>2. CASE pc[starter[s]] \in Owing /\ sess[starter[s]] = s /\ starter[s] # a
      BY <3>2 DEF TypedButCount
    <3>3. CASE sess[a] = s /\ starter[s] = a
      BY <3>3, <1>f DEF Owned, Unstarted
    <3> QED BY <3>1, <3>2, <3>3 DEF Owned, OutcomeOwed
  <2> QED BY <2>1, <2>2 DEF Owned
<1>3. WaitGroupExact'
  BY CountStays DEF TypedButCount, Outstanding
<1>4. CleanEmpty'
  BY DEF CleanEmpty
<1> QED BY <1>1, <1>2, <1>3, <1>4

\* A reservation is given back.
LEMMA ReleaseInv ==
    ASSUME IInv, NEW a \in Attachments, Release(a)
    PROVE  IInv'
<1> USE NoOneAssumption DEF IInv, Release, Goto
<1>1. TypedButCount'
  BY DEF TypedButCount, Active, Terminal, Outstanding, Places
<1>2. Owned'
  BY <1>1 DEF TypedButCount, Owned, Bound, Unstarted, Owner, LiveRelays, OutcomeOwed,
         PastStart, Registered, Owing, Active, Terminal
<1>3. WaitGroupExact'
  <2>1. /\ pc[a] \in Outstanding /\ pc'[a] \notin Outstanding
        /\ \A b \in Attachments \ {a} : pc'[b] = pc[b]
    BY DEF TypedButCount, Outstanding
  <2>2. Cardinality(CountedIn(pc')) = Cardinality(CountedIn(pc)) - 1
    BY <2>1, CountLeave
  <2> QED BY <2>2, CountFinite DEF WaitGroupExact, CountedIn
<1>4. CleanEmpty'
  BY CleanNone DEF TypedButCount, CleanEmpty, Outstanding
<1> QED BY <1>1, <1>2, <1>3, <1>4

\* The registry: no duplicate is ever turned away without an outcome.
LEMMA registerInv ==
    ASSUME IInv, NEW a \in Attachments, register(a)
    PROVE  IInv'
<1> USE NoOneAssumption DEF IInv, register, Goto
<1>0. pc[a] = "upgraded" /\ live[sess[a]] = NoOne
  BY NotRegisteredTwice
<1>1. TypedButCount'
  BY <1>0 DEF TypedButCount, Active, Terminal, Outstanding, Places
<1>2. Owned'
  BY <1>0, <1>1 DEF TypedButCount, Owned, Bound, Unstarted, Owner, LiveRelays, OutcomeOwed,
         PastStart, Registered, Owing, Active, Terminal
<1>3. WaitGroupExact'
  BY <1>0, CountStays DEF TypedButCount, Outstanding
<1>4. CleanEmpty'
  BY DEF TypedButCount, CleanEmpty, draining
<1> QED BY <1>1, <1>2, <1>3, <1>4

\* A relay turned away by a draining registry settles its session.
LEMMA CompleteDrainingInv ==
    ASSUME IInv, NEW a \in Attachments, CompleteDraining(a)
    PROVE  IInv'
<1> USE NoOneAssumption DEF IInv, CompleteDraining, Goto, managerVars
<1>0. sess[a] \in Sessions
  BY DEF Owned, Bound
<1>f. /\ session' \in [Sessions -> Active \cup Terminal]
      /\ lost' \subseteq Sessions
      /\ \A t \in Sessions : /\ session'[t] = "pending" => session[t] = "pending"
                             /\ session[t] \in Terminal => session'[t] \in Terminal
                             /\ t \in lost => t \in lost'
      /\ session[sess[a]] # "pending" => session'[sess[a]] \in Terminal \/ sess[a] \in lost'
  BY <1>0, FinishEnds DEF Terminal
<1>1. TypedButCount'
  BY <1>f DEF TypedButCount, Outstanding, Places
<1>2. Owned'
  <2>1. (Bound /\ Unstarted /\ Owner /\ LiveRelays)'
    BY <1>f DEF TypedButCount, Owned, Bound, Unstarted, Owner, LiveRelays, PastStart, Registered
  <2>2. OutcomeOwed'
    <3> SUFFICES ASSUME NEW s \in Sessions, starter[s] # NoOne
                 PROVE  \/ session'[s] \in Terminal \/ s \in lost'
                        \/ pc'[starter[s]] \in Owing /\ sess'[starter[s]] = s
      BY DEF OutcomeOwed
    <3>1. CASE session[s] \in Terminal \/ s \in lost
      BY <3>1, <1>f
    <3>2. CASE pc[starter[s]] \in Owing /\ sess[starter[s]] = s /\ starter[s] # a
      BY <3>2 DEF TypedButCount
    <3>3. CASE sess[a] = s /\ starter[s] = a
      BY <3>3, <1>f DEF Owned, Unstarted
    <3> QED BY <3>1, <3>2, <3>3 DEF Owned, OutcomeOwed
  <2> QED BY <2>1, <2>2 DEF Owned
<1>3. WaitGroupExact'
  BY CountStays DEF TypedButCount, Outstanding
<1>4. CleanEmpty'
  BY DEF CleanEmpty
<1> QED BY <1>1, <1>2, <1>3, <1>4

\* An event of a relay, and the end of one of its goroutines.
LEMMA GoroutineEndsInv ==
    ASSUME IInv, NEW a \in Attachments, NEW g \in Goroutines, NEW e \in {"normal", "failed"},
           GoroutineEnds(a, g, e)
    PROVE  IInv'
<1> USE NoOneAssumption DEF IInv, GoroutineEnds, Send, managerVars
<1>1. TypedButCount'
  BY DEF TypedButCount
<1>2. Owned'
  BY DEF Owned, Bound, Unstarted, Owner, LiveRelays, OutcomeOwed
<1>3. WaitGroupExact'
  BY CountStays
<1>4. CleanEmpty'
  BY DEF CleanEmpty
<1> QED BY <1>1, <1>2, <1>3, <1>4

\* Run takes an event.
LEMMA ReceiveInv ==
    ASSUME IInv, NEW a \in Attachments, Receive(a)
    PROVE  IInv'
<1> USE NoOneAssumption DEF IInv, Receive, Goto, managerVars
<1>1. TypedButCount'
  BY DEF TypedButCount, Active, Terminal, Outstanding, Places
<1>2. Owned'
  BY <1>1 DEF TypedButCount, Owned, Bound, Unstarted, Owner, LiveRelays, OutcomeOwed,
         PastStart, Registered, Owing, Active, Terminal
<1>3. WaitGroupExact'
  BY CountStays DEF TypedButCount, Outstanding
<1>4. CleanEmpty'
  BY DEF TypedButCount, CleanEmpty, draining
<1> QED BY <1>1, <1>2, <1>3, <1>4

\* The goroutines have ended.
LEMMA JoinedInv ==
    ASSUME IInv, NEW a \in Attachments, Joined(a)
    PROVE  IInv'
<1> USE NoOneAssumption DEF IInv, Joined, Goto, managerVars
<1>1. TypedButCount'
  BY DEF TypedButCount, Active, Terminal, Outstanding, Places
<1>2. Owned'
  BY <1>1 DEF TypedButCount, Owned, Bound, Unstarted, Owner, LiveRelays, OutcomeOwed,
         PastStart, Registered, Owing, Active, Terminal
<1>3. WaitGroupExact'
  BY CountStays DEF TypedButCount, Outstanding
<1>4. CleanEmpty'
  BY DEF TypedButCount, CleanEmpty, draining
<1> QED BY <1>1, <1>2, <1>3, <1>4

\* The outcome is written, or its write is lost.
LEMMA recordOutcomeInv ==
    ASSUME IInv, NEW a \in Attachments, recordOutcome(a)
    PROVE  IInv'
<1> USE NoOneAssumption DEF IInv, recordOutcome, Goto, managerVars
<1>0. sess[a] \in Sessions
  BY DEF Owned, Bound
<1>f. /\ session' \in [Sessions -> Active \cup Terminal]
      /\ lost' \subseteq Sessions
      /\ \A t \in Sessions : /\ session'[t] = "pending" => session[t] = "pending"
                             /\ session[t] \in Terminal => session'[t] \in Terminal
                             /\ t \in lost => t \in lost'
      /\ session[sess[a]] # "pending" => session'[sess[a]] \in Terminal \/ sess[a] \in lost'
  BY <1>0, FinishEnds DEF Terminal
<1>1. TypedButCount'
  BY <1>f DEF TypedButCount, Outstanding, Places
<1>2. Owned'
  <2>1. (Bound /\ Unstarted /\ Owner /\ LiveRelays)'
    BY <1>f DEF TypedButCount, Owned, Bound, Unstarted, Owner, LiveRelays, PastStart, Registered
  <2>2. OutcomeOwed'
    <3> SUFFICES ASSUME NEW s \in Sessions, starter[s] # NoOne
                 PROVE  \/ session'[s] \in Terminal \/ s \in lost'
                        \/ pc'[starter[s]] \in Owing /\ sess'[starter[s]] = s
      BY DEF OutcomeOwed
    <3>1. CASE session[s] \in Terminal \/ s \in lost
      BY <3>1, <1>f
    <3>2. CASE pc[starter[s]] \in Owing /\ sess[starter[s]] = s /\ starter[s] # a
      BY <3>2 DEF TypedButCount
    <3>3. CASE sess[a] = s /\ starter[s] = a
      BY <3>3, <1>f DEF Owned, Unstarted
    <3> QED BY <3>1, <3>2, <3>3 DEF Owned, OutcomeOwed
  <2> QED BY <2>1, <2>2 DEF Owned
<1>3. WaitGroupExact'
  BY CountStays DEF TypedButCount, Outstanding
<1>4. CleanEmpty'
  BY DEF CleanEmpty
<1> QED BY <1>1, <1>2, <1>3, <1>4

\* A relay leaves the registry and is given back.
LEMMA unregisterInv ==
    ASSUME IInv, NEW a \in Attachments, unregister(a)
    PROVE  IInv'
<1> USE NoOneAssumption DEF IInv, unregister, Goto
<1>1. TypedButCount'
  BY DEF TypedButCount, Active, Terminal, Outstanding, Places
<1>2. Owned'
  BY <1>1 DEF TypedButCount, Owned, Bound, Unstarted, Owner, LiveRelays, OutcomeOwed,
         PastStart, Registered, Owing, Active, Terminal
<1>3. WaitGroupExact'
  <2>1. /\ pc[a] \in Outstanding /\ pc'[a] \notin Outstanding
        /\ \A b \in Attachments \ {a} : pc'[b] = pc[b]
    BY DEF TypedButCount, Outstanding
  <2>2. Cardinality(CountedIn(pc')) = Cardinality(CountedIn(pc)) - 1
    BY <2>1, CountLeave
  <2> QED BY <2>2, CountFinite DEF WaitGroupExact, CountedIn
<1>4. CleanEmpty'
  BY CleanNone DEF TypedButCount, CleanEmpty, Outstanding
<1> QED BY <1>1, <1>2, <1>3, <1>4

\* Shutdown sends a relay its stop event.
LEMMA StopRelayInv ==
    ASSUME IInv, NEW a \in Attachments, StopRelay(a)
    PROVE  IInv'
<1> USE NoOneAssumption DEF IInv, StopRelay, Send, handlerVars, managerVars
<1>1. TypedButCount'
  BY DEF TypedButCount, Active, Terminal, Outstanding, Places
<1>2. Owned'
  BY <1>1 DEF TypedButCount, Owned, Bound, Unstarted, Owner, LiveRelays, OutcomeOwed,
         PastStart, Registered, Owing, Active, Terminal
<1>3. WaitGroupExact'
  BY CountStays DEF TypedButCount, Outstanding
<1>4. CleanEmpty'
  BY DEF TypedButCount, CleanEmpty, draining
<1> QED BY <1>1, <1>2, <1>3, <1>4

\* The manager starts draining.
LEMMA ShutdownBeginInv ==
    ASSUME IInv, ShutdownBegin
    PROVE  IInv'
<1> USE NoOneAssumption DEF IInv, ShutdownBegin, handlerVars, managerVars
<1>1. TypedButCount'
  BY DEF TypedButCount, Active, Terminal, Outstanding, Places
<1>2. Owned'
  BY <1>1 DEF TypedButCount, Owned, Bound, Unstarted, Owner, LiveRelays, OutcomeOwed,
         PastStart, Registered, Owing, Active, Terminal
<1>3. WaitGroupExact'
  BY CountStays DEF TypedButCount, Outstanding
<1>4. CleanEmpty'
  BY DEF TypedButCount, CleanEmpty, draining
<1> QED BY <1>1, <1>2, <1>3, <1>4

\* The grace is over.
LEMMA GraceOverInv ==
    ASSUME IInv, GraceOver
    PROVE  IInv'
<1> USE NoOneAssumption DEF IInv, GraceOver, handlerVars, managerVars
<1>1. TypedButCount'
  BY DEF TypedButCount, Active, Terminal, Outstanding, Places
<1>2. Owned'
  BY <1>1 DEF TypedButCount, Owned, Bound, Unstarted, Owner, LiveRelays, OutcomeOwed,
         PastStart, Registered, Owing, Active, Terminal
<1>3. WaitGroupExact'
  BY CountStays DEF TypedButCount, Outstanding
<1>4. CleanEmpty'
  BY DEF TypedButCount, CleanEmpty, draining
<1> QED BY <1>1, <1>2, <1>3, <1>4

\* Every live relay was told to stop.
LEMMA StoppedInv ==
    ASSUME IInv, Stopped
    PROVE  IInv'
<1> USE NoOneAssumption DEF IInv, Stopped, handlerVars, managerVars
<1>1. TypedButCount'
  BY DEF TypedButCount, Active, Terminal, Outstanding, Places
<1>2. Owned'
  BY <1>1 DEF TypedButCount, Owned, Bound, Unstarted, Owner, LiveRelays, OutcomeOwed,
         PastStart, Registered, Owing, Active, Terminal
<1>3. WaitGroupExact'
  BY CountStays DEF TypedButCount, Outstanding
<1>4. CleanEmpty'
  BY DEF TypedButCount, CleanEmpty, draining
<1> QED BY <1>1, <1>2, <1>3, <1>4

\* The count is zero.
LEMMA ShutdownCleanInv ==
    ASSUME IInv, ShutdownClean
    PROVE  IInv'
<1> USE NoOneAssumption DEF IInv, ShutdownClean, handlerVars, managerVars
<1>1. TypedButCount'
  BY DEF TypedButCount, Active, Terminal, Outstanding, Places
<1>2. Owned'
  BY <1>1 DEF TypedButCount, Owned, Bound, Unstarted, Owner, LiveRelays, OutcomeOwed,
         PastStart, Registered, Owing, Active, Terminal
<1>3. WaitGroupExact'
  BY CountStays DEF TypedButCount, Outstanding
<1>4. CleanEmpty'
  BY DEF TypedButCount, CleanEmpty, draining
<1> QED BY <1>1, <1>2, <1>3, <1>4

\* The context expires first.
LEMMA ShutdownExpiredInv ==
    ASSUME IInv, ShutdownExpired
    PROVE  IInv'
<1> USE NoOneAssumption DEF IInv, ShutdownExpired, handlerVars, managerVars
<1>1. TypedButCount'
  BY DEF TypedButCount, Active, Terminal, Outstanding, Places
<1>2. Owned'
  BY <1>1 DEF TypedButCount, Owned, Bound, Unstarted, Owner, LiveRelays, OutcomeOwed,
         PastStart, Registered, Owing, Active, Terminal
<1>3. WaitGroupExact'
  BY CountStays DEF TypedButCount, Outstanding
<1>4. CleanEmpty'
  BY DEF TypedButCount, CleanEmpty, draining
<1> QED BY <1>1, <1>2, <1>3, <1>4

\* Another party ends a session.
LEMMA EndElsewhereInv ==
    ASSUME IInv, NEW s \in Sessions, EndElsewhere(s)
    PROVE  IInv'
<1> USE NoOneAssumption DEF IInv, EndElsewhere, handlerVars, managerVars
<1>1. TypedButCount'
  BY DEF TypedButCount, Active, Terminal, Outstanding, Places
<1>2. Owned'
  BY <1>1 DEF TypedButCount, Owned, Bound, Unstarted, Owner, LiveRelays, OutcomeOwed,
         PastStart, Registered, Owing, Active, Terminal
<1>3. WaitGroupExact'
  BY CountStays DEF TypedButCount, Outstanding
<1>4. CleanEmpty'
  BY DEF TypedButCount, CleanEmpty, draining
<1> QED BY <1>1, <1>2, <1>3, <1>4

\* Every step keeps the invariant.
LEMMA NextInv == IInv /\ [Next]_vars => IInv'
<1> SUFFICES ASSUME IInv, [Next]_vars PROVE IInv'
  OBVIOUS
<1>1. CASE UNCHANGED vars
  <2>1. TypedButCount' /\ Owned' /\ CleanEmpty'
    BY <1>1 DEF IInv, vars, handlerVars, managerVars, TypedButCount, Owned, Bound, Unstarted, Owner,
                LiveRelays, OutcomeOwed, CleanEmpty
  <2>2. WaitGroupExact'
    BY <1>1, CountStays DEF IInv, vars, handlerVars, managerVars
  <2> QED BY <2>1, <2>2 DEF IInv
<1>2. ASSUME NEW a \in Attachments, preflight(a) PROVE IInv'
  BY <1>2, preflightInv
<1>3. ASSUME NEW a \in Attachments, HandlerStep(a) PROVE IInv'
  <2>1. CASE Closed(a)
    <3>1. PICK g \in alive[a] : GoroutineEnds(a, g, "failed")
      BY <2>1 DEF Closed
    <3>2. g \in Goroutines
      BY DEF IInv, TypedButCount
    <3> QED BY <3>1, <3>2, GoroutineEndsInv
  <2> QED BY <1>3, <2>1, LoadInv, BeginAttachInv, StartSessionInv, writeRejectedStartInv,
             dialWorkerInv, UpgradeInv,
             failSessionInv, ReleaseInv, registerInv, CompleteDrainingInv, ReceiveInv,
             JoinedInv, recordOutcomeInv, unregisterInv DEF HandlerStep
<1>4. ASSUME NEW a \in Attachments, PeerGone(a) PROVE IInv'
  BY <1>4, GoroutineEndsInv DEF PeerGone, Goroutines
<1>5. ASSUME NEW a \in Attachments, renewHeartbeat(a) PROVE IInv'
  BY <1>5, GoroutineEndsInv DEF renewHeartbeat, Goroutines
<1> QED BY <1>1, <1>2, <1>3, <1>4, <1>5, StopRelayInv, ShutdownBeginInv, GraceOverInv,
           StoppedInv, ShutdownCleanInv, ShutdownExpiredInv, EndElsewhereInv DEF Next

\* The inductive invariant holds in every reachable state.
THEOREM Invariance == Spec => []IInv
BY InitInv, NextInv, PTL DEF Spec

\* Type correctness, the range of the WaitGroup included: it never goes
\* negative, which would panic, and never exceeds the attachments.
THEOREM RelayTypeCorrect == Spec => []TypeOK
BY Invariance, TypedFromCount, PTL

\* Reservations are counted from BeginAttach and given back exactly once, by
\* Release or by unregister.
THEOREM WaitGroupIsExact == Spec => []WaitGroupExact
<1>1. IInv => WaitGroupExact
  BY DEF IInv
<1> QED BY <1>1, Invariance, PTL

\* A Shutdown that returns nil has left no attachment under way and no
\* started session without its outcome, but for a write that failed.
THEOREM CleanShutdownFinished == Spec => []CleanMeansFinished
<1>1. IInv => CleanMeansFinished
  <2> SUFFICES ASSUME IInv, shutdown = "clean"
               PROVE  /\ \A a \in Attachments : pc[a] \notin Outstanding
                      /\ \A s \in Sessions : starter[s] # NoOne =>
                             session[s] \in Terminal \/ s \in lost
    BY DEF CleanMeansFinished
  <2>1. \A a \in Attachments : pc[a] \notin Outstanding
    BY CleanNone DEF IInv
  <2> QED BY <2>1 DEF IInv, TypedButCount, Owned, OutcomeOwed, Owing, Outstanding
<1> QED BY <1>1, Invariance, PTL

\* However many clients attach to a session, one relay runs it.
THEOREM AtMostOneRelay == Spec => []OneRelay
<1>1. IInv => OneRelay
  BY NotRegisteredTwice DEF IInv, OneRelay, Owned, Owner
<1> QED BY <1>1, Invariance, PTL

-----------------------------------------------------------------------------
(* The session rows, as SessionLife promises them.                         *)

Life == INSTANCE SessionLife WITH status <- session

\* A guarded final update is one of SessionLife's, or without effect.
LEMMA FinishIsEnd ==
    ASSUME TypedButCount, NEW s \in Sessions, NEW from \in SUBSET Active,
           NEW to \in Terminal, Finish(s, from, to)
    PROVE  [Life!Next]_session
<1>1. CASE UNCHANGED session
  BY <1>1
<1>2. CASE session[s] \in from /\ session' = [session EXCEPT ![s] = to]
  <2>1. Life!End({s}, to)
    BY <1>2 DEF Life!End, Life!Active, Active, TypedButCount
  <2>2. {s} \in SUBSET Sessions /\ to \in Life!Terminal
    BY DEF Life!Terminal, Terminal
  <2>q. QED
    BY <2>1, <2>2 DEF Life!Next
<1>q. QED
  BY <1>1, <1>2 DEF Finish, TypedButCount

\* Whatever attachments, relays and shutdown do, and however they fail, a
\* session is started once, from pending, and ended once.
THEOREM RelayImplementsSessionLife == Spec => Life!Spec
<1>1. Init => Life!Init
  BY DEF Init, Life!Init
<1>2. ASSUME IInv, [Next]_vars PROVE [Life!Next]_session
  <2> USE <1>2 DEF IInv
  <2>1. ASSUME NEW a \in Attachments, StartSession(a) PROVE [Life!Next]_session
    <3>1. sess[a] \in Sessions
      BY <2>1 DEF StartSession, Owned, Bound
    <3>q. QED
      BY <2>1, <3>1 DEF StartSession, Life!Start, Life!Next
  <2>2. ASSUME NEW a \in Attachments, failSession(a) \/ CompleteDraining(a) \/ recordOutcome(a)
        PROVE  [Life!Next]_session
    <3>1. sess[a] \in Sessions
      BY <2>2 DEF failSession, CompleteDraining, recordOutcome, Owned, Bound
    <3>2. Finish(sess[a], Active, "failed") \/ Finish(sess[a], {"running"}, "completed")
      BY <2>2 DEF failSession, CompleteDraining, recordOutcome
    <3>3. {"running"} \in SUBSET Active /\ Active \in SUBSET Active
          /\ "failed" \in Terminal /\ "completed" \in Terminal
      BY DEF Active, Terminal
    <3>q. QED
      BY <3>1, <3>2, <3>3, FinishIsEnd
  <2>3. ASSUME NEW s \in Sessions, EndElsewhere(s) PROVE [Life!Next]_session
    <3>1. PICK to \in Terminal : session' = [session EXCEPT ![s] = to]
      BY <2>3 DEF EndElsewhere
    <3>2. Finish(s, Active, to) \/ Life!End({s}, to)
      BY <2>3, <3>1 DEF EndElsewhere, Life!End, Life!Active, Active, TypedButCount
    <3>3. {s} \in SUBSET Sessions /\ to \in Life!Terminal
      BY DEF Life!Terminal, Terminal
    <3>q. QED
      BY <3>2, <3>3, FinishIsEnd DEF Life!Next
  <2>4. ASSUME NEW a \in Attachments, HandlerStep(a) PROVE [Life!Next]_session
    BY <2>1, <2>2, <2>4 DEF HandlerStep, Load, BeginAttach, writeRejectedStart, dialWorker, Upgrade, Release, register,
                            Receive, Closed, GoroutineEnds, Joined, unregister
  <2>q. QED
    BY <2>3, <2>4 DEF Next, vars, preflight, PeerGone, renewHeartbeat, GoroutineEnds, StopRelay,
                      ShutdownBegin, GraceOver, Stopped, ShutdownClean, ShutdownExpired
<1>q. QED
  BY <1>1, <1>2, Invariance, PTL DEF Spec, Life!Spec

-----------------------------------------------------------------------------
(* What LoserHarmless, which the code violates, depends on.                *)

\* A StartSession call that errs had taken effect: its answer was lost.
StartErrsAfterEffect ==
    [][\A a \in Attachments :
         pc[a] = "reserved" /\ pc'[a] = "failing" => starter'[sess[a]] = a]_vars

\* Then whoever fails a session has started it.
FailerStarted == \A a \in Attachments : pc[a] = "failing" => starter[sess[a]] = a

\* The error path of StartSession is all that makes a loser harmful: if a call
\* that changed nothing never errs, no attachment ends a session that another
\* one started, whatever dials, upgrades and shutdown do.
THEOREM OnlyFailedStartHarms == Spec /\ StartErrsAfterEffect => LoserHarmless
<1> DEFINE Kind == \A a \in Attachments :
                     pc[a] = "reserved" /\ pc'[a] = "failing" => starter'[sess[a]] = a
<1>1. Init => FailerStarted
  BY DEF Init, FailerStarted
<1>2. ASSUME IInv, FailerStarted, [Next]_vars, [Kind]_vars PROVE FailerStarted'
  <2> SUFFICES ASSUME NEW a \in Attachments, pc'[a] = "failing"
               PROVE  starter'[sess'[a]] = a
    BY DEF FailerStarted
  <2> USE <1>2 DEF IInv, TypedButCount, Goto
  <2>1. ASSUME NEW b \in Attachments, HandlerStep(b) PROVE starter'[sess'[a]] = a
    <3>1. sess'[a] = sess[a]
      BY <2>1 DEF HandlerStep, Load, BeginAttach, StartSession, writeRejectedStart, dialWorker, Upgrade,
                  failSession, Release, register, CompleteDraining, Receive, Closed, GoroutineEnds, Joined,
                  recordOutcome, unregister
    <3>2. CASE pc[a] = "failing"
      <4>1. starter[sess[a]] = a /\ sess[a] \in Sessions /\ a # NoOne
        BY <3>2, NoOneAssumption DEF FailerStarted, Owned, Bound
      <4>2. starter' = starter \/ StartSession(b)
        BY <2>1 DEF HandlerStep, Load, BeginAttach, writeRejectedStart, dialWorker, Upgrade,
                    failSession, Release, register, CompleteDraining, Receive, Closed, GoroutineEnds, Joined,
                    recordOutcome, unregister
      <4>3. ASSUME StartSession(b) PROVE starter'[sess[a]] = starter[sess[a]]
        <5>1. session[sess[a]] # "pending"
          BY <4>1 DEF Owned, Unstarted
        <5>2. sess[b] \in Sessions
          BY <4>3 DEF StartSession, Owned, Bound
        <5>q. QED
          BY <4>1, <4>3, <5>1, <5>2 DEF StartSession
      <4>q. QED
        BY <3>1, <4>1, <4>2, <4>3
    <3>3. CASE pc[a] \in PastStart
      <4>1. starter[sess[a]] = a
        BY <3>3 DEF Owned, Owner
      <4>2. starter' = starter
        BY <2>1, <3>3 DEF HandlerStep, Load, BeginAttach, StartSession, writeRejectedStart, dialWorker, Upgrade,
                    failSession, Release, register, CompleteDraining, Receive, Closed, GoroutineEnds, Joined,
                    recordOutcome, unregister, PastStart
      <4>q. QED
        BY <3>1, <4>1, <4>2
    <3>4. CASE pc[a] = "reserved"
      BY <1>2, <3>1, <3>4 DEF vars, handlerVars
    <3>q. QED
      BY <2>1, <3>2, <3>3, <3>4
         DEF HandlerStep, Load, BeginAttach, StartSession, writeRejectedStart, dialWorker, Upgrade,
             failSession, Release, register, CompleteDraining, Receive, Closed, GoroutineEnds, Joined,
             recordOutcome, unregister, PastStart
  <2>2. CASE ~\E b \in Attachments : HandlerStep(b)
    <3>1. pc'[a] = pc[a] /\ starter' = starter
      BY <2>2 DEF Next, vars, handlerVars, preflight, PeerGone, renewHeartbeat, GoroutineEnds, StopRelay,
                  ShutdownBegin, GraceOver, Stopped, ShutdownClean, ShutdownExpired, EndElsewhere
    <3>2. sess'[a] = sess[a]
      BY <2>2, <3>1 DEF Next, vars, handlerVars, preflight, PeerGone, renewHeartbeat, GoroutineEnds,
                  StopRelay, ShutdownBegin, GraceOver, Stopped, ShutdownClean, ShutdownExpired,
                  EndElsewhere
    <3>q. QED
      BY <1>2, <3>1, <3>2 DEF FailerStarted
  <2>q. QED
    BY <2>1, <2>2
<1>3. IInv /\ FailerStarted =>
        [\A a \in Attachments :
           /\ pc[a] = "failing" /\ starter[sess[a]] \notin {a, NoOne}
           => session'[sess[a]] = session[sess[a]] \/ pc'[a] = pc[a]]_vars
  BY DEF FailerStarted
<1>q. QED
  BY <1>1, <1>2, <1>3, Invariance, PTL DEF Spec, StartErrsAfterEffect, LoserHarmless
=============================================================================
