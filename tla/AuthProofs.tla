----------------------------- MODULE AuthProofs -----------------------------
(***************************************************************************)
(* Proofs about Auth: every answer linearizes, and a process that has once *)
(* demanded a token passes nobody without one, for any number of           *)
(* processes, requests and keys.                                           *)
(***************************************************************************)
EXTENDS Auth, TLAPS

\* The present verdict on r is always among those recorded; a count of zero
\* was right when it was made, unless the latch is set by now; the key that
\* was found was active then.
Recorded(r) ==
    /\ pc[r] \in InCheck => Verdict(r) \in verdicts[r]
    /\ pc[r] = "zero" /\ ~required[at[r]] => "open" \in verdicts[r]
    /\ pc[r] = "touch" => "key" \in verdicts[r]

\* Beyond requiresAuthentication, and behind an answer given by the token,
\* the latch of the process is set.
LatchBehind(r) ==
    \/ pc[r] \in {"bearer", "touch"}
    \/ answer[r] \in {"key", "unauthorized"}
    => required[at[r]]

Answered(r) ==
    /\ pc[r] # "done" => answer[r] = "none"
    /\ answer[r] \in verdicts[r] \cup {"none", "backend"}

RequestInv(r) == Recorded(r) /\ LatchBehind(r) /\ Answered(r)

DemandedLatched == \A p \in demanded : required[p]

IInv ==
    /\ TypeOK
    /\ \A r \in Requests : RequestInv(r)
    /\ DemandedLatched

\* What Observe assigns has its type.
LEMMA ObserveType ==
    ASSUME TypeOK, NEW R, Observe(R)
    PROVE  /\ verdicts' \in [Requests -> SUBSET Verdicts]
           /\ demanded' \subseteq Servers
           /\ keyed' \subseteq Servers
           /\ late' \subseteq Requests
  <1>1. \A r \in Requests : Verdict(r)' \in Verdicts
    BY DEF Verdict, Verdicts
  <1>2. verdicts' \in [Requests -> SUBSET Verdicts]
    BY <1>1 DEF Observe, TypeOK
  <1> QED
    BY <1>2 DEF Observe, TypeOK

\* A request in the check after a step has the new verdict recorded, and
\* keeps what was recorded before.
LEMMA ObserveVerdicts ==
    ASSUME NEW R, Observe(R), TypeOK, NEW r \in Requests, pc'[r] # "idle"
    PROVE  /\ pc[r] # "done" => Verdict(r)' \in verdicts'[r]
           /\ verdicts[r] \subseteq verdicts'[r]
  BY DEF Observe, TypeOK

\* A step of others keeps the invariant of a request whose process it does
\* not restart.
LEMMA OthersKeep ==
    ASSUME TypeOK, NEW R, Observe(R), NEW q \in Requests, RequestInv(q),
           pc'[q] = pc[q], at'[q] = at[q], answer'[q] = answer[q],
           required[at[q]] => required'[at[q]]
    PROVE  RequestInv(q)'
  <1>1. CASE pc[q] = "idle"
    BY <1>1 DEF RequestInv, Recorded, LatchBehind, Answered, InCheck
  <1>2. CASE pc[q] # "idle"
    <2>1. /\ pc[q] # "done" => Verdict(q)' \in verdicts'[q]
          /\ verdicts[q] \subseteq verdicts'[q]
      BY <1>2, ObserveVerdicts
    <2> QED
      BY <2>1 DEF RequestInv, Recorded, LatchBehind, Answered, InCheck
  <1> QED
    BY <1>1, <1>2

\* The processes that have judged by a token are latched, if the others stay
\* latched and every answer behind it has the latch set.
LEMMA DemandedKeep ==
    ASSUME TypeOK, DemandedLatched, NEW R, Observe(R),
           \A p \in demanded \ R : required'[p],
           \A q \in Requests : answer'[q] \in {"key", "unauthorized"} => required'[at[q]]
    PROVE  DemandedLatched'
  BY DEF Observe, DemandedLatched

\* A step of the request r that keeps the others and the keys.
LEMMA RequestKeeps ==
    ASSUME IInv, NEW r \in Requests, Observe({}),
           \/ \E p \in Servers, t \in printed \cup {NoToken} : Arrive(r, p, t)
           \/ AuthenticateStep(r) \/ Forget(r)
    PROVE  IInv'
  <1> USE DEF Goto, Return
  <1>0. TypeOK
    BY DEF IInv
  <1>1. /\ UNCHANGED keyVars
        /\ pc' = [pc EXCEPT ![r] = pc'[r]] /\ pc'[r] \in InCheck \cup {"idle", "done"}
        /\ at' = [at EXCEPT ![r] = at'[r]] /\ at'[r] \in Servers
        /\ token' = [token EXCEPT ![r] = token'[r]] /\ token'[r] \in Keys \cup {NoToken}
        /\ answer' = [answer EXCEPT ![r] = answer'[r]]
        /\ answer'[r] \in Verdicts \cup {"none", "backend"}
        /\ required' \in [Servers -> BOOLEAN]
        /\ \A p \in Servers : required[p] => required'[p]
    <2>1. CASE \E p \in Servers, t \in printed \cup {NoToken} : Arrive(r, p, t)
      BY <1>0, <2>1 DEF Arrive, TypeOK, InCheck, Verdicts
    <2>2. CASE ReadLatch(r)
      BY <1>0, <2>2 DEF ReadLatch, TypeOK, InCheck, Verdicts
    <2>3. CASE CountActiveAPIKeys(r)
      BY <1>0, <2>3 DEF CountActiveAPIKeys, TypeOK, InCheck, Verdicts
    <2>4. CASE RereadLatch(r)
      BY <1>0, <2>4 DEF RereadLatch, TypeOK, InCheck, Verdicts
    <2>5. CASE SetLatch(r)
      BY <1>0, <2>5 DEF SetLatch, TypeOK, InCheck, Verdicts
    <2>6. CASE GetActiveAPIKeyByHash(r)
      BY <1>0, <2>6 DEF GetActiveAPIKeyByHash, TypeOK, InCheck, Verdicts
    <2>7. CASE TouchAPIKey(r)
      BY <1>0, <2>7 DEF TouchAPIKey, TypeOK, InCheck, Verdicts
    <2>8. CASE Forget(r)
      BY <1>0, <2>8 DEF Forget, TypeOK, InCheck, Verdicts
    <2> QED
      BY <2>1, <2>2, <2>3, <2>4, <2>5, <2>6, <2>7, <2>8 DEF AuthenticateStep
  <1>2. TypeOK'
    BY <1>0, <1>1, ObserveType DEF TypeOK, keyVars
  <1>3. \A q \in Requests \ {r} : RequestInv(q)'
    BY <1>0, <1>1, OthersKeep DEF IInv, TypeOK
  <1>4. RequestInv(r)'
    <2>0. RequestInv(r)
      BY DEF IInv
    <2>a. ActiveKeys' = ActiveKeys
      BY <1>1 DEF keyVars, ActiveKeys
    <2>b. pc'[r] # "idle" => /\ pc[r] # "done" => Verdict(r)' \in verdicts'[r]
                             /\ verdicts[r] \subseteq verdicts'[r]
      BY <1>0, ObserveVerdicts
    <2> USE <1>0, <2>0, <2>a, <2>b DEF RequestInv, Recorded, LatchBehind, Answered, InCheck
    <2>1. CASE \E p \in Servers, t \in printed \cup {NoToken} : Arrive(r, p, t)
      BY <2>1 DEF Arrive, TypeOK
    <2>2. CASE ReadLatch(r)
      BY <2>2 DEF ReadLatch, TypeOK
    <2>3. CASE CountActiveAPIKeys(r)
      BY <2>3 DEF CountActiveAPIKeys, TypeOK, Verdict
    <2>4. CASE RereadLatch(r)
      BY <2>4 DEF RereadLatch, TypeOK
    <2>5. CASE SetLatch(r)
      BY <2>5 DEF SetLatch, TypeOK
    <2>6. CASE GetActiveAPIKeyByHash(r)
      BY <2>6 DEF GetActiveAPIKeyByHash, TypeOK, Verdict
    <2>7. CASE TouchAPIKey(r)
      BY <2>7 DEF TouchAPIKey, TypeOK
    <2>8. CASE Forget(r)
      BY <2>8 DEF Forget, TypeOK
    <2> QED
      BY <2>1, <2>2, <2>3, <2>4, <2>5, <2>6, <2>7, <2>8 DEF AuthenticateStep
  <1>5. answer'[r] \in {"key", "unauthorized"} => at'[r] = at[r]
    <2>1. CASE \E p \in Servers, t \in printed \cup {NoToken} : Arrive(r, p, t)
      BY <1>0, <2>1 DEF Arrive, TypeOK, IInv, RequestInv, Answered
    <2>2. CASE AuthenticateStep(r) \/ Forget(r)
      BY <2>2 DEF AuthenticateStep, ReadLatch, CountActiveAPIKeys, RereadLatch, SetLatch,
                  GetActiveAPIKeyByHash, TouchAPIKey, Forget
    <2> QED
      BY <2>1, <2>2
  <1>6. DemandedLatched'
    <2>1. \A q \in Requests : answer'[q] \in {"key", "unauthorized"} => required'[at[q]]
      BY <1>0, <1>1, <1>3, <1>4, <1>5 DEF RequestInv, LatchBehind, TypeOK
    <2> QED
      BY <1>0, <1>1, <2>1, DemandedKeep DEF IInv, DemandedLatched, TypeOK
  <1> QED
    BY <1>2, <1>3, <1>4, <1>6 DEF IInv

\* The apikey commands change no request and no latch.
LEMMA CommandKeeps ==
    ASSUME IInv, NEW k \in Keys, CommandStep(k), Observe({})
    PROVE  IInv'
  <1>0. TypeOK
    BY DEF IInv
  <1>1. /\ UNCHANGED <<required, requestVars>>
        /\ key' \in [Keys -> {"none", "active", "revoked", "deleted"}]
        /\ create' \in [Keys -> {"idle", "inserted", "cleanup", "over"}]
        /\ printed' \subseteq Keys
    BY <1>0 DEF CommandStep, InsertAPIKey, PrintToken, DeleteAPIKey, RevokeAPIKey, TypeOK
  <1>2. TypeOK'
    BY <1>0, <1>1, ObserveType DEF TypeOK, requestVars
  <1>3. \A q \in Requests : RequestInv(q)'
    BY <1>0, <1>1, OthersKeep DEF IInv, requestVars
  <1>4. DemandedLatched'
    BY <1>0, <1>1, DemandedKeep DEF IInv, DemandedLatched, RequestInv, LatchBehind, requestVars
  <1> QED
    BY <1>2, <1>3, <1>4 DEF IInv

\* A restart clears the latch of a process together with its requests.
LEMMA RestartKeeps ==
    ASSUME IInv, NEW p \in Servers, Restart(p), Observe({p})
    PROVE  IInv'
  <1>0. TypeOK
    BY DEF IInv
  <1>1. TypeOK'
    BY <1>0, ObserveType DEF Restart, TypeOK, keyVars
  <1>2. \A q \in Requests : RequestInv(q)'
    <2> SUFFICES ASSUME NEW q \in Requests PROVE RequestInv(q)'
      OBVIOUS
    <2>1. CASE at[q] = p
      BY <1>0, <2>1 DEF Restart, TypeOK, RequestInv, Recorded, LatchBehind, Answered, InCheck
    <2>2. CASE at[q] # p
      BY <1>0, <2>2, OthersKeep DEF Restart, TypeOK, IInv
    <2> QED
      BY <2>1, <2>2
  <1>3. DemandedLatched'
    <2>1. \A s \in demanded \ {p} : required'[s]
      BY <1>0 DEF Restart, TypeOK, IInv, DemandedLatched
    <2>2. \A q \in Requests : answer'[q] \in {"key", "unauthorized"} => required'[at[q]]
      BY <1>0, <1>2 DEF Restart, TypeOK, RequestInv, LatchBehind
    <2> QED
      BY <1>0, <2>1, <2>2, DemandedKeep DEF IInv
  <1> QED
    BY <1>1, <1>2, <1>3 DEF IInv

\* The inductive invariant holds in every reachable state.
THEOREM Invariance == Spec => []IInv
  <1>1. Init => IInv
    BY DEF Init, IInv, TypeOK, RequestInv, Recorded, LatchBehind, Answered, DemandedLatched,
           InCheck, Verdicts
  <1>2. IInv /\ [Next]_vars => IInv'
    <2> SUFFICES ASSUME IInv, [Next]_vars PROVE IInv'
      OBVIOUS
    <2>1. CASE Next
      BY <2>1, RequestKeeps, CommandKeeps, RestartKeeps DEF Next
    <2>2. CASE UNCHANGED vars
      BY <2>2 DEF vars, keyVars, requestVars, history, IInv, TypeOK, RequestInv, Recorded,
                  LatchBehind, Answered, DemandedLatched, Verdict, ActiveKeys
    <2> QED
      BY <2>1, <2>2
  <1> QED
    BY <1>1, <1>2, PTL DEF Spec

\* Every variable keeps its type.
THEOREM AuthTypeCorrect == Spec => []TypeOK
  BY Invariance, PTL DEF IInv

\* Whatever the interleaving of requests, key commands and restarts, every
\* answer of Authenticate is one that a check in a single step would have
\* given at some instant of the request.
THEOREM AnswersLinearize == Spec => []AnswerLinearizes
  <1>1. IInv => AnswerLinearizes
    BY DEF IInv, RequestInv, Answered, AnswerLinearizes
  <1> QED
    BY <1>1, Invariance, PTL

\* A process that has once judged a request by its token never again passes
\* one without a token, until it restarts.
THEOREM LockNeverOpens == Spec => LockIsFinal
  <1>1. IInv /\ [Next]_vars =>
          [\A r \in Requests :
             answer[r] # "open" /\ answer'[r] = "open" => at[r] \notin demanded]_vars
    <2> SUFFICES ASSUME IInv, Next, NEW r \in Requests,
                        answer[r] # "open", answer'[r] = "open", at[r] \in demanded
                 PROVE  FALSE
      OBVIOUS
    <2>1. required[at[r]]
      BY DEF IInv, DemandedLatched
    <2>2. \A k \in Keys : ~CommandStep(k)
      BY DEF CommandStep, InsertAPIKey, PrintToken, DeleteAPIKey, RevokeAPIKey, requestVars
    <2>3. \A p \in Servers : ~Restart(p)
      BY DEF Restart
    <2>4. PICK q \in Requests : \/ \E p \in Servers, t \in printed \cup {NoToken} : Arrive(q, p, t)
                                \/ AuthenticateStep(q) \/ Forget(q)
      BY <2>2, <2>3 DEF Next
    <2> QED
      BY <2>1, <2>4 DEF Arrive, AuthenticateStep, ReadLatch, CountActiveAPIKeys, RereadLatch,
                        SetLatch, GetActiveAPIKeyByHash, TouchAPIKey, Forget, Goto, Return,
                        IInv, TypeOK
  <1> QED
    BY <1>1, Invariance, PTL DEF Spec, LockIsFinal
=============================================================================
