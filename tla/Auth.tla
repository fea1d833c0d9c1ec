-------------------------------- MODULE Auth --------------------------------
(***************************************************************************)
(* Authentication of control-plane requests and the apikey command. Each   *)
(* server process keeps a latch, authRequired, that a request sets when it *)
(* counts an active key (httpapi/auth.go); the rows of api_keys are        *)
(* written by apikey create and revoke (apikey/command.go) in other        *)
(* processes. A request is one goroutine; each of its queries, and each    *)
(* critical section of the mutex, is a step of its own.                    *)
(***************************************************************************)
CONSTANTS Servers,   \* server processes, on one database
          Requests,  \* requests under way
          Keys,      \* key ids; uuid.New() never repeats one
          NoToken    \* no bearer token, a malformed one or an unknown one

ASSUME NoTokenAssumption == NoToken \notin Keys

VARIABLES
    key,       \* key[k]: the row of k in api_keys
    create,    \* create[k]: where the create command of k stands
    printed,   \* the keys whose token was printed, so that a client can have it
    required,  \* required[p]: authRequired of p
    pc,        \* pc[r]: where Authenticate stands for r
    at,        \* at[r]: the server of r
    token,     \* token[r]: the key whose token r carries, or NoToken
    answer,    \* answer[r]: what Authenticate returned
    verdicts,  \* history: what an atomic check could have returned since r arrived
    demanded,  \* history: the processes that have judged some request by its token
    keyed,     \* history: the processes that have run beside a created, active key
    late       \* history: the requests that came to a process in keyed after
               \* every key was revoked

keyVars == <<key, create, printed>>
requestVars == <<pc, at, token, answer>>
history == <<verdicts, demanded, keyed, late>>
vars == <<keyVars, required, requestVars, history>>

InCheck == {"arrived", "count", "zero", "positive", "bearer", "touch"}
Verdicts == {"open", "key", "unauthorized"}

ActiveKeys == {k \in Keys : key[k] = "active"}

\* What a check of r in a single step would say: the specification.
Verdict(r) ==
    IF ~required[at[r]] /\ ActiveKeys = {} THEN "open"
    ELSE IF token[r] \in ActiveKeys THEN "key"
    ELSE "unauthorized"

TypeOK ==
    /\ key \in [Keys -> {"none", "active", "revoked", "deleted"}]
    /\ create \in [Keys -> {"idle", "inserted", "cleanup", "over"}]
    /\ printed \subseteq Keys
    /\ required \in [Servers -> BOOLEAN]
    /\ pc \in [Requests -> InCheck \cup {"idle", "done"}]
    /\ at \in [Requests -> Servers]
    /\ token \in [Requests -> Keys \cup {NoToken}]
    /\ answer \in [Requests -> Verdicts \cup {"none", "backend"}]
    /\ verdicts \in [Requests -> SUBSET Verdicts]
    /\ demanded \subseteq Servers
    /\ keyed \subseteq Servers
    /\ late \subseteq Requests

Init ==
    /\ key = [k \in Keys |-> "none"]
    /\ create = [k \in Keys |-> "idle"]
    /\ printed = {}
    /\ required = [p \in Servers |-> FALSE]
    /\ pc = [r \in Requests |-> "idle"]
    /\ at \in [Requests -> Servers]
    /\ token = [r \in Requests |-> NoToken]
    /\ answer = [r \in Requests |-> "none"]
    /\ verdicts = [r \in Requests |-> {}]
    /\ demanded = {}
    /\ keyed = {}
    /\ late = {}

Goto(r, to) == pc' = [pc EXCEPT ![r] = to]

\* Authenticate returns; the middleware, or the relay handler, goes on with
\* the principal, or answers 401 or 503.
Return(r, result) ==
    /\ Goto(r, "done")
    /\ answer' = [answer EXCEPT ![r] = result]

-----------------------------------------------------------------------------
(* Authenticate.                                                           *)

\* A client has a token of a key that was printed, or none that is known.
Arrive(r, p, t) ==
    /\ pc[r] = "idle"
    /\ Goto(r, "arrived")
    /\ at' = [at EXCEPT ![r] = p]
    /\ token' = [token EXCEPT ![r] = t]
    /\ UNCHANGED <<keyVars, required, answer>>

\* requiresAuthentication reads the latch.
ReadLatch(r) ==
    /\ pc[r] = "arrived"
    /\ Goto(r, IF required[at[r]] THEN "bearer" ELSE "count")
    /\ UNCHANGED <<keyVars, required, at, token, answer>>

\* Mutant: a failed count is taken for no keys.
CountFailsOpen(r) ==
    /\ pc[r] = "count"
    /\ \/ Goto(r, IF ActiveKeys = {} THEN "zero" ELSE "positive")
       \/ Goto(r, "zero")
    /\ UNCHANGED <<keyVars, required, at, token, answer>>

\* The query fails, or does not answer within authQueryTimeout: 503.
CountActiveAPIKeys(r) ==
    /\ pc[r] = "count"
    /\ \/ /\ Goto(r, IF ActiveKeys = {} THEN "zero" ELSE "positive")
          /\ UNCHANGED answer
       \/ Return(r, "backend")
    /\ UNCHANGED <<keyVars, required, at, token>>

\* Mutant: a count of zero is believed without another look at the latch.
BelieveZero(r) ==
    /\ pc[r] = "zero"
    /\ Return(r, "open")
    /\ UNCHANGED <<keyVars, required, at, token>>

\* No key when it was counted: the latch, set since by another request, decides.
RereadLatch(r) ==
    /\ pc[r] = "zero"
    /\ IF required[at[r]] THEN Goto(r, "bearer") /\ UNCHANGED answer
       ELSE Return(r, "open")
    /\ UNCHANGED <<keyVars, required, at, token>>

SetLatch(r) ==
    /\ pc[r] = "positive"
    /\ required' = [required EXCEPT ![at[r]] = TRUE]
    /\ Goto(r, "bearer")
    /\ UNCHANGED <<keyVars, at, token, answer>>

\* bearerToken and GetActiveAPIKeyByHash.
GetActiveAPIKeyByHash(r) ==
    /\ pc[r] = "bearer"
    /\ \/ token[r] \in ActiveKeys /\ Goto(r, "touch") /\ UNCHANGED answer
       \/ token[r] \notin ActiveKeys /\ Return(r, "unauthorized")
       \/ token[r] # NoToken /\ Return(r, "backend")
    /\ UNCHANGED <<keyVars, required, at, token>>

\* last_used_at, which nothing reads; a failure is only logged.
TouchAPIKey(r) ==
    /\ pc[r] = "touch"
    /\ Return(r, "key")
    /\ UNCHANGED <<keyVars, required, at, token>>

\* The answered request is forgotten.
Forget(r) ==
    /\ pc[r] = "done"
    /\ Goto(r, "idle")
    /\ answer' = [answer EXCEPT ![r] = "none"]
    /\ token' = [token EXCEPT ![r] = NoToken]
    /\ UNCHANGED <<keyVars, required, at>>

AuthenticateStep(r) ==
    \/ ReadLatch(r) \/ CountActiveAPIKeys(r) \/ RereadLatch(r) \/ SetLatch(r)
    \/ GetActiveAPIKeyByHash(r) \/ TouchAPIKey(r)

-----------------------------------------------------------------------------
(* apikey create and revoke.                                               *)

\* The insert takes effect or not; when its reply is lost the row stays,
\* with a token nobody has seen.
InsertAPIKey(k) ==
    /\ create[k] = "idle"
    /\ \/ /\ key' = [key EXCEPT ![k] = "active"]
          /\ \E to \in {"inserted", "over"} : create' = [create EXCEPT ![k] = to]
       \/ create' = [create EXCEPT ![k] = "over"] /\ UNCHANGED key
    /\ UNCHANGED <<printed, required, requestVars>>

PrintToken(k) ==
    /\ create[k] = "inserted"
    /\ \/ printed' = printed \cup {k} /\ create' = [create EXCEPT ![k] = "over"]
       \/ create' = [create EXCEPT ![k] = "cleanup"] /\ UNCHANGED printed
    /\ UNCHANGED <<key, required, requestVars>>

\* The clean-up after a failed print has its own timeout, and may fail too.
DeleteAPIKey(k) ==
    /\ create[k] = "cleanup"
    /\ create' = [create EXCEPT ![k] = "over"]
    /\ key' = [key EXCEPT ![k] = "deleted"] \/ UNCHANGED key
    /\ UNCHANGED <<printed, required, requestVars>>

\* Revoke; a key that is not active is only looked up, for the message.
RevokeAPIKey(k) ==
    /\ key[k] = "active"
    /\ key' = [key EXCEPT ![k] = "revoked"]
    /\ UNCHANGED <<create, printed, required, requestVars>>

CommandStep(k) ==
    InsertAPIKey(k) \/ PrintToken(k) \/ DeleteAPIKey(k) \/ RevokeAPIKey(k)

-----------------------------------------------------------------------------
\* NewTokenAuthenticator: the process starts anew, without its requests.
Restart(p) ==
    /\ required' = [required EXCEPT ![p] = FALSE]
    /\ pc' = [r \in Requests |-> IF at[r] = p THEN "idle" ELSE pc[r]]
    /\ answer' = [r \in Requests |-> IF at[r] = p THEN "none" ELSE answer[r]]
    /\ token' = [r \in Requests |-> IF at[r] = p THEN NoToken ELSE token[r]]
    /\ UNCHANGED <<keyVars, at>>

\* What the history variables record of a step that restarts the processes in R.
Observe(R) ==
    /\ verdicts' = [r \in Requests |->
                      IF pc'[r] = "idle" THEN {}
                      ELSE IF pc[r] = "done" THEN verdicts[r]
                      ELSE verdicts[r] \cup {Verdict(r)'}]
    /\ demanded' = (demanded \ R) \cup
                   {at[r] : r \in {q \in Requests : answer'[q] \in {"key", "unauthorized"}}}
    /\ keyed' = IF (printed \cap ActiveKeys)' # {} THEN Servers ELSE keyed \ R
    /\ late' = {r \in Requests : /\ pc'[r] # "idle"
                                 /\ \/ r \in late
                                    \/ pc[r] = "idle" /\ at'[r] \in keyed /\ ActiveKeys = {}}

Next ==
    \/ /\ \E r \in Requests :
            \/ \E p \in Servers, t \in printed \cup {NoToken} : Arrive(r, p, t)
            \/ AuthenticateStep(r) \/ Forget(r)
       /\ Observe({})
    \/ (\E k \in Keys : CommandStep(k)) /\ Observe({})
    \/ \E p \in Servers : Restart(p) /\ Observe({p})

Spec == Init /\ [][Next]_vars

-----------------------------------------------------------------------------
(* Properties.                                                             *)

\* The answer is one that a check in a single step would have given at some
\* instant of the request, although the latch, the count and the key are
\* looked at one after the other while keys are created and revoked and
\* other requests set the latch ("That window is bounded by the request",
\* auth.go). So nobody passes without a token while a key is active, nor
\* with a key revoked before the request came.
AnswerLinearizes ==
    \A r \in Requests : answer[r] \in verdicts[r] \cup {"none", "backend"}

\* "After a positive count, the latch stays enabled" (auth.go): a process
\* that has once demanded a token passes no later answer without one, not
\* even to a request whose count came before the first key.
LockIsFinal ==
    [][\A r \in Requests :
         answer[r] # "open" /\ answer'[r] = "open" => at[r] \notin demanded]_vars

\* "Create the first API key to lock the running server [...] The server
\* stays locked for its process lifetime, even if you later revoke every
\* key" (server/README.md): a request that comes to a process that has run
\* beside an active key, after every key was revoked, never passes without
\* a token.
FirstKeyLocks == \A r \in late : answer[r] # "open"
=============================================================================
