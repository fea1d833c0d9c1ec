---------------------------- MODULE SessionLife -----------------------------
(***************************************************************************)
(* What the control plane promises about the status column of a session:   *)
(* every statement that writes it claims one session, starts one, or ends  *)
(* a set of active ones with one outcome, and the first outcome stands.    *)
(* Scheduler, Relay and Reconcile each keep the column in a variable of    *)
(* their own, next to different other state; each is shown to implement    *)
(* this module, so that what one of them lets happen to a session          *)
(* "elsewhere" and what the others do to it are steps of one kind.         *)
(***************************************************************************)
CONSTANT Sessions   \* session rows
VARIABLE status     \* status[s]: the status column; "none" before the insert

Active == {"pending", "running"}
Terminal == {"completed", "failed", "expired"}

\* A specification may begin with sessions already claimed.
Init == status \in [Sessions -> {"none", "pending"}]

\* InsertClaimedSession.
Claim(s) ==
    /\ status[s] = "none"
    /\ status' = [status EXCEPT ![s] = "pending"]

\* StartSession.
Start(s) ==
    /\ status[s] = "pending"
    /\ status' = [status EXCEPT ![s] = "running"]

\* Complete, Fail, Terminate (one session); FailUnreportedWorkerSessions and
\* ExpireDeadSessions (any number).
End(over, outcome) ==
    /\ \A s \in over : status[s] \in Active
    /\ status' = [s \in Sessions |-> IF s \in over THEN outcome ELSE status[s]]

Next ==
    \/ \E s \in Sessions : Claim(s) \/ Start(s)
    \/ \E over \in SUBSET Sessions, outcome \in Terminal : End(over, outcome)

Spec == Init /\ [][Next]_status
=============================================================================
