------------------------------ MODULE Capacity ------------------------------
(***************************************************************************)
(* What the control plane promises about worker capacity, with no          *)
(* transactions, row locks, clocks or heartbeats: every worker holds at    *)
(* most MaxSlots[w] active sessions, takes at most MaxLifetime sessions in *)
(* its life, takes sessions only while it is open, never reopens once it   *)
(* retires, and disappears only when it holds no active session.           *)
(* Scheduler.tla is shown to implement this module.                        *)
(***************************************************************************)
EXTENDS Integers, FiniteSets

CONSTANTS Workers,      \* worker rows
          Sessions,     \* session rows
          MaxSlots,     \* MaxSlots[w]: concurrent sessions of worker w
          MaxLifetime   \* sessions a worker may ever take; 0 is no limit

VARIABLES active,  \* active[w]: sessions now holding a slot of w
          used,    \* used[w]: sessions w was ever given
          gate     \* gate[w]: "open", "closed", "retired" or "gone"

vars == <<active, used, gate>>

Gates == {"open", "closed", "retired", "gone"}

TypeOK ==
    /\ active \in [Workers -> SUBSET Sessions]
    /\ used \in [Workers -> SUBSET Sessions]
    /\ gate \in [Workers -> Gates]

Init ==
    /\ active = [w \in Workers |-> {}]
    /\ used = [w \in Workers |-> {}]
    /\ gate = [w \in Workers |-> "closed"]

\* A gate may move this way in one step. Retiring is final; so is leaving.
GateMove(from, to) ==
    \/ from = to
    \/ from \in {"open", "closed"}
    \/ from = "retired" /\ to = "gone"

\* A new session takes a slot of an open worker.
Admit(w, s) ==
    /\ gate[w] = "open"
    /\ \A v \in Workers : s \notin used[v]
    /\ Cardinality(active[w]) < MaxSlots[w]
    /\ MaxLifetime = 0 \/ Cardinality(used[w]) < MaxLifetime
    /\ active' = [active EXCEPT ![w] = @ \cup {s}]
    /\ used' = [used EXCEPT ![w] = @ \cup {s}]
    /\ UNCHANGED gate

\* Sessions end and gates move; only an empty worker goes away.
Withdraw ==
    /\ active' \in [Workers -> SUBSET Sessions]
    /\ gate' \in [Workers -> Gates]
    /\ \A w \in Workers :
         /\ active'[w] \subseteq active[w]
         /\ GateMove(gate[w], gate'[w])
         /\ gate'[w] = "gone" => active'[w] = {}
    /\ UNCHANGED used

Next == (\E w \in Workers, s \in Sessions : Admit(w, s)) \/ Withdraw

Spec == Init /\ [][Next]_vars
=============================================================================
