---------------------------- MODULE MCScheduler -----------------------------
(***************************************************************************)
(* Instances of CapacityReport for TLC.                                    *)
(***************************************************************************)
EXTENDS CapacityReport, TLC

CONSTANTS s1, s2, s3, c1, c2, r1, chromium, firefox

\* Contended claims: worker 1 has two slots, worker 2 has one.
ClaimSlots == [w \in Workers |-> IF w = 1 THEN 2 ELSE 1]
\* One slot everywhere.
OneSlot == [w \in Workers |-> 1]
\* Every request matches every worker.
AllMatch == [c \in Clients |-> Workers]

\* Every worker runs the same browser.
AllChromium == [w \in Workers |-> chromium]

\* Requests that match the same workers, and sessions, are interchangeable.
SymSessions == Permutations(Sessions)
SymClients == Permutations(Sessions) \cup Permutations(Clients)
=============================================================================
