------------------------------ MODULE MCServe -------------------------------
(* Instances of Relay and Serve for TLC.                                   *)
EXTENDS Serve, TLC

CONSTANTS a1, a2, a3, s1, s2

Symmetry == Permutations(Attachments) \cup Permutations(Sessions)
=============================================================================
