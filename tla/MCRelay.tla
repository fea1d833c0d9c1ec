------------------------------ MODULE MCRelay -------------------------------
(***************************************************************************)
(* Instances of Relay for TLC.                                             *)
(***************************************************************************)
EXTENDS Relay, TLC

CONSTANTS a1, a2, a3, s1, s2

Symmetry == Permutations(Attachments) \cup Permutations(Sessions)
=============================================================================
