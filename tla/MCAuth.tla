------------------------------- MODULE MCAuth -------------------------------
(* Instances of Auth for TLC.                                              *)
EXTENDS Auth, TLC

CONSTANTS p1, p2, r1, r2, k1, k2

Symmetry == Permutations(Servers) \cup Permutations(Requests) \cup Permutations(Keys)
=============================================================================
