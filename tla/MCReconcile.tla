---------------------------- MODULE MCReconcile -----------------------------
(***************************************************************************)
(* Instances of Reconcile for TLC.                                         *)
(***************************************************************************)
EXTENDS Reconcile, TLC

CONSTANTS s1, s2

Symmetry == Permutations(Sessions)
=============================================================================
