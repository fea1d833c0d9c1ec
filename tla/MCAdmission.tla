---------------------------- MODULE MCAdmission -----------------------------
(***************************************************************************)
(* An instance of Admission for TLC.                                       *)
(***************************************************************************)
EXTENDS Admission

CONSTANTS c1, c2, x1
=============================================================================
