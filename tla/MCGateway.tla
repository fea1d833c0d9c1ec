------------------------------ MODULE MCGateway -----------------------------
(***************************************************************************)
(* Instances of Gateway for TLC.                                           *)
(***************************************************************************)
EXTENDS Gateway, TLC

CONSTANTS i1, i2, k1, k2, k3

\* Two requests for one session, the third for another.
TwoForOne == [k \in Conns |-> IF k = k3 THEN i2 ELSE i1]
=============================================================================
