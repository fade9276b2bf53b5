----------------------------- MODULE MCPayments -----------------------------
(***************************************************************************)
(* Instances of Payments with two requests in flight.                      *)
(***************************************************************************)
EXTENDS Payments, TLC

CONSTANTS r1, r2

Symmetry == Permutations(Requests)
=============================================================================
