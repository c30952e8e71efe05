------------------------------ MODULE MCTrace -------------------------------
(***************************************************************************)
(* Trace for TLC: two static messages; messages are interchangeable.       *)
(***************************************************************************)
EXTENDS Trace, TLC

CONSTANTS m1, m2

Symmetry == Permutations(Message)
=============================================================================
