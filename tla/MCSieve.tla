------------------------------ MODULE MCSieve -------------------------------
(***************************************************************************)
(* Sieve for TLC: a path of three segments and every configuration with at *)
(* most three rules about it.                                              *)
(***************************************************************************)
EXTENDS Sieve

Rule == SetName \X (0..Length)
UpToThreeRules == {{}} \cup {{a, b, c} : a, b, c \in Rule}
UpToTwoRules == {{}} \cup {{a, b} : a, b \in Rule}
=============================================================================
