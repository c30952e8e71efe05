----------------------------- MODULE MCHashSet ------------------------------
(***************************************************************************)
(* HashSet for TLC: three strings, one of them a prefix of another, on     *)
(* tables of one to three chains, so that chains collide, share and empty. *)
(***************************************************************************)
EXTENDS HashSet

Strings == {<<1>>, <<2>>, <<1, 2>>}
=============================================================================
