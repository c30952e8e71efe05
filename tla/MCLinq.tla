------------------------------- MODULE MCLinq -------------------------------
(***************************************************************************)
(* Linq for TLC.  Pushes end early enough for every entry to ripen before  *)
(* the clock stops at its bound.                                           *)
(***************************************************************************)
EXTENDS Linq

ASSUME TimeForAll == \A d \in Debounces : LastPush + d <= MaxTime
=============================================================================
