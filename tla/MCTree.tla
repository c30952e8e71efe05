------------------------------- MODULE MCTree -------------------------------
(***************************************************************************)
(* Tree for TLC: a directory, which may also be a file, with two files in. *)
(***************************************************************************)
EXTENDS Tree, TLC

CONSTANTS x, y, z

\* y and z are in the directory x.
Directories == (x :> {}) @@ (y :> {x}) @@ (z :> {x})
=============================================================================
