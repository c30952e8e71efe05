----------------------------- MODULE MCEditors ------------------------------
(***************************************************************************)
(* Editors for TLC: an editor, another program, a static program and a     *)
(* script with the name of an editor; the editor and the other program     *)
(* have one loader.  The bitmap is too short for the second process.       *)
(***************************************************************************)
EXTENDS Editors, TLC

CONSTANTS vi, cat, busybox, wrapper, ld

Loaders == (vi :> ld) @@ (cat :> ld) @@ (busybox :> None) @@ (wrapper :> None)
Shebangs ==
  (vi :> None) @@ (cat :> None) @@ (busybox :> None) @@ (wrapper :> cat)

=============================================================================
