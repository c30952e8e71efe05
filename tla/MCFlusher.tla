----------------------------- MODULE MCFlusher ------------------------------
(***************************************************************************)
(* Flusher for TLC: two processes with a file each.                        *)
(***************************************************************************)
EXTENDS Flusher, TLC

CONSTANTS p1, p2, f1, f2

OwnFiles == (p1 :> {f1}) @@ (p2 :> {f2})

\* The FIFO of p1 is full after an answer.
SmallAndLarge == (p1 :> 1) @@ (p2 :> 2)
=============================================================================
