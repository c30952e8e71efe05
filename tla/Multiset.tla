------------------------------ MODULE Multiset ------------------------------
(***************************************************************************)
(* What the set of src/src/set.c promises: a multiset of values in which   *)
(* every member carries the metadata of its last addition.                 *)
(***************************************************************************)
EXTENDS Integers

CONSTANTS Value, Metadata

VARIABLES
  count,    \* Value -> how often it is in the set
  metadata  \* Value -> the metadata of its last addition, 0 if it is not in

vars == <<count, metadata>>

Init ==
  /\ count = [v \in Value |-> 0]
  /\ metadata = [v \in Value |-> 0]

\* add_with_metadata; add is the same with the metadata 0.
Add(v, m) ==
  /\ count' = [count EXCEPT ![v] = @ + 1]
  /\ metadata' = [metadata EXCEPT ![v] = m]

\* pop: one occurrence less; the last one takes the metadata with it.
Pop(v) ==
  /\ count[v] > 0
  /\ count' = [count EXCEPT ![v] = @ - 1]
  /\ metadata' = [metadata EXCEPT ![v] = IF count[v] = 1 THEN 0 ELSE @]

Next == \E v \in Value : Pop(v) \/ \E m \in Metadata : Add(v, m)

Spec == Init /\ [][Next]_vars
=============================================================================
