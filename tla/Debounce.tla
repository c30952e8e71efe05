------------------------------ MODULE Debounce ------------------------------
(***************************************************************************)
(* What the write queue of src/src/linq.c promises the event handler:      *)
(* every path has at most one pending write, a path is handed out only     *)
(* when its last write is at least `debounce` seconds old, a write in      *)
(* between starts the wait again and puts the path last, a cancelling push *)
(* forgets the pending write, and a path that was handed out stays pending *)
(* until the caller has popped it, so that a crash in between loses        *)
(* nothing.                                                                *)
(***************************************************************************)
EXTENDS Integers

CONSTANTS
  Path,       \* the paths that can be pushed
  Debounces,  \* the values of the setting debounce_seconds
  None        \* the absence of a path or of a time

VARIABLES
  due,       \* Path -> the time of the pending write, or None
  older,     \* Path -> the pending paths whose last push came before its own
  handed,    \* the path the caller is working on, or None
  debounce,  \* debounce_seconds
  now        \* the wall clock, in seconds

vars == <<due, older, handed, debounce, now>>

Init ==
  /\ due = [p \in Path |-> None]
  /\ older = [p \in Path |-> {}]
  /\ handed = None
  /\ debounce \in Debounces
  /\ now \in Nat

Pending == {p \in Path : due[p] # None}

\* `p` is no longer pending.
Forget(p) ==
  /\ due' = [due EXCEPT ![p] = None]
  /\ older' = [q \in Path |-> IF q = p THEN {} ELSE older[q] \ {p}]

\* push of a path: from now on the write at `now` is the pending one.
Push(p) ==
  /\ handed = None
  /\ due' = [due EXCEPT ![p] = now]
  /\ older' = [q \in Path |-> IF q = p THEN Pending \ {p} ELSE older[q] \ {p}]
  /\ UNCHANGED <<handed, debounce, now>>

\* push of a path marked with '!': nothing is pending for it any more.
Cancel(p) ==
  /\ handed = None
  /\ Forget(p)
  /\ UNCHANGED <<handed, debounce, now>>

Ripe(p) == due[p] # None /\ now - due[p] >= debounce

\* get_head answers with a path: paths come in the order of their last pushes.
Take(p) ==
  /\ handed = None
  /\ Ripe(p)
  /\ older[p] = {}
  /\ handed' = p
  /\ UNCHANGED <<due, older, debounce, now>>

\* pop_head of the path that was handed out.
Commit ==
  /\ handed # None
  /\ Forget(handed)
  /\ handed' = None
  /\ UNCHANGED <<debounce, now>>

\* A crash, or a failure between get_head and pop_head: still pending.
Abandon ==
  /\ handed' = None
  /\ UNCHANGED <<due, older, debounce, now>>

\* redebounce, or a restart with another configuration.
Redebounce ==
  /\ handed = None
  /\ debounce' \in Debounces
  /\ UNCHANGED <<due, older, handed, now>>

\* The clock moves on, or is set back.
Clock ==
  /\ now' \in Nat
  /\ UNCHANGED <<due, older, handed, debounce>>

Next ==
  \/ \E p \in Path : Push(p) \/ Cancel(p) \/ Take(p)
  \/ Commit
  \/ Abandon
  \/ Redebounce
  \/ Clock

Spec == Init /\ [][Next]_vars
=============================================================================
