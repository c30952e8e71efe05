----------------------------- MODULE Exceptions -----------------------------
(***************************************************************************)
(* What src/src/trace.c promises its callers: exceptions.  Blocks (try ... *)
(* finally) nest.  After a throw nothing counts as successful until the    *)
(* exception is caught, and only a block that was open when it was thrown, *)
(* and in which no other block is open any more, can catch it, by its last *)
(* message.                                                                *)
(***************************************************************************)
EXTENDS Naturals

CONSTANTS
  Message,
  Unnamed   \* an exception without a message to catch it by

VARIABLES
  depth,  \* the number of open blocks
  level,  \* the number of them that were open at the throw
  thrown  \* {} or the exception's last message, or Unnamed

vars == <<depth, level, thrown>>

Init == depth = 0 /\ level = 0 /\ thrown = {}

Success == thrown = {}

Try ==
  /\ depth' = depth + 1
  /\ level' = IF Success THEN depth + 1 ELSE level
  /\ UNCHANGED thrown

\* A throw, or another message for the exception that is under way.
Throw ==
  /\ \E m \in Message \cup {Unnamed} : thrown' = {m}
  /\ UNCHANGED <<depth, level>>

\* The answer TRUE of catch_static.
Catch(m) ==
  /\ depth > 0
  /\ level = depth
  /\ thrown = {m}
  /\ thrown' = {}
  /\ UNCHANGED <<depth, level>>

CatchAll ==
  /\ depth > 0
  /\ level = depth
  /\ depth' = depth - 1
  /\ level' = level - 1
  /\ thrown' = {}

\* finally; with a message for an exception that leaves the block it was
\* thrown in.
Finally ==
  /\ depth > 0
  /\ depth' = depth - 1
  /\ level' = IF level = depth THEN level - 1 ELSE level
  /\ \/ UNCHANGED thrown
     \/ /\ level = depth
        /\ ~Success
        /\ \E m \in Message \cup {Unnamed} : thrown' = {m}

Next ==
  \/ Try
  \/ Throw
  \/ \E m \in Message : Catch(m)
  \/ CatchAll
  \/ Finally

Spec == Init /\ [][Next]_vars
=============================================================================
