------------------------------- MODULE Trace --------------------------------
(***************************************************************************)
(* src/src/trace.c: exceptions as data.  A trace is a stack of messages,   *)
(* the number of messages for which there was no memory, and two depths:   *)
(* of the blocks entered before a throw and of those entered after it.     *)
(*                                                                         *)
(* Only the static messages matter to catch_static; a dynamic message (a   *)
(* context or an error of the system) is Unnamed.  The actions are the     *)
(* calls a client may make: each of its assertions is a guard.             *)
(***************************************************************************)
EXTENDS Naturals, Sequences

CONSTANTS
  Message,
  Unnamed,
  MaxFrames,  \* bound: messages in a trace
  MaxDepth    \* bound: open blocks

ASSUME TraceAssumption == Unnamed \notin Message

VARIABLES
  frames,             \* trace->head: the messages, the last one first
  droppedFrameCount,
  preThrowDepth,
  postThrowDepth

vars == <<frames, droppedFrameCount, preThrowDepth, postThrowDepth>>

\* create_trace.
Init ==
  /\ frames = <<>>
  /\ droppedFrameCount = 0
  /\ preThrowDepth = 0
  /\ postThrowDepth = 0

\* ok.
Ok == frames = <<>> /\ droppedFrameCount = 0

Depth == preThrowDepth + postThrowDepth

\* throw_common: there may be no memory for the message.
PutFrame(m) ==
  /\ Len(frames) + droppedFrameCount < MaxFrames
  /\ \/ frames' = <<m>> \o frames /\ UNCHANGED droppedFrameCount
     \/ droppedFrameCount' = droppedFrameCount + 1 /\ UNCHANGED frames

\* throw_static, throw_dynamic, throw_context, throw_errno.
Throw(m) ==
  /\ PutFrame(m)
  /\ UNCHANGED <<preThrowDepth, postThrowDepth>>

Try ==
  /\ Depth < MaxDepth
  /\ IF Ok
     THEN preThrowDepth' = preThrowDepth + 1 /\ UNCHANGED postThrowDepth
     ELSE postThrowDepth' = postThrowDepth + 1 /\ UNCHANGED preThrowDepth
  /\ UNCHANGED <<frames, droppedFrameCount>>

\* The answer of catch_static.
Catches(m) ==
  /\ droppedFrameCount = 0
  /\ postThrowDepth = 0
  /\ frames # <<>>
  /\ Head(frames) = m

\* catch_static; the answer false changes nothing.
CatchStatic(m) ==
  /\ Depth > 0
  /\ Catches(m)
  /\ frames' = <<>>
  /\ UNCHANGED <<droppedFrameCount, preThrowDepth, postThrowDepth>>

\* Mutant of DecrementDepth: without the second depth.
BuggyDecrementDepth ==
  preThrowDepth' = preThrowDepth - 1 /\ UNCHANGED postThrowDepth

DecrementDepth ==
  IF postThrowDepth > 0
  THEN postThrowDepth' = postThrowDepth - 1 /\ UNCHANGED preThrowDepth
  ELSE preThrowDepth' = preThrowDepth - 1 /\ UNCHANGED postThrowDepth

\* finally_catch_all.  Its only caller, clean_up in src/src/sync.c, opens the
\* block on a trace of its own and so never in the course of an exception.
FinallyCatchAll ==
  /\ Depth > 0
  /\ postThrowDepth = 0
  /\ frames' = <<>>
  /\ droppedFrameCount' = 0
  /\ DecrementDepth

Finally ==
  /\ Depth > 0
  /\ DecrementDepth
  /\ UNCHANGED <<frames, droppedFrameCount>>

\* Mutant of FinallyRethrowStatic: it looks at the trace first.
BuggyFinallyRethrowStatic(m) ==
  /\ Depth > 0
  /\ DecrementDepth
  /\ IF ~Ok THEN PutFrame(m) ELSE UNCHANGED <<frames, droppedFrameCount>>

FinallyRethrowStatic(m) ==
  /\ Depth > 0
  /\ DecrementDepth
  /\ IF postThrowDepth = 0 /\ ~Ok
     THEN PutFrame(m)
     ELSE UNCHANGED <<frames, droppedFrameCount>>

RethrowContext ==
  /\ Depth > 0
  /\ postThrowDepth = 0
  /\ ~Ok
  /\ PutFrame(Unnamed)
  /\ UNCHANGED <<preThrowDepth, postThrowDepth>>

Next ==
  \/ \E m \in Message \cup {Unnamed} : Throw(m)
  \/ Try
  \/ \E m \in Message : CatchStatic(m) \/ FinallyRethrowStatic(m)
  \/ FinallyCatchAll
  \/ Finally
  \/ RethrowContext

Spec == Init /\ [][Next]_vars
-----------------------------------------------------------------------------
TypeOK ==
  /\ frames \in Seq(Message \cup {Unnamed})
  /\ droppedFrameCount \in Nat
  /\ preThrowDepth \in Nat
  /\ postThrowDepth \in Nat

\* A block counts as entered after a throw only while there is something
\* thrown: otherwise the next exception could not be caught where it should.
PostThrowMeansThrown == Ok => postThrowDepth = 0

\* The exception under way, by the message it can be caught by.
Thrown == IF Ok THEN {}
          ELSE {IF droppedFrameCount = 0 THEN Head(frames) ELSE Unnamed}

Exception ==
  INSTANCE Exceptions WITH
    depth <- Depth, level <- preThrowDepth, thrown <- Thrown

\* The callers' view, nested blocks: an exception is caught in the block it was
\* thrown in or not at all, by its last message or not at all, and what leaves a
\* block that was entered after the throw leaves it unchanged.  Two counters are
\* enough for that.
ImplementsExceptions == Exception!Spec
=============================================================================
