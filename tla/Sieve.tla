------------------------------- MODULE Sieve --------------------------------
(***************************************************************************)
(* Which rule of the configuration decides about a path: sieve of          *)
(* src/src/sieve.c and the two places that read its answer in              *)
(* src/src/handler.c, push_to_linq (is a write pushed, and which project   *)
(* root with it) and store (is the path a project, a history or a file).   *)
(*                                                                         *)
(* The life of one write: the path is sieved and pushed, later it is       *)
(* sieved again and stored, and last the root that was pushed with it is   *)
(* sieved and stored.  A flush stores the file at once.                    *)
(*                                                                         *)
(* A path is abstracted to the number of its segments, a prefix of it to   *)
(* its number of segments, and the sets of the configuration to the        *)
(* prefixes that they contain, in absolute or in relative form.  Pointers  *)
(* into the path are ordered as in the code: the end of prefix i is 2i,    *)
(* the first byte of segment i, behind the slash, is 2i-1, and NULL and    *)
(* the start of the path are Nowhere.                                      *)
(***************************************************************************)
EXTENDS Integers, Sequences, SequencesExt, FiniteSets

CONSTANTS
  Length,       \* the number of segments of the path
  Rulebooks,    \* configurations: sets of rules, a rule is <<set, prefix>>
  MayBeFlushed  \* whether the write may be a flush request

Sets == <<"cluded", "included", "excluded", "history", "project",
          "project_parent">>

SetName == Range(Sets)

ASSUME SieveAssumption ==
  /\ Length \in Nat \ {0}
  /\ Rulebooks \subseteq SUBSET (SetName \X (0..Length))
  /\ MayBeFlushed \in BOOLEAN

VARIABLES
  rules,      \* the configuration
  hidden,     \* the segments with a leading dot that is not ignored
  byEditor,   \* whether the writer's bit is set in editor_pid_bitmap
  flush,      \* whether the write asks for a flush
  phase,      \* what the path is sieved for
  path,       \* the number of segments of the path that is sieved
  this,       \* how many segments of it the loop of sieve has passed
  ends,       \* sieved_path->ends
  hidingDot,  \* sieved_path->hiding_dot
  pushed,     \* the prefixes that were pushed: the path, and its root
  stored      \* what each stored prefix was taken for

sieveVars == <<rules, hidden, byEditor, flush, phase, path, this, ends,
               hidingDot, pushed, stored>>

Nowhere == -1
End(i) == 2 * i
Dot(i) == 2 * i - 1

NoEnds == [s \in SetName |-> Nowhere]

SieveInit ==
  /\ rules \in Rulebooks
  /\ hidden \in SUBSET (1..Length)
  /\ byEditor \in BOOLEAN
  /\ flush \in {FALSE, MayBeFlushed}
  /\ phase = IF flush THEN "store" ELSE "push"
  /\ path = Length
  /\ this = 0
  /\ ends = NoEnds
  /\ hidingDot = Nowhere
  /\ pushed = <<>>
  /\ stored = <<>>

-----------------------------------------------------------------------------
(***************************************************************************)
(* sieve.                                                                  *)
(***************************************************************************)

Matched(s, i) == IF <<s, i>> \in rules THEN End(i) ELSE ends[s]

\* One prefix: `this` is 0 for the root directory, which has no segment.
Scan ==
  /\ phase \in {"push", "store"}
  /\ this <= path
  /\ ends' = [s \in SetName |-> Matched(s, this)]
  /\ hidingDot' = IF this \in hidden THEN Dot(this) ELSE hidingDot
  /\ this' = this + 1
  /\ UNCHANGED <<rules, hidden, byEditor, flush, phase, path, pushed, stored>>

IsSieved(for) == phase = for /\ this > path

SieveAgain(for, length) ==
  /\ phase' = for
  /\ path' = length
  /\ this' = 0
  /\ ends' = NoEnds
  /\ hidingDot' = Nowhere

\* strchr(end + 1, '/'): the end of the next segment, unless it is the last.
NextSegment(end) == IF end + 2 < End(path) THEN end + 2 ELSE Nowhere

\* The loop over the sets that push_to_linq and store have, round by round.
OverSets(Step(_, _), start) ==
  Step(Step(Step(Step(Step(Step(start, Sets[1]), Sets[2]), Sets[3]), Sets[4]),
            Sets[5]), Sets[6])

-----------------------------------------------------------------------------
(***************************************************************************)
(* push_to_linq.                                                           *)
(***************************************************************************)

\* Mutant of PushStep: the later of two equal rules wins.
BuggyPushStep(answer, s) ==
  IF ends[s] >= answer.farthest /\ ends[s] # Nowhere
  THEN [farthest |-> ends[s],
        isPushed |-> CASE s = "cluded" -> byEditor
                       [] s \in {"included", "history"} -> TRUE
                       [] s = "excluded" -> FALSE
                       [] OTHER -> answer.isPushed]
  ELSE answer

\* One round of the loop over the sets.
PushStep(answer, s) ==
  IF ends[s] > answer.farthest
  THEN [farthest |-> ends[s],
        isPushed |-> CASE s = "cluded" -> byEditor
                       [] s \in {"included", "history"} -> TRUE
                       [] s = "excluded" -> FALSE
                       [] OTHER -> answer.isPushed]
  ELSE answer

IsPushed ==
  OverSets(PushStep,
           [farthest |-> hidingDot, isPushed |-> hidingDot = Nowhere /\ byEditor]
          ).isPushed

\* Mutant of PushedRootEnd: a project root wins over a deeper parent.
BuggyPushedRootEnd ==
  IF ends["project"] # Nowhere /\ ends["project"] < End(path)
  THEN ends["project"]
  ELSE IF ends["project_parent"] # Nowhere /\ ends["project_parent"] < End(path)
  THEN NextSegment(ends["project_parent"])
  ELSE Nowhere

PushedRootEnd ==
  IF ends["project_parent"] > ends["project"] /\ ends["project_parent"] < End(path)
  THEN NextSegment(ends["project_parent"])
  ELSE IF ends["project"] < End(path) THEN ends["project"] ELSE Nowhere

PushToLinq ==
  /\ IsSieved("push")
  /\ IF IsPushed
     THEN /\ pushed' = IF PushedRootEnd = Nowhere THEN <<path>>
                       ELSE <<path, PushedRootEnd \div 2>>
          /\ SieveAgain("store", path)
     ELSE /\ phase' = "done"
          /\ UNCHANGED <<path, this, ends, hidingDot, pushed>>
  /\ UNCHANGED <<rules, hidden, byEditor, flush, stored>>

-----------------------------------------------------------------------------
(***************************************************************************)
(* store.                                                                  *)
(***************************************************************************)

\* Mutant of StoreStep: the later of two equal rules wins.
BuggyStoreStep(answer, s) ==
  IF ends[s] >= answer.farthest /\ ends[s] # Nowhere
  THEN [farthest |-> ends[s], isHistory |-> s = "history"]
  ELSE answer

StoreStep(answer, s) ==
  IF ends[s] > answer.farthest
  THEN [farthest |-> ends[s], isHistory |-> s = "history"]
  ELSE answer

IsHistory ==
  OverSets(StoreStep, [farthest |-> Nowhere, isHistory |-> FALSE]).isHistory

\* Mutant of StoredRootEnd: the conditions of push_to_linq.
BuggyStoredRootEnd ==
  IF ends["project_parent"] > ends["project"] /\ ends["project_parent"] < End(path)
  THEN NextSegment(ends["project_parent"])
  ELSE IF ends["project"] < End(path) THEN ends["project"] ELSE Nowhere

StoredRootEnd ==
  IF ends["project_parent"] > ends["project"] /\ ends["project_parent"] < End(path)
  THEN NextSegment(ends["project_parent"])
  ELSE ends["project"]

IsProject == StoredRootEnd = End(path)

\* The project, or the file with the root its unstable copy goes to.
Store ==
  /\ IsSieved("store")
  /\ stored' = Append(stored,
                 IF IsProject
                 THEN [kind |-> "project", root |-> path]
                 ELSE [kind |-> IF IsHistory THEN "history" ELSE "file",
                       root |-> IF StoredRootEnd = Nowhere THEN Nowhere
                                ELSE StoredRootEnd \div 2])
  /\ IF Len(stored) + 1 < Len(pushed)
     THEN SieveAgain("store", pushed[Len(stored) + 2])
     ELSE /\ phase' = "done"
          /\ UNCHANGED <<path, this, ends, hidingDot>>
  /\ UNCHANGED <<rules, hidden, byEditor, flush, pushed>>

SieveNext == Scan \/ PushToLinq \/ Store

SieveSpec == SieveInit /\ [][SieveNext]_sieveVars

-----------------------------------------------------------------------------
RulesOf(s) == {i \in 0..Length : <<s, i>> \in rules}

FileSets == {"cluded", "included", "excluded", "history"}

Position(s) == CHOOSE k \in DOMAIN Sets : Sets[k] = s

\* A rule of set `s` is the most specific one about files: none is deeper, and
\* among equally deep ones that of the first set counts.
Decides(s) ==
  \E i \in RulesOf(s) : \A t \in FileSets : \A j \in RulesOf(t) :
    j < i \/ (j = i /\ Position(s) <= Position(t))

\* A dot hides a path from the rules that are not deeper than it.
IsHiddenFrom(s) == \E i \in hidden : \A j \in RulesOf(s) : j < i

\* What a write is worth as the documentation of the settings has it: the most
\* specific rule about files decides; without one, or when a dot hides the path
\* from it, only what an editor wrote counts, and nothing that is hidden.
IsWanted ==
  \/ /\ \E s \in {"included", "history"} :
          Decides(s) /\ ~IsHiddenFrom(s)
  \/ /\ Decides("cluded")
     /\ ~IsHiddenFrom("cluded")
     /\ byEditor
  \/ /\ \A s \in FileSets : RulesOf(s) = {}
     /\ hidden = {}
     /\ byEditor

\* The decision that push_to_linq takes in one pass over the sets, with the
\* rules about projects among them, is the documented one.
PushedAsDocumented ==
  phase # "push" /\ ~flush => (pushed # <<>> <=> IsWanted)

Roots == {i \in RulesOf("project") : i < Length}

\* The two computations of the root agree, though store sees nothing but one
\* path at a time: a root of project_roots that was pushed is stored as a project
\* when its turn comes, and the unstable copy that a file is linked into is that
\* of the project that was pushed with it.
PushAndStoreAgree ==
  /\ Len(stored) = 2 /\ pushed[2] \in Roots => stored[2].kind = "project"
  /\ pushed # <<>> /\ stored # <<>> /\ stored[1].kind # "project" =>
       pushed = IF stored[1].root = Nowhere THEN <<Length>>
                ELSE <<Length, stored[1].root>>

\* Only files are stored in parts for which history_paths decides: any other
\* file would lose what is before the offset.
OnlyHistoryIsStoredInParts ==
  stored # <<>> /\ stored[1].kind = "history" => Decides("history")

\* A child of a directory in project_parents is as good as a project root.
ChildOfParentIsStoredAsProject ==
  Len(stored) = 2 => stored[2].kind = "project"
=============================================================================
