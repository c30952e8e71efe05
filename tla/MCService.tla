----------------------------- MODULE MCService ------------------------------
(***************************************************************************)
(* Service for TLC: a configuration below the mount that is watched, one   *)
(* outside of it, one hidden by a mount for programs, none, a request for  *)
(* help, and no user to become.  Seconds have ten parts, and int ends at   *)
(* four seconds.                                                           *)
(*                                                                         *)
(* The pure parts are evaluated for all short command lines and for all    *)
(* short lists of nested, disjoint and alike mounts.                       *)
(***************************************************************************)
EXTENDS Service

CONSTANTS MaxWords, MaxMounts, MaxLength

ASSUME MCServiceAssumption ==
  MaxWords \in Nat /\ MaxMounts \in Nat /\ MaxLength \in Nat

Characters == {"-", "/", "c", "d", "e", "h", "v", "w"}

Home == <<"/", "h">>
Settings == <<"/", "h", "/", "c">>
Elsewhere == <<"/", "e">>

CommandLines ==
  LET watch == <<Option("w"), Home, Option("d"), Home>> IN
  {watch \o <<Option("c"), Settings>>,
   watch \o <<Option("c"), Elsewhere>>,
   <<Option("w"), TheRoot, Option("c"), Settings, Option("e"), Home>>,
   watch,
   <<Option("c"), Settings, Option("h")>>,
   <<Option("d"), TheRoot>>}

Files == {<<"/", "h", "/", "d">>}

Root == {TheRoot}

Homes == {Home, <<"/", "h", "/", "w">>}

NoFile == [queue |-> "q", debounce |-> 1, journal |-> None]

Contents ==
  {NoFile,
   [NoFile EXCEPT !.debounce = 5],
   [queue |-> "r", debounce |-> 0, journal |-> "j"],
   [NoFile EXCEPT !.journal = "nowhere"]}

Words == {Option("c"), Option("d"), Option("w"), Option("e"), Option("h"),
          Option("-"), Home, Elsewhere}

SequencesUpTo(n, S) == UNION {[1..k -> S] : k \in 0..n}

AllAreParsedAsDocumented ==
  \A words \in SequencesUpTo(MaxWords, Words) : IsParsedAsDocumented(words)

\* What main goes by once it has taken the command line is what the usage line
\* says, whatever the words.
ParsedAsDocumented == pc # "off" => AllAreParsedAsDocumented

Watched == {TheRoot, <<"/", "c">>, <<"/", "c", "/", "d">>,
            <<"/", "c", "d">>, <<"/", "d">>, <<"/", "c", "/", "d", "/", "c">>}

Paths(dir) == {(IF dir = TheRoot THEN dir ELSE Append(dir, "/")) \o name :
                 name \in SequencesUpTo(MaxLength, {"c", "d"}) \ {<<>>}}

AllAreRelativeToCommonParent ==
  \A mounts \in SequencesUpTo(MaxMounts, Watched) \ {<<>>} :
    ToSet(mounts) # {TheRoot} =>
      \A path \in UNION {Paths(mount) : mount \in ToSet(mounts)} :
        IsRelativeToCommonParent(path, mounts)

\* Once the marks are set, relative paths are those below the common parent of
\* the mounts, so that no two files share a version, unless the only mount is
\* the root.
RelativePathsAreDistinct == IsMarked => AllAreRelativeToCommonParent
=============================================================================
