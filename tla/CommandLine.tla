---------------------------- MODULE CommandLine -----------------------------
(***************************************************************************)
(* What main makes of its arguments before it serves: the options          *)
(* (params.c), the mounts that are marked (mountinfo.c, main.c) and the    *)
(* length of the common parent path (parents.c), which is cut off every    *)
(* path to get the relative one that rules and versions go by.             *)
(*                                                                         *)
(* Words and paths are sequences of characters.                            *)
(***************************************************************************)
EXTENDS Integers, Sequences, SequencesExt

CONSTANTS
  Character,  \* of words and paths
  None,       \* NULL; behind the last character of a string, NUL
  Cwd,        \* realpath of "."
  MountPoints \* where something is mounted before the start

ASSUME CommandLineAssumption ==
  /\ {"-", "/", "c", "d", "e", "h", "v", "w"} \subseteq Character
  /\ None \notin Character /\ None \notin Seq(Character)
  /\ Cwd \in Seq(Character)
  /\ MountPoints \subseteq Seq(Character)

Slash == "/"

TheRoot == <<Slash>>

-----------------------------------------------------------------------------
\* parse_params.
Option(letter) == <<"-", letter>>

NoParams ==
  [opt |-> None, error |-> FALSE, config |-> None, drop |-> None,
   write |-> <<>>, exec |-> <<>>]

Wrong(params) == [params EXCEPT !.error = TRUE]

\* Mutant of Take: -c may come again.
BuggyTake(params, word) ==
  LET next == [params EXCEPT !.opt = None] IN
  CASE params.opt = "c" -> [next EXCEPT !.config = word]
    [] params.opt = "d" ->
         IF params.drop = None THEN [next EXCEPT !.drop = word] ELSE Wrong(params)
    [] params.opt = "w" -> [next EXCEPT !.write = <<word>> \o @]
    [] params.opt = "e" -> [next EXCEPT !.exec = <<word>> \o @]
    [] OTHER -> Wrong(params)

\* The word behind an option; join puts it in front of the list.
Take(params, word) ==
  LET next == [params EXCEPT !.opt = None] IN
  CASE params.opt = "c" ->
         IF params.config = None THEN [next EXCEPT !.config = word]
         ELSE Wrong(params)
    [] params.opt = "d" ->
         IF params.drop = None THEN [next EXCEPT !.drop = word] ELSE Wrong(params)
    [] params.opt = "w" -> [next EXCEPT !.write = <<word>> \o @]
    [] params.opt = "e" -> [next EXCEPT !.exec = <<word>> \o @]
    [] OTHER -> Wrong(params)

\* One round of the loop over the words.
ParseWord(params, word) ==
  IF params.error \/ params.opt \in {"h", "v"} THEN params
  ELSE IF params.opt # None THEN Take(params, word)
  ELSE IF Len(word) = 2 /\ word[1] = "-"
       THEN [params EXCEPT !.opt = word[2]]
       ELSE Wrong(params)

WithDefaults(params) ==
  [params EXCEPT
     !.exec = IF @ = <<>> THEN <<TheRoot>> ELSE @,
     !.write = IF @ = <<>> THEN <<Cwd>> ELSE @,
     !.drop = IF @ = None THEN Cwd ELSE @]

\* What the loop has found after every word.
AfterWords(argv) ==
  LET after[n \in 0..Len(argv)] ==
        IF n = 0 THEN NoParams ELSE ParseWord(after[n - 1], argv[n])
  IN  after

Parse(argv) ==
  LET params == AfterWords(argv)[Len(argv)] IN
  IF params.error \/ params.opt \notin {None, "h", "v"}
  THEN Wrong(params) ELSE WithDefaults(params)

IsUsageError(params) == params.error

IsInformation(params) == params.opt \in {"h", "v"}

-----------------------------------------------------------------------------
\* The path with a NUL at its end, by positions from 0.
At(path, i) == IF i < Len(path) THEN path[i + 1] ELSE None

IsSeparator(c) == c \in {None, Slash}

Least(S) == CHOOSE i \in S : \A j \in S : i <= j

\* get_common_parent_path_length: up to the last position where a segment ends
\* in both paths, which have been equal up to there.
CommonLength(first, second) ==
  LET Same(i) == At(first, i) = At(second, i) /\ At(first, i) # None
      stop == Least({i \in 1..(Len(first) + 1) : ~Same(i)})
      Ends == {i \in 1..stop : /\ IsSeparator(At(first, i))
                               /\ IsSeparator(At(second, i))}
  IN 1 + (IF Ends = {} THEN 0 ELSE CHOOSE i \in Ends : \A j \in Ends : j <= i)

\* Mutant of CommonParentLength: the last two mounts decide.
BuggyCommonParentLength(mounts) ==
  IF Len(mounts) = 1 THEN Len(mounts[1]) + 1
  ELSE CommonLength(mounts[Len(mounts) - 1], mounts[Len(mounts)])

\* main: the least of those of neighbours in the list.
CommonParentLength(mounts) ==
  Least({Len(mounts[1]) + 1} \cup
        {CommonLength(mounts[i], mounts[i + 1]) : i \in 1..(Len(mounts) - 1)})

\* path + handler->common_parent_path_length.
RelativePath(path, mounts) ==
  SubSeq(path, CommonParentLength(mounts) + 1, Len(path))

-----------------------------------------------------------------------------
IsBelow(path, dir) ==
  path = dir \/ dir = TheRoot \/ IsPrefix(Append(dir, Slash), path)

\* Every mount that is asked for is made one, if it is none yet.
Mounts(params) == MountPoints \cup ToSet(params.write) \cup ToSet(params.exec)

\* A mark is on a mount: only the innermost mount above a path counts.
IsWatched(path, params) ==
  \E m \in ToSet(params.write) :
    /\ IsBelow(path, m)
    /\ \A n \in Mounts(params) :
         IsBelow(path, n) => IsBelow(m, n)

-----------------------------------------------------------------------------
\* The usage line of the documentation, [-h | -v | -c PATH | -d PATH | -w PATH |
\* -e PATH]..., with -c and -d once: options and words alternate.
Pairs(argv, n) ==
  /\ \A i \in 1..n : argv[2 * i - 1] \in {Option(x) : x \in {"c", "d", "w", "e"}}
  /\ \A i, j \in 1..n :
       argv[2 * i - 1] = argv[2 * j - 1] /\ i # j =>
         argv[2 * i - 1] \in {Option("w"), Option("e")}

Values(argv, letter) ==
  {argv[2 * i] : i \in {k \in 1..(Len(argv) \div 2) :
                          argv[2 * k - 1] = Option(letter)}}

AsksForInformation(argv) ==
  \E n \in 0..(Len(argv) \div 2) :
    /\ Pairs(argv, n)
    /\ 2 * n < Len(argv)
    /\ argv[2 * n + 1] \in {Option("h"), Option("v")}

IsProper(argv) == Len(argv) % 2 = 0 /\ Pairs(argv, Len(argv) \div 2)

OrDefault(S, default) == IF S = {} THEN {default} ELSE S

\* The loop over the words accepts what the usage line says, and finds in it
\* what is there, whatever the order, with words that look like options.
IsParsedAsDocumented(argv) ==
  LET params == Parse(argv) IN
  /\ IsUsageError(params) <=> ~IsProper(argv) /\ ~AsksForInformation(argv)
  /\ ~IsUsageError(params) =>
       (IsInformation(params) <=> AsksForInformation(argv))
  /\ IsProper(argv) =>
       /\ {params.config} = OrDefault(Values(argv, "c"), None)
       /\ {params.drop} = OrDefault(Values(argv, "d"), Cwd)
       /\ ToSet(params.write) = OrDefault(Values(argv, "w"), Cwd)
       /\ ToSet(params.exec) = OrDefault(Values(argv, "e"), TheRoot)

\* The directory that all mounts are in, or the innermost of them.
IsCommonParent(dir, mounts) ==
  /\ \A i \in DOMAIN mounts : IsBelow(mounts[i], dir)
  /\ \A k \in (Len(dir) + 1)..Len(mounts[1]) :
       \E i \in DOMAIN mounts : ~IsBelow(mounts[i], SubSeq(mounts[1], 1, k))

\* A file has the path relative to the common parent of the mounts, from which
\* its own path follows, so that no two files share their versions.
IsRelativeToCommonParent(path, mounts) ==
  \E k \in 1..Len(mounts[1]) :
    LET dir == SubSeq(mounts[1], 1, k) IN
    /\ IsCommonParent(dir, mounts)
    /\ path = (IF dir = TheRoot THEN dir ELSE Append(dir, Slash))
                \o RelativePath(path, mounts)
=============================================================================
