------------------------------ MODULE MCKlunok ------------------------------
(***************************************************************************)
(* Klunok for TLC: two files of one project, or a file in it and one       *)
(* outside.                                                                *)
(***************************************************************************)
EXTENDS Klunok, TLC, FiniteSetsExt

CONSTANTS f, g, r

OneProject == [x \in {f, g} |-> r]
OneInOneOut == [x \in {f, g} |-> IF x = f THEN r ELSE None]

\* Of a file's versions the steps and the properties see the newest content and
\* that of the last one (CopyVersion fills in only a version without content),
\* of a project's versions only the last.
NewestAndLast(s) ==
  IF s = <<>> THEN <<>> ELSE <<Max({s[i] : i \in DOMAIN s}), Last(s)>>
LastOnly(s) == IF s = <<>> THEN <<>> ELSE <<Last(s)>>

\* States that differ in nothing else are taken for one.
ViewOfVersions ==
  <<[x \in File |-> NewestAndLast(store[x])],
    [x \in Root |-> LastOnly(projects[x])],
    unstable, queue, files, auxiliary, events, pc, job, crashes>>

\* Two files of one project are interchangeable.
FileSymmetry == Permutations({f, g})
=============================================================================
