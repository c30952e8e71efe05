-------------------------------- MODULE Tree --------------------------------
(***************************************************************************)
(* Versions of a project with directories: sync_shallow_tree walks the     *)
(* unstable copy of the project, links into a new version what still       *)
(* exists in the project, and removes the rest from the copy.  Meanwhile   *)
(* the user makes, replaces and removes files and directories; access is   *)
(* called anew for each entry.                                             *)
(*                                                                         *)
(* A file is its content, the number of the write that made it, and so is  *)
(* a link to a version of it.  FileStore has the details of how a file is  *)
(* stored, Klunok those of the queue: here a project is behind its files.  *)
(* The version of a walk that fails stays in the store, where nothing      *)
(* reads it; the model forgets it.                                         *)
(***************************************************************************)
EXTENDS Integers, FiniteSets

CONSTANTS
  Path,       \* the paths below the root of the project
  Root,       \* the root
  Above,      \* Path -> SUBSET Path: the directories above a path
  None, Dir,  \* what is at a path: nothing, a directory
  MaxChanges, \* bound: changes the user makes
  MaxCrashes  \* bound: times the daemon is killed

ASSUME TreeAssumption ==
  /\ Root \notin Path
  /\ Above \in [Path -> SUBSET Path]
  /\ \A p \in Path :
       /\ IsFiniteSet(Above[p])
       /\ p \notin Above[p]
       /\ Above[p] # {} => \E d \in Above[p] : Above[p] = Above[d] \cup {d}
  /\ {None, Dir} \cap Nat = {} /\ None # Dir
  /\ MaxChanges \in Nat /\ MaxCrashes \in Nat

VARIABLES
  tree,      \* the project
  changes,   \* numbers the changes of the project
  events,    \* writes whose events the daemon has not read
  queue,     \* paths in the queue
  latest,    \* the last version of each file in the store
  unstable,  \* the unstable copy
  pc, head,  \* where the daemon is, and the head of the queue it is about
  version,   \* the version of the project that is being made
  cursor,    \* the directory fts_read is in
  seen,      \* what fts_read has returned
  crashes,
  complete,  \* history: the last version of the project that was finished
  kept,      \* history: files that have been there since they were linked
  ever,      \* history: what has existed during the walk
  lost,      \* history: files whose last write the daemon was not told of
  disturbed  \* history: the project has changed since the head was taken

user == <<tree, changes>>
walk == <<version, cursor, seen>>
history == <<complete, kept, ever, lost, disturbed>>
vars == <<user, events, queue, latest, unstable, pc, head, walk, crashes,
          history>>

-----------------------------------------------------------------------------
Parent[p \in Path] ==
  IF Above[p] = {} THEN Root
  ELSE CHOOSE d \in Above[p] : Above[p] = Above[d] \cup {d}

Children(d) == {p \in Path : Parent[p] = d}

Exists(p) == tree[p] # None

HasDir(t, d) == d \in Path => t[d] = Dir

IsFile(t, p) == t[p] \in Nat

IsLink(p) == IsFile(unstable, p)

Empty == [p \in Path |-> None]

\* A project that may have been there before the daemon watched it.
IsTree(t) ==
  \A p \in Path : /\ t[p] # None => HasDir(t, Parent[p])
                  /\ t[p] = Dir => Children(p) # {}

Init ==
  /\ tree \in {t \in [Path -> {None, Dir, 0}] : IsTree(t)}
  /\ unstable = Empty /\ version = Empty /\ complete = Empty
  /\ latest = Empty
  /\ events = {} /\ queue = {} /\ seen = {}
  /\ kept = {} /\ ever = {} /\ lost = {p \in Path : IsFile(tree, p)}
  /\ pc = "idle" /\ head = Root /\ cursor = Root
  /\ disturbed = FALSE
  /\ changes = 1 /\ crashes = 0

\* The user changes what is at `p`.
Change(p, kind) ==
  /\ changes <= MaxChanges
  /\ IsTree([tree EXCEPT ![p] = kind])
  /\ changes' = changes + 1
  /\ tree' = [tree EXCEPT ![p] = kind]
  /\ disturbed' = (pc \notin {"idle", "down"})
  /\ ever' = IF pc = "walk" /\ kind # None THEN ever \cup {p} ELSE ever
  /\ kept' = IF kind = None THEN kept \ {p} ELSE kept
  /\ UNCHANGED <<queue, latest, unstable, pc, head, walk, crashes, complete>>

\* A write is an event if the daemon listens.
Write(p) ==
  /\ tree[p] # Dir
  /\ Change(p, changes)
  /\ IF pc = "down"
     THEN lost' = lost \cup {p} /\ UNCHANGED events
     ELSE lost' = lost \ {p} /\ events' = events \cup {p}

MakeDirectory(p) ==
  /\ ~Exists(p)
  /\ Change(p, Dir)
  /\ UNCHANGED <<events, lost>>

Remove(p) ==
  /\ Exists(p)
  /\ Change(p, None)
  /\ UNCHANGED <<events, lost>>

-----------------------------------------------------------------------------
\* The process ends, with what it and the kernel had in memory.
Down ==
  /\ pc # "down"
  /\ pc' = "down"
  /\ head' = Root
  /\ version' = Empty /\ cursor' = Root /\ seen' = {} /\ ever' = {}
  /\ events' = {}
  /\ lost' = lost \cup events
  /\ disturbed' = FALSE
  /\ UNCHANGED <<user, queue, latest, unstable, complete, kept>>

Crash ==
  /\ crashes < MaxCrashes
  /\ crashes' = crashes + 1
  /\ Down

\* An error that nothing catches.
Fail == Down /\ UNCHANGED crashes

Start ==
  /\ pc = "down"
  /\ pc' = "idle"
  /\ UNCHANGED <<user, events, queue, latest, unstable, head, walk, crashes,
                 history>>

\* push_to_linq: the file and its project.
Push(p) ==
  /\ pc = "idle"
  /\ p \in events
  /\ events' = events \ {p}
  /\ queue' = queue \cup {p, Root}
  /\ UNCHANGED <<user, latest, unstable, pc, head, walk, crashes, history>>

\* pop_head, when the head is settled.
Pop ==
  /\ pc = "pop"
  /\ pc' = "idle" /\ head' = Root
  /\ queue' = queue \ {head}
  /\ disturbed' = FALSE
  /\ UNCHANGED <<user, events, latest, unstable, walk, crashes, complete, kept,
                 ever, lost>>

\* A file is where a directory above `p` was.
IsBelowFile(p) == \E d \in Above[p] : IsFile(tree, d)

\* sync_file: open answers ENOTDIR, which is not taken for a missing file.
OpenFails ==
  /\ pc = "idle"
  /\ \E p \in queue \cap Path : IsBelowFile(p)
  /\ Fail

\* store with sync_file: a new version of the file, or nothing to store.
StoreFile(p) ==
  /\ pc = "idle"
  /\ p \in queue \cap Path /\ ~IsBelowFile(p)
  /\ head' = p
  /\ IF IsFile(tree, p)
     THEN pc' = "unlink" /\ latest' = [latest EXCEPT ![p] = tree[p]]
     ELSE pc' = "pop" /\ UNCHANGED latest
  /\ UNCHANGED <<user, events, queue, unstable, walk, crashes, history>>

\* Mutant of IsBlocked: that there is no old link is an error as well.
BuggyIsBlocked(p) ==
  unstable[p] \in {None, Dir} \/ \E d \in Above[p] : IsLink(d)

\* unlink answers EISDIR or ENOTDIR: the unstable copy has a directory where
\* the project has a file, or the other way round.
IsBlocked(p) == unstable[p] = Dir \/ \E d \in Above[p] : IsLink(d)

\* Mutant of UnlinkOld: the entry leaves the queue before the link is made.
BuggyUnlinkOld ==
  /\ pc = "unlink" /\ ~IsBlocked(head)
  /\ pc' = "link"
  /\ unstable' = [unstable EXCEPT ![head] = None]
  /\ queue' = queue \ {head}
  /\ UNCHANGED <<user, events, latest, head, walk, crashes, history>>

\* The link in the unstable copy is replaced in two steps.
UnlinkOld ==
  /\ pc = "unlink" /\ ~IsBlocked(head)
  /\ pc' = "link"
  /\ unstable' = [unstable EXCEPT ![head] = None]
  /\ UNCHANGED <<user, events, queue, latest, head, walk, crashes, history>>

UnlinkFails == pc = "unlink" /\ IsBlocked(head) /\ Fail

\* create_parents: one mkdir after the other.
CreateParent(d) ==
  /\ pc = "link"
  /\ d \in Above[head]
  /\ unstable[d] = None /\ HasDir(unstable, Parent[d])
  /\ unstable' = [unstable EXCEPT ![d] = Dir]
  /\ UNCHANGED <<user, events, queue, latest, pc, head, walk, crashes, history>>

LinkNew ==
  /\ pc = "link" /\ HasDir(unstable, Parent[head])
  /\ pc' = "pop"
  /\ unstable' = [unstable EXCEPT ![head] = latest[head]]
  /\ kept' = IF IsFile(tree, head) THEN kept \cup {head} ELSE kept
  /\ UNCHANGED <<user, events, queue, latest, head, walk, crashes, complete,
                 ever, lost, disturbed>>

-----------------------------------------------------------------------------
\* store of the project, behind its files: mkdir and fts_open.
CreateVersion ==
  /\ pc = "idle"
  /\ queue = {Root}
  /\ pc' = "walk"
  /\ ever' = {p \in Path : Exists(p)}
  /\ UNCHANGED <<user, events, queue, latest, unstable, head, walk, crashes,
                 complete, kept, lost, disturbed>>

\* What fts_read may return next.
Unseen == {p \in Children(cursor) \ seen : unstable[p] # None}

Visit(p) ==
  /\ pc = "walk"
  /\ p \in Unseen
  /\ seen' = seen \cup {p}
  /\ UNCHANGED <<user, events, queue, latest, pc, head, crashes, history>>

Link(p, v) ==
  /\ HasDir(version, cursor)
  /\ version' = [version EXCEPT ![p] = v]

\* Mutant of VisitFile: the answer of access taken the wrong way round.
BuggyVisitFile(p) ==
  /\ IsLink(p)
  /\ Visit(p)
  /\ \/ ~Exists(p) /\ Link(p, unstable[p]) /\ UNCHANGED unstable
     \/ Exists(p) /\ unstable' = [unstable EXCEPT ![p] = None]
        /\ UNCHANGED version
  /\ UNCHANGED cursor

\* FTS_NSOK: a file is linked into the version or removed from the copy.
VisitFile(p) ==
  /\ IsLink(p)
  /\ Visit(p)
  /\ \/ Exists(p) /\ Link(p, unstable[p]) /\ UNCHANGED unstable
     \/ ~Exists(p) /\ unstable' = [unstable EXCEPT ![p] = None]
        /\ UNCHANGED version
  /\ UNCHANGED cursor

\* Mutant of EnterDirectory: all directories of the copy are made.
BuggyEnterDirectory(p) ==
  /\ unstable[p] = Dir
  /\ Visit(p)
  /\ Link(p, Dir)
  /\ cursor' = p
  /\ UNCHANGED unstable

\* FTS_D: a directory is made in the version if it exists.
EnterDirectory(p) ==
  /\ unstable[p] = Dir
  /\ Visit(p)
  /\ IF Exists(p) THEN Link(p, Dir) ELSE UNCHANGED version
  /\ cursor' = p
  /\ UNCHANGED unstable

\* linkat or mkdirat answers ENOENT: the directory was gone when fts_read came
\* to it and is back.
ParentIsMissing ==
  /\ pc = "walk"
  /\ \E p \in Unseen : Exists(p)
  /\ ~HasDir(version, cursor)
  /\ Fail

AtEnd(d) == pc = "walk" /\ cursor = d /\ Unseen = {}

IsEmpty(d) == \A c \in Children(d) : unstable[c] = None

\* FTS_DP: a directory that does not exist is removed from the copy.
LeaveDirectory(d) ==
  /\ AtEnd(d)
  /\ \/ Exists(d) /\ UNCHANGED unstable
     \/ ~Exists(d) /\ IsEmpty(d)
        /\ unstable' = [unstable EXCEPT ![d] = None]
  /\ cursor' = Parent[d]
  /\ UNCHANGED <<user, events, queue, latest, pc, head, version, seen, crashes,
                 history>>

\* rmdir answers ENOTEMPTY: the directory went after its files were linked.
RmdirFails(d) == AtEnd(d) /\ ~Exists(d) /\ ~IsEmpty(d) /\ Fail

FinishVersion ==
  /\ AtEnd(Root)
  /\ pc' = "pop"
  /\ complete' = version
  /\ version' = Empty /\ seen' = {}
  /\ UNCHANGED <<user, events, queue, latest, unstable, head, cursor, crashes,
                 kept, ever, lost, disturbed>>

-----------------------------------------------------------------------------
User == \E p \in Path : Write(p) \/ MakeDirectory(p) \/ Remove(p)

Daemon ==
  \/ Start \/ Pop \/ OpenFails \/ UnlinkOld \/ UnlinkFails \/ LinkNew
  \/ CreateVersion \/ ParentIsMissing \/ FinishVersion
  \/ \E p \in Path :
       \/ Push(p) \/ StoreFile(p) \/ CreateParent(p)
       \/ VisitFile(p) \/ EnterDirectory(p) \/ LeaveDirectory(p) \/ RmdirFails(p)

Next == User \/ Crash \/ Daemon

Spec == Init /\ [][Next]_vars

\* One thread, started again when it ends.
FairSpec == Spec /\ WF_vars(Daemon)

-----------------------------------------------------------------------------
\* As long as a file exists, neither the walk nor a failure or a crash between
\* unlink and link takes it out of the unstable copy for good, and the copy has
\* its last version.
UnstableKeepsFiles ==
  \A p \in kept : unstable[p] = latest[p] \/ p \in queue

\* A finished version has the last version of each file that has been there
\* since it was linked, and nothing that did not exist at any time during the
\* walk, whatever the user did meanwhile.
VersionIsTheProject ==
  pc = "pop" /\ head = Root =>
    /\ \A p \in kept : complete[p] = latest[p]
    /\ \A p \in Path : complete[p] # None => p \in ever

\* A directory and a file have changed places since the copy was updated, or
\* since a file in the directory was queued.
HasChangedKind ==
  \E p \in Path : \/ IsLink(p) /\ tree[p] = Dir
                  \/ unstable[p] = Dir /\ IsFile(tree, p)
                  \/ p \in queue /\ IsBelowFile(p)

\* No error ends the daemon unless the project changes under its hands, or a
\* directory has taken the place of a file or a file that of a directory.
FailsOnlyInARace ==
  [][pc # "down" /\ pc' = "down" /\ crashes' = crashes
       => disturbed \/ HasChangedKind]_vars

\* What a failed walk leaves undone is made up for: unless files and directories
\* change places, each file of the project gets into a finished version with its
\* last content, apart from writes the daemon was not told of.
ProjectIsStoredInTheEnd ==
  []~HasChangedKind =>
    <>[]\A p \in Path \ lost : IsFile(tree, p) => complete[p] = tree[p]
=============================================================================
