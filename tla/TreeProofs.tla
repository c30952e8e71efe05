----------------------------- MODULE TreeProofs -----------------------------
(***************************************************************************)
(* Proofs about versions of projects, for any tree of paths and any number *)
(* of changes and crashes: what the unstable copy keeps, and what is in a  *)
(* finished version.                                                       *)
(*                                                                         *)
(* The invariant says what the walk has achieved so far: each directory    *)
(* that fts_read has left has been seen as a whole.  At the end everything *)
(* has been seen, or there would be a topmost path that has not, and its   *)
(* directory has been left.                                                *)
(***************************************************************************)
EXTENDS Tree, FiniteSetTheorems, WellFoundedInduction, TLAPS

Thing == Nat \cup {None, Dir}

TypeOK ==
  /\ tree \in [Path -> Thing] /\ latest \in [Path -> Thing]
  /\ unstable \in [Path -> Thing]
  /\ version \in [Path -> Thing] /\ complete \in [Path -> Thing]
  /\ changes \in Nat
  /\ queue \subseteq Path \cup {Root}
  /\ kept \subseteq Path /\ seen \subseteq Path
  /\ head \in Path \cup {Root} /\ cursor \in Path \cup {Root}
  /\ pc \in {"down", "idle", "unlink", "link", "pop", "walk"}

\* What the daemon is about, by where it is.
HeadIsRight ==
  /\ pc \in {"idle", "walk", "down"} => head = Root
  /\ pc \in {"unlink", "link"} =>
       head \in queue \cap Path /\ latest[head] \in Nat
  /\ pc = "link" => unstable[head] = None
  /\ pc # "walk" => version = Empty /\ seen = {} /\ cursor = Root
  /\ pc = "walk" => queue = {Root}

\* A file that is kept is there and was stored.
KeptIsStored ==
  /\ \A p \in kept : IsFile(tree, p) /\ latest[p] \in Nat
  /\ pc = "pop" /\ head \in kept => unstable[head] = latest[head]

\* The unstable copy has each entry in a directory.
CopyIsTree ==
  \A p \in Path : unstable[p] # None => HasDir(unstable, Parent[p])

\* The directories that fts_read is in.
Entered(d) == IF d = Root THEN {Root} ELSE Above[d] \cup {d, Root}

\* What the walk has done.
WalkIsRight ==
  pc = "walk" =>
    /\ \A p \in Path : Exists(p) \/ version[p] # None => p \in ever
    /\ \A p \in seen \cap kept : version[p] = unstable[p]
    /\ \A d \in seen \ Entered(cursor), c \in Path :
         Parent[c] = d /\ unstable[c] # None => c \in seen

IInv ==
  /\ TypeOK
  /\ HeadIsRight
  /\ KeptIsStored
  /\ CopyIsTree
  /\ WalkIsRight
  /\ UnstableKeepsFiles
  /\ VersionIsTheProject

-----------------------------------------------------------------------------
\* Parent is the innermost of the directories above a path.
LEMMA ParentIsAbove ==
  ASSUME NEW p \in Path
  PROVE  /\ Parent[p] \in Path \cup {Root}
         /\ Parent[p] # p
         /\ Parent[p] = Root => Above[p] = {}
         /\ Parent[p] # Root => /\ Parent[p] \in Above[p]
                                /\ Above[p] = Above[Parent[p]] \cup {Parent[p]}
  <1>1. Parent[p] =
          IF Above[p] = {} THEN Root
          ELSE CHOOSE d \in Above[p] : Above[p] = Above[d] \cup {d}
    BY DEF Parent
  <1>2. /\ Root \notin Path /\ Above[p] \subseteq Path /\ p \notin Above[p]
        /\ Above[p] # {} => \E d \in Above[p] : Above[p] = Above[d] \cup {d}
    BY TreeAssumption
  <1>3. CASE Above[p] = {}
    BY <1>1, <1>2, <1>3
  <1>4. CASE Above[p] # {}
    <2>1. PICK d \in Above[p] : Above[p] = Above[d] \cup {d}
      BY <1>2, <1>4
    <2>2. Parent[p] \in Above[p] /\ Above[p] = Above[Parent[p]] \cup {Parent[p]}
      BY <1>1, <1>4, <2>1
    <2> QED
      BY <1>2, <2>2
  <1> QED
    BY <1>3, <1>4

\* Some path of a set has its parent outside of it.
LEMMA TopmostExists ==
  ASSUME NEW T \in SUBSET Path, T # {}
  PROVE  \E p \in T : Parent[p] \notin T
  <1> DEFINE Depth(p) == Cardinality(Above[p])
             R == OpToRel(<, Nat)
             N == {Depth(p) : p \in T}
  <1>1. \A p \in Path : Depth(p) \in Nat
    BY TreeAssumption, FS_CardinalityType
  <1>2. N \subseteq Nat /\ N # {}
    BY <1>1
  <1>3. IsWellFoundedOn(R, Nat)
    BY NatLessThanWellFounded
  <1>4. PICK n \in N : \A m \in N : <<m, n>> \notin R
    <2> HIDE DEF R, N
    <2> QED
      BY <1>2, <1>3, WFMin
  <1>5. PICK p \in T : Depth(p) = n
    BY <1>4
  <1>6. SUFFICES ASSUME Parent[p] \in T PROVE FALSE
    BY <1>5
  <1> DEFINE d == Parent[p]
  <1>7. /\ d \in Path /\ d # Root /\ Above[p] = Above[d] \cup {d}
        /\ IsFiniteSet(Above[d]) /\ d \notin Above[d]
    BY <1>6, ParentIsAbove, TreeAssumption
  <1>8. Depth(p) = Depth(d) + 1
    BY <1>7, FS_AddElement
  <1>9. Depth(d) < Depth(p) /\ Depth(d) \in N /\ Depth(d) \in Nat
    BY <1>1, <1>6, <1>7, <1>8
  <1>10. <<Depth(d), n>> \in R
    BY <1>5, <1>9, <1>1 DEF OpToRel
  <1> QED
    BY <1>4, <1>9, <1>10

-----------------------------------------------------------------------------
\* None, Dir and the contents of files are apart.
LEMMA Kinds ==
  /\ None \notin Nat /\ Dir \notin Nat /\ None # Dir
  /\ Root \notin Path
  /\ MaxChanges \in Nat /\ MaxCrashes \in Nat
  BY TreeAssumption

\* The user changes the project: what is linked is no longer kept when it goes,
\* and what comes during a walk has been there in it.
LEMMA ChangeKeeps ==
  ASSUME IInv, NEW p \in Path, NEW kind \in Thing, Change(p, kind),
         kind = Dir => p \notin kept
  PROVE  IInv'
  <1> USE Kinds
  <1>1. TypeOK'
    BY DEF IInv, TypeOK, Change, walk, Thing
  <1>2. HeadIsRight'
    BY DEF IInv, HeadIsRight, Change, walk
  <1>3. kept' \subseteq kept
    BY DEF Change
  <1>4. KeptIsStored'
    BY <1>3 DEF IInv, TypeOK, KeptIsStored, Change, IsFile, Thing
  <1>5. CopyIsTree'
    BY DEF IInv, CopyIsTree, HasDir, Change
  <1>6. WalkIsRight'
    BY <1>3 DEF IInv, TypeOK, WalkIsRight, Change, Exists, Entered, walk
  <1>7. UnstableKeepsFiles'
    BY <1>3 DEF IInv, UnstableKeepsFiles, Change
  <1>8. VersionIsTheProject'
    BY <1>3 DEF IInv, VersionIsTheProject, Change
  <1> QED
    BY <1>1, <1>2, <1>4, <1>5, <1>6, <1>7, <1>8 DEF IInv

LEMMA UserKeeps ==
  ASSUME IInv, User
  PROVE  IInv'
  <1>1. PICK p \in Path : Write(p) \/ MakeDirectory(p) \/ Remove(p)
    BY DEF User
  <1>2. CASE Write(p)
    <2>1. Change(p, changes)
      BY <1>2 DEF Write
    <2>2. changes \in Thing /\ changes # Dir
      BY Kinds DEF IInv, TypeOK, Thing
    <2> QED
      BY <2>1, <2>2, ChangeKeeps
  <1>3. CASE MakeDirectory(p)
    <2>1. Change(p, Dir) /\ p \notin kept
      BY <1>3, Kinds
         DEF MakeDirectory, Exists, IInv, KeptIsStored, IsFile
    <2> QED
      BY <2>1, ChangeKeeps DEF Thing
  <1>4. CASE Remove(p)
    BY <1>4, Kinds, ChangeKeeps DEF Remove, Thing
  <1> QED
    BY <1>1, <1>2, <1>3, <1>4

\* Whatever ends the process leaves the unstable copy as it is.
LEMMA DownKeeps ==
  ASSUME IInv, Down
  PROVE  IInv'
  <1> USE Kinds
  <1>1. TypeOK'
    BY DEF IInv, TypeOK, Down, Empty, Thing, user
  <1>2. HeadIsRight'
    BY DEF IInv, HeadIsRight, Down, Empty
  <1>3. KeptIsStored'
    BY DEF IInv, KeptIsStored, Down, IsFile, user
  <1>4. CopyIsTree' /\ UnstableKeepsFiles'
    BY DEF IInv, CopyIsTree, UnstableKeepsFiles, HasDir, Down
  <1>5. WalkIsRight' /\ VersionIsTheProject'
    BY DEF WalkIsRight, VersionIsTheProject, Down
  <1> QED
    BY <1>1, <1>2, <1>3, <1>4, <1>5 DEF IInv

-----------------------------------------------------------------------------
\* The queue, and files that are stored: up to the next step, what is stored
\* anew and not yet linked is in the queue.
LEMMA QueueKeeps ==
  ASSUME IInv,
         \/ Start \/ Pop
         \/ \E p \in Path : Push(p) \/ StoreFile(p)
  PROVE  IInv'
  <1> USE Kinds
  <1>1. CASE Start
    BY <1>1 DEF Start, IInv, TypeOK, HeadIsRight, KeptIsStored, CopyIsTree,
                WalkIsRight, UnstableKeepsFiles, VersionIsTheProject,
                user, walk, history, IsFile, HasDir
  <1>2. CASE Pop
    <2>1. UnstableKeepsFiles'
      BY <1>2 DEF Pop, IInv, KeptIsStored, UnstableKeepsFiles
    <2>2. TypeOK' /\ HeadIsRight'
      BY <1>2 DEF Pop, IInv, TypeOK, HeadIsRight, user, walk
    <2>3. KeptIsStored'
      BY <1>2 DEF Pop, IInv, KeptIsStored, IsFile, user
    <2>4. CopyIsTree' /\ WalkIsRight' /\ VersionIsTheProject'
      BY <1>2 DEF Pop, IInv, CopyIsTree, WalkIsRight, VersionIsTheProject,
                  HasDir
    <2> QED
      BY <2>1, <2>2, <2>3, <2>4 DEF IInv
  <1>3. ASSUME NEW p \in Path, Push(p) PROVE IInv'
    <2>1. TypeOK' /\ HeadIsRight'
      BY <1>3 DEF Push, IInv, TypeOK, HeadIsRight, user, walk, history
    <2>2. KeptIsStored' /\ UnstableKeepsFiles'
      BY <1>3 DEF Push, IInv, KeptIsStored, UnstableKeepsFiles, IsFile, user,
                  history
    <2>3. CopyIsTree' /\ WalkIsRight' /\ VersionIsTheProject'
      BY <1>3 DEF Push, IInv, CopyIsTree, WalkIsRight, VersionIsTheProject,
                  HasDir
    <2> QED
      BY <2>1, <2>2, <2>3 DEF IInv
  <1>4. ASSUME NEW p \in Path, StoreFile(p) PROVE IInv'
    <2>1. TypeOK'
      BY <1>4 DEF StoreFile, IInv, TypeOK, IsFile, Thing, user, walk, history
    <2>2. HeadIsRight'
      BY <1>4 DEF StoreFile, IInv, TypeOK, HeadIsRight, IsFile, user, walk
    <2>3. KeptIsStored'
      BY <1>4 DEF StoreFile, IInv, TypeOK, KeptIsStored, IsFile, user, history
    <2>4. UnstableKeepsFiles'
      BY <1>4 DEF StoreFile, IInv, TypeOK, UnstableKeepsFiles, history
    <2>5. CopyIsTree' /\ WalkIsRight' /\ VersionIsTheProject'
      BY <1>4 DEF StoreFile, IInv, CopyIsTree, WalkIsRight,
                  VersionIsTheProject, HasDir
    <2> QED
      BY <2>1, <2>2, <2>3, <2>4, <2>5 DEF IInv
  <1> QED
    BY <1>1, <1>2, <1>3, <1>4

\* The link is replaced: the file is in the queue from the unlink to the link.
LEMMA ReplacementKeeps ==
  ASSUME IInv, UnlinkOld \/ LinkNew \/ \E d \in Path : CreateParent(d)
  PROVE  IInv'
  <1> USE Kinds
  <1>1. CASE UnlinkOld
    <2> USE <1>1 DEF UnlinkOld, IInv
    <2>1. TypeOK' /\ HeadIsRight'
      BY DEF TypeOK, HeadIsRight, Thing, user, walk, history
    <2>2. KeptIsStored' /\ UnstableKeepsFiles'
      BY DEF TypeOK, HeadIsRight, KeptIsStored, UnstableKeepsFiles, IsFile,
             user, history
    <2>3. CopyIsTree'
      BY ParentIsAbove
         DEF TypeOK, HeadIsRight, CopyIsTree, HasDir, IsBlocked
    <2>4. WalkIsRight' /\ VersionIsTheProject'
      BY DEF WalkIsRight, VersionIsTheProject
    <2> QED
      BY <2>1, <2>2, <2>3, <2>4
  <1>2. CASE LinkNew
    <2> USE <1>2 DEF LinkNew, IInv
    <2>1. TypeOK' /\ HeadIsRight'
      BY DEF TypeOK, HeadIsRight, Thing, user, walk
    <2>2. KeptIsStored' /\ UnstableKeepsFiles'
      BY DEF TypeOK, HeadIsRight, KeptIsStored, UnstableKeepsFiles, IsFile, user
    <2>3. CopyIsTree'
      BY ParentIsAbove DEF TypeOK, HeadIsRight, CopyIsTree, HasDir
    <2>4. WalkIsRight' /\ VersionIsTheProject'
      BY DEF HeadIsRight, WalkIsRight, VersionIsTheProject
    <2> QED
      BY <2>1, <2>2, <2>3, <2>4
  <1>3. ASSUME NEW d \in Path, CreateParent(d) PROVE IInv'
    <2> USE <1>3 DEF CreateParent, IInv
    <2>1. d # head
      BY TreeAssumption DEF HeadIsRight
    <2>2. TypeOK' /\ HeadIsRight'
      BY <2>1 DEF TypeOK, HeadIsRight, Thing, user, walk, history
    <2>3. KeptIsStored' /\ UnstableKeepsFiles'
      BY DEF TypeOK, KeptIsStored, UnstableKeepsFiles, IsFile, user, history
    <2>4. CopyIsTree'
      BY ParentIsAbove DEF TypeOK, CopyIsTree, HasDir
    <2>5. WalkIsRight' /\ VersionIsTheProject'
      BY DEF WalkIsRight, VersionIsTheProject
    <2> QED
      BY <2>2, <2>3, <2>4, <2>5
  <1> QED
    BY <1>1, <1>2, <1>3

-----------------------------------------------------------------------------
\* The walk begins with nothing in the version and nothing seen.
LEMMA CreationKeeps ==
  ASSUME IInv, CreateVersion
  PROVE  IInv'
  <1> USE Kinds DEF CreateVersion, IInv
  <1>1. TypeOK' /\ HeadIsRight'
    BY DEF TypeOK, HeadIsRight, user, walk
  <1>2. KeptIsStored' /\ UnstableKeepsFiles' /\ CopyIsTree'
    BY DEF KeptIsStored, UnstableKeepsFiles, CopyIsTree, IsFile, HasDir, user
  <1>3. WalkIsRight'
    BY DEF HeadIsRight, WalkIsRight, Empty, Exists, user, walk
  <1>4. VersionIsTheProject'
    BY DEF VersionIsTheProject
  <1> QED
    BY <1>1, <1>2, <1>3, <1>4

\* A file: what is kept is linked as it is in the copy, and only what does not
\* exist is removed.
LEMMA FileKeeps ==
  ASSUME IInv, NEW p \in Path, VisitFile(p)
  PROVE  IInv'
  <1> USE Kinds DEF VisitFile, Visit, Link, IInv
  <1>1. /\ p \in seen' /\ p \notin seen /\ IsLink(p)
        /\ unstable' \in {unstable, [unstable EXCEPT ![p] = None]}
        /\ p \in kept => unstable' = unstable
    BY DEF KeptIsStored, Exists, IsFile, Unseen
  <1>2. TypeOK'
    BY DEF TypeOK, Thing, IsLink, IsFile, user, history
  <1>3. HeadIsRight'
    BY DEF HeadIsRight
  <1>4. KeptIsStored' /\ UnstableKeepsFiles'
    BY <1>1 DEF TypeOK, KeptIsStored, UnstableKeepsFiles, IsFile, user, history
  <1>5. \A c \in Path : Parent[c] = p => unstable[c] = None
    BY DEF CopyIsTree, HasDir, IsLink, IsFile
  <1>6. CopyIsTree'
    BY <1>1, <1>5, ParentIsAbove DEF TypeOK, CopyIsTree, HasDir
  <1>7. WalkIsRight'
    <2>1. \A q \in Path : (Exists(q) \/ version[q] # None => q \in ever)'
      BY DEF TypeOK, WalkIsRight, Exists, user, history
    <2>2. \A q \in (seen \cap kept)' : version'[q] = unstable'[q]
      BY <1>1 DEF TypeOK, WalkIsRight, KeptIsStored, Exists, IsFile, history
    <2>3. \A d \in seen' \ Entered(cursor'), c \in Path :
            Parent[c] = d /\ unstable'[c] # None => c \in seen'
      BY <1>1, <1>5 DEF TypeOK, WalkIsRight
    <2> QED
      BY <2>1, <2>2, <2>3 DEF WalkIsRight, Entered
  <1>8. VersionIsTheProject'
    BY DEF VersionIsTheProject
  <1> QED
    BY <1>2, <1>3, <1>4, <1>6, <1>7, <1>8

\* A directory that fts_read comes to is one of those it is in.
LEMMA EntryKeeps ==
  ASSUME IInv, NEW p \in Path, EnterDirectory(p)
  PROVE  IInv'
  <1> USE Kinds DEF EnterDirectory, Visit, Link, IInv
  <1>1. Parent[p] = cursor /\ seen' = seen \cup {p}
    BY DEF Unseen, Children
  <1>2. TypeOK' /\ HeadIsRight'
    BY DEF TypeOK, HeadIsRight, Thing, user, history
  <1>3. KeptIsStored' /\ UnstableKeepsFiles' /\ CopyIsTree'
    BY DEF KeptIsStored, UnstableKeepsFiles, CopyIsTree, IsFile, HasDir, user,
           history
  <1>4. p \notin kept
    BY DEF HeadIsRight, KeptIsStored, UnstableKeepsFiles
  <1>5. Entered(cursor) \subseteq Entered(p)
    BY <1>1, ParentIsAbove DEF Entered
  <1>6. WalkIsRight'
    <2>1. \A q \in Path : (Exists(q) \/ version[q] # None => q \in ever)'
      BY DEF TypeOK, WalkIsRight, Exists, user, history
    <2>2. \A q \in (seen \cap kept)' : version'[q] = unstable'[q]
      BY <1>1, <1>4 DEF TypeOK, WalkIsRight, history
    <2>3. p \in Entered(p)
      BY DEF Entered
    <2>4. \A d \in seen' \ Entered(cursor'), c \in Path :
            Parent[c] = d /\ unstable'[c] # None => c \in seen'
      BY <1>1, <1>5, <2>3 DEF TypeOK, WalkIsRight
    <2> QED
      BY <2>1, <2>2, <2>4 DEF WalkIsRight, Entered
  <1>7. VersionIsTheProject'
    BY DEF VersionIsTheProject
  <1> QED
    BY <1>2, <1>3, <1>6, <1>7

\* A directory is left when all that is in it has been seen.
LEMMA ExitKeeps ==
  ASSUME IInv, NEW d \in Path, LeaveDirectory(d)
  PROVE  IInv'
  <1> USE Kinds DEF LeaveDirectory, AtEnd, IInv
  <1>1. /\ unstable' \in {unstable, [unstable EXCEPT ![d] = None]}
        /\ d \in kept => unstable' = unstable
        /\ unstable' # unstable =>
             \A c \in Path : Parent[c] = d => unstable[c] = None
    BY DEF KeptIsStored, Exists, IsFile, IsEmpty, Children
  <1>2. TypeOK' /\ HeadIsRight'
    BY ParentIsAbove DEF TypeOK, HeadIsRight, Thing, user, history
  <1>3. KeptIsStored' /\ UnstableKeepsFiles'
    BY <1>1 DEF TypeOK, KeptIsStored, UnstableKeepsFiles, IsFile, user, history
  <1>4. CopyIsTree'
    BY <1>1, ParentIsAbove DEF TypeOK, CopyIsTree, HasDir
  <1>5. \A e \in Entered(cursor) : e = d \/ e \in Entered(cursor')
    BY ParentIsAbove DEF Entered
  <1>6. WalkIsRight'
    <2>1. \A q \in Path : (Exists(q) \/ version[q] # None => q \in ever)'
      BY DEF WalkIsRight, Exists, user, history
    <2>2. \A q \in (seen \cap kept)' : version'[q] = unstable'[q]
      BY <1>1 DEF TypeOK, WalkIsRight, history
    <2>3. \A c \in Path : Parent[c] = d /\ unstable[c] # None => c \in seen
      BY DEF Unseen, Children
    <2>4. \A e \in seen' \ Entered(cursor'), c \in Path :
            Parent[c] = e /\ unstable'[c] # None => c \in seen'
      BY <1>1, <1>5, <2>3 DEF TypeOK, WalkIsRight
    <2> QED
      BY <2>1, <2>2, <2>4 DEF WalkIsRight, Entered
  <1>7. VersionIsTheProject'
    BY DEF VersionIsTheProject
  <1> QED
    BY <1>2, <1>3, <1>4, <1>6, <1>7

\* At the end of the walk nothing in the copy is unseen.
LEMMA EndHasSeenAll ==
  ASSUME IInv, FinishVersion
  PROVE  \A p \in Path : unstable[p] # None => p \in seen
  <1> DEFINE T == {p \in Path : unstable[p] # None /\ p \notin seen}
  <1> SUFFICES ASSUME T # {} PROVE FALSE
    OBVIOUS
  <1>1. PICK p \in T : Parent[p] \notin T
    BY TopmostExists
  <1>2. Parent[p] # Root
    BY <1>1 DEF FinishVersion, AtEnd, Unseen, Children
  <1>3. Parent[p] \in Path /\ unstable[Parent[p]] = Dir
    BY <1>1, <1>2, ParentIsAbove DEF IInv, CopyIsTree, HasDir
  <1>4. Parent[p] \in seen
    BY <1>1, <1>3, Kinds
  <1>5. Parent[p] \notin Entered(cursor)
    BY <1>2 DEF FinishVersion, AtEnd, Entered
  <1> QED
    BY <1>1, <1>4, <1>5 DEF IInv, WalkIsRight, FinishVersion, AtEnd

LEMMA FinishKeeps ==
  ASSUME IInv, FinishVersion
  PROVE  IInv'
  <1> USE Kinds DEF FinishVersion, AtEnd, IInv
  <1>1. TypeOK' /\ HeadIsRight'
    BY DEF TypeOK, HeadIsRight, Empty, Thing, user
  <1>2. KeptIsStored' /\ UnstableKeepsFiles' /\ CopyIsTree'
    BY DEF TypeOK, HeadIsRight, KeptIsStored, UnstableKeepsFiles, CopyIsTree,
           IsFile, HasDir, user
  <1>3. WalkIsRight'
    BY DEF WalkIsRight
  <1>4. \A p \in kept : version[p] = latest[p]
    <2> SUFFICES ASSUME NEW p \in kept PROVE version[p] = latest[p]
      OBVIOUS
    <2>1. p \in Path /\ latest[p] \in Nat /\ unstable[p] = latest[p]
      BY DEF TypeOK, HeadIsRight, KeptIsStored, UnstableKeepsFiles
    <2>2. p \in seen
      BY <2>1, EndHasSeenAll
    <2> QED
      BY <2>1, <2>2 DEF WalkIsRight
  <1>5. VersionIsTheProject'
    BY <1>4 DEF WalkIsRight, VersionIsTheProject
  <1> QED
    BY <1>1, <1>2, <1>3, <1>5

-----------------------------------------------------------------------------
\* Each entry of the project is in a directory.
ProjectIsTree == \A p \in Path : tree[p] # None => HasDir(tree, Parent[p])

\* As long as nothing changes under the hands of the daemon, the file it stores
\* is there, and the walk has made each directory it is in and removed all that
\* it has left and that is not there.
CalmIsRight ==
  ~disturbed =>
    /\ pc \in {"unlink", "link"} => IsFile(tree, head)
    /\ pc = "walk" =>
         /\ \A d \in Entered(cursor) \cap Path :
              d \in seen /\ (Exists(d) => version[d] = Dir)
         /\ \A p \in seen \ Entered(cursor) : unstable[p] # None => Exists(p)

\* What makes an error the fault of the project.
CInv == IInv /\ crashes \in Nat /\ ProjectIsTree /\ CalmIsRight

\* What is above something that exists is a directory.
LEMMA AboveAreDirectories ==
  ASSUME ProjectIsTree, NEW p \in Path, tree[p] # None, NEW d \in Above[p]
  PROVE  d \in Path /\ tree[d] = Dir
  <1> DEFINE T == {q \in Path : tree[q] # None /\ \E e \in Above[q] : tree[e] # Dir}
  <1>1. d \in Path
    BY TreeAssumption
  <1>2. SUFFICES ASSUME tree[d] # Dir PROVE FALSE
    BY <1>1
  <1>3. T \in SUBSET Path /\ T # {}
    BY <1>2
  <1>4. PICK q \in T : Parent[q] \notin T
    BY <1>3, TopmostExists
  <1>5. PICK e \in Above[q] : tree[e] # Dir
    BY <1>4
  <1>6. /\ Parent[q] \in Path /\ Above[q] = Above[Parent[q]] \cup {Parent[q]}
        /\ tree[Parent[q]] = Dir
    BY <1>4, <1>5, ParentIsAbove DEF ProjectIsTree, HasDir
  <1>7. e \in Above[Parent[q]]
    BY <1>5, <1>6
  <1> QED
    BY <1>4, <1>5, <1>6, <1>7, Kinds

\* The user keeps the project a tree, and disturbs what the daemon is about.
LEMMA ChangeIsCalm ==
  ASSUME CInv, NEW p \in Path, NEW kind, Change(p, kind)
  PROVE  crashes' \in Nat /\ ProjectIsTree' /\ CalmIsRight'
  <1>1. /\ crashes' = crashes /\ pc' = pc
        /\ disturbed' = (pc \notin {"idle", "down"})
        /\ tree' = [tree EXCEPT ![p] = kind]
        /\ IsTree([tree EXCEPT ![p] = kind])
    BY DEF Change
  <1>2. ProjectIsTree'
    BY <1>1 DEF IsTree, ProjectIsTree
  <1>3. CalmIsRight'
    BY <1>1 DEF CalmIsRight
  <1> QED
    BY <1>1, <1>2, <1>3 DEF CInv

\* What only the queue and the process are concerned with.
LEMMA QueueIsCalm ==
  ASSUME CInv,
         \/ Start \/ Pop \/ Crash \/ Fail \/ FinishVersion
         \/ \E p \in Path : Push(p) \/ StoreFile(p)
  PROVE  crashes' \in Nat /\ ProjectIsTree' /\ CalmIsRight'
  <1>1. /\ tree' = tree
        /\ pc' \notin {"link", "walk"}
        /\ pc' = "unlink" => IsFile(tree, head')
        /\ crashes' \in {crashes, crashes + 1}
    BY DEF CInv, IInv, HeadIsRight, Start, Pop, Crash, Fail, Down,
           FinishVersion, Push, StoreFile, user
  <1> QED
    BY <1>1 DEF CInv, ProjectIsTree, CalmIsRight, IsFile, HasDir

\* The file that is linked stays the one that was stored.
LEMMA ReplacementIsCalm ==
  ASSUME CInv, UnlinkOld \/ LinkNew \/ \E d \in Path : CreateParent(d)
  PROVE  crashes' \in Nat /\ ProjectIsTree' /\ CalmIsRight'
  <1>1. /\ tree' = tree /\ head' = head /\ crashes' = crashes
        /\ disturbed' = disturbed
        /\ pc \in {"unlink", "link"} /\ pc' \in {"link", "pop"}
    BY DEF UnlinkOld, LinkNew, CreateParent, user, history
  <1> QED
    BY <1>1 DEF CInv, ProjectIsTree, CalmIsRight, IsFile, HasDir

\* The walk starts at the root, with nothing seen.
LEMMA CreationIsCalm ==
  ASSUME CInv, CreateVersion
  PROVE  crashes' \in Nat /\ ProjectIsTree' /\ CalmIsRight'
  <1>1. /\ tree' = tree /\ crashes' = crashes /\ pc' = "walk"
        /\ cursor' = Root /\ seen' = {}
    BY DEF CreateVersion, CInv, IInv, HeadIsRight, user, walk
  <1>2. Entered(cursor') \cap Path = {}
    BY <1>1, Kinds DEF Entered
  <1>3. CalmIsRight'
    BY <1>1, <1>2 DEF CalmIsRight, Entered
  <1> QED
    BY <1>1, <1>3 DEF CInv, ProjectIsTree, HasDir

\* A file that is not there is removed when it is seen.
LEMMA FileIsCalm ==
  ASSUME CInv, NEW p \in Path, VisitFile(p)
  PROVE  crashes' \in Nat /\ ProjectIsTree' /\ CalmIsRight'
  <1>1. /\ tree' = tree /\ crashes' = crashes /\ pc = "walk" /\ pc' = "walk"
        /\ disturbed' = disturbed /\ cursor' = cursor
        /\ p \notin seen /\ seen' = seen \cup {p}
    BY DEF VisitFile, Visit, Unseen, user, history
  <1>2. /\ \A q \in Path : q # p => version'[q] = version[q]
        /\ \A q \in Path : q # p => unstable'[q] = unstable[q]
        /\ unstable'[p] # None => Exists(p)
    BY DEF VisitFile, Link, CInv, IInv, TypeOK
  <1>3. CalmIsRight'
    <2> SUFFICES ASSUME ~disturbed
                 PROVE  /\ \A d \in Entered(cursor) \cap Path :
                             d \in seen' /\ (Exists(d) => version'[d] = Dir)
                        /\ \A q \in seen' \ Entered(cursor) :
                             unstable'[q] # None => Exists(q)
      BY <1>1 DEF CalmIsRight, Exists, Entered
    <2> QED
      BY <1>1, <1>2 DEF CalmIsRight, CInv, IInv, TypeOK
  <1> QED
    BY <1>1, <1>3 DEF CInv, ProjectIsTree, HasDir

\* A directory that is there is made in the version when it is entered.
LEMMA EntryIsCalm ==
  ASSUME CInv, NEW p \in Path, EnterDirectory(p)
  PROVE  crashes' \in Nat /\ ProjectIsTree' /\ CalmIsRight'
  <1>1. /\ tree' = tree /\ crashes' = crashes /\ pc = "walk" /\ pc' = "walk"
        /\ disturbed' = disturbed /\ cursor' = p /\ unstable' = unstable
        /\ p \notin seen /\ seen' = seen \cup {p} /\ Parent[p] = cursor
    BY DEF EnterDirectory, Visit, Unseen, Children, user, history
  <1>2. /\ \A q \in Path : q # p => version'[q] = version[q]
        /\ Exists(p) => version'[p] = Dir
    BY DEF EnterDirectory, Link, CInv, IInv, TypeOK
  <1>3. /\ Entered(p) \cap Path = (Entered(cursor) \cap Path) \cup {p}
        /\ Entered(cursor) \subseteq Entered(p) /\ p \in Entered(p)
    BY <1>1, ParentIsAbove, Kinds DEF Entered
  <1>4. CalmIsRight'
    <2> SUFFICES ASSUME ~disturbed
                 PROVE  /\ \A d \in Entered(p) \cap Path :
                             d \in seen' /\ (Exists(d) => version'[d] = Dir)
                        /\ \A q \in seen' \ Entered(p) :
                             unstable[q] # None => Exists(q)
      BY <1>1 DEF CalmIsRight, Exists, Entered
    <2>1. \A d \in Entered(cursor) \cap Path :
            d # p /\ d \in seen /\ (Exists(d) => version[d] = Dir)
      BY <1>1 DEF CalmIsRight, CInv
    <2>2. \A d \in Entered(p) \cap Path :
            d \in seen' /\ (Exists(d) => version'[d] = Dir)
      BY <1>1, <1>2, <1>3, <2>1
    <2>3. \A q \in seen' \ Entered(p) : q \in seen \ Entered(cursor)
      BY <1>1, <1>3
    <2> QED
      BY <1>1, <2>2, <2>3 DEF CalmIsRight, CInv
  <1> QED
    BY <1>1, <1>4 DEF CInv, ProjectIsTree, HasDir

\* A directory that is not there is removed when it is left.
LEMMA ExitIsCalm ==
  ASSUME CInv, NEW d \in Path, LeaveDirectory(d)
  PROVE  crashes' \in Nat /\ ProjectIsTree' /\ CalmIsRight'
  <1>1. /\ tree' = tree /\ crashes' = crashes /\ pc = "walk" /\ pc' = "walk"
        /\ disturbed' = disturbed /\ cursor = d /\ cursor' = Parent[d]
        /\ seen' = seen /\ version' = version
    BY DEF LeaveDirectory, AtEnd, user, history
  <1>2. /\ \A q \in Path : q # d => unstable'[q] = unstable[q]
        /\ unstable'[d] # None => Exists(d)
    BY DEF LeaveDirectory, CInv, IInv, TypeOK
  <1>3. /\ Entered(Parent[d]) \cap Path \subseteq Entered(cursor) \cap Path
        /\ \A e \in Entered(cursor) : e = d \/ e \in Entered(Parent[d])
    <2>1. CASE Parent[d] = Root
      BY <1>1, <2>1, ParentIsAbove, Kinds DEF Entered
    <2>2. CASE Parent[d] # Root
      BY <1>1, <2>2, ParentIsAbove, Kinds DEF Entered
    <2> QED
      BY <2>1, <2>2
  <1>4. CalmIsRight'
    <2> SUFFICES ASSUME ~disturbed
                 PROVE  /\ \A e \in Entered(Parent[d]) \cap Path :
                             e \in seen /\ (Exists(e) => version[e] = Dir)
                        /\ \A q \in seen \ Entered(Parent[d]) :
                             unstable'[q] # None => Exists(q)
      BY <1>1 DEF CalmIsRight, Exists, Entered
    <2>1. \A q \in seen \ Entered(Parent[d]) : q = d \/ q \in seen \ Entered(cursor)
      BY <1>3
    <2> QED
      BY <1>1, <1>2, <1>3, <2>1 DEF CalmIsRight, CInv, IInv, TypeOK
  <1> QED
    BY <1>1, <1>4 DEF CInv, ProjectIsTree, HasDir

-----------------------------------------------------------------------------
\* The invariant holds at first, and each step preserves it.
LEMMA InitIInv == Init => IInv
  <1> SUFFICES ASSUME Init PROVE IInv
    OBVIOUS
  <1>1. TypeOK
    BY DEF Init, TypeOK, Empty, Thing
  <1>2. HeadIsRight /\ KeptIsStored /\ WalkIsRight
    BY DEF Init, HeadIsRight, KeptIsStored, WalkIsRight
  <1>3. CopyIsTree
    BY DEF Init, CopyIsTree, Empty
  <1>4. UnstableKeepsFiles /\ VersionIsTheProject
    BY DEF Init, UnstableKeepsFiles, VersionIsTheProject
  <1> QED
    BY <1>1, <1>2, <1>3, <1>4 DEF IInv

\* One case for each of the groups of actions above.
LEMMA NextIInv == IInv /\ [Next]_vars => IInv'
  <1> SUFFICES ASSUME IInv, [Next]_vars PROVE IInv'
    OBVIOUS
  <1>1. CASE UNCHANGED vars
    BY <1>1 DEF vars, user, walk, history, IInv, TypeOK, HeadIsRight,
                KeptIsStored, CopyIsTree, WalkIsRight, UnstableKeepsFiles,
                VersionIsTheProject, IsFile, HasDir, Exists
  <1>2. CASE User
    BY <1>2, UserKeeps
  <1>3. CASE Crash
    BY <1>3, DownKeeps DEF Crash
  <1>4. CASE Daemon
    <2>1. CASE Start \/ Pop \/ \E p \in Path : Push(p) \/ StoreFile(p)
      BY <2>1, QueueKeeps
    <2>2. CASE UnlinkOld \/ LinkNew \/ \E p \in Path : CreateParent(p)
      BY <2>2, ReplacementKeeps
    <2>3. CASE \/ OpenFails \/ UnlinkFails \/ ParentIsMissing
               \/ \E p \in Path : RmdirFails(p)
      BY <2>3, DownKeeps
         DEF OpenFails, UnlinkFails, ParentIsMissing, RmdirFails, Fail
    <2>4. CASE CreateVersion
      BY <2>4, CreationKeeps
    <2>5. CASE \E p \in Path : VisitFile(p)
      BY <2>5, FileKeeps
    <2>6. CASE \E p \in Path : EnterDirectory(p)
      BY <2>6, EntryKeeps
    <2>7. CASE \E p \in Path : LeaveDirectory(p)
      BY <2>7, ExitKeeps
    <2>8. CASE FinishVersion
      BY <2>8, FinishKeeps
    <2> QED
      BY <1>4, <2>1, <2>2, <2>3, <2>4, <2>5, <2>6, <2>7, <2>8 DEF Daemon
  <1> QED
    BY <1>1, <1>2, <1>3, <1>4 DEF Next

\* The invariant of the walk and of what comes before it, for any project.
THEOREM Invariance == Spec => []IInv
  <1> QED
    BY InitIInv, NextIInv, PTL DEF Spec

\* As long as a file exists, no walk, failure or crash (store in handler.c,
\* sync_shallow_tree) takes it out of the unstable copy for good.
THEOREM CopyKeepsFiles == Spec => []UnstableKeepsFiles
  <1>1. IInv => UnstableKeepsFiles
    BY DEF IInv
  <1> QED
    BY <1>1, Invariance, PTL

\* sync_shallow_tree links the last version of each file that has been there all
\* the time, however deep, and nothing that did not exist during the walk.
THEOREM VersionsAreComplete == Spec => []VersionIsTheProject
  <1>1. IInv => VersionIsTheProject
    BY DEF IInv
  <1> QED
    BY <1>1, Invariance, PTL

-----------------------------------------------------------------------------
\* unlink fails only if what it is to replace has changed kind, unless the file
\* went away after its version was made.
LEMMA UnlinkIsExplained ==
  ASSUME CInv, UnlinkFails
  PROVE  disturbed \/ HasChangedKind
  <1> SUFFICES ASSUME ~disturbed PROVE HasChangedKind
    OBVIOUS
  <1>1. /\ pc = "unlink" /\ head \in Path /\ IsFile(tree, head)
        /\ unstable[head] = Dir \/ \E d \in Above[head] : IsLink(d)
    BY DEF UnlinkFails, IsBlocked, CInv, IInv, HeadIsRight, CalmIsRight
  <1>2. CASE unstable[head] = Dir
    BY <1>1, <1>2 DEF HasChangedKind
  <1>3. ASSUME NEW d \in Above[head], IsLink(d) PROVE HasChangedKind
    <2>1. d \in Path /\ tree[d] = Dir
      BY <1>1, AboveAreDirectories, Kinds DEF CInv, IsFile
    <2> QED
      BY <1>3, <2>1 DEF HasChangedKind
  <1> QED
    BY <1>1, <1>2, <1>3

\* The directory of what exists exists, and was made when it was entered.
LEMMA MissingParentIsExplained ==
  ASSUME CInv, ParentIsMissing
  PROVE  disturbed
  <1> SUFFICES ASSUME ~disturbed PROVE FALSE
    OBVIOUS
  <1>1. PICK p \in Unseen : Exists(p)
    BY DEF ParentIsMissing
  <1>2. /\ pc = "walk" /\ p \in Path /\ Parent[p] = cursor
        /\ cursor \in Path /\ version[cursor] # Dir
    BY DEF ParentIsMissing, Unseen, Children, HasDir
  <1>3. tree[cursor] = Dir
    BY <1>1, <1>2 DEF CInv, ProjectIsTree, Exists, HasDir
  <1>4. cursor \in Entered(cursor) \cap Path /\ Exists(cursor)
    BY <1>2, <1>3, Kinds DEF Entered, Exists
  <1> QED
    BY <1>2, <1>4 DEF CInv, CalmIsRight

\* What is below a directory that does not exist was removed before it.
LEMMA FullDirectoryIsExplained ==
  ASSUME CInv, NEW d \in Path, RmdirFails(d)
  PROVE  disturbed
  <1> SUFFICES ASSUME ~disturbed PROVE FALSE
    OBVIOUS
  <1>1. /\ pc = "walk" /\ cursor = d /\ Unseen = {} /\ tree[d] = None
    BY DEF RmdirFails, AtEnd, Exists
  <1>2. PICK c \in Children(d) : unstable[c] # None
    BY DEF RmdirFails, IsEmpty
  <1>3. c \in Path /\ Parent[c] = d /\ c \in seen
    BY <1>1, <1>2 DEF Unseen, Children
  <1>4. tree[c] = None
    BY <1>1, <1>3, Kinds DEF CInv, ProjectIsTree, HasDir
  <1>5. c \notin Entered(d)
    BY <1>3, ParentIsAbove, TreeAssumption, Kinds DEF Entered
  <1> QED
    BY <1>1, <1>2, <1>3, <1>4, <1>5 DEF CInv, CalmIsRight, Exists

\* Every failure has its reason.
LEMMA FailureIsExplained ==
  ASSUME CInv, Next, pc # "down", pc' = "down", crashes' = crashes
  PROVE  disturbed \/ HasChangedKind
  <1>1. ~User
    <2>1. \A p \in Path : \A kind : Change(p, kind) => pc' = pc
      BY DEF Change
    <2> QED
      BY <2>1 DEF User, Write, MakeDirectory, Remove
  <1>2. ~Crash
    BY DEF Crash, CInv
  <1>3. /\ ~Start /\ ~Pop /\ ~UnlinkOld /\ ~LinkNew /\ ~CreateVersion
        /\ ~FinishVersion
    BY DEF Start, Pop, UnlinkOld, LinkNew, CreateVersion, FinishVersion
  <1>4. \A p \in Path : /\ ~Push(p) /\ ~StoreFile(p) /\ ~CreateParent(p)
                        /\ ~VisitFile(p) /\ ~EnterDirectory(p)
                        /\ ~LeaveDirectory(p)
    BY DEF Push, StoreFile, CreateParent, VisitFile, EnterDirectory, Visit,
           LeaveDirectory
  <1>5. CASE OpenFails
    BY <1>5 DEF OpenFails, HasChangedKind
  <1>6. CASE UnlinkFails
    BY <1>6, UnlinkIsExplained
  <1>7. CASE ParentIsMissing
    BY <1>7, MissingParentIsExplained
  <1>8. CASE \E p \in Path : RmdirFails(p)
    BY <1>8, FullDirectoryIsExplained
  <1> QED
    BY <1>1, <1>2, <1>3, <1>4, <1>5, <1>6, <1>7, <1>8 DEF Next, Daemon

-----------------------------------------------------------------------------
\* The invariant of a project that nobody disturbs.
LEMMA InitCInv == Init => CInv
  <1> SUFFICES ASSUME Init PROVE CInv
    OBVIOUS
  <1>1. crashes \in Nat /\ CalmIsRight
    BY DEF Init, CalmIsRight
  <1>2. ProjectIsTree
    BY DEF Init, IsTree, ProjectIsTree
  <1> QED
    BY <1>1, <1>2, InitIInv DEF CInv

\* One case for each of the groups of actions above.
LEMMA NextCInv == CInv /\ [Next]_vars => CInv'
  <1> SUFFICES ASSUME CInv, [Next]_vars PROVE CInv'
    OBVIOUS
  <1>1. IInv'
    BY NextIInv DEF CInv
  <1>2. SUFFICES crashes' \in Nat /\ ProjectIsTree' /\ CalmIsRight'
    BY <1>1 DEF CInv
  <1>3. CASE UNCHANGED vars
    BY <1>3 DEF vars, user, walk, history, CInv, ProjectIsTree, CalmIsRight,
                IsFile, HasDir, Exists, Entered
  <1>4. CASE User
    BY <1>4, ChangeIsCalm DEF User, Write, MakeDirectory, Remove
  <1>5. CASE Crash
    BY <1>5, QueueIsCalm
  <1>6. CASE Daemon
    <2>1. CASE \/ Start \/ Pop \/ FinishVersion
               \/ \E p \in Path : Push(p) \/ StoreFile(p)
      BY <2>1, QueueIsCalm
    <2>2. CASE UnlinkOld \/ LinkNew \/ \E p \in Path : CreateParent(p)
      BY <2>2, ReplacementIsCalm
    <2>3. CASE \/ OpenFails \/ UnlinkFails \/ ParentIsMissing
               \/ \E p \in Path : RmdirFails(p)
      BY <2>3, QueueIsCalm
         DEF OpenFails, UnlinkFails, ParentIsMissing, RmdirFails
    <2>4. CASE CreateVersion
      BY <2>4, CreationIsCalm
    <2>5. CASE \E p \in Path : VisitFile(p)
      BY <2>5, FileIsCalm
    <2>6. CASE \E p \in Path : EnterDirectory(p)
      BY <2>6, EntryIsCalm
    <2>7. CASE \E p \in Path : LeaveDirectory(p)
      BY <2>7, ExitIsCalm
    <2> QED
      BY <1>6, <2>1, <2>2, <2>3, <2>4, <2>5, <2>6, <2>7 DEF Daemon
  <1> QED
    BY <1>3, <1>4, <1>5, <1>6 DEF Next

\* No error of a call ends the daemon (the throws of sync_shallow_tree and
\* store) unless the project changed under its hands, or a directory and a file
\* have changed places: what the walk saw of a project at rest fits together.
THEOREM FailuresAreRaces == Spec => FailsOnlyInARace
  <1>1. Spec => []CInv
    BY InitCInv, NextCInv, PTL DEF Spec
  <1>2. CInv /\ [Next]_vars =>
          [pc # "down" /\ pc' = "down" /\ crashes' = crashes
             => disturbed \/ HasChangedKind]_vars
    BY FailureIsExplained
  <1> QED
    BY <1>1, <1>2, PTL DEF Spec, FailsOnlyInARace
=============================================================================
