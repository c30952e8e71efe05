---------------------------- MODULE KlunokProofs ----------------------------
(***************************************************************************)
(* Proofs about the daemon, for any files, projects and bounds: no handled *)
(* write is lost, a torn version is made again, and a version of a project *)
(* holds what it was asked for.                                            *)
(*                                                                         *)
(* The invariant follows a job from system call to system call.  The       *)
(* numbers that matter are the writes of a file that were handled, were    *)
(* promised to its project, or are the one the job is about: each of them  *)
(* is in the content of the file or void (Written), and from then on in     *)
(* on in what the daemon has read, in the version, in the unstable copy    *)
(* and in the version of the project, in this order.                       *)
(***************************************************************************)
EXTENDS Klunok, SequenceTheorems, TLAPS

Place == {"down", "loading", "poll", "close_write", "push_root", "timeout",
          "open", "copy", "unlink", "link", "stored", "acknowledge",
          "snapshot", "fill"}

Job == [path : File \cup Root \cup {None}, write : Nat, flush : BOOLEAN,
        seen : Nat, todo : SUBSET File]

\* A version of a project.
Tree == UNION {[S -> Nat] : S \in SUBSET File}

TypeOK ==
  /\ due \in [File \cup Root -> Int \cup {None}]
  /\ older \in [File \cup Root -> SUBSET (File \cup Root)]
  /\ handed \in File \cup Root \cup {None}
  /\ now \in Int
  /\ content \in [File -> Nat] /\ void \in [File -> Nat]
  /\ request \in [File -> BOOLEAN]
  /\ events \in Seq([path : File \cup {Overflow}, write : Nat])
  /\ store \in [File -> Seq(Nat)]
  /\ unstable \in [File -> Nat]
  /\ projects \in [Root -> Seq(Tree)]
  /\ pc \in Place
  /\ job \in Job
  /\ writes \in Nat /\ flushes \in Nat /\ crashes \in Nat
  /\ recorded \in [File -> Nat] /\ promised \in [File -> Nat]

\* The write `w` of the file is in its content, or nothing is owed for it.
IsWritten(f, w) == w <= writes /\ (w <= content[f] \/ w <= void[f])

\* All writes that the daemon has heard of.
Written ==
  /\ \A f \in File : IsWritten(f, recorded[f]) /\ IsWritten(f, promised[f])
  /\ \A f \in File : /\ content[f] <= writes
                     /\ f \in withheld => content[f] <= void[f]
  /\ \A i \in DOMAIN events :
       events[i].path \in File => IsWritten(events[i].path, events[i].write)
  /\ job.path \in File => IsWritten(job.path, job.write)

\* The path of the job, and what the queue knows of it.
JobIsRight ==
  /\ pc \in {"close_write", "push_root", "open", "copy", "unlink", "link",
             "acknowledge"} => job.path \in File
  /\ pc = "push_root" => RootOf[job.path] # None
  /\ pc \in {"unlink", "link"} => RootOf[job.path] # None
  /\ pc \in {"snapshot", "fill"} => job.path \in Root
  /\ pc = "stored" => job.path # None
  /\ pc \in {"snapshot", "fill"} => ~job.flush
  /\ job.flush => job.path \in File /\ flushes # 0
  /\ \A f \in File : request[f] => flushes # 0
  /\ pc \in {"open", "copy", "unlink", "link", "stored", "snapshot", "fill"}
       => handed = IF job.flush THEN None ELSE job.path
  /\ pc \in Place \ {"open", "copy", "unlink", "link", "stored", "snapshot",
                     "fill"} => handed = None
  /\ handed # None => due[handed] # None /\ older[handed] = {}

\* The writes of the file of the job that its version has to have.
Wanted(f) == {w \in {recorded[f], promised[f], job.write} : w > void[f]}

\* The versions of a file never get worse; the one under way is empty.
VersionIsRight ==
  /\ pc = "copy" =>
       /\ store[job.path] # <<>>
       /\ Last(store[job.path]) = 0
       /\ \A w \in Wanted(job.path) : w <= job.seen
  /\ pc \in {"unlink", "link"} =>
       /\ store[job.path] # <<>>
       /\ Last(store[job.path]) # 0
       /\ \A w \in Wanted(job.path) : w <= Last(store[job.path])
  /\ pc = "stored" /\ job.path \in File =>
       \A w \in Wanted(job.path) :
         /\ store[job.path] # <<>>
         /\ Last(store[job.path]) # 0
         /\ w <= Last(store[job.path])
         /\ RootOf[job.path] # None => w <= unstable[job.path]

Owed(f) == {w \in {recorded[f], promised[f]} : w > void[f]}

\* The unstable copy has what the queue has not, without a crash in a flush.
CopyIsRight ==
  crashes = 0 =>
    \A f \in File : RootOf[f] # None =>
      \/ due[f] # None
      \/ pc = "link" /\ job.path = f
      \/ \A w \in Owed(f) : w <= unstable[f]

\* Files are in front of their root in the queue, but for the one whose root is
\* about to be pushed.
FilesComeFirst ==
  crashes = 0 =>
    \A f \in File : RootOf[f] # None /\ due[f] # None =>
      \/ due[RootOf[f]] # None /\ f \in older[RootOf[f]]
      \/ pc = "push_root" /\ job.path = f

\* There is a version of the project under way, or it is complete.
IsSnapshot == pc = "fill" \/ (pc = "stored" /\ job.path \in Root)

\* The version of the project that is being made.
SnapshotIsRight ==
  /\ IsSnapshot =>
       /\ projects[job.path] # <<>>
       /\ Last(projects[job.path]) \in [FilesOf(job.path) -> Nat]
  /\ crashes = 0 /\ IsSnapshot =>
       \A f \in FilesOf(job.path) :
         \/ pc = "fill" /\ f \in job.todo
         \/ \A w \in Owed(f) : w <= Last(projects[job.path])[f]

IInv ==
  /\ TypeOK
  /\ Written
  /\ JobIsRight
  /\ VersionIsRight
  /\ CopyIsRight
  /\ FilesComeFirst
  /\ SnapshotIsRight
  /\ HandledIsPendingOrStored
  /\ TornVersionIsRedone
  /\ WrittenProjectIsPendingOrStored

-----------------------------------------------------------------------------
\* What the assumption on the constants says of files, roots and None.
LEMMA Kinds ==
  /\ File \cap Root = {}
  /\ RootOf \in [File -> Root \cup {None}]
  /\ None \notin File /\ None \notin Root /\ None \notin Int
  /\ Overflow \notin File
  BY KlunokAssumption

\* The last element of a sequence that is extended, and the others.
LEMMA LastOfAppend ==
  ASSUME NEW S, NEW s \in Seq(S), NEW e \in S
  PROVE  /\ Append(s, e) \in Seq(S) /\ Append(s, e) # <<>>
         /\ Last(Append(s, e)) = e
         /\ Len(Append(s, e)) = Len(s) + 1
         /\ \A i \in DOMAIN s : i \in DOMAIN Append(s, e) /\ Append(s, e)[i] = s[i]
  BY DEF Last

\* An element of an extended sequence is an old one or the new one.
LEMMA ElementsOfAppend ==
  ASSUME NEW S, NEW s \in Seq(S), NEW e \in S, NEW i \in DOMAIN Append(s, e)
  PROVE  \/ i \in DOMAIN s /\ s[i] \in S /\ Append(s, e)[i] = s[i]
         \/ i \notin DOMAIN s /\ Append(s, e)[i] = e
  OBVIOUS

\* The elements of a sequence.
LEMMA ElementOf ==
  ASSUME NEW S, NEW s \in Seq(S), NEW i \in DOMAIN s
  PROVE  s[i] \in S
  OBVIOUS

\* What the file has in its version as the last content is one of its versions.
LEMMA LastIsVersion ==
  ASSUME TypeOK, NEW f \in File, store[f] # <<>>
  PROVE  Last(store[f]) \in Versions(f)
  BY DEF TypeOK, Last, Versions

\* The path and the write of an event of the kernel.
LEMMA EventTypes ==
  ASSUME TypeOK, NEW i \in DOMAIN events
  PROVE  events[i].path \in File \cup {Overflow} /\ events[i].write \in Nat
  <1>1. events \in Seq([path : File \cup {Overflow}, write : Nat])
    BY DEF TypeOK
  <1>2. events[i] \in [path : File \cup {Overflow}, write : Nat]
    BY <1>1, ElementOf
  <1> QED
    BY <1>2

\* The job of a daemon that works on nothing.
LEMMA NoJobIsJob ==
  NoJob \in Job /\ NoJob.path = None /\ NoJob.flush = FALSE
  BY DEF NoJob, Job

\* A push: what it changes in the queue.
LEMMA PushChanges ==
  ASSUME TypeOK, NEW p \in File \cup Root, Q!Push(p)
  PROVE  /\ handed = None /\ handed' = None /\ UNCHANGED <<debounce, now>>
         /\ due' \in [File \cup Root -> Int \cup {None}]
         /\ older' \in [File \cup Root -> SUBSET (File \cup Root)]
         /\ due'[p] # None
         /\ \A q \in File \cup Root : q # p => due'[q] = due[q]
         /\ older'[p] = {q \in File \cup Root : due[q] # None} \ {p}
         /\ \A q \in File \cup Root : q # p => older'[q] = older[q] \ {p}
  BY Kinds DEF TypeOK, Q!Push, Q!Pending

\* A path that is forgotten, by pop or a cancelling push.
LEMMA ForgetChanges ==
  ASSUME TypeOK, NEW p \in File \cup Root, Q!Forget(p)
  PROVE  /\ due' \in [File \cup Root -> Int \cup {None}]
         /\ older' \in [File \cup Root -> SUBSET (File \cup Root)]
         /\ due'[p] = None
         /\ \A q \in File \cup Root : q # p => due'[q] = due[q]
         /\ \A q \in File \cup Root : q # p => older'[q] = older[q] \ {p}
  BY Kinds DEF TypeOK, Q!Forget

-----------------------------------------------------------------------------
\* Nothing else is owed than before when only what is void changes, up to the
\* last write.
LEMMA OwedOnlyShrinks ==
  ASSUME IInv,
         due' = due, older' = older, store' = store, unstable' = unstable,
         projects' = projects, recorded' = recorded, promised' = promised,
         pc' = pc, job' = job, crashes' = crashes,
         flushes' = 0 => flushes = 0,
         \A g \in File : \A w \in Nat :
           w <= writes /\ w > void'[g] => w > void[g]
  PROVE  /\ VersionIsRight' /\ CopyIsRight' /\ FilesComeFirst' /\ SnapshotIsRight'
         /\ HandledIsPendingOrStored' /\ TornVersionIsRedone'
         /\ WrittenProjectIsPendingOrStored'
  <1>1. /\ \A g \in File : /\ recorded[g] \in Nat /\ recorded[g] <= writes
                           /\ promised[g] \in Nat /\ promised[g] <= writes
        /\ job.write \in Nat
        /\ job.path \in File => job.write <= writes
    BY DEF IInv, TypeOK, Job, Written, IsWritten
  <1>2. /\ \A g \in File : Owed(g)' \subseteq Owed(g)
        /\ job.path \in File => Wanted(job.path)' \subseteq Wanted(job.path)
    BY <1>1 DEF Owed, Wanted
  <1>3. VersionIsRight'
    <2>1. pc \in {"copy", "unlink", "link"} => job.path \in File
      BY DEF IInv, JobIsRight
    <2> QED
      BY <1>2, <2>1 DEF IInv, VersionIsRight
  <1>4. CopyIsRight' /\ FilesComeFirst'
    BY <1>2 DEF IInv, CopyIsRight, FilesComeFirst
  <1>5. SnapshotIsRight'
    BY <1>2 DEF IInv, SnapshotIsRight, IsSnapshot, FilesOf
  <1>6. \A g \in File : IsOwed(g)' => IsOwed(g)
    BY <1>1 DEF IsOwed
  <1>7. /\ HandledIsPendingOrStored' /\ TornVersionIsRedone'
        /\ WrittenProjectIsPendingOrStored'
    BY <1>6 DEF IInv, HandledIsPendingOrStored, TornVersionIsRedone,
           IsStored, Versions, WrittenProjectIsPendingOrStored,
           ProjectIsPendingOrStored
  <1> QED
    BY <1>3, <1>4, <1>5, <1>7

\* Editors: the content is newer than all writes the daemon has heard of, and so
\* is the event.
LEMMA WriteKeeps ==
  ASSUME IInv, NEW f \in File, NEW wantsFlush \in BOOLEAN, Write(f, wantsFlush)
  PROVE  IInv'
  <1>1. /\ due' = due /\ older' = older /\ handed' = handed /\ now' = now
        /\ store' = store /\ unstable' = unstable /\ projects' = projects
        /\ recorded' = recorded /\ promised' = promised
        /\ pc' = pc /\ job' = job /\ crashes' = crashes
        /\ writes' = writes + 1 /\ withheld' = withheld
        /\ void' = IF f \in withheld THEN [void EXCEPT ![f] = writes + 1]
                   ELSE void
        /\ flushes' = IF wantsFlush THEN flushes + 1 ELSE flushes
        /\ content' = [content EXCEPT ![f] = writes + 1]
        /\ request' = IF wantsFlush THEN [request EXCEPT ![f] = TRUE]
                      ELSE request
    BY DEF Write, queue, disk, auxiliary
  <1>2. \/ events' = events
        \/ \E q \in {f, Overflow} :
             events' = Append(events, [path |-> q, write |-> writes + 1])
    BY DEF Write, Notify
  <1>3. TypeOK /\ Written
    BY DEF IInv
  <1>4. TypeOK'
    <2>1. /\ content' \in [File -> Nat] /\ void' \in [File -> Nat]
          /\ writes' \in Nat /\ flushes' \in Nat
          /\ request' \in [File -> BOOLEAN]
      <3>1. /\ content \in [File -> Nat] /\ void \in [File -> Nat]
            /\ request \in [File -> BOOLEAN]
            /\ writes \in Nat /\ flushes \in Nat
        BY <1>3 DEF TypeOK
      <3>2. content' \in [File -> Nat] /\ void' \in [File -> Nat]
        BY <1>1, <3>1
      <3>3. /\ writes' \in Nat /\ flushes' \in Nat
            /\ request' \in [File -> BOOLEAN]
        BY <1>1, <3>1
      <3> QED
        BY <3>2, <3>3
    <2>2. events' \in Seq([path : File \cup {Overflow}, write : Nat])
      <3>1. CASE events' = events
        BY <1>3, <3>1 DEF TypeOK
      <3>2. ASSUME NEW q \in {f, Overflow},
                   events' = Append(events, [path |-> q, write |-> writes + 1])
            PROVE  events' \in Seq([path : File \cup {Overflow}, write : Nat])
        <4>1. [path |-> q, write |-> writes + 1]
                \in [path : File \cup {Overflow}, write : Nat]
          BY <1>3 DEF TypeOK
        <4> QED
          BY <1>3, <3>2, <4>1, AppendProperties DEF TypeOK
      <3> QED
        BY <1>2, <3>1, <3>2
    <2> QED
      BY <1>1, <1>3, <2>1, <2>2 DEF TypeOK
  <1>5. /\ writes \in Nat /\ writes' = writes + 1
        /\ \A g \in File : /\ content[g] \in Nat /\ content[g] <= writes
                           /\ content'[g] = IF g = f THEN writes + 1
                                            ELSE content[g]
    BY <1>1, <1>3 DEF TypeOK, Written
  <1>6. \A g \in File : /\ void[g] \in Nat
                        /\ void'[g] = IF g = f /\ g \in withheld
                                      THEN writes + 1 ELSE void[g]
    BY <1>1, <1>3 DEF TypeOK
  <1>7. ASSUME NEW g \in File, NEW w \in Nat, IsWritten(g, w)
        PROVE  w <= writes' /\ (w <= content'[g] \/ w <= void'[g])
    BY <1>5, <1>6, <1>7 DEF IsWritten
  <1>8. Written'
    <2>1. \A g \in File : (IsWritten(g, recorded[g]) /\ IsWritten(g, promised[g]))'
      <3>1. \A g \in File : /\ recorded[g] \in Nat /\ promised[g] \in Nat
                            /\ IsWritten(g, recorded[g]) /\ IsWritten(g, promised[g])
        BY <1>3 DEF TypeOK, Written
      <3> QED
        BY <1>1, <1>7, <3>1 DEF IsWritten
    <2>2. \A g \in File : /\ content'[g] <= writes'
                          /\ g \in withheld' => content'[g] <= void'[g]
      BY <1>1, <1>3, <1>5, <1>6 DEF Written
    <2>3. ASSUME NEW i \in DOMAIN events', events'[i].path \in File
          PROVE  IsWritten(events[i].path, events[i].write)'
      <3>0. events \in Seq([path : File \cup {Overflow}, write : Nat])
        BY <1>3 DEF TypeOK
      <3>1. CASE events'[i] = events[i] /\ i \in DOMAIN events
        <4>1. events[i] \in [path : File \cup {Overflow}, write : Nat]
          BY <3>0, <3>1, ElementOf
        <4>2. events[i].write \in Nat /\ IsWritten(events[i].path, events[i].write)
          BY <1>3, <2>3, <3>1, <4>1 DEF Written
        <4> QED
          BY <1>7, <2>3, <3>1, <4>1, <4>2 DEF IsWritten
      <3>2. ASSUME NEW q \in {f, Overflow},
                   events'[i] = [path |-> q, write |-> writes + 1]
            PROVE  IsWritten(events[i].path, events[i].write)'
        <4>1. events'[i].path = f /\ events'[i].write = writes + 1
          BY <2>3, <3>2, Kinds
        <4> QED
          BY <1>5, <4>1 DEF IsWritten
      <3>3. CASE events' = events
        BY <2>3, <3>1, <3>3
      <3>4. ASSUME NEW q \in {f, Overflow},
                   events' = Append(events, [path |-> q, write |-> writes + 1])
            PROVE  \/ events'[i] = events[i] /\ i \in DOMAIN events
                   \/ events'[i] = [path |-> q, write |-> writes + 1]
        <4>1. [path |-> q, write |-> writes + 1]
                \in [path : File \cup {Overflow}, write : Nat]
          BY <1>5
        <4> QED
          BY <2>3, <3>0, <3>4, <4>1, ElementsOfAppend
      <3> QED
        BY <1>2, <3>1, <3>2, <3>3, <3>4
    <2>4. job'.path \in File => IsWritten(job.path, job.write)'
      BY <1>1, <1>3, <1>7 DEF TypeOK, Job, Written, IsWritten
    <2> QED
      BY <2>1, <2>2, <2>3, <2>4 DEF Written
  <1>9. JobIsRight'
    BY <1>1, <1>3 DEF IInv, TypeOK, JobIsRight
  <1>10. \A g \in File : \A w \in Nat :
           w <= writes /\ w > void'[g] => w > void[g]
    BY <1>5, <1>6
  <1>11. flushes' = 0 => flushes = 0
    BY <1>1, <1>3 DEF TypeOK
  <1>12. /\ due' = due /\ older' = older /\ store' = store
         /\ unstable' = unstable /\ projects' = projects
         /\ recorded' = recorded /\ promised' = promised
         /\ pc' = pc /\ job' = job /\ crashes' = crashes
    BY <1>1
  <1>13. /\ VersionIsRight' /\ CopyIsRight' /\ FilesComeFirst' /\ SnapshotIsRight'
         /\ HandledIsPendingOrStored' /\ TornVersionIsRedone'
         /\ WrittenProjectIsPendingOrStored'
    BY <1>10, <1>11, <1>12, OwedOnlyShrinks
  <1> QED
    BY <1>4, <1>8, <1>9, <1>13 DEF IInv

\* What was owed for a file becomes void.
LEMMA VoidKeeps ==
  ASSUME IInv, NEW f \in File,
         due' = due, older' = older, handed' = handed, now' = now,
         store' = store, unstable' = unstable, projects' = projects,
         recorded' = recorded, promised' = promised, events' = events,
         pc' = pc, job' = job, crashes' = crashes,
         writes' = writes, flushes' = flushes,
         content' = content \/ content' = [content EXCEPT ![f] = 0],
         void' = [void EXCEPT ![f] = writes],
         withheld' \subseteq withheld \cup {f},
         request' = request \/ request' = [request EXCEPT ![f] = FALSE]
  PROVE  IInv'
  <1>1. TypeOK /\ Written
    BY DEF IInv
  <1>2. TypeOK'
    <2>1. /\ content \in [File -> Nat] /\ void \in [File -> Nat]
          /\ request \in [File -> BOOLEAN] /\ writes \in Nat
      BY <1>1 DEF TypeOK
    <2>2. content' \in [File -> Nat]
      BY <2>1
    <2>3. void' \in [File -> Nat]
      BY <2>1
    <2>4. request' \in [File -> BOOLEAN]
      BY <2>1
    <2> QED
      BY <1>1, <2>2, <2>3, <2>4 DEF TypeOK
  <1>3. /\ writes \in Nat
        /\ \A g \in File : /\ content[g] \in Nat /\ content[g] <= writes
                           /\ g \in withheld => content[g] <= void[g]
                           /\ \/ content'[g] = content[g]
                              \/ g = f /\ content'[g] = 0
                           /\ void[g] \in Nat
                           /\ void'[g] = IF g = f THEN writes ELSE void[g]
    BY <1>1 DEF TypeOK, Written
  <1>4. /\ \A g \in File : /\ recorded[g] \in Nat /\ recorded[g] <= writes
                           /\ promised[g] \in Nat /\ promised[g] <= writes
        /\ job.write \in Nat
        /\ job.path \in File => job.write <= writes
    BY <1>1 DEF TypeOK, Job, Written, IsWritten
  <1>5. ASSUME NEW g \in File, NEW w \in Nat, IsWritten(g, w)
        PROVE  w <= writes' /\ (w <= content'[g] \/ w <= void'[g])
    BY <1>3, <1>5 DEF IsWritten
  <1>6. Written'
    <2>1. \A g \in File : (IsWritten(g, recorded[g]) /\ IsWritten(g, promised[g]))'
      <3>1. \A g \in File : IsWritten(g, recorded[g]) /\ IsWritten(g, promised[g])
        BY <1>1 DEF Written
      <3> QED
        BY <1>4, <1>5, <3>1 DEF IsWritten
    <2>2. \A g \in File : /\ content'[g] <= writes'
                          /\ g \in withheld' => content'[g] <= void'[g]
      BY <1>3
    <2>3. \A i \in DOMAIN events :
            events[i].path \in File =>
              IsWritten(events[i].path, events[i].write)'
      <3>1. \A i \in DOMAIN events : events[i].write \in Nat
        BY <1>1, EventTypes
      <3>2. \A i \in DOMAIN events :
              events[i].path \in File => IsWritten(events[i].path, events[i].write)
        BY <1>1 DEF Written
      <3> QED
        BY <1>5, <3>1, <3>2 DEF IsWritten
    <2>4. job.path \in File => IsWritten(job.path, job.write)'
      BY <1>1, <1>4, <1>5 DEF Written, IsWritten
    <2> QED
      BY <2>1, <2>2, <2>3, <2>4 DEF Written
  <1>7. JobIsRight'
    BY <1>1 DEF IInv, TypeOK, JobIsRight
  <1>8. \A g \in File : \A w \in Nat :
          w <= writes /\ w > void'[g] => w > void[g]
    BY <1>3
  <1>9. /\ VersionIsRight' /\ CopyIsRight' /\ FilesComeFirst' /\ SnapshotIsRight'
        /\ HandledIsPendingOrStored' /\ TornVersionIsRedone'
        /\ WrittenProjectIsPendingOrStored'
    BY <1>8, OwedOnlyShrinks
  <1> QED
    BY <1>2, <1>6, <1>7, <1>9 DEF IInv

\* A deletion makes void what was owed.
LEMMA DeleteKeeps ==
  ASSUME IInv, NEW f \in File, Delete(f)
  PROVE  IInv'
  BY VoidKeeps DEF Delete, queue, disk, auxiliary

\* So does a file that is withheld.
LEMMA WithholdKeeps ==
  ASSUME IInv, NEW f \in File, Withhold(f)
  PROVE  IInv'
  BY VoidKeeps DEF Withhold, queue, disk, auxiliary

\* Steps that leave the queue, the files, the store and the promises alone and
\* are done with the job.
LEMMA IdleKeeps ==
  ASSUME IInv,
         pc' \in {"down", "loading", "poll", "timeout"},
         \/ job' = NoJob
         \/ job' = job /\ pc \in {"down", "loading", "poll", "timeout"},
         due' = due, older' = older, handed' = None, now' \in Int,
         content' = content, void' = void, withheld' = withheld, writes' = writes,
         flushes' = flushes,
         request' = request \/ request' = [f \in File |-> FALSE],
         events' = events \/ events' = <<>>,
         store' = store, unstable' = unstable, projects' = projects,
         recorded' = recorded, promised' = promised,
         crashes' \in Nat, crashes' = 0 => crashes = 0,
         pc \notin {"link", "push_root"} \/ crashes' # 0
  PROVE  IInv'
  <1>1. TypeOK /\ Written /\ JobIsRight
    BY DEF IInv
  <1>2. NoJob \in Job
    BY DEF NoJob, Job
  <1>3. TypeOK'
    <2>1. job' \in Job
      BY <1>1, <1>2 DEF TypeOK
    <2>2. request' \in [File -> BOOLEAN]
      BY <1>1 DEF TypeOK
    <2>3. events' \in Seq([path : File \cup {Overflow}, write : Nat])
      <3>1. CASE events' = events
        BY <1>1, <3>1 DEF TypeOK
      <3>2. CASE events' = <<>>
        BY <3>2
      <3> QED
        BY <3>1, <3>2
    <2>4. pc' \in Place /\ handed' \in File \cup Root \cup {None}
      BY DEF Place
    <2> QED
      BY <1>1, <2>1, <2>2, <2>3, <2>4 DEF TypeOK
  <1>4. Written'
    <2>1. \A i \in DOMAIN events' :
            events'[i].path \in File =>
              IsWritten(events[i].path, events[i].write)'
      <3>1. CASE events' = events
        BY <1>1, <3>1 DEF Written, IsWritten
      <3>2. CASE events' = <<>>
        BY <3>2
      <3> QED
        BY <3>1, <3>2
    <2>2. job'.path \in File => IsWritten(job.path, job.write)'
      <3>1. CASE job' = NoJob
        BY <3>1, Kinds DEF NoJob
      <3>2. CASE job' = job
        BY <1>1, <3>2 DEF Written, IsWritten
      <3> QED
        BY <3>1, <3>2
    <2>3. /\ \A f \in File : (IsWritten(f, recorded[f]) /\ IsWritten(f, promised[f]))'
          /\ \A f \in File : /\ content'[f] <= writes'
                             /\ f \in withheld' => content'[f] <= void'[f]
      BY <1>1 DEF Written, IsWritten
    <2> QED
      BY <2>1, <2>2, <2>3 DEF Written
  <1>5. JobIsRight'
    <2>1. job'.flush => job'.path \in File /\ flushes' # 0
      BY <1>1 DEF JobIsRight, NoJob
    <2>2. \A f \in File : request'[f] => flushes' # 0
      BY <1>1 DEF JobIsRight
    <2> QED
      BY <2>1, <2>2 DEF JobIsRight
  <1>6. VersionIsRight' /\ SnapshotIsRight'
    BY DEF VersionIsRight, SnapshotIsRight, IsSnapshot
  <1>7. CopyIsRight' /\ FilesComeFirst'
    <2>1. \A f \in File : Owed(f)' = Owed(f)
      BY DEF Owed
    <2> QED
      BY <2>1 DEF IInv, CopyIsRight, FilesComeFirst
  <1>8. /\ HandledIsPendingOrStored' /\ TornVersionIsRedone'
        /\ WrittenProjectIsPendingOrStored'
    BY DEF IInv, HandledIsPendingOrStored, TornVersionIsRedone, IsOwed,
           IsStored, Versions, WrittenProjectIsPendingOrStored,
           ProjectIsPendingOrStored
  <1> QED
    BY <1>3, <1>4, <1>5, <1>6, <1>7, <1>8 DEF IInv

\* The daemon is down and nothing was ever written.
LEMMA InitIInv ==
  ASSUME Init
  PROVE  IInv
  <1>1. \A S : <<>> \in Seq(S)
    OBVIOUS
  <1>2. NoJob \in Job /\ NoJob.path = None /\ NoJob.flush = FALSE
    BY DEF NoJob, Job
  <1>3. TypeOK
    BY <1>1, <1>2 DEF Init, TypeOK, Place
  <1>4. \A f \in File : IsWritten(f, 0)
    BY DEF Init, IsWritten
  <1>5. Written
    BY <1>2, <1>4, Kinds DEF Init, Written
  <1>6. JobIsRight /\ VersionIsRight /\ SnapshotIsRight
    BY <1>2 DEF Init, JobIsRight, VersionIsRight, SnapshotIsRight, IsSnapshot
  <1>7. CopyIsRight /\ FilesComeFirst
    BY Kinds DEF Init, CopyIsRight, FilesComeFirst, Owed
  <1>8. /\ HandledIsPendingOrStored /\ TornVersionIsRedone
        /\ WrittenProjectIsPendingOrStored
    BY DEF Init, HandledIsPendingOrStored, TornVersionIsRedone, IsOwed,
           WrittenProjectIsPendingOrStored, ProjectIsPendingOrStored
  <1> QED
    BY <1>3, <1>5, <1>6, <1>7, <1>8 DEF IInv

\* Time matters for no conjunct: it only makes paths ripe.
LEMMA TickKeeps ==
  ASSUME IInv, Tick
  PROVE  IInv'
  <1>1. /\ due' = due /\ older' = older /\ handed' = handed /\ now' = now + 1
        /\ content' = content /\ void' = void /\ withheld' = withheld
        /\ writes' = writes /\ flushes' = flushes
        /\ request' = request /\ events' = events
        /\ store' = store /\ unstable' = unstable /\ projects' = projects
        /\ recorded' = recorded /\ promised' = promised
        /\ pc' = pc /\ job' = job /\ crashes' = crashes
    BY DEF Tick, disk, files, auxiliary
  <1>2. TypeOK'
    BY <1>1 DEF IInv, TypeOK
  <1>3. Written' /\ JobIsRight'
    BY <1>1 DEF IInv, Written, IsWritten, JobIsRight
  <1>4. VersionIsRight' /\ CopyIsRight' /\ FilesComeFirst' /\ SnapshotIsRight'
    BY <1>1 DEF IInv, VersionIsRight, CopyIsRight, FilesComeFirst,
                SnapshotIsRight, IsSnapshot, Wanted, Owed
  <1>5. /\ HandledIsPendingOrStored' /\ TornVersionIsRedone'
        /\ WrittenProjectIsPendingOrStored'
    BY <1>1 DEF IInv, HandledIsPendingOrStored, TornVersionIsRedone, IsOwed,
                IsStored, Versions, WrittenProjectIsPendingOrStored,
                ProjectIsPendingOrStored
  <1> QED
    BY <1>2, <1>3, <1>4, <1>5 DEF IInv

\* The daemon comes up, sleeps, wakes up, is done with a path, or goes down.
LEMMA LoopKeeps ==
  ASSUME IInv,
         \/ Start \/ Load \/ PollTimesOut \/ NothingToTake
         \/ WriteIsIgnored \/ Acknowledge \/ ReadOverflow \/ Crash
  PROVE  IInv'
  <1>1. TypeOK /\ JobIsRight
    BY DEF IInv
  <1>2. pc \in {"down", "loading", "poll", "close_write", "timeout", "acknowledge"}
          => handed = None
    BY <1>1 DEF JobIsRight, Place
  <1>3. CASE Start \/ Load \/ PollTimesOut \/ NothingToTake
    <2>1. /\ pc \in {"down", "loading", "poll", "timeout"}
          /\ pc' \in {"down", "loading", "poll", "timeout"}
          /\ job' = job /\ due' = due /\ older' = older /\ handed' = handed
          /\ now' = now /\ content' = content /\ void' = void
          /\ withheld' = withheld
          /\ writes' = writes /\ flushes' = flushes /\ events' = events
          /\ store' = store /\ unstable' = unstable /\ projects' = projects
          /\ recorded' = recorded /\ promised' = promised /\ crashes' = crashes
      BY <1>3 DEF Start, Load, PollTimesOut, NothingToTake, queue, disk, files,
                  auxiliary
    <2>2. request' = request \/ request' = [f \in File |-> FALSE]
      BY <1>3 DEF Start, Load, PollTimesOut, NothingToTake, files
    <2>3. now' \in Int /\ crashes' \in Nat /\ handed' = None
      BY <1>1, <1>2, <2>1 DEF TypeOK
    <2> QED
      BY <2>1, <2>2, <2>3, IdleKeeps
  <1>4. CASE WriteIsIgnored \/ Acknowledge
    <2>1. /\ pc \in {"close_write", "acknowledge"} /\ pc' = "timeout"
          /\ job' = NoJob /\ due' = due /\ older' = older /\ handed' = handed
          /\ now' = now /\ content' = content /\ void' = void
          /\ withheld' = withheld
          /\ writes' = writes /\ flushes' = flushes /\ events' = events
          /\ store' = store /\ unstable' = unstable /\ projects' = projects
          /\ recorded' = recorded /\ promised' = promised /\ crashes' = crashes
          /\ request' = request
      BY <1>4 DEF WriteIsIgnored, Acknowledge, Returns, queue, disk, files,
                  auxiliary
    <2>2. now' \in Int /\ crashes' \in Nat /\ handed' = None
      BY <1>1, <1>2, <2>1 DEF TypeOK
    <2> QED
      BY <2>1, <2>2, IdleKeeps
  <1>5. CASE ReadOverflow \/ Crash
    <2>1. /\ pc' = "down" /\ job' = NoJob /\ events' = <<>>
          /\ due' = due /\ older' = older /\ handed' = None
          /\ now' = now /\ content' = content /\ void' = void
          /\ withheld' = withheld
          /\ writes' = writes /\ flushes' = flushes
          /\ store' = store /\ unstable' = unstable /\ projects' = projects
          /\ recorded' = recorded /\ promised' = promised
          /\ request' = request
          /\ (pc = "poll" /\ crashes' = crashes) \/ crashes' = crashes + 1
      BY <1>5 DEF ReadOverflow, Crash, Down, Q!Abandon, disk, files, auxiliary
    <2>2. now' \in Int /\ crashes' \in Nat /\ (crashes' = 0 => crashes = 0)
      BY <1>1, <2>1 DEF TypeOK
    <2>3. pc \notin {"link", "push_root"} \/ crashes' # 0
      BY <1>1, <2>1 DEF TypeOK
    <2> QED
      BY <2>1, <2>2, <2>3, IdleKeeps
  <1> QED
    BY <1>3, <1>4, <1>5

\* The job is the event at the head of the kernel's queue.
LEMMA ReadEventKeeps ==
  ASSUME IInv, ReadEvent
  PROVE  IInv'
  <1> DEFINE e == Head(events)
  <1>1. /\ due' = due /\ older' = older /\ handed' = handed /\ now' = now
        /\ content' = content /\ void' = void /\ withheld' = withheld
        /\ writes' = writes /\ flushes' = flushes /\ request' = request
        /\ store' = store /\ unstable' = unstable /\ projects' = projects
        /\ recorded' = recorded /\ promised' = promised /\ crashes' = crashes
        /\ pc = "poll" /\ pc' = "close_write"
        /\ events # <<>> /\ events' = Tail(events) /\ e.path # Overflow
        /\ job' = [NoJob EXCEPT !.path = e.path, !.write = e.write]
    BY DEF ReadEvent, queue, disk, files, auxiliary
  <1>2. TypeOK /\ Written /\ JobIsRight
    BY DEF IInv
  <1>3. /\ events \in Seq([path : File \cup {Overflow}, write : Nat])
        /\ 1 \in DOMAIN events /\ e = events[1]
    BY <1>1, <1>2 DEF TypeOK
  <1>4. e.path \in File /\ e.write \in Nat
    BY <1>1, <1>2, <1>3, EventTypes
  <1>5. /\ job' \in Job /\ job'.path = e.path /\ job'.write = e.write
        /\ job'.flush = FALSE
    BY <1>1, <1>4 DEF NoJob, Job
  <1>6. TypeOK'
    <2>1. events' \in Seq([path : File \cup {Overflow}, write : Nat])
      BY <1>1, <1>3
    <2> QED
      BY <1>1, <1>2, <1>5, <2>1 DEF TypeOK, Place
  <1>7. Written'
    <2>1. IsWritten(job.path, job.write)'
      <3>1. IsWritten(e.path, e.write)
        BY <1>2, <1>3, <1>4 DEF Written
      <3> QED
        BY <1>1, <1>5, <3>1 DEF IsWritten
    <2>2. ASSUME NEW i \in DOMAIN events', events'[i].path \in File
          PROVE  IsWritten(events[i].path, events[i].write)'
      <3>1. i + 1 \in DOMAIN events /\ events'[i] = events[i + 1]
        BY <1>1, <1>3, <2>2
      <3>2. IsWritten(events[i + 1].path, events[i + 1].write)
        BY <1>2, <2>2, <3>1 DEF Written
      <3> QED
        BY <1>1, <3>1, <3>2 DEF IsWritten
    <2>3. /\ \A f \in File : (IsWritten(f, recorded[f]) /\ IsWritten(f, promised[f]))'
          /\ \A f \in File : /\ content'[f] <= writes'
                             /\ f \in withheld' => content'[f] <= void'[f]
      BY <1>1, <1>2 DEF Written, IsWritten
    <2> QED
      BY <2>1, <2>2, <2>3 DEF Written
  <1>8. JobIsRight'
    BY <1>1, <1>2, <1>4, <1>5 DEF JobIsRight, Place
  <1>9. VersionIsRight' /\ SnapshotIsRight'
    BY <1>1 DEF VersionIsRight, SnapshotIsRight, IsSnapshot
  <1>10. CopyIsRight' /\ FilesComeFirst'
    BY <1>1 DEF IInv, CopyIsRight, FilesComeFirst, Owed
  <1>11. /\ HandledIsPendingOrStored' /\ TornVersionIsRedone'
         /\ WrittenProjectIsPendingOrStored'
    BY <1>1 DEF IInv, HandledIsPendingOrStored, TornVersionIsRedone, IsOwed,
                IsStored, Versions, WrittenProjectIsPendingOrStored,
                ProjectIsPendingOrStored
  <1> QED
    BY <1>6, <1>7, <1>8, <1>9, <1>10, <1>11 DEF IInv

\* The file is in the queue before the daemon has recorded the write.
LEMMA PushFileKeeps ==
  ASSUME IInv, PushFile
  PROVE  IInv'
  <1> DEFINE p == job.path
  <1>1. /\ now' = now /\ content' = content /\ void' = void
        /\ withheld' = withheld /\ writes' = writes /\ flushes' = flushes
        /\ request' = request /\ events' = events
        /\ store' = store /\ unstable' = unstable /\ projects' = projects
        /\ promised' = promised /\ crashes' = crashes
        /\ pc = "close_write"
        /\ \/ RootOf[p] # None /\ pc' = "push_root" /\ job' = job
           \/ RootOf[p] = None /\ pc' = "timeout" /\ job' = NoJob
    BY DEF PushFile, Returns, queue, disk, files, Q!Push
  <1>2. TypeOK /\ Written /\ JobIsRight
    BY DEF IInv
  <1>3. p \in File /\ p \notin Root /\ job.write \in Nat /\ handed = None
    BY <1>1, <1>2, Kinds DEF JobIsRight, TypeOK, Job, Place
  <1>4. /\ due' \in [File \cup Root -> Int \cup {None}]
        /\ older' \in [File \cup Root -> SUBSET (File \cup Root)]
        /\ handed' = None
        /\ \A q \in File \cup Root : q # p => due'[q] = due[q]
        /\ \A q \in File \cup Root : q # p =>
             older'[q] \subseteq older[q] /\ older[q] \subseteq older'[q] \cup {p}
        /\ \A f \in File : f # p => recorded'[f] = recorded[f]
        /\ recorded' \in [File -> Nat]
        /\ \/ recorded' = recorded /\ due' = due
           \/ recorded'[p] = job.write /\ due'[p] # None
    <2>1. CASE IsDeleted
      <3>1. due' = due /\ older' = older /\ handed' = handed /\ recorded' = recorded
        BY <2>1 DEF PushFile, queue
      <3> QED
        BY <1>2, <1>3, <3>1 DEF TypeOK
    <2>2. CASE ~IsDeleted
      <3>1. Q!Push(p) /\ recorded' = [recorded EXCEPT ![p] = job.write]
        BY <2>2 DEF PushFile
      <3>2. /\ recorded' \in [File -> Nat] /\ recorded'[p] = job.write
            /\ \A f \in File : f # p => recorded'[f] = recorded[f]
        BY <1>2, <1>3, <3>1 DEF TypeOK
      <3>3. /\ due' \in [File \cup Root -> Int \cup {None}]
            /\ older' \in [File \cup Root -> SUBSET (File \cup Root)]
            /\ handed' = None
            /\ due'[p] # None
            /\ \A q \in File \cup Root : q # p => due'[q] = due[q]
            /\ \A q \in File \cup Root : q # p => older'[q] = older[q] \ {p}
        BY <1>2, <1>3, <3>1, PushChanges
      <3> QED
        BY <3>2, <3>3
    <2> QED
      BY <2>1, <2>2
  <1> HIDE DEF p
  <1>5. TypeOK'
    <2>1. job' \in Job
      BY <1>1, <1>2, NoJobIsJob DEF TypeOK
    <2> QED
      BY <1>1, <1>2, <1>4, <2>1 DEF TypeOK, Place
  <1>6. Written'
    <2>1. \A f \in File : IsWritten(f, recorded[f])'
      BY <1>1, <1>2, <1>3, <1>4 DEF Written, IsWritten, p
    <2>2. job'.path \in File => IsWritten(job.path, job.write)'
      BY <1>1, <1>2, Kinds DEF Written, IsWritten, NoJob
    <2>3. \A i \in DOMAIN events : events[i].path \in File =>
             IsWritten(events[i].path, events[i].write)'
      BY <1>1, <1>2 DEF Written, IsWritten
    <2>4. /\ \A f \in File : IsWritten(f, promised[f])'
          /\ \A f \in File : /\ content'[f] <= writes'
                             /\ f \in withheld' => content'[f] <= void'[f]
      BY <1>1, <1>2 DEF Written, IsWritten
    <2> QED
      BY <1>1, <2>1, <2>2, <2>3, <2>4 DEF Written
  <1>7. JobIsRight'
    BY <1>1, <1>2, <1>3, <1>4 DEF JobIsRight, Place, NoJob, p
  <1>8. VersionIsRight' /\ SnapshotIsRight'
    BY <1>1 DEF VersionIsRight, SnapshotIsRight, IsSnapshot
  <1>9. CopyIsRight'
    BY <1>1, <1>3, <1>4 DEF IInv, CopyIsRight, Owed
  <1>10. FilesComeFirst'
    <2>1. ASSUME crashes = 0, NEW f \in File, RootOf[f] # None, due'[f] # None,
                 f # p
          PROVE  due'[RootOf[f]] # None /\ f \in older'[RootOf[f]]
      <3>1. RootOf[f] \in File \cup Root /\ RootOf[f] # p
        BY <1>3, <2>1, Kinds
      <3>2. due[RootOf[f]] # None /\ f \in older[RootOf[f]]
        BY <1>1, <1>4, <2>1 DEF IInv, FilesComeFirst
      <3> QED
        BY <1>4, <2>1, <3>1, <3>2
    <2> QED
      BY <1>1, <2>1 DEF FilesComeFirst, p
  <1>11. HandledIsPendingOrStored'
    BY <1>1, <1>3, <1>4 DEF IInv, HandledIsPendingOrStored, IsOwed, IsStored,
                            Versions
  <1>12. TornVersionIsRedone'
    BY <1>1, <1>3, <1>4 DEF IInv, TornVersionIsRedone, IsOwed
  <1>13. WrittenProjectIsPendingOrStored'
    <2>1. ASSUME flushes = 0, crashes = 0, NEW f \in File, RootOf[f] # None,
                 recorded'[f] > void[f], RootOf[f] # RootOf[p]
          PROVE  \/ due'[RootOf[f]] # None
                 \/ /\ projects[RootOf[f]] # <<>>
                    /\ Last(projects[RootOf[f]])[f] >= recorded'[f]
      <3>1. RootOf[f] \in File \cup Root /\ RootOf[f] # p /\ f # p
        BY <1>3, <2>1, Kinds
      <3> QED
        BY <1>1, <1>4, <2>1, <3>1
           DEF IInv, WrittenProjectIsPendingOrStored, ProjectIsPendingOrStored,
               IsOwed
    <2> QED
      BY <1>1, <2>1
         DEF WrittenProjectIsPendingOrStored, ProjectIsPendingOrStored, IsOwed, p
  <1> QED
    BY <1>5, <1>6, <1>7, <1>8, <1>9, <1>10, <1>11, <1>12, <1>13 DEF IInv

\* All files that are pending are in front of the root that is pushed.
LEMMA PushRootKeeps ==
  ASSUME IInv, PushRoot
  PROVE  IInv'
  <1> DEFINE r == RootOf[job.path]
  <1>1. /\ now' = now /\ content' = content /\ void' = void
        /\ withheld' = withheld /\ writes' = writes /\ flushes' = flushes
        /\ request' = request /\ events' = events
        /\ store' = store /\ unstable' = unstable /\ projects' = projects
        /\ recorded' = recorded /\ crashes' = crashes
        /\ pc = "push_root" /\ pc' = "timeout" /\ job' = NoJob
        /\ promised' = [f \in File |-> IF RootOf[f] = r THEN recorded[f]
                                       ELSE promised[f]]
        /\ Q!Push(r)
    BY DEF PushRoot, Returns, queue, disk, files, Q!Push
  <1>2. TypeOK /\ Written /\ JobIsRight
    BY DEF IInv
  <1>3. job.path \in File /\ r \in Root /\ r \notin File
    BY <1>1, <1>2, Kinds DEF JobIsRight
  <1> HIDE DEF r
  <1>4. /\ due' \in [File \cup Root -> Int \cup {None}]
        /\ older' \in [File \cup Root -> SUBSET (File \cup Root)]
        /\ handed' = None
        /\ due'[r] # None
        /\ \A q \in File \cup Root : q # r => due'[q] = due[q]
        /\ older'[r] = {q \in File \cup Root : due[q] # None} \ {r}
        /\ \A q \in File \cup Root : q # r => older'[q] = older[q] \ {r}
    BY <1>1, <1>2, <1>3, PushChanges, ZenonT(40)
  <1>5. /\ promised' \in [File -> Nat]
        /\ \A f \in File : promised'[f] \in {recorded[f], promised[f]}
    BY <1>1, <1>2 DEF TypeOK
  <1>6. TypeOK'
    BY <1>1, <1>2, <1>4, <1>5, NoJobIsJob DEF TypeOK, Place
  <1>7. Written'
    <2>1. \A f \in File : (IsWritten(f, recorded[f]) /\ IsWritten(f, promised[f]))'
      BY <1>1, <1>2, <1>5 DEF Written, IsWritten
    <2>2. \A i \in DOMAIN events : events[i].path \in File =>
             IsWritten(events[i].path, events[i].write)'
      BY <1>1, <1>2 DEF Written, IsWritten
    <2> QED
      BY <1>1, <1>2, <2>1, <2>2, NoJobIsJob, Kinds DEF Written
  <1>8. JobIsRight'
    BY <1>1, <1>2, <1>4, NoJobIsJob DEF JobIsRight
  <1>9. VersionIsRight' /\ SnapshotIsRight'
    BY <1>1 DEF VersionIsRight, SnapshotIsRight, IsSnapshot
  <1>10. CopyIsRight'
    BY <1>1, <1>3, <1>4, <1>5 DEF IInv, CopyIsRight, Owed
  <1>11. FilesComeFirst'
    <2>1. ASSUME crashes = 0, NEW f \in File, RootOf[f] # None, due'[f] # None
          PROVE  due'[RootOf[f]] # None /\ f \in older'[RootOf[f]]
      <3>1. f # r /\ RootOf[f] \in File \cup Root /\ due[f] # None
        BY <1>3, <1>4, <2>1, Kinds
      <3>2. CASE RootOf[f] = r
        BY <1>4, <3>1, <3>2
      <3>3. CASE RootOf[f] # r
        <4>1. due[RootOf[f]] # None /\ f \in older[RootOf[f]]
          BY <1>1, <2>1, <3>1, <3>3 DEF IInv, FilesComeFirst, r
        <4> QED
          BY <1>4, <3>1, <3>3, <4>1
      <3> QED
        BY <3>2, <3>3
    <2> QED
      BY <1>1, <2>1 DEF FilesComeFirst
  <1>12. HandledIsPendingOrStored' /\ TornVersionIsRedone'
    BY <1>1, <1>3, <1>4 DEF IInv, HandledIsPendingOrStored, TornVersionIsRedone,
                            IsOwed, IsStored, Versions
  <1>13. WrittenProjectIsPendingOrStored'
    <2>1. ASSUME flushes = 0, crashes = 0, NEW f \in File, RootOf[f] # None,
                 recorded[f] > void[f], RootOf[f] # r
          PROVE  \/ due'[RootOf[f]] # None
                 \/ /\ projects[RootOf[f]] # <<>>
                    /\ Last(projects[RootOf[f]])[f] >= recorded[f]
      <3>1. RootOf[f] \in File \cup Root
        BY <2>1, Kinds
      <3> QED
        BY <1>1, <1>4, <2>1, <3>1
           DEF IInv, WrittenProjectIsPendingOrStored, ProjectIsPendingOrStored,
               IsOwed, r
    <2> QED
      BY <1>1, <1>4, <2>1
         DEF WrittenProjectIsPendingOrStored, ProjectIsPendingOrStored, IsOwed
  <1> QED
    BY <1>6, <1>7, <1>8, <1>9, <1>10, <1>11, <1>12, <1>13 DEF IInv

\* Only a job that a write started has a request.
LEMMA TakeRequestKeeps ==
  ASSUME IInv, TakeRequest
  PROVE  IInv'
  <1>1. /\ due' = due /\ older' = older /\ handed' = handed /\ now' = now
        /\ content' = content /\ void' = void /\ withheld' = withheld
        /\ writes' = writes /\ flushes' = flushes /\ events' = events
        /\ store' = store /\ unstable' = unstable /\ projects' = projects
        /\ recorded' = recorded /\ promised' = promised /\ crashes' = crashes
        /\ pc = "close_write" /\ pc' = "open"
        /\ request[job.path]
        /\ request' = [request EXCEPT ![job.path] = FALSE]
        /\ job' = [job EXCEPT !.flush = TRUE]
    BY DEF TakeRequest, IsRequested, queue, disk, auxiliary
  <1>2. TypeOK /\ Written /\ JobIsRight
    BY DEF IInv
  <1>3. /\ job.path \in File /\ handed = None /\ flushes # 0
        /\ job' \in Job /\ job'.path = job.path /\ job'.write = job.write
        /\ job'.flush = TRUE
    BY <1>1, <1>2 DEF JobIsRight, TypeOK, Job, Place
  <1>4. TypeOK'
    BY <1>1, <1>2, <1>3 DEF TypeOK, Place
  <1>5. Written'
    BY <1>1, <1>2, <1>3 DEF Written, IsWritten
  <1>6. JobIsRight'
    BY <1>1, <1>2, <1>3 DEF JobIsRight, TypeOK, Place
  <1>7. VersionIsRight' /\ SnapshotIsRight'
    BY <1>1 DEF VersionIsRight, SnapshotIsRight, IsSnapshot
  <1>8. CopyIsRight' /\ FilesComeFirst'
    BY <1>1 DEF IInv, CopyIsRight, FilesComeFirst, Owed
  <1>9. /\ HandledIsPendingOrStored' /\ TornVersionIsRedone'
        /\ WrittenProjectIsPendingOrStored'
    BY <1>1 DEF IInv, HandledIsPendingOrStored, TornVersionIsRedone, IsOwed,
                IsStored, Versions, WrittenProjectIsPendingOrStored,
                ProjectIsPendingOrStored
  <1> QED
    BY <1>4, <1>5, <1>6, <1>7, <1>8, <1>9 DEF IInv

\* The write that is cancelled is in the version that was made.
LEMMA CancelPendingKeeps ==
  ASSUME IInv, CancelPending
  PROVE  IInv'
  <1> DEFINE p == job.path
  <1>1. /\ now' = now /\ content' = content /\ void' = void
        /\ withheld' = withheld /\ writes' = writes /\ flushes' = flushes
        /\ request' = request /\ events' = events
        /\ store' = store /\ unstable' = unstable /\ projects' = projects
        /\ promised' = promised /\ crashes' = crashes
        /\ pc = "stored" /\ pc' = "acknowledge" /\ job' = job
        /\ job.flush
        /\ recorded' = [recorded EXCEPT ![p] = job.write]
        /\ handed' = handed /\ handed = None
        /\ Q!Forget(p)
    BY DEF CancelPending, Q!Cancel, disk, files
  <1>2. TypeOK /\ Written /\ JobIsRight
    BY DEF IInv
  <1>3. p \in File /\ p \notin Root /\ job.write \in Nat /\ flushes # 0
    BY <1>1, <1>2, Kinds DEF JobIsRight, TypeOK, Job
  <1>4. /\ due' \in [File \cup Root -> Int \cup {None}]
        /\ older' \in [File \cup Root -> SUBSET (File \cup Root)]
        /\ due'[p] = None
        /\ \A q \in File \cup Root : q # p => due'[q] = due[q]
        /\ \A q \in File \cup Root : q # p => older'[q] = older[q] \ {p}
    BY <1>1, <1>2, <1>3, ForgetChanges
  <1>5. /\ recorded' \in [File -> Nat] /\ recorded'[p] = job.write
        /\ \A f \in File : f # p => recorded'[f] = recorded[f]
    BY <1>1, <1>2, <1>3 DEF TypeOK
  <1>6. \A w \in Wanted(p) :
          /\ store[p] # <<>> /\ w <= Last(store[p])
          /\ RootOf[p] # None => w <= unstable[p]
    BY <1>1, <1>3 DEF IInv, VersionIsRight
  <1> HIDE DEF p
  <1>7. TypeOK'
    BY <1>1, <1>2, <1>4, <1>5 DEF TypeOK, Place
  <1>8. Written'
    <2>1. \A f \in File : IsWritten(f, recorded[f])'
      BY <1>1, <1>2, <1>3, <1>5 DEF Written, IsWritten, p
    <2>2. /\ \A f \in File : IsWritten(f, promised[f])'
          /\ \A f \in File : /\ content'[f] <= writes'
                             /\ f \in withheld' => content'[f] <= void'[f]
          /\ IsWritten(job.path, job.write)'
      BY <1>1, <1>2, <1>3 DEF Written, IsWritten, p
    <2>3. \A i \in DOMAIN events : events[i].path \in File =>
             IsWritten(events[i].path, events[i].write)'
      BY <1>1, <1>2 DEF Written, IsWritten
    <2> QED
      BY <1>1, <2>1, <2>2, <2>3 DEF Written
  <1>9. JobIsRight'
    BY <1>1, <1>2, <1>3 DEF JobIsRight, Place, p
  <1>10. VersionIsRight' /\ SnapshotIsRight'
    BY <1>1 DEF VersionIsRight, SnapshotIsRight, IsSnapshot
  <1>11. CopyIsRight'
    <2>1. \A f \in File : f = p => \A w \in Owed(f)' : w \in Wanted(f)
      BY <1>1, <1>3, <1>5 DEF Owed, Wanted, p
    <2>2. \A f \in File : f # p => Owed(f)' = Owed(f) /\ due'[f] = due[f]
      BY <1>1, <1>4, <1>5 DEF Owed
    <2> QED
      BY <1>1, <1>6, <2>1, <2>2 DEF IInv, CopyIsRight
  <1>12. FilesComeFirst'
    <2>1. ASSUME crashes = 0, NEW f \in File, RootOf[f] # None, due'[f] # None
          PROVE  due'[RootOf[f]] # None /\ f \in older'[RootOf[f]]
      <3>1. f # p /\ RootOf[f] \in File \cup Root /\ RootOf[f] # p
        BY <1>3, <1>4, <2>1, Kinds
      <3>2. due[RootOf[f]] # None /\ f \in older[RootOf[f]]
        BY <1>1, <1>4, <2>1, <3>1 DEF IInv, FilesComeFirst
      <3> QED
        BY <1>4, <3>1, <3>2
    <2> QED
      BY <1>1, <2>1 DEF FilesComeFirst
  <1>13. HandledIsPendingOrStored'
    <2>1. ASSUME job.write > void[p]
          PROVE  \E c \in Versions(p) : c >= job.write
      <3>1. job.write \in Wanted(p)
        BY <2>1 DEF Wanted, p
      <3>2. store[p] # <<>> /\ Last(store[p]) >= job.write
        BY <1>2, <1>3, <1>6, <3>1 DEF TypeOK, Last
      <3> QED
        BY <1>2, <1>3, <3>2, LastIsVersion
    <2>2. \A f \in File : f # p => due'[f] = due[f]
      BY <1>4
    <2> QED
      BY <1>1, <1>3, <1>5, <2>1, <2>2
         DEF IInv, HandledIsPendingOrStored, IsOwed, IsStored, Versions
  <1>14. TornVersionIsRedone' /\ WrittenProjectIsPendingOrStored'
    BY <1>1, <1>3 DEF TornVersionIsRedone, WrittenProjectIsPendingOrStored
  <1> QED
    BY <1>7, <1>8, <1>9, <1>10, <1>11, <1>12, <1>13, <1>14 DEF IInv

\* The path that is handed out is pending, and no path is in front of it.
LEMMA TakeHeadKeeps ==
  ASSUME IInv, NEW p \in File \cup Root, TakeHead(p)
  PROVE  IInv'
  <1>1. /\ due' = due /\ older' = older /\ now' = now
        /\ content' = content /\ void' = void /\ withheld' = withheld
        /\ writes' = writes /\ flushes' = flushes
        /\ request' = request /\ events' = events
        /\ store' = store /\ unstable' = unstable /\ projects' = projects
        /\ recorded' = recorded /\ promised' = promised /\ crashes' = crashes
        /\ pc = "timeout"
        /\ pc' = IF p \in Root THEN "snapshot" ELSE "open"
        /\ job' = [NoJob EXCEPT !.path = p]
        /\ handed' = p /\ due[p] # None /\ older[p] = {}
    BY DEF TakeHead, Q!Take, Q!Ripe, disk, files, auxiliary
  <1>2. TypeOK /\ Written /\ JobIsRight
    BY DEF IInv
  <1>3. /\ job' \in Job /\ job'.path = p /\ job'.write = 0 /\ job'.flush = FALSE
    BY <1>1 DEF NoJob, Job
  <1>4. TypeOK'
    BY <1>1, <1>2, <1>3 DEF TypeOK, Place
  <1>5. Written'
    <2>1. \A f \in File : content[f] \in Nat /\ void[f] \in Nat
      BY <1>2 DEF TypeOK
    <2>2. writes \in Nat
      BY <1>2 DEF TypeOK
    <2> QED
      BY <1>1, <1>2, <1>3, <2>1, <2>2 DEF Written, IsWritten
  <1>6. JobIsRight'
    BY <1>1, <1>2, <1>3, Kinds DEF JobIsRight, Place
  <1>7. VersionIsRight' /\ SnapshotIsRight'
    BY <1>1 DEF VersionIsRight, SnapshotIsRight, IsSnapshot
  <1>8. CopyIsRight' /\ FilesComeFirst'
    BY <1>1 DEF IInv, CopyIsRight, FilesComeFirst, Owed
  <1>9. /\ HandledIsPendingOrStored' /\ TornVersionIsRedone'
        /\ WrittenProjectIsPendingOrStored'
    BY <1>1 DEF IInv, HandledIsPendingOrStored, TornVersionIsRedone, IsOwed,
                IsStored, Versions, WrittenProjectIsPendingOrStored,
                ProjectIsPendingOrStored
  <1> QED
    BY <1>4, <1>5, <1>6, <1>7, <1>8, <1>9 DEF IInv

\* Nothing is owed for a file that does not exist or is withheld.
LEMMA NothingIsOwed ==
  ASSUME TypeOK, Written, NEW f \in File, content[f] = 0 \/ f \in withheld
  PROVE  Owed(f) = {} /\ (job.path = f => Wanted(f) = {})
  <1>1. /\ recorded[f] \in Nat /\ promised[f] \in Nat /\ void[f] \in Nat
        /\ content[f] \in Nat /\ job.write \in Nat
    BY DEF TypeOK, Job
  <1>2. \A w \in Nat : IsWritten(f, w) => ~(w > void[f])
    BY <1>1 DEF IsWritten, Written
  <1>3. /\ IsWritten(f, recorded[f]) /\ IsWritten(f, promised[f])
        /\ job.path = f => IsWritten(f, job.write)
    BY DEF Written
  <1> QED
    BY <1>1, <1>2, <1>3 DEF Owed, Wanted

\* Nothing is owed for a file that is not there any more.
LEMMA SourceIsMissingKeeps ==
  ASSUME IInv, SourceIsMissing
  PROVE  IInv'
  <1>1. /\ due' = due /\ older' = older /\ handed' = handed /\ now' = now
        /\ content' = content /\ void' = void /\ withheld' = withheld
        /\ writes' = writes /\ flushes' = flushes
        /\ request' = request /\ events' = events
        /\ store' = store /\ unstable' = unstable /\ projects' = projects
        /\ recorded' = recorded /\ promised' = promised /\ crashes' = crashes
        /\ pc = "open" /\ pc' = "stored" /\ job' = job
        /\ content[job.path] = 0 \/ job.path \in withheld
    BY DEF SourceIsMissing, IsThere, queue, disk, files, auxiliary
  <1>2. TypeOK /\ Written /\ JobIsRight
    BY DEF IInv
  <1>3. job.path \in File /\ job.path \notin Root /\ job.path # None
    BY <1>1, <1>2, Kinds DEF JobIsRight
  <1>4. TypeOK'
    BY <1>1, <1>2 DEF TypeOK, Place
  <1>5. Written'
    BY <1>1, <1>2 DEF Written, IsWritten
  <1>6. JobIsRight'
    BY <1>1, <1>2, <1>3 DEF JobIsRight, Place
  <1>7. VersionIsRight'
    <2>1. Wanted(job.path) = {}
      BY <1>1, <1>2, <1>3, NothingIsOwed
    <2>2. Wanted(job.path)' = Wanted(job.path)
      BY <1>1 DEF Wanted
    <2> QED
      BY <1>1, <2>1, <2>2 DEF VersionIsRight
  <1>8. SnapshotIsRight'
    BY <1>1, <1>3 DEF SnapshotIsRight, IsSnapshot
  <1>9. CopyIsRight' /\ FilesComeFirst'
    BY <1>1 DEF IInv, CopyIsRight, FilesComeFirst, Owed
  <1>10. /\ HandledIsPendingOrStored' /\ TornVersionIsRedone'
         /\ WrittenProjectIsPendingOrStored'
    BY <1>1 DEF IInv, HandledIsPendingOrStored, TornVersionIsRedone, IsOwed,
                IsStored, Versions, WrittenProjectIsPendingOrStored,
                ProjectIsPendingOrStored
  <1> QED
    BY <1>4, <1>5, <1>6, <1>7, <1>8, <1>9, <1>10 DEF IInv

\* Nothing is owed for a file whose version stays empty.
LEMMA SourceIsNotRegularKeeps ==
  ASSUME IInv, SourceIsNotRegular
  PROVE  IInv'
  <1> DEFINE p == job.path
             s == Append(store[p], 0)
  <1>1. /\ due' = due /\ older' = older /\ handed' = handed /\ now' = now
        /\ content' = content /\ void' = void /\ withheld' = withheld
        /\ writes' = writes /\ flushes' = flushes
        /\ request' = request /\ events' = events
        /\ unstable' = unstable /\ projects' = projects
        /\ recorded' = recorded /\ promised' = promised /\ crashes' = crashes
        /\ pc = "open" /\ pc' = "stored" /\ job' = job
        /\ p \in withheld
        /\ store' = [store EXCEPT ![p] = s]
    BY DEF SourceIsNotRegular, queue, files, auxiliary
  <1>2. TypeOK /\ Written /\ JobIsRight
    BY DEF IInv
  <1>3. p \in File /\ p \notin Root /\ p # None
    BY <1>1, <1>2, Kinds DEF JobIsRight
  <1>4. Owed(p) = {} /\ Wanted(p) = {}
    BY <1>1, <1>2, <1>3, NothingIsOwed
  <1>5. /\ s \in Seq(Nat)
        /\ \A i \in DOMAIN store[p] : i \in DOMAIN s /\ s[i] = store[p][i]
    <2>1. store[p] \in Seq(Nat) /\ 0 \in Nat
      BY <1>2, <1>3 DEF TypeOK
    <2> QED
      BY <2>1, LastOfAppend
  <1> HIDE DEF s
  <1>6. /\ store' \in [File -> Seq(Nat)] /\ store'[p] = s
        /\ \A f \in File : f # p => store'[f] = store[f]
    BY <1>1, <1>2, <1>3, <1>5 DEF TypeOK
  <1>7. TypeOK'
    BY <1>1, <1>2, <1>6 DEF TypeOK, Place
  <1>8. Written'
    BY <1>1, <1>2 DEF Written, IsWritten
  <1>9. JobIsRight'
    BY <1>1, <1>2, <1>3 DEF JobIsRight, Place
  <1>10. VersionIsRight'
    <2>1. Wanted(job.path)' = Wanted(p)
      BY <1>1 DEF Wanted
    <2> QED
      BY <1>1, <1>4, <2>1 DEF VersionIsRight
  <1>11. SnapshotIsRight'
    BY <1>1, <1>3 DEF SnapshotIsRight, IsSnapshot
  <1>12. CopyIsRight' /\ FilesComeFirst'
    BY <1>1 DEF IInv, CopyIsRight, FilesComeFirst, Owed
  <1>13. HandledIsPendingOrStored'
    <2>1. \A f \in File : \A c \in Versions(f) : c \in Versions(f)'
      BY <1>5, <1>6 DEF Versions
    <2> QED
      BY <1>1, <2>1 DEF IInv, HandledIsPendingOrStored, IsOwed, IsStored
  <1>14. TornVersionIsRedone'
    <2>1. ~IsOwed(p)
      BY <1>4 DEF IsOwed, Owed
    <2> QED
      BY <1>1, <1>6, <2>1 DEF IInv, TornVersionIsRedone, IsOwed
  <1>15. WrittenProjectIsPendingOrStored'
    BY <1>1 DEF IInv, IsOwed, WrittenProjectIsPendingOrStored,
                ProjectIsPendingOrStored
  <1> QED
    BY <1>7, <1>8, <1>9, <1>10, <1>11, <1>12, <1>13, <1>14, <1>15 DEF IInv

\* What is wanted is in the content that is about to be read.
LEMMA CreateVersionKeeps ==
  ASSUME IInv, CreateVersion
  PROVE  IInv'
  <1> DEFINE p == job.path
             s == Append(store[p], 0)
  <1>1. /\ due' = due /\ older' = older /\ handed' = handed /\ now' = now
        /\ content' = content /\ void' = void /\ withheld' = withheld
        /\ writes' = writes /\ flushes' = flushes
        /\ request' = request /\ events' = events
        /\ unstable' = unstable /\ projects' = projects
        /\ recorded' = recorded /\ promised' = promised /\ crashes' = crashes
        /\ pc = "open" /\ pc' = "copy"
        /\ store' = [store EXCEPT ![p] = s]
        /\ job' = [job EXCEPT !.seen = content[p]]
    BY DEF CreateVersion, queue, files, auxiliary
  <1>2. TypeOK /\ Written /\ JobIsRight
    BY DEF IInv
  <1>3. p \in File /\ p \notin Root /\ p # None
    BY <1>1, <1>2, Kinds DEF JobIsRight
  <1>4. /\ job' \in Job /\ job'.path = p /\ job'.write = job.write
        /\ job'.flush = job.flush /\ job'.seen = content[p]
    BY <1>1, <1>2, <1>3 DEF TypeOK, Job
  <1>5. /\ s \in Seq(Nat) /\ s # <<>> /\ Last(s) = 0
        /\ \A i \in DOMAIN store[p] : i \in DOMAIN s /\ s[i] = store[p][i]
    <2>1. store[p] \in Seq(Nat) /\ 0 \in Nat
      BY <1>2, <1>3 DEF TypeOK
    <2> QED
      BY <2>1, LastOfAppend
  <1> HIDE DEF s
  <1>6. /\ store' \in [File -> Seq(Nat)] /\ store'[p] = s
        /\ \A f \in File : f # p => store'[f] = store[f]
    BY <1>1, <1>2, <1>3, <1>5 DEF TypeOK
  <1>7. TypeOK'
    BY <1>1, <1>2, <1>4, <1>6 DEF TypeOK, Place
  <1>8. Written'
    BY <1>1, <1>2, <1>4 DEF Written, IsWritten
  <1>9. JobIsRight'
    BY <1>1, <1>2, <1>3, <1>4 DEF JobIsRight, Place
  <1>10. VersionIsRight'
    <2>1. \A w \in Wanted(p) : w <= content[p]
      BY <1>2, <1>3 DEF TypeOK, Job, Written, IsWritten, Wanted
    <2>2. \A w : w \in Wanted(job.path)' <=> w \in Wanted(p)
      BY <1>1, <1>4 DEF Wanted
    <2> QED
      BY <1>1, <1>4, <1>5, <1>6, <2>1, <2>2 DEF VersionIsRight
  <1>11. SnapshotIsRight'
    BY <1>1 DEF SnapshotIsRight, IsSnapshot
  <1>12. CopyIsRight' /\ FilesComeFirst'
    BY <1>1 DEF IInv, CopyIsRight, FilesComeFirst, Owed
  <1>13. HandledIsPendingOrStored'
    <2>1. \A f \in File : \A c \in Versions(f) : c \in Versions(f)'
      BY <1>5, <1>6 DEF Versions
    <2> QED
      BY <1>1, <2>1 DEF IInv, HandledIsPendingOrStored, IsOwed, IsStored
  <1>14. TornVersionIsRedone'
    <2>1. flushes = 0 => due[p] # None
      BY <1>1, <1>2, <1>3 DEF JobIsRight
    <2> QED
      BY <1>1, <1>6, <2>1 DEF IInv, TornVersionIsRedone, IsOwed
  <1>15. WrittenProjectIsPendingOrStored'
    BY <1>1 DEF IInv, IsOwed, WrittenProjectIsPendingOrStored,
                ProjectIsPendingOrStored
  <1> QED
    BY <1>7, <1>8, <1>9, <1>10, <1>11, <1>12, <1>13, <1>14, <1>15 DEF IInv

\* A copy that sees a later write, or none, is good enough.
LEMMA CopyVersionKeeps ==
  ASSUME IInv, CopyVersion
  PROVE  IInv'
  <1> DEFINE p == job.path
  <1>1. /\ due' = due /\ older' = older /\ handed' = handed /\ now' = now
        /\ content' = content /\ void' = void /\ withheld' = withheld
        /\ writes' = writes /\ flushes' = flushes
        /\ request' = request /\ events' = events
        /\ unstable' = unstable /\ projects' = projects
        /\ recorded' = recorded /\ promised' = promised /\ crashes' = crashes
        /\ job' = job
        /\ pc = "copy"
        /\ pc' = IF RootOf[p] = None THEN "stored" ELSE "unlink"
    BY DEF CopyVersion, queue, files, auxiliary
  <1>2. PICK c \in {job.seen, content[p]} \ {0} :
          store' = [store EXCEPT ![p] = [@ EXCEPT ![Len(@)] = c]]
    BY DEF CopyVersion
  <1>3. TypeOK /\ Written /\ JobIsRight
    BY DEF IInv
  <1>4. /\ p \in File /\ p \notin Root /\ p # None
        /\ store[p] \in Seq(Nat) /\ store[p] # <<>> /\ Last(store[p]) = 0
        /\ \A w \in Wanted(p) : w <= job.seen
    BY <1>1, <1>3, Kinds DEF IInv, JobIsRight, TypeOK, VersionIsRight
  <1>5. c \in Nat /\ c # 0 /\ \A w \in Wanted(p) : w <= c
    <2>1. /\ job.seen \in Nat /\ content[p] \in Nat /\ void[p] \in Nat
          /\ recorded[p] \in Nat /\ promised[p] \in Nat /\ job.write \in Nat
      BY <1>3, <1>4 DEF TypeOK, Job
    <2>2. IsWritten(p, recorded[p]) /\ IsWritten(p, promised[p])
          /\ IsWritten(p, job.write)
      BY <1>3, <1>4 DEF Written
    <2>3. \A w \in Wanted(p) : w <= content[p]
      BY <2>1, <2>2 DEF IsWritten, Wanted
    <2> QED
      BY <1>2, <1>4, <2>1, <2>3
  <1> DEFINE s == [store[p] EXCEPT ![Len(store[p])] = c]
  <1>6. /\ s \in Seq(Nat) /\ s # <<>> /\ Last(s) = c
        /\ DOMAIN s = DOMAIN store[p]
        /\ \A i \in DOMAIN store[p] :
             s[i] = IF i = Len(store[p]) THEN c ELSE store[p][i]
    <2>1. store[p] \in Seq(Nat) /\ store[p] # <<>> /\ c \in Nat
      BY <1>4, <1>5
    <2> QED
      BY <2>1 DEF Last
  <1>7. store' = [store EXCEPT ![p] = s]
    BY <1>2
  <1> HIDE DEF s
  <1>8. /\ store' \in [File -> Seq(Nat)] /\ store'[p] = s
        /\ \A f \in File : f # p => store'[f] = store[f]
    BY <1>3, <1>4, <1>6, <1>7 DEF TypeOK
  <1>9. TypeOK'
    BY <1>1, <1>3, <1>8 DEF TypeOK, Place
  <1>10. Written'
    BY <1>1, <1>3 DEF Written, IsWritten
  <1>11. JobIsRight'
    BY <1>1, <1>3, <1>4 DEF JobIsRight, Place
  <1>12. VersionIsRight'
    <2>1. \A w : w \in Wanted(job.path)' <=> w \in Wanted(p)
      BY <1>1 DEF Wanted
    <2> QED
      BY <1>1, <1>5, <1>6, <1>8, <2>1 DEF VersionIsRight
  <1>13. SnapshotIsRight'
    BY <1>1, <1>4 DEF SnapshotIsRight, IsSnapshot
  <1>14. CopyIsRight' /\ FilesComeFirst'
    BY <1>1 DEF IInv, CopyIsRight, FilesComeFirst, Owed
  <1>15. HandledIsPendingOrStored'
    <2>1. ASSUME NEW f \in File, NEW m \in Versions(f)
          PROVE  \E n \in Versions(f)' : n >= m
      <3>1. CASE f # p
        <4>1. m \in Nat
          BY <1>3, <2>1, ElementOf, SMTT(20) DEF Versions, TypeOK
        <4>2. m \in Versions(f)'
          BY <1>8, <2>1, <3>1 DEF Versions
        <4> QED
          BY <4>1, <4>2
      <3>2. CASE f = p
        <4>1. PICK i \in DOMAIN store[p] : m = store[p][i]
          BY <2>1, <3>2 DEF Versions
        <4>2. i \in DOMAIN s /\ s[i] \in Versions(f)'
          BY <1>6, <1>8, <3>2, <4>1 DEF Versions
        <4>3. m \in Nat /\ (i = Len(store[p]) => m = 0)
          BY <1>4, <4>1, ElementOf DEF Last
        <4> QED
          BY <1>5, <1>6, <4>1, <4>2, <4>3
      <3> QED
        BY <3>1, <3>2
    <2>2. ASSUME NEW f \in File, IsStored(f)
          PROVE  \E n \in Versions(f)' : n >= recorded[f]
      <3>1. PICK m \in Versions(f) : m >= recorded[f]
        BY <2>2 DEF IsStored
      <3>2. PICK n \in Versions(f)' : n >= m
        BY <2>1, <3>1
      <3>3. m \in Nat /\ recorded[f] \in Nat
        BY <1>3, <3>1, ElementOf, SMTT(20) DEF Versions, TypeOK
      <3>4. n \in Nat
        <4>1. store'[f] \in Seq(Nat)
          BY <1>8
        <4>2. PICK i \in DOMAIN store'[f] : n = store'[f][i]
          BY <3>2 DEF Versions
        <4> QED
          BY <4>1, <4>2, ElementOf
      <3> QED
        BY <3>1, <3>2, <3>3, <3>4
    <2> QED
      BY <1>1, <2>2 DEF IInv, HandledIsPendingOrStored, IsOwed, IsStored
  <1>16. TornVersionIsRedone'
    BY <1>1, <1>5, <1>6, <1>8 DEF IInv, TornVersionIsRedone, IsOwed
  <1>17. WrittenProjectIsPendingOrStored'
    BY <1>1 DEF IInv, IsOwed, WrittenProjectIsPendingOrStored,
                ProjectIsPendingOrStored
  <1> QED
    BY <1>9, <1>10, <1>11, <1>12, <1>13, <1>14, <1>15, <1>16, <1>17 DEF IInv

\* The unstable copy of the project has no link until the next system call.
LEMMA UnlinkUnstableKeeps ==
  ASSUME IInv, UnlinkUnstable
  PROVE  IInv'
  <1> DEFINE p == job.path
  <1>1. /\ due' = due /\ older' = older /\ handed' = handed /\ now' = now
        /\ content' = content /\ void' = void /\ withheld' = withheld
        /\ writes' = writes /\ flushes' = flushes
        /\ request' = request /\ events' = events
        /\ store' = store /\ projects' = projects
        /\ recorded' = recorded /\ promised' = promised /\ crashes' = crashes
        /\ job' = job
        /\ pc = "unlink" /\ pc' = "link"
        /\ unstable' = [unstable EXCEPT ![p] = 0]
    BY DEF UnlinkUnstable, queue, files, auxiliary
  <1>2. TypeOK /\ Written /\ JobIsRight
    BY DEF IInv
  <1>3. /\ p \in File /\ p \notin Root
        /\ unstable' \in [File -> Nat]
        /\ \A f \in File : f # p => unstable'[f] = unstable[f]
    BY <1>1, <1>2, Kinds DEF JobIsRight, TypeOK
  <1>4. TypeOK'
    BY <1>1, <1>2, <1>3 DEF TypeOK, Place
  <1>5. Written' /\ JobIsRight'
    BY <1>1, <1>2 DEF Written, IsWritten, JobIsRight, Place
  <1>6. VersionIsRight' /\ SnapshotIsRight'
    BY <1>1 DEF IInv, VersionIsRight, Wanted, SnapshotIsRight, IsSnapshot
  <1>7. CopyIsRight' /\ FilesComeFirst'
    BY <1>1, <1>3 DEF IInv, CopyIsRight, FilesComeFirst, Owed
  <1>8. /\ HandledIsPendingOrStored' /\ TornVersionIsRedone'
        /\ WrittenProjectIsPendingOrStored'
    BY <1>1 DEF IInv, HandledIsPendingOrStored, TornVersionIsRedone, IsOwed,
                IsStored, Versions, WrittenProjectIsPendingOrStored,
                ProjectIsPendingOrStored
  <1> QED
    BY <1>4, <1>5, <1>6, <1>7, <1>8 DEF IInv

\* The link in the unstable copy is the version that was just made.
LEMMA LinkUnstableKeeps ==
  ASSUME IInv, LinkUnstable
  PROVE  IInv'
  <1> DEFINE p == job.path
             v == Last(store[p])
  <1>1. /\ due' = due /\ older' = older /\ handed' = handed /\ now' = now
        /\ content' = content /\ void' = void /\ withheld' = withheld
        /\ writes' = writes /\ flushes' = flushes
        /\ request' = request /\ events' = events
        /\ store' = store /\ projects' = projects
        /\ recorded' = recorded /\ promised' = promised /\ crashes' = crashes
        /\ job' = job
        /\ pc = "link" /\ pc' = "stored"
        /\ unstable' = [unstable EXCEPT ![p] = v]
    BY DEF LinkUnstable, queue, files, auxiliary
  <1>2. TypeOK /\ Written /\ JobIsRight
    BY DEF IInv
  <1>3. /\ p \in File /\ p \notin Root /\ p # None
        /\ store[p] # <<>> /\ v # 0 /\ \A w \in Wanted(p) : w <= v
    BY <1>1, <1>2, Kinds DEF IInv, JobIsRight, VersionIsRight
  <1>4. v \in Nat
    <2>1. store[p] \in Seq(Nat) /\ store[p] # <<>>
      BY <1>2, <1>3 DEF TypeOK
    <2> QED
      BY <2>1 DEF Last
  <1> HIDE DEF v
  <1>5. /\ unstable' \in [File -> Nat] /\ unstable'[p] = v
        /\ \A f \in File : f # p => unstable'[f] = unstable[f]
    BY <1>1, <1>2, <1>3, <1>4 DEF TypeOK
  <1>6. TypeOK'
    BY <1>1, <1>2, <1>5 DEF TypeOK, Place
  <1>7. Written' /\ JobIsRight'
    BY <1>1, <1>2, <1>3 DEF Written, IsWritten, JobIsRight, Place
  <1>8. VersionIsRight'
    <2>1. \A w : w \in Wanted(job.path)' <=> w \in Wanted(p)
      BY <1>1 DEF Wanted
    <2> QED
      BY <1>1, <1>3, <1>5, <2>1 DEF VersionIsRight, v
  <1>9. SnapshotIsRight'
    BY <1>1, <1>3 DEF SnapshotIsRight, IsSnapshot
  <1>10. CopyIsRight'
    <2>1. \A f \in File : f = p => \A w \in Owed(f)' : w \in Wanted(f)
      BY <1>1 DEF Owed, Wanted
    <2>2. \A f \in File : Owed(f)' = Owed(f)
      BY <1>1 DEF Owed
    <2> QED
      BY <1>1, <1>3, <1>5, <2>1, <2>2 DEF IInv, CopyIsRight
  <1>11. FilesComeFirst'
    BY <1>1 DEF IInv, FilesComeFirst
  <1>12. /\ HandledIsPendingOrStored' /\ TornVersionIsRedone'
         /\ WrittenProjectIsPendingOrStored'
    BY <1>1 DEF IInv, HandledIsPendingOrStored, TornVersionIsRedone, IsOwed,
                IsStored, Versions, WrittenProjectIsPendingOrStored,
                ProjectIsPendingOrStored
  <1> QED
    BY <1>6, <1>7, <1>8, <1>9, <1>10, <1>11, <1>12 DEF IInv

\* While a version of a project is made, no file of it is in the queue and the
\* unstable copy has all that is owed.
LEMMA NoFileIsPending ==
  ASSUME IInv, crashes = 0, pc \in {"snapshot", "fill", "stored"}, ~job.flush,
         job.path \in Root, NEW f \in FilesOf(job.path)
  PROVE  /\ f \in File /\ RootOf[f] = job.path /\ RootOf[f] # None
         /\ due[f] = None
         /\ \A w \in Owed(f) : w <= unstable[f]
  <1>1. f \in File /\ RootOf[f] = job.path /\ RootOf[f] # None
    BY Kinds DEF FilesOf
  <1>2. older[job.path] = {}
    BY Kinds DEF IInv, JobIsRight
  <1>3. due[f] = None
    BY <1>1, <1>2 DEF IInv, FilesComeFirst
  <1> QED
    BY <1>1, <1>3 DEF IInv, CopyIsRight

\* While a project is pending, no version of it has to be the last word.
LEMMA PendingProjectKeeps ==
  ASSUME IInv, NEW r \in Root, due[r] # None, due' = due,
         recorded' = recorded, void' = void,
         flushes' = flushes, crashes' = crashes, pc # "push_root",
         \A q \in Root : q # r => projects'[q] = projects[q]
  PROVE  WrittenProjectIsPendingOrStored'
  <1> SUFFICES ASSUME flushes = 0, crashes = 0, NEW f \in File,
                      RootOf[f] # None, recorded[f] > void[f], RootOf[f] # r
               PROVE  /\ due[RootOf[f]] = None => projects'[RootOf[f]] # <<>>
                      /\ due[RootOf[f]] = None =>
                           Last(projects'[RootOf[f]])[f] >= recorded[f]
    BY DEF WrittenProjectIsPendingOrStored, ProjectIsPendingOrStored, IsOwed
  <1>1. RootOf[f] \in Root
    BY Kinds
  <1>2. projects'[RootOf[f]] = projects[RootOf[f]]
    BY <1>1
  <1> QED
    BY <1>2 DEF IInv, WrittenProjectIsPendingOrStored, ProjectIsPendingOrStored,
                IsOwed

\* A file without a link in the unstable copy is not owed anything.
LEMMA CreateSnapshotKeeps ==
  ASSUME IInv, CreateSnapshot
  PROVE  IInv'
  <1> DEFINE r == job.path
             empty == [f \in FilesOf(r) |-> 0]
             s == Append(projects[r], empty)
  <1>1. /\ due' = due /\ older' = older /\ handed' = handed /\ now' = now
        /\ content' = content /\ void' = void /\ withheld' = withheld
        /\ writes' = writes /\ flushes' = flushes
        /\ request' = request /\ events' = events
        /\ store' = store /\ unstable' = unstable
        /\ recorded' = recorded /\ promised' = promised /\ crashes' = crashes
        /\ pc = "snapshot" /\ pc' = "fill"
        /\ projects' = [projects EXCEPT ![r] = s]
        /\ job' = [job EXCEPT !.todo = {f \in FilesOf(r) : unstable[f] # 0}]
    BY DEF CreateSnapshot, queue, files, auxiliary
  <1>2. TypeOK /\ Written /\ JobIsRight
    BY DEF IInv
  <1>3. r \in Root /\ r \notin File /\ ~job.flush /\ due[r] # None
    BY <1>1, <1>2, Kinds DEF JobIsRight
  <1>4. /\ job' \in Job /\ job'.path = r /\ job'.write = job.write
        /\ job'.flush = job.flush
        /\ job'.todo = {f \in FilesOf(r) : unstable[f] # 0}
    BY <1>1, <1>2, <1>3 DEF TypeOK, Job, FilesOf
  <1>5. empty \in Tree /\ empty \in [FilesOf(r) -> Nat]
    <2>1. FilesOf(r) \in SUBSET File
      BY DEF FilesOf
    <2>2. empty \in [FilesOf(r) -> Nat]
      OBVIOUS
    <2> HIDE DEF empty
    <2> QED
      BY <2>1, <2>2 DEF Tree
  <1>6. s \in Seq(Tree) /\ s # <<>> /\ Last(s) = empty
    <2>1. projects[r] \in Seq(Tree)
      BY <1>2, <1>3 DEF TypeOK
    <2> HIDE DEF empty
    <2> QED
      BY <1>5, <2>1, LastOfAppend
  <1> HIDE DEF s
  <1>7. /\ projects' \in [Root -> Seq(Tree)] /\ projects'[r] = s
        /\ \A q \in Root : q # r => projects'[q] = projects[q]
    BY <1>1, <1>2, <1>3, <1>6 DEF TypeOK
  <1>8. TypeOK'
    BY <1>1, <1>2, <1>4, <1>7 DEF TypeOK, Place
  <1>9. Written' /\ JobIsRight'
    BY <1>1, <1>2, <1>3, <1>4 DEF Written, IsWritten, JobIsRight, Place
  <1>10. VersionIsRight'
    BY <1>1 DEF VersionIsRight
  <1>11. SnapshotIsRight'
    <2>1. Last(projects'[job'.path]) = empty /\ projects'[job'.path] # <<>>
      BY <1>4, <1>6, <1>7
    <2>2. FilesOf(job.path)' = FilesOf(r)
      BY <1>4 DEF FilesOf
    <2>3. ASSUME crashes = 0, NEW f \in FilesOf(r)
          PROVE  f \in job'.todo \/ \A w \in Owed(f)' : w <= empty[f]
      <3>1. \A w \in Owed(f) : w <= unstable[f]
        BY <1>1, <1>3, <2>3, NoFileIsPending
      <3>2. Owed(f)' = Owed(f)
        BY <1>1 DEF Owed
      <3> QED
        BY <1>4, <2>3, <3>1, <3>2
    <2> QED
      BY <1>1, <1>5, <2>1, <2>2, <2>3 DEF SnapshotIsRight, IsSnapshot, Last
  <1>12. CopyIsRight' /\ FilesComeFirst'
    BY <1>1 DEF IInv, CopyIsRight, FilesComeFirst, Owed
  <1>13. HandledIsPendingOrStored' /\ TornVersionIsRedone'
    BY <1>1 DEF IInv, HandledIsPendingOrStored, TornVersionIsRedone, IsOwed,
                IsStored, Versions
  <1>14. WrittenProjectIsPendingOrStored'
    BY <1>1, <1>3, <1>7, PendingProjectKeeps
  <1> QED
    BY <1>8, <1>9, <1>10, <1>11, <1>12, <1>13, <1>14 DEF IInv

\* A file that still exists gets its link from the unstable copy.
LEMMA FillKeeps ==
  ASSUME IInv, NEW f \in File, Fill(f)
  PROVE  IInv'
  <1> DEFINE r == job.path
             t == Last(projects[r])
  <1>1. /\ due' = due /\ older' = older /\ handed' = handed /\ now' = now
        /\ content' = content /\ void' = void /\ withheld' = withheld
        /\ writes' = writes /\ flushes' = flushes
        /\ request' = request /\ events' = events
        /\ store' = store
        /\ recorded' = recorded /\ promised' = promised /\ crashes' = crashes
        /\ pc = "fill" /\ pc' = pc
        /\ job' = [job EXCEPT !.todo = @ \ {f}]
    BY DEF Fill, queue, files, auxiliary
  <1>2. TypeOK /\ Written /\ JobIsRight
    BY DEF IInv
  <1>3. /\ r \in Root /\ r \notin File /\ ~job.flush /\ due[r] # None
        /\ projects[r] \in Seq(Tree) /\ projects[r] # <<>>
        /\ t \in [FilesOf(r) -> Nat]
    BY <1>1, <1>2, Kinds DEF IInv, JobIsRight, TypeOK, SnapshotIsRight, IsSnapshot
  <1>4. /\ job' \in Job /\ job'.path = r /\ job'.write = job.write
        /\ job'.flush = job.flush /\ job'.todo = job.todo \ {f}
    BY <1>1, <1>2 DEF TypeOK, Job
  <1>5. PICK u : /\ u \in [FilesOf(r) -> Nat]
                 /\ projects' \in [Root -> Seq(Tree)]
                 /\ projects'[r] # <<>> /\ Last(projects'[r]) = u
                 /\ \A q \in Root : q # r => projects'[q] = projects[q]
                 /\ \A g \in FilesOf(r) : g # f => u[g] = t[g]
                 /\ content[f] # 0 /\ f \in FilesOf(r) => u[f] = unstable[f]
    <2>1. CASE content[f] # 0
      <3> DEFINE u == [t EXCEPT ![f] = unstable[f]]
                 s == [projects[r] EXCEPT ![Len(projects[r])] = u]
      <3>1. /\ u \in [FilesOf(r) -> Nat]
            /\ \A g \in FilesOf(r) : g # f => u[g] = t[g]
            /\ f \in FilesOf(r) => u[f] = unstable[f]
        <4>1. unstable[f] \in Nat
          BY <1>2 DEF TypeOK
        <4> HIDE DEF t
        <4> QED
          BY <1>3, <4>1
      <3>2. projects' = [projects EXCEPT ![r] = s]
        BY <2>1 DEF Fill, Last
      <3> HIDE DEF u
      <3>3. u \in Tree
        BY <3>1 DEF Tree, FilesOf
      <3>4. s \in Seq(Tree) /\ s # <<>> /\ Last(s) = u
        BY <1>3, <3>3 DEF Last
      <3> HIDE DEF s
      <3>5. /\ projects' \in [Root -> Seq(Tree)] /\ projects'[r] = s
            /\ \A q \in Root : q # r => projects'[q] = projects[q]
        BY <1>2, <1>3, <3>2, <3>4 DEF TypeOK
      <3> QED
        BY <3>1, <3>4, <3>5
    <2>2. CASE content[f] = 0
      <3>1. projects' = projects
        BY <2>2 DEF Fill
      <3> QED
        BY <1>2, <1>3, <2>2, <3>1 DEF TypeOK
    <2> QED
      BY <2>1, <2>2 DEF TypeOK
  <1>6. /\ unstable' \in [File -> Nat]
        /\ \A g \in File : unstable'[g] = unstable[g] \/ Owed(g) = {}
    <2>1. CASE content[f] # 0
      BY <1>2, <2>1 DEF Fill, TypeOK
    <2>2. CASE content[f] = 0
      <3>1. unstable' = [unstable EXCEPT ![f] = 0]
        BY <2>2 DEF Fill
      <3>2. Owed(f) = {}
        BY <1>2, <2>2, NothingIsOwed
      <3> QED
        BY <1>2, <3>1, <3>2 DEF TypeOK
    <2> QED
      BY <2>1, <2>2
  <1> HIDE DEF t
  <1>7. TypeOK'
    BY <1>1, <1>2, <1>4, <1>5, <1>6 DEF TypeOK
  <1>8. Written' /\ JobIsRight'
    BY <1>1, <1>2, <1>4 DEF Written, IsWritten, JobIsRight
  <1>9. VersionIsRight'
    BY <1>1 DEF VersionIsRight
  <1>10. SnapshotIsRight'
    <2>1. FilesOf(job.path)' = FilesOf(r)
      BY <1>4 DEF FilesOf
    <2>2. ASSUME crashes = 0, NEW g \in FilesOf(r), g \notin job'.todo
          PROVE  \A w \in Owed(g)' : w <= u[g]
      <3>1. Owed(g)' = Owed(g)
        BY <1>1 DEF Owed
      <3>2. CASE g # f
        <4>1. \A w \in Owed(g) : w <= t[g]
          BY <1>1, <1>4, <2>2, <3>2 DEF IInv, SnapshotIsRight, IsSnapshot, t
        <4> QED
          BY <1>5, <3>1, <3>2, <4>1
      <3>3. CASE g = f /\ content[f] = 0
        <4>1. Owed(f) = {}
          BY <1>2, <3>3, NothingIsOwed
        <4> QED
          BY <3>1, <3>3, <4>1
      <3>4. CASE g = f /\ content[f] # 0
        <4>1. \A w \in Owed(g) : w <= unstable[g]
          BY <1>1, <1>3, <2>2, NoFileIsPending
        <4> QED
          BY <1>5, <2>2, <3>1, <3>4, <4>1
      <3> QED
        BY <3>2, <3>3, <3>4
    <2> QED
      BY <1>1, <1>4, <1>5, <2>1, <2>2 DEF SnapshotIsRight, IsSnapshot
  <1>11. CopyIsRight'
    <2>1. \A g \in File : Owed(g)' = Owed(g)
      BY <1>1 DEF Owed
    <2> QED
      BY <1>1, <1>6, <2>1 DEF IInv, CopyIsRight
  <1>12. FilesComeFirst'
    BY <1>1 DEF IInv, FilesComeFirst
  <1>13. HandledIsPendingOrStored' /\ TornVersionIsRedone'
    BY <1>1 DEF IInv, HandledIsPendingOrStored, TornVersionIsRedone, IsOwed,
                IsStored, Versions
  <1>14. WrittenProjectIsPendingOrStored'
    BY <1>1, <1>3, <1>5, PendingProjectKeeps
  <1> QED
    BY <1>7, <1>8, <1>9, <1>10, <1>11, <1>12, <1>13, <1>14 DEF IInv

\* Nothing is left to do: all files are in the version of the project.
LEMMA FinishSnapshotKeeps ==
  ASSUME IInv, FinishSnapshot
  PROVE  IInv'
  <1>1. /\ due' = due /\ older' = older /\ handed' = handed /\ now' = now
        /\ content' = content /\ void' = void /\ withheld' = withheld
        /\ writes' = writes /\ flushes' = flushes
        /\ request' = request /\ events' = events
        /\ store' = store /\ unstable' = unstable /\ projects' = projects
        /\ recorded' = recorded /\ promised' = promised /\ crashes' = crashes
        /\ pc = "fill" /\ pc' = "stored" /\ job' = job
        /\ job.todo = {}
    BY DEF FinishSnapshot, queue, disk, files, auxiliary
  <1>2. TypeOK /\ Written /\ JobIsRight
    BY DEF IInv
  <1>3. job.path \in Root /\ job.path \notin File /\ job.path # None
    BY <1>1, <1>2, Kinds DEF JobIsRight
  <1>4. TypeOK'
    BY <1>1, <1>2 DEF TypeOK, Place
  <1>5. Written' /\ JobIsRight'
    BY <1>1, <1>2, <1>3 DEF Written, IsWritten, JobIsRight, Place
  <1>6. VersionIsRight'
    BY <1>1, <1>3 DEF VersionIsRight
  <1>7. SnapshotIsRight'
    <2>1. \A f \in File : Owed(f)' = Owed(f)
      BY <1>1 DEF Owed
    <2> QED
      BY <1>1, <1>3, <2>1 DEF IInv, SnapshotIsRight, IsSnapshot, FilesOf
  <1>8. CopyIsRight' /\ FilesComeFirst'
    BY <1>1 DEF IInv, CopyIsRight, FilesComeFirst, Owed
  <1>9. /\ HandledIsPendingOrStored' /\ TornVersionIsRedone'
        /\ WrittenProjectIsPendingOrStored'
    BY <1>1 DEF IInv, HandledIsPendingOrStored, TornVersionIsRedone, IsOwed,
                IsStored, Versions, WrittenProjectIsPendingOrStored,
                ProjectIsPendingOrStored
  <1> QED
    BY <1>4, <1>5, <1>6, <1>7, <1>8, <1>9 DEF IInv

\* A path leaves the queue when all that is owed for it is in the store.
LEMMA PopHeadKeeps ==
  ASSUME IInv, PopHead
  PROVE  IInv'
  <1> DEFINE p == job.path
  <1>1. /\ now' = now /\ content' = content /\ void' = void
        /\ withheld' = withheld /\ writes' = writes /\ flushes' = flushes
        /\ request' = request /\ events' = events
        /\ store' = store /\ unstable' = unstable /\ projects' = projects
        /\ recorded' = recorded /\ promised' = promised /\ crashes' = crashes
        /\ pc = "stored" /\ pc' = "timeout" /\ job' = NoJob
        /\ ~job.flush
        /\ handed' = None /\ Q!Forget(handed)
    BY DEF PopHead, Returns, Q!Commit, disk, files, auxiliary
  <1>2. TypeOK /\ Written /\ JobIsRight
    BY DEF IInv
  <1>3. /\ handed = p /\ p \in File \cup Root /\ older[p] = {}
    BY <1>1, <1>2 DEF JobIsRight, TypeOK, Job
  <1>4. /\ due' \in [File \cup Root -> Int \cup {None}]
        /\ older' \in [File \cup Root -> SUBSET (File \cup Root)]
        /\ due'[p] = None
        /\ \A q \in File \cup Root : q # p => due'[q] = due[q]
        /\ \A q \in File \cup Root : q # p => older'[q] = older[q] \ {p}
    BY <1>1, <1>2, <1>3, ForgetChanges
  <1>5. \A f \in File : Owed(f)' = Owed(f)
    BY <1>1 DEF Owed
  <1>6. \A f \in File : f = p =>
          \A w \in Owed(f) : /\ store[f] # <<>> /\ Last(store[f]) # 0
                             /\ w <= Last(store[f])
                             /\ RootOf[f] # None => w <= unstable[f]
    BY <1>1, <1>2 DEF IInv, VersionIsRight, Owed, Wanted
  <1>7. crashes = 0 => \A f \in File : RootOf[f] = p /\ RootOf[f] # None =>
          due[f] = None
    BY <1>1, <1>3 DEF IInv, FilesComeFirst
  <1> HIDE DEF p
  <1>8. TypeOK'
    BY <1>1, <1>2, <1>4, NoJobIsJob DEF TypeOK, Place
  <1>9. Written'
    BY <1>1, <1>2, NoJobIsJob, Kinds DEF Written, IsWritten
  <1>10. JobIsRight'
    BY <1>1, <1>2, NoJobIsJob DEF JobIsRight
  <1>11. VersionIsRight' /\ SnapshotIsRight'
    BY <1>1 DEF VersionIsRight, SnapshotIsRight, IsSnapshot
  <1>12. CopyIsRight'
    BY <1>1, <1>4, <1>5, <1>6 DEF IInv, CopyIsRight
  <1>13. FilesComeFirst'
    <2>1. ASSUME crashes = 0, NEW f \in File, RootOf[f] # None, due'[f] # None
          PROVE  due'[RootOf[f]] # None /\ f \in older'[RootOf[f]]
      <3>1. f # p /\ RootOf[f] \in File \cup Root /\ due[f] # None
        BY <1>4, <2>1, Kinds
      <3>2. RootOf[f] # p
        BY <1>7, <2>1, <3>1
      <3>3. due[RootOf[f]] # None /\ f \in older[RootOf[f]]
        BY <1>1, <2>1, <3>1 DEF IInv, FilesComeFirst
      <3> QED
        BY <1>4, <3>1, <3>2, <3>3
    <2> QED
      BY <1>1, <2>1 DEF FilesComeFirst
  <1>14. HandledIsPendingOrStored'
    <2>1. ASSUME NEW f \in File, f = p, IsOwed(f)
          PROVE  IsStored(f)
      <3>1. recorded[f] \in Owed(f)
        BY <2>1 DEF IsOwed, Owed
      <3>2. store[f] # <<>> /\ recorded[f] <= Last(store[f])
        BY <1>6, <2>1, <3>1
      <3>3. Last(store[f]) \in Nat /\ recorded[f] \in Nat
        <4>1. store[f] \in Seq(Nat) /\ store[f] # <<>> /\ recorded[f] \in Nat
          BY <1>2, <3>2 DEF TypeOK
        <4> QED
          BY <4>1 DEF Last
      <3> QED
        BY <1>2, <3>2, <3>3, LastIsVersion DEF IsStored
    <2> QED
      BY <1>1, <1>4, <2>1 DEF IInv, HandledIsPendingOrStored, IsOwed, IsStored,
                              Versions
  <1>15. TornVersionIsRedone'
    <2>1. \A f \in File : f = p /\ IsOwed(f) => Last(store[f]) # 0
      BY <1>6 DEF IsOwed, Owed
    <2> QED
      BY <1>1, <1>4, <2>1 DEF IInv, TornVersionIsRedone, IsOwed
  <1>16. WrittenProjectIsPendingOrStored'
    <2>1. ASSUME crashes = 0, NEW f \in File, RootOf[f] = p, RootOf[f] # None,
                 IsOwed(f)
          PROVE  /\ projects[RootOf[f]] # <<>>
                 /\ Last(projects[RootOf[f]])[f] >= recorded[f]
      <3>1. /\ RootOf[f] \in Root /\ f \in FilesOf(job.path) /\ IsSnapshot
            /\ job.path = RootOf[f]
        BY <1>1, <2>1, Kinds DEF FilesOf, IsSnapshot, p
      <3>2. recorded[f] \in Owed(f)
        BY <2>1 DEF IsOwed, Owed
      <3>3. /\ projects[RootOf[f]] # <<>>
            /\ recorded[f] <= Last(projects[RootOf[f]])[f]
            /\ Last(projects[RootOf[f]]) \in [FilesOf(job.path) -> Nat]
        BY <1>1, <2>1, <3>1, <3>2 DEF IInv, SnapshotIsRight
      <3>4. recorded[f] \in Nat /\ Last(projects[RootOf[f]])[f] \in Nat
        BY <1>2, <3>1, <3>3 DEF TypeOK
      <3> QED
        BY <3>3, <3>4
    <2>2. \A f \in File : RootOf[f] # None /\ RootOf[f] # p =>
            due'[RootOf[f]] = due[RootOf[f]]
      BY <1>4, Kinds
    <2> QED
      BY <1>1, <2>1, <2>2 DEF IInv, WrittenProjectIsPendingOrStored,
                              ProjectIsPendingOrStored, IsOwed
  <1> QED
    BY <1>8, <1>9, <1>10, <1>11, <1>12, <1>13, <1>14, <1>15, <1>16 DEF IInv

\* A stuttering step, or a file that is not withheld any more.
LEMMA StutterKeeps ==
  ASSUME IInv, UNCHANGED vars \/ \E f \in File : Return(f)
  PROVE  IInv'
  <1>1. /\ due' = due /\ older' = older /\ handed' = handed /\ now' = now
        /\ content' = content /\ void' = void /\ withheld' \subseteq withheld
        /\ writes' = writes /\ flushes' = flushes
        /\ request' = request /\ events' = events
        /\ store' = store /\ unstable' = unstable /\ projects' = projects
        /\ recorded' = recorded /\ promised' = promised
        /\ pc' = pc /\ job' = job /\ crashes' = crashes
    BY DEF vars, queue, disk, files, auxiliary, Return
  <1>2. TypeOK' /\ Written' /\ JobIsRight'
    BY <1>1 DEF IInv, TypeOK, Written, IsWritten, JobIsRight
  <1>3. VersionIsRight' /\ CopyIsRight' /\ FilesComeFirst' /\ SnapshotIsRight'
    BY <1>1 DEF IInv, VersionIsRight, CopyIsRight, FilesComeFirst,
                SnapshotIsRight, IsSnapshot, Wanted, Owed
  <1>4. /\ HandledIsPendingOrStored' /\ TornVersionIsRedone'
        /\ WrittenProjectIsPendingOrStored'
    BY <1>1 DEF IInv, HandledIsPendingOrStored, TornVersionIsRedone, IsOwed,
                IsStored, Versions, WrittenProjectIsPendingOrStored,
                ProjectIsPendingOrStored
  <1> QED
    BY <1>2, <1>3, <1>4 DEF IInv

-----------------------------------------------------------------------------
\* All steps keep the invariant.
LEMMA NextIInv ==
  ASSUME IInv, [Next]_vars
  PROVE  IInv'
  <1>1. CASE \E f \in File, wantsFlush \in BOOLEAN : Write(f, wantsFlush)
    BY <1>1, WriteKeeps
  <1>2. CASE \E f \in File : Delete(f) \/ Withhold(f)
    BY <1>2, DeleteKeeps, WithholdKeeps
  <1>3. CASE Tick
    BY <1>3, TickKeeps
  <1>4. CASE Start \/ Crash
    BY <1>4, LoopKeeps
  <1>5. CASE \/ Load \/ PollTimesOut \/ NothingToTake \/ WriteIsIgnored
             \/ Acknowledge \/ ReadOverflow
    BY <1>5, LoopKeeps
  <1>6. CASE ReadEvent
    BY <1>6, ReadEventKeeps
  <1>7. CASE PushFile
    BY <1>7, PushFileKeeps
  <1>8. CASE PushRoot
    BY <1>8, PushRootKeeps
  <1>9. CASE TakeRequest
    BY <1>9, TakeRequestKeeps
  <1>10. CASE CancelPending
    BY <1>10, CancelPendingKeeps
  <1>11. CASE \E p \in File \cup Root : TakeHead(p)
    BY <1>11, TakeHeadKeeps
  <1>12. CASE SourceIsMissing
    BY <1>12, SourceIsMissingKeeps
  <1>13. CASE CreateVersion
    BY <1>13, CreateVersionKeeps
  <1>14. CASE CopyVersion
    BY <1>14, CopyVersionKeeps
  <1>15. CASE UnlinkUnstable
    BY <1>15, UnlinkUnstableKeeps
  <1>16. CASE LinkUnstable
    BY <1>16, LinkUnstableKeeps
  <1>17. CASE CreateSnapshot
    BY <1>17, CreateSnapshotKeeps
  <1>18. CASE \E f \in File : Fill(f)
    BY <1>18, FillKeeps
  <1>19. CASE FinishSnapshot
    BY <1>19, FinishSnapshotKeeps
  <1>20. CASE PopHead
    BY <1>20, PopHeadKeeps
  <1>21. CASE UNCHANGED vars \/ \E f \in File : Return(f)
    BY <1>21, StutterKeeps
  <1>22. CASE SourceIsNotRegular
    BY <1>22, SourceIsNotRegularKeeps
  <1> QED
    BY <1>1, <1>2, <1>3, <1>4, <1>5, <1>6, <1>7, <1>8, <1>9, <1>10, <1>11,
       <1>12, <1>13, <1>14, <1>15, <1>16, <1>17, <1>18, <1>19, <1>20, <1>21, <1>22
       DEF Next, Daemon

\* The invariant holds, whatever is written, deleted and asked for, and
\* wherever the daemon is stopped.
THEOREM Invariance == Spec => []IInv
  <1>1. Init => IInv
    BY InitIInv
  <1>2. IInv /\ [Next]_vars => IInv'
    BY NextIInv
  <1> QED
    BY <1>1, <1>2, PTL DEF Spec

\* No write whose event was handled is lost: the file is in the queue until a
\* version is at least as new (handle_timeout pops after store, and
\* handle_close_write cancels after store).
THEOREM NoWriteIsLost == Spec => []HandledIsPendingOrStored
  <1>1. IInv => HandledIsPendingOrStored
    BY DEF IInv
  <1> QED
    BY <1>1, Invariance, PTL

\* A version without content is made again as long as nobody asks for a flush:
\* the crash that left it there left the file in the queue.
THEOREM TornVersionsAreRedone == Spec => []TornVersionIsRedone
  <1>1. IInv => TornVersionIsRedone
    BY DEF IInv
  <1> QED
    BY <1>1, Invariance, PTL

\* Without flushes and crashes, a handled write is in the last version of its
\* project or a version is still to come.
THEOREM NoProjectIsForgotten == Spec => []WrittenProjectIsPendingOrStored
  <1>1. IInv => WrittenProjectIsPendingOrStored
    BY DEF IInv
  <1> QED
    BY <1>1, Invariance, PTL

\* A root leaves the queue, while it is worked on, with its version complete.
LEMMA RootIsPopped ==
  ASSUME IInv, [Next]_vars, NEW r \in Root, handed = r, due'[r] = None
  PROVE  /\ PopHead /\ pc = "stored" /\ job.path = r /\ promised' = promised
  <1>1. TypeOK /\ JobIsRight /\ r # None
    BY Kinds DEF IInv
  <1>2. due[r] # None
    BY <1>1 DEF JobIsRight
  <1>3. due' # due /\ handed # None
    BY <1>1, <1>2
  <1>4. PopHead
    BY <1>3 DEF Next, Daemon, vars, queue, Write, Delete, Withhold, Return, Tick, Start, Load,
                ReadEvent, ReadOverflow, Down, Q!Abandon, PollTimesOut, Crash,
                WriteIsIgnored, PushFile, PushRoot, Q!Push, TakeRequest,
                CancelPending, Q!Cancel, Acknowledge, TakeHead, Q!Take,
                NothingToTake, SourceIsMissing, SourceIsNotRegular, CreateVersion, CopyVersion,
                UnlinkUnstable, LinkUnstable, CreateSnapshot, Fill,
                FinishSnapshot
  <1> QED
    BY <1>1, <1>4 DEF PopHead, JobIsRight, auxiliary

\* A version of a project that is finished has, of every file that exists, at
\* least the write that was handled before the push that asked for it.
THEOREM SnapshotsKeepPromises == Spec => SnapshotKeepsPromise
  <1>1. ASSUME IInv, [Next]_vars, NEW r \in Root, crashes = 0, handed = r,
               due'[r] = None, NEW f \in FilesOf(r), promised[f] > void[f]
        PROVE  Last(projects[r])[f] >= promised[f]
    <2>1. pc = "stored" /\ job.path = r
      BY <1>1, RootIsPopped
    <2>2. f \in File /\ promised[f] \in Owed(f)
      BY <1>1 DEF FilesOf, Owed
    <2>3. /\ promised[f] <= Last(projects[r])[f]
          /\ Last(projects[r]) \in [FilesOf(r) -> Nat]
      BY <1>1, <2>1, <2>2 DEF IInv, SnapshotIsRight, IsSnapshot
    <2>4. promised[f] \in Nat /\ Last(projects[r])[f] \in Nat
      BY <1>1, <2>2, <2>3 DEF IInv, TypeOK
    <2> QED
      BY <2>3, <2>4
  <1>2. IInv /\ [Next]_vars =>
          [\A r \in Root : crashes = 0 /\ handed = r /\ due'[r] = None =>
             \A f \in FilesOf(r) :
               promised[f] > void[f] => Last(projects[r])[f] >= promised[f]]_vars
    BY <1>1
  <1> QED
    BY <1>2, Invariance, PTL DEF Spec, SnapshotKeepsPromise

=============================================================================
