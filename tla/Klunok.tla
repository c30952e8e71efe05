------------------------------- MODULE Klunok -------------------------------
(***************************************************************************)
(* The daemon: the loop of src/src/main.c around the write handler and the *)
(* timeout handler of src/src/handler.c, editors that write files while it *)
(* runs, and what ends up in the store.                                    *)
(*                                                                         *)
(* A path goes from a file-system event through the write queue (specified *)
(* by Debounce, which Linq implements) into a version of the file in the   *)
(* store and, for a file of a project, into the unstable copy of the       *)
(* project and then into a version of the project.  A flush request takes  *)
(* the short way: the version is made at once and the pending write is     *)
(* cancelled.  The store, the unstable copies, the projects and the queue  *)
(* survive a crash.                                                        *)
(*                                                                         *)
(* Contents are abstracted to the number of the write that made them.  A   *)
(* file that is withheld is one that the daemon may not read, or whose     *)
(* place something has that is not a regular file.  A step is what happens *)
(* between two system calls that change the disk.                          *)
(***************************************************************************)
EXTENDS Integers, Sequences, FiniteSets

CONSTANTS
  File,        \* the watched files
  Root,        \* the project roots
  RootOf,      \* the project a file is in, or None
  Debounces,   \* the values of the setting debounce_seconds
  None,
  Overflow,    \* the event FAN_Q_OVERFLOW
  MaxWrites,   \* bound: writes by editors
  MaxFlushes,  \* bound: flush requests among them
  MaxDeletes,  \* bound: files that are deleted or withheld
  MaxEvents,   \* length of the kernel's event queue
  MaxTime,     \* bound: the clock stops here unless the queue waits for it
  MaxCrashes   \* bound: crashes and failures of the daemon

ASSUME KlunokAssumption ==
  /\ File \cap Root = {}
  /\ RootOf \in [File -> Root \cup {None}]
  /\ None \notin File \cup Root \cup Int
  /\ Overflow \notin File
  /\ Debounces \subseteq Nat
  /\ MaxEvents \in Nat \ {0}

VARIABLES
  due, older, handed, debounce, now,  \* handler->linq, see Debounce
  content,   \* File -> the write its content comes from; 0: no such file
  gone,      \* File -> the last write before its last deletion, by number
  withheld,  \* the files that cannot be copied, though something is there
  request,   \* File -> whether its extended attribute asks for a flush
  events,    \* the kernel's queue: a file and the write it reports
  store,     \* File -> the contents of its versions; 0: not copied yet
  unstable,  \* File -> the content in the unstable project copy; 0: no link
  projects,  \* Root -> the versions of the project
  pc,        \* where the daemon is
  job,       \* the path it works on
  writes, flushes, deletes, crashes,  \* bounds: so many so far
  void,      \* File -> the last write of which no version is owed
  recorded,  \* File -> the last write whose event the daemon has handled
  promised   \* File -> recorded at the last push of its project

queue == <<due, older, handed, debounce, now>>
disk == <<store, unstable, projects>>
files == <<content, gone, withheld, request, void, writes, flushes, deletes>>
auxiliary == <<recorded, promised>>
vars == <<queue, disk, files, auxiliary, events, pc, job, crashes>>

Q == INSTANCE Debounce WITH Path <- File \cup Root

FilesOf(r) == {f \in File : RootOf[f] = r}

NoJob == [path |-> None, write |-> 0, flush |-> FALSE, seen |-> 0, todo |-> {}]

Last(s) == s[Len(s)]

Init ==
  /\ due = [p \in File \cup Root |-> None]
  /\ older = [p \in File \cup Root |-> {}]
  /\ handed = None
  /\ debounce \in Debounces
  /\ now = 0
  /\ content = [f \in File |-> 0]
  /\ gone = [f \in File |-> 0]
  /\ withheld = {}
  /\ void = [f \in File |-> 0]
  /\ request = [f \in File |-> FALSE]
  /\ events = <<>>
  /\ store = [f \in File |-> <<>>]
  /\ unstable = [f \in File |-> 0]
  /\ projects = [r \in Root |-> <<>>]
  /\ pc = "down"
  /\ job = NoJob
  /\ writes = 0 /\ flushes = 0 /\ deletes = 0 /\ crashes = 0
  /\ recorded = [f \in File |-> 0]
  /\ promised = [f \in File |-> 0]

-----------------------------------------------------------------------------
(***************************************************************************)
(* The environment: editors, the requesters of flushes, the clock.         *)
(***************************************************************************)

\* The kernel reports a close to a daemon that has its marks in place; a full
\* queue ends in one overflow event.
Notify(f) ==
  events' = IF pc = "down" \/ Len(events) > MaxEvents THEN events
            ELSE Append(events, [path |-> IF Len(events) < MaxEvents
                                          THEN f ELSE Overflow,
                                 write |-> writes + 1])

\* An editor, or a requester of a flush, writes the file and closes it.  Nothing
\* is owed for what it writes while the daemon may not read it.
Write(f, wantsFlush) ==
  /\ writes < MaxWrites
  /\ wantsFlush => flushes < MaxFlushes
  /\ writes' = writes + 1
  /\ flushes' = IF wantsFlush THEN flushes + 1 ELSE flushes
  /\ content' = [content EXCEPT ![f] = writes + 1]
  /\ void' = IF f \in withheld THEN [void EXCEPT ![f] = writes + 1] ELSE void
  /\ request' = IF wantsFlush THEN [request EXCEPT ![f] = TRUE] ELSE request
  /\ Notify(f)
  /\ UNCHANGED <<queue, disk, gone, withheld, deletes, auxiliary, pc, job,
                 crashes>>

\* The file is removed: what the daemon owed for it is void.
Delete(f) ==
  /\ content[f] # 0
  /\ deletes < MaxDeletes
  /\ deletes' = deletes + 1
  /\ content' = [content EXCEPT ![f] = 0]
  /\ gone' = [gone EXCEPT ![f] = writes]
  /\ void' = [void EXCEPT ![f] = writes]
  /\ withheld' = withheld \ {f}
  /\ request' = [request EXCEPT ![f] = FALSE]
  /\ UNCHANGED <<queue, disk, auxiliary, events, pc, job, writes, flushes,
                 crashes>>

\* The file is made unreadable for the daemon, or is moved away and something
\* that is not a regular file takes its place.
Withhold(f) ==
  /\ content[f] # 0 /\ f \notin withheld
  /\ deletes < MaxDeletes
  /\ deletes' = deletes + 1
  /\ withheld' = withheld \cup {f}
  /\ void' = [void EXCEPT ![f] = writes]
  /\ UNCHANGED <<queue, disk, auxiliary, events, pc, job, content, gone,
                 request, writes, flushes, crashes>>

\* It is as it was again.
Return(f) ==
  /\ f \in withheld
  /\ withheld' = withheld \ {f}
  /\ UNCHANGED <<queue, disk, auxiliary, events, pc, job, content, gone,
                 request, void, writes, flushes, deletes, crashes>>

Tick ==
  /\ \/ now < MaxTime
     \/ \E p \in File \cup Root : due[p] # None /\ ~Q!Ripe(p)
  /\ now' = now + 1
  /\ UNCHANGED <<due, older, handed, debounce, disk, files, auxiliary, events,
                 pc, job, crashes>>

-----------------------------------------------------------------------------
(***************************************************************************)
(* main's loop.                                                            *)
(***************************************************************************)

\* The marks are set: the kernel reports writes from now on.
Start ==
  /\ pc = "down"
  /\ pc' = "loading"
  /\ UNCHANGED <<queue, disk, files, auxiliary, events, job, crashes>>

\* load_handler.  Requests from before it are too old for the flusher, and the
\* first poll does not wait.
Load ==
  /\ pc = "loading"
  /\ pc' = "poll"
  /\ request' = [f \in File |-> FALSE]
  /\ UNCHANGED <<queue, disk, content, gone, withheld, void, writes, flushes,
                 deletes, auxiliary, events, job, crashes>>

\* Mutant of Down: a head whose store failed is popped.
BuggyDown ==
  /\ pc' = "down"
  /\ events' = <<>>
  /\ job' = NoJob
  /\ IF handed = None THEN Q!Abandon ELSE Q!Commit

Down ==
  /\ pc' = "down"
  /\ events' = <<>>
  /\ job' = NoJob
  /\ Q!Abandon

\* One event is read; an overflow ends the daemon.
ReadEvent ==
  /\ pc = "poll"
  /\ events # <<>>
  /\ Head(events).path # Overflow
  /\ events' = Tail(events)
  /\ job' = [NoJob EXCEPT !.path = Head(events).path,
                          !.write = Head(events).write]
  /\ pc' = "close_write"
  /\ UNCHANGED <<queue, disk, files, auxiliary, crashes>>

ReadOverflow ==
  /\ pc = "poll"
  /\ events # <<>>
  /\ Head(events).path = Overflow
  /\ Down
  /\ UNCHANGED <<disk, files, auxiliary, crashes>>

CanTake(p) == Q!Ripe(p) /\ older[p] = {}

\* Mutant of PollTimesOut: only events wake the daemon up.
BuggyPollTimesOut == pc = "poll" /\ UNCHANGED vars

\* poll returns after the pause that get_head asked for.
PollTimesOut ==
  /\ pc = "poll"
  /\ events = <<>>
  /\ \E p \in File \cup Root : CanTake(p)
  /\ pc' = "timeout"
  /\ UNCHANGED <<queue, disk, files, auxiliary, events, job, crashes>>

\* The process is killed, the machine goes down, or a step fails: nothing is
\* undone and nothing more is done.
Crash ==
  /\ pc # "down"
  /\ crashes < MaxCrashes
  /\ crashes' = crashes + 1
  /\ Down
  /\ UNCHANGED <<disk, files, auxiliary>>

-----------------------------------------------------------------------------
(***************************************************************************)
(* handle_close_write.                                                     *)
(***************************************************************************)

Returns == pc' = "timeout" /\ job' = NoJob

\* The name of the descriptor's file is the path, or the path marked as deleted.
IsDeleted == job.write <= gone[job.path]

\* getxattr fails for a file that may not be read.
IsRequested ==
  /\ request[job.path]
  /\ ~IsDeleted
  /\ job.path \notin withheld

\* Written by something that is not an editor, or hidden, or excluded.
WriteIsIgnored ==
  /\ pc = "close_write"
  /\ ~IsRequested
  /\ Returns
  /\ UNCHANGED <<queue, disk, files, auxiliary, events, crashes>>

\* Mutant of PushFile: a root that is pending already is not pushed again.
BuggyPushFile ==
  /\ pc = "close_write"
  /\ ~IsRequested
  /\ IF IsDeleted
     THEN UNCHANGED <<queue, recorded>>
     ELSE /\ Q!Push(job.path)
          /\ recorded' = [recorded EXCEPT ![job.path] = job.write]
  /\ IF RootOf[job.path] # None /\ due[RootOf[job.path]] = None
     THEN pc' = "push_root" /\ UNCHANGED job
     ELSE Returns
  /\ UNCHANGED <<disk, files, promised, events, crashes>>

\* push_to_linq, first push.  Nothing exists under a name marked as deleted, so
\* the queue is modelled without it.
PushFile ==
  /\ pc = "close_write"
  /\ ~IsRequested
  /\ IF IsDeleted
     THEN UNCHANGED <<queue, recorded>>
     ELSE /\ Q!Push(job.path)
          /\ recorded' = [recorded EXCEPT ![job.path] = job.write]
  /\ IF RootOf[job.path] # None
     THEN pc' = "push_root" /\ UNCHANGED job
     ELSE Returns
  /\ UNCHANGED <<disk, files, promised, events, crashes>>

\* push_to_linq, second push.
PushRoot ==
  /\ pc = "push_root"
  /\ Q!Push(RootOf[job.path])
  /\ promised' = [f \in File |-> IF RootOf[f] = RootOf[job.path]
                                 THEN recorded[f] ELSE promised[f]]
  /\ Returns
  /\ UNCHANGED <<disk, files, recorded, events, crashes>>

\* Mutant of TakeRequest: the pending write is cancelled before the store.
BuggyTakeRequest ==
  /\ pc = "close_write"
  /\ IsRequested
  /\ Q!Cancel(job.path)
  /\ request' = [request EXCEPT ![job.path] = FALSE]
  /\ job' = [job EXCEPT !.flush = TRUE]
  /\ pc' = "open"
  /\ UNCHANGED <<disk, content, gone, withheld, void, writes, flushes,
                 deletes, auxiliary, events, crashes>>

\* get_request answers with a request, once.
TakeRequest ==
  /\ pc = "close_write"
  /\ IsRequested
  /\ request' = [request EXCEPT ![job.path] = FALSE]
  /\ job' = [job EXCEPT !.flush = TRUE]
  /\ pc' = "open"
  /\ UNCHANGED <<queue, disk, content, gone, withheld, void, writes, flushes,
                 deletes, auxiliary, events, crashes>>

\* The version of the flush is complete: the pending write is cancelled.
CancelPending ==
  /\ pc = "stored"
  /\ job.flush
  /\ Q!Cancel(job.path)
  /\ recorded' = [recorded EXCEPT ![job.path] = job.write]
  /\ pc' = "acknowledge"
  /\ UNCHANGED <<disk, files, promised, events, job, crashes>>

Acknowledge ==
  /\ pc = "acknowledge"
  /\ Returns
  /\ UNCHANGED <<queue, disk, files, auxiliary, events, crashes>>

-----------------------------------------------------------------------------
(***************************************************************************)
(* handle_timeout and store.                                               *)
(***************************************************************************)

TakeHead(p) ==
  /\ pc = "timeout"
  /\ Q!Take(p)
  /\ job' = [NoJob EXCEPT !.path = p]
  /\ pc' = IF p \in Root THEN "snapshot" ELSE "open"
  /\ UNCHANGED <<disk, files, auxiliary, events, crashes>>

NothingToTake ==
  /\ pc = "timeout"
  /\ \A p \in File \cup Root : ~CanTake(p)
  /\ pc' = "poll"
  /\ UNCHANGED <<queue, disk, files, auxiliary, events, job, crashes>>

IsThere == content[job.path] # 0 /\ job.path \notin withheld

\* sync_file: the source does not exist (any more), or may not be read.  store
\* returns as if the version were made, and the path leaves the queue.
SourceIsMissing ==
  /\ pc = "open"
  /\ ~IsThere
  /\ pc' = "stored"
  /\ UNCHANGED <<queue, disk, files, auxiliary, events, job, crashes>>

\* sync_file: what is there is not a regular file.  That is found out after the
\* version was created: it stays, without content.
SourceIsNotRegular ==
  /\ pc = "open"
  /\ job.path \in withheld
  /\ store' = [store EXCEPT ![job.path] = Append(@, 0)]
  /\ pc' = "stored"
  /\ UNCHANGED <<queue, unstable, projects, files, auxiliary, events, job,
                 crashes>>

\* sync_file: both files are open, the version has its name and is empty.
CreateVersion ==
  /\ pc = "open"
  /\ IsThere
  /\ store' = [store EXCEPT ![job.path] = Append(@, 0)]
  /\ job' = [job EXCEPT !.seen = content[job.path]]
  /\ pc' = "copy"
  /\ UNCHANGED <<queue, unstable, projects, files, auxiliary, events,
                 crashes>>

\* Mutant of CopyVersion: a link that exists is kept.
BuggyCopyVersion ==
  /\ pc = "copy"
  /\ \E c \in {job.seen, content[job.path]} \ {0} :
       store' = [store EXCEPT ![job.path] = [@ EXCEPT ![Len(@)] = c]]
  /\ pc' = IF RootOf[job.path] = None \/ unstable[job.path] # 0
           THEN "stored" ELSE "unlink"
  /\ UNCHANGED <<queue, unstable, projects, files, auxiliary, events, job,
                 crashes>>

\* sync_file: a write meanwhile may come too late for the copy, and the file
\* may be deleted while it is open.
CopyVersion ==
  /\ pc = "copy"
  /\ \E c \in {job.seen, content[job.path]} \ {0} :
       store' = [store EXCEPT ![job.path] = [@ EXCEPT ![Len(@)] = c]]
  /\ pc' = IF RootOf[job.path] = None THEN "stored" ELSE "unlink"
  /\ UNCHANGED <<queue, unstable, projects, files, auxiliary, events, job,
                 crashes>>

\* The file's link in the unstable copy of its project is replaced.
UnlinkUnstable ==
  /\ pc = "unlink"
  /\ unstable' = [unstable EXCEPT ![job.path] = 0]
  /\ pc' = "link"
  /\ UNCHANGED <<queue, store, projects, files, auxiliary, events, job,
                 crashes>>

LinkUnstable ==
  /\ pc = "link"
  /\ unstable' = [unstable EXCEPT
                    ![job.path] = Last(store[job.path])]
  /\ pc' = "stored"
  /\ UNCHANGED <<queue, store, projects, files, auxiliary, events, job,
                 crashes>>

\* sync_shallow_tree: the new version is an empty directory.
CreateSnapshot ==
  /\ pc = "snapshot"
  /\ projects' = [projects EXCEPT
                    ![job.path] = Append(@, [f \in FilesOf(job.path) |-> 0])]
  /\ job' = [job EXCEPT !.todo = {f \in FilesOf(job.path) : unstable[f] # 0}]
  /\ pc' = "fill"
  /\ UNCHANGED <<queue, store, unstable, files, auxiliary, events, crashes>>

\* sync_shallow_tree: the unstable copy of a file that exists gets a second link
\* in the version, that of a file that is gone is removed.
Fill(f) ==
  /\ pc = "fill"
  /\ f \in job.todo
  /\ job' = [job EXCEPT !.todo = @ \ {f}]
  /\ IF content[f] # 0
     THEN /\ projects' = [projects EXCEPT
                            ![job.path][Len(projects[job.path])][f] = unstable[f]]
          /\ UNCHANGED unstable
     ELSE /\ unstable' = [unstable EXCEPT ![f] = 0]
          /\ UNCHANGED projects
  /\ UNCHANGED <<queue, store, files, auxiliary, events, pc, crashes>>

FinishSnapshot ==
  /\ pc = "fill"
  /\ job.todo = {}
  /\ pc' = "stored"
  /\ UNCHANGED <<queue, disk, files, auxiliary, events, job, crashes>>

PopHead ==
  /\ pc = "stored"
  /\ ~job.flush
  /\ Q!Commit
  /\ Returns
  /\ UNCHANGED <<disk, files, auxiliary, events, crashes>>

-----------------------------------------------------------------------------
Daemon ==
  \/ Load \/ ReadEvent \/ ReadOverflow \/ PollTimesOut
  \/ WriteIsIgnored \/ PushFile \/ PushRoot
  \/ TakeRequest \/ CancelPending \/ Acknowledge
  \/ (\E p \in File \cup Root : TakeHead(p))
  \/ NothingToTake
  \/ SourceIsMissing \/ SourceIsNotRegular \/ CreateVersion \/ CopyVersion
  \/ UnlinkUnstable \/ LinkUnstable
  \/ CreateSnapshot \/ (\E f \in File : Fill(f)) \/ FinishSnapshot
  \/ PopHead

Next ==
  \/ \E f \in File, wantsFlush \in BOOLEAN : Write(f, wantsFlush)
  \/ \E f \in File : Delete(f) \/ Withhold(f) \/ Return(f)
  \/ Tick
  \/ Start
  \/ Daemon
  \/ Crash

Spec == Init /\ [][Next]_vars

\* The daemon takes its steps, somebody starts it again, time passes.
FairSpec == Spec /\ WF_vars(Daemon) /\ WF_vars(Start) /\ WF_vars(Tick)

-----------------------------------------------------------------------------
Versions(f) == {store[f][i] : i \in DOMAIN store[f]}

IsStored(f) == \E c \in Versions(f) : c >= recorded[f]

\* A write of the file was handled, and the file was neither deleted nor withheld
\* since.
IsOwed(f) == recorded[f] > void[f]

\* No write whose event was handled is lost: until a version is at least as
\* new the file is in the queue, through crashes, flushes and later writes
\* (handle_timeout pops after store, handle_close_write cancels after store).
HandledIsPendingOrStored ==
  \A f \in File : IsOwed(f) => due[f] # None \/ IsStored(f)

\* A version that a crash left without its content is not the last word: the
\* file is still in the queue, or a better version was made.  (A flush is not
\* repeated after a crash.)
TornVersionIsRedone ==
  \A f \in File :
    flushes = 0 /\ IsOwed(f) /\ store[f] # <<>> /\ Last(store[f]) = 0 =>
      due[f] # None

\* A finished project version holds, for each file that still exists, at least
\* the write that was handled before the push that asked for the version: the
\* files come out of the queue before the root that was pushed after them.  A
\* crash between the two pushes breaks it.
SnapshotKeepsPromise ==
  [][\A r \in Root : crashes = 0 /\ handed = r /\ due'[r] = None =>
       \A f \in FilesOf(r) :
         promised[f] > void[f] => Last(projects[r])[f] >= promised[f]]_vars

\* A new version of a project is stored if no files within the project are
\* edited for debounce_seconds: a handled write is in the last version of its
\* project unless one is still to come.
ProjectIsPendingOrStored ==
  \A f \in File : RootOf[f] # None /\ IsOwed(f) =>
    \/ due[RootOf[f]] # None
    \/ pc = "push_root" /\ RootOf[job.path] = RootOf[f]
    \/ /\ projects[RootOf[f]] # <<>>
       /\ Last(projects[RootOf[f]])[f] >= recorded[f]

\* As long as there were only ordinary writes, and no crash between two pushes.
WrittenProjectIsPendingOrStored ==
  flushes = 0 /\ crashes = 0 => ProjectIsPendingOrStored

\* Every handled write gets into the store in the end.
HandledIsStoredInTheEnd ==
  \A f \in File : IsOwed(f) ~> ~IsOwed(f) \/ IsStored(f)
=============================================================================
