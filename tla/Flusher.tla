------------------------------ MODULE Flusher -------------------------------
(***************************************************************************)
(* Flush requests: src/src/flusher.c and the branch of handle_close_write  *)
(* (src/src/handler.c) that serves them.                                   *)
(*                                                                         *)
(* A process that wants a version of a file at once puts a request into an *)
(* extended attribute of the file, closes the file and waits for the       *)
(* identifier of the request in the FIFO /tmp/klunok.<pid>.  The daemon    *)
(* reads the attribute when it gets to the event, whoever closed the file, *)
(* and keeps the FIFO of the last process it answered open.  Attributes    *)
(* survive a reboot; the clock they are stamped with starts again.  A file *)
(* may be taken away at any time: removed, replaced by a directory, or     *)
(* made unreadable for the daemon.                                         *)
(*                                                                         *)
(* The requester is not part of the repository: it is modelled from what   *)
(* flusher.c expects of it.  A request is the index of its description in  *)
(* requests, which stands for its identifier.                              *)
(***************************************************************************)
EXTENDS Integers, Sequences, FiniteSets, Functions

CONSTANTS
  Path,
  Pid,
  PathsOf,      \* Pid -> the paths the process writes
  PipeSize,     \* Pid -> answers its FIFO holds; the reader leaves them there
  None,
  MaxRequests,  \* bound: requests
  MaxEvents,    \* bound: events that wait
  MaxListens,   \* bound: FIFOs
  MaxTroubles   \* bound: crashes of the daemon, reboots, and files taken away

ASSUME FlusherAssumption ==
  /\ PathsOf \in [Pid -> SUBSET Path]
  /\ None \notin Pid \cup Nat \cup [pid : Pid, number : Nat]
  /\ PipeSize \in [Pid -> Nat \ {0}]

VARIABLES
  boot, clock,  \* boot_id and CLOCK_MONOTONIC
  requests,     \* all the requests so far
  stamped,      \* Pid -> the time it has taken for its next request, or 0
  attribute,    \* Path -> the request in its user.klunok.flush, or 0
  unclosed,     \* the paths not closed since the request was put there
  files,        \* the paths with a regular file that the daemon may read
  events,       \* fanotify's queue
  listens,      \* Pid -> how many FIFOs it has made
  listening,    \* Pid -> whether it has the last one open for reading
  inbox,        \* Pid -> the answers in its FIFO
  pc,           \* where the daemon is
  job,          \* the request it works on
  bootId, globalTimestamp, pathTimestamps,  \* struct flusher
  lastPid,      \* flusher->last_pid, None for 0
  lastPidFd,    \* flusher->last_pid_fd, None for -1
  fds,          \* the FIFOs that the daemon has open
  taken,        \* the requests that get_request has answered with
  versions,     \* Path -> how many requests there were at its last version
  removals,     \* Path -> how many there were when it was last taken away
  troubles      \* bound: crashes, reboots and removals so far

requesters == <<requests, stamped, attribute, unclosed>>
tree == <<files, removals>>
fifos == <<listens, listening, inbox>>
flusher == <<bootId, globalTimestamp, pathTimestamps>>
pipes == <<lastPid, lastPidFd, fds>>
vars == <<boot, clock, requesters, tree, events, fifos, pc, job, flusher, pipes,
          taken, versions, troubles>>

NoJob == [id |-> 0, pid |-> None, path |-> None]

Init ==
  /\ boot = 1 /\ clock = 0
  /\ requests = <<>>
  /\ stamped = [p \in Pid |-> 0]
  /\ attribute = [f \in Path |-> 0]
  /\ unclosed = {}
  /\ files = Path
  /\ events = <<>>
  /\ listens = [p \in Pid |-> 0]
  /\ listening = [p \in Pid |-> FALSE]
  /\ inbox = [p \in Pid |-> {}]
  /\ pc = "down"
  /\ job = NoJob
  /\ bootId = 0 /\ globalTimestamp = 0
  /\ pathTimestamps = [f \in Path |-> 0]
  /\ lastPid = None /\ lastPidFd = None /\ fds = {}
  /\ taken = {}
  /\ versions = [f \in Path |-> 0]
  /\ removals = [f \in Path |-> 0]
  /\ troubles = 0

-----------------------------------------------------------------------------
(***************************************************************************)
(* The processes that write files.                                         *)
(***************************************************************************)

FifoOf(p) == [pid |-> p, number |-> listens[p]]

Trouble == troubles < MaxTroubles /\ troubles' = troubles + 1

\* mkfifo and open, perhaps in the place of an earlier FIFO.
Listen(p) ==
  /\ ~listening[p]
  /\ FoldFunction(+, 0, listens) < MaxListens
  /\ listens' = [listens EXCEPT ![p] = @ + 1]
  /\ listening' = [listening EXCEPT ![p] = TRUE]
  /\ inbox' = [inbox EXCEPT ![p] = {}]
  /\ UNCHANGED <<boot, clock, requesters, tree, events, pc, job, flusher,
                 pipes, taken, versions, troubles>>

\* The process exits or is done with its FIFO.
HangUp(p) ==
  /\ listening[p]
  /\ listening' = [listening EXCEPT ![p] = FALSE]
  /\ UNCHANGED <<boot, clock, requesters, tree, events, listens, inbox, pc,
                 job, flusher, pipes, taken, versions, troubles>>

\* A process takes the time, in nanoseconds: no two times are the same.
TakeStamp(p) ==
  /\ listening[p]
  /\ stamped[p] = 0
  /\ Len(requests) + Cardinality({q \in Pid : stamped[q] # 0}) < MaxRequests
  /\ clock' = clock + 1
  /\ stamped' = [stamped EXCEPT ![p] = clock + 1]
  /\ UNCHANGED <<boot, requests, attribute, unclosed, tree, events, fifos, pc,
                 job, flusher, pipes, taken, versions, troubles>>

\* setxattr.  The daemon does not understand every request: another version of
\* the attribute, a time that localtime refuses.
Ask(p, f, isValid) ==
  /\ stamped[p] # 0
  /\ f \in PathsOf[p] \cap files
  /\ requests' = Append(requests, [pid |-> p, path |-> f, fifo |-> FifoOf(p),
                                   boot |-> boot, timestamp |-> stamped[p],
                                   isValid |-> isValid])
  /\ stamped' = [stamped EXCEPT ![p] = 0]
  /\ attribute' = [attribute EXCEPT ![f] = Len(requests) + 1]
  /\ unclosed' = unclosed \cup {f}
  /\ UNCHANGED <<boot, clock, tree, events, fifos, pc, job, flusher, pipes,
                 taken, versions, troubles>>

\* The file is removed or moved away, something else takes its place, or it is
\* not for the daemon to read any more.
TakeAway(f) ==
  /\ f \in files
  /\ Trouble
  /\ files' = files \ {f}
  /\ removals' = [removals EXCEPT ![f] = Len(requests)]
  /\ UNCHANGED <<boot, clock, requesters, events, fifos, pc, job, flusher,
                 pipes, taken, versions>>

\* A new file without an attribute, or the file that was there.
PutBack(f) ==
  /\ f \notin files
  /\ files' = files \cup {f}
  /\ attribute' \in {attribute, [attribute EXCEPT ![f] = 0]}
  /\ UNCHANGED <<boot, clock, requests, stamped, unclosed, removals, events,
                 fifos, pc, job, flusher, pipes, taken, versions, troubles>>

\* The file is closed after a write, with or without a request.
Close(p, f) ==
  /\ f \in PathsOf[p]
  /\ pc # "down"
  /\ Len(events) < MaxEvents
  /\ events' = Append(events, [pid |-> p, path |-> f])
  /\ unclosed' = unclosed \ {f}
  /\ UNCHANGED <<boot, clock, requests, stamped, attribute, tree, fifos, pc,
                 job, flusher, pipes, taken, versions, troubles>>

-----------------------------------------------------------------------------
(***************************************************************************)
(* The daemon.                                                             *)
(***************************************************************************)

\* create_flusher.
Create ==
  /\ pc = "down"
  /\ pc' = "poll"
  /\ clock' = clock + 1
  /\ bootId' = boot
  /\ globalTimestamp' = clock + 1
  /\ pathTimestamps' = [f \in Path |-> 0]
  /\ lastPid' = None
  /\ lastPidFd' = None
  /\ UNCHANGED <<boot, requesters, tree, events, fifos, job, fds, taken,
                 versions, troubles>>

\* The kernel closes what the process had open.
Die ==
  /\ pc' = "down"
  /\ events' = <<>>
  /\ job' = NoJob
  /\ fds' = {}

Crash ==
  /\ pc # "down"
  /\ Trouble
  /\ Die
  /\ UNCHANGED <<boot, clock, requesters, tree, fifos, flusher, lastPid,
                 lastPidFd, taken, versions>>

Reboot ==
  /\ Trouble
  /\ boot' = boot + 1
  /\ clock' = 0
  /\ stamped' = [p \in Pid |-> 0]
  /\ listening' = [p \in Pid |-> FALSE]
  /\ Die
  /\ UNCHANGED <<requests, attribute, unclosed, tree, listens, inbox, flusher,
                 lastPid, lastPidFd, taken, versions>>

\* Mutants of LastTimestamp: nothing is remembered; one time for all paths.
BuggyLastTimestamp(f) == 0
CoarseLastTimestamp(f) ==
  CHOOSE t \in {pathTimestamps[g] : g \in Path} :
    \A g \in Path : pathTimestamps[g] <= t

\* get_last_metadata: 0 for a path that is not in the set.
LastTimestamp(f) == pathTimestamps[f]

\* The checks of get_request.  getxattr reads what is at the path now.
Answers(f) ==
  /\ f \in files
  /\ attribute[f] # 0
  /\ LET request == requests[attribute[f]] IN
     /\ request.boot = bootId
     /\ request.timestamp >= globalTimestamp
     /\ request.timestamp > LastTimestamp(f)
     /\ request.isValid

\* An event; its file carries no request, or one that was answered or is old.
HandleWrite ==
  /\ pc = "poll"
  /\ events # <<>>
  /\ ~Answers(Head(events).path)
  /\ events' = Tail(events)
  /\ UNCHANGED <<boot, clock, requesters, tree, fifos, pc, job, flusher,
                 pipes, taken, versions, troubles>>

\* An event whose file carries a request: get_request answers with it.
HandleRequest ==
  /\ pc = "poll"
  /\ events # <<>>
  /\ LET f == Head(events).path IN
     /\ Answers(f)
     /\ job' = [id |-> attribute[f], pid |-> Head(events).pid, path |-> f]
     /\ taken' = taken \cup {attribute[f]}
     /\ pathTimestamps' = [pathTimestamps EXCEPT
                             ![f] = requests[attribute[f]].timestamp]
  /\ events' = Tail(events)
  /\ pc' = "store"
  /\ UNCHANGED <<boot, clock, requesters, tree, fifos, bootId,
                 globalTimestamp, pipes, versions, troubles>>

\* store copies the file, and a push cancels its pending write: see Klunok.
Store ==
  /\ pc = "store"
  /\ job.path \in files
  /\ versions' = [versions EXCEPT ![job.path] = Len(requests)]
  /\ pc' = "acknowledge"
  /\ UNCHANGED <<boot, clock, requesters, tree, events, fifos, job, flusher,
                 pipes, taken, troubles>>

\* The file was taken away since getxattr: store only writes that into the
\* journal, and handle_close_write goes on as if there were a version.
SourceIsMissing ==
  /\ pc = "store"
  /\ job.path \notin files
  /\ pc' = "acknowledge"
  /\ UNCHANGED <<boot, clock, requesters, tree, events, fifos, job, flusher,
                 pipes, taken, versions, troubles>>

\* Mutant of AcknowledgedId: the attribute is read again, if there is one.
BuggyAcknowledgedId ==
  IF attribute[job.path] = 0 THEN job.id ELSE attribute[job.path]
AcknowledgedId == job.id

HasReader(fd) == listening[fd.pid] /\ fd = FifoOf(fd.pid)

\* The write to a FIFO: it fails with EPIPE or EAGAIN, or the answer gets there.
WriteAnswer(fd) ==
  inbox' = IF HasReader(fd) /\ Cardinality(inbox[fd.pid]) < PipeSize[fd.pid]
           THEN [inbox EXCEPT ![fd.pid] = @ \cup {AcknowledgedId}]
           ELSE inbox

\* Mutant of IsConnected: any FIFO will do.
BuggyIsConnected == lastPidFd # None
IsConnected == job.pid = lastPid

\* Mutant of FdsWith: the FIFO of the last process stays open.
BuggyFdsWith(fd) == fds \cup {fd}
FdsWith(fd) == (fds \ {lastPidFd}) \cup {fd}

\* acknowledge, to another process than last time: its FIFO is the one that is
\* open now.
Connect ==
  /\ pc = "acknowledge"
  /\ ~IsConnected
  /\ listening[job.pid]
  /\ lastPid' = job.pid
  /\ lastPidFd' = FifoOf(job.pid)
  /\ fds' = FdsWith(FifoOf(job.pid))
  /\ UNCHANGED <<boot, clock, requesters, tree, events, fifos, pc, job,
                 flusher, taken, versions, troubles>>

\* acknowledge: open fails, or what it opens is not a FIFO and is closed.
NobodyListens ==
  /\ ~IsConnected
  /\ ~listening[job.pid]
  /\ UNCHANGED <<inbox, pipes>>

\* The write to the FIFO that is open, perhaps since the last answer.  When its
\* reader has hung up it is closed.
Answer ==
  /\ IsConnected
  /\ WriteAnswer(lastPidFd)
  /\ IF HasReader(lastPidFd)
     THEN UNCHANGED pipes
     ELSE lastPid' = None /\ lastPidFd' = None /\ fds' = fds \ {lastPidFd}

Acknowledge ==
  /\ pc = "acknowledge"
  /\ Answer \/ NobodyListens
  /\ pc' = "poll"
  /\ job' = NoJob
  /\ UNCHANGED <<boot, clock, requesters, tree, events, listens, listening,
                 flusher, taken, versions, troubles>>

Daemon ==
  \/ Create
  \/ HandleWrite \/ HandleRequest
  \/ Store \/ SourceIsMissing
  \/ Connect \/ Acknowledge

Next ==
  \/ \E p \in Pid : Listen(p) \/ HangUp(p) \/ TakeStamp(p)
  \/ \E p \in Pid, f \in Path :
       \/ \E isValid \in BOOLEAN : Ask(p, f, isValid)
       \/ Close(p, f)
  \/ \E f \in Path : TakeAway(f) \/ PutBack(f)
  \/ Daemon
  \/ Crash
  \/ Reboot

Spec == Init /\ [][Next]_vars

\* The daemon runs whenever it can, and a process that has put a request on a
\* file closes it: once, when there is room for the event.
FairSpec ==
  /\ Spec
  /\ WF_vars(Daemon)
  /\ \A p \in Pid : \A f \in PathsOf[p] : SF_vars(f \in unclosed /\ Close(p, f))

-----------------------------------------------------------------------------
Ids == 1..Len(requests)

\* A request is served once, though its attribute stays on the file and later
\* closes find it again, in this run of the daemon, in the next and after a
\* reboot (the timestamps of get_request).
ServedOnce ==
  [][job = NoJob /\ job' # NoJob => job'.id \notin taken]_vars

\* Who reads the identifier of a request in a FIFO may rely on a version that
\* was made after the request, unless the file was taken away after the request
\* (the order of handle_close_write; store fails without a word if there is no
\* file to copy any more).
AcknowledgedIsStored ==
  \A p \in Pid : \A i \in inbox[p] :
    versions[requests[i].path] >= i \/ removals[requests[i].path] >= i

\* The cache of one descriptor keeps no other FIFO open, through failures to
\* open and to write: its reader would never see the end of the file.
NoFdIsLeaked == pc # "down" => fds = {lastPidFd} \ {None}

\* Only one process writes the file.
IsOwned(f) == \A p, q \in Pid : f \in PathsOf[p] \cap PathsOf[q] => p = q

\* With a file of its own, a process gets no answer to a request of another,
\* whatever FIFO the daemon had open for the last one.  (The answer to a request
\* goes to the process whose close the daemon found it by.)
AnswersAreForTheReader ==
  \A p \in Pid : \A i \in inbox[p] :
    IsOwned(requests[i].path) => requests[i].pid = p

\* The daemon does not have an earlier FIFO of the process open: it would write
\* the answer there, find that nobody reads it and give up (acknowledge).
NoEarlierFifoIsOpen(p) == lastPid = p => lastPidFd = FifoOf(p)

\* The process of the request i can be answered: the request was made while the
\* daemon ran, no other for the file came after it, the file was not taken away
\* since, and its FIFO is open.
CanBeAnswered(i) ==
  /\ i \in Ids
  /\ LET p == requests[i].pid IN
     /\ IsOwned(requests[i].path)
     /\ removals[requests[i].path] < i
     /\ attribute[requests[i].path] = i
     /\ requests[i].isValid
     /\ requests[i].boot = boot
     /\ pc # "down" /\ requests[i].timestamp > globalTimestamp
     /\ listening[p] /\ requests[i].fifo = FifoOf(p)
     /\ NoEarlierFifoIsOpen(p)
     /\ Cardinality(inbox[p]) < PipeSize[p]

IsAnswered(i) == \E p \in Pid : i \in inbox[p]

\* Every such request gets its answer, whatever the order in which processes
\* take their times, ask and close, unless the process or the daemon gives up first.
EveryRequestIsAnswered ==
  \A i \in 1..MaxRequests :
    CanBeAnswered(i) /\ i \notin taken ~> IsAnswered(i) \/ ~CanBeAnswered(i)
=============================================================================
