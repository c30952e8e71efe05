------------------------------ MODULE Service -------------------------------
(***************************************************************************)
(* The life of the daemon around its queue: the start from the command     *)
(* line (main.c), the poll loop, the reload of the configuration when its  *)
(* file is written (handler.c), the pause until the head of the queue is   *)
(* ripe, and the stop.  Meanwhile the user edits the configuration and     *)
(* writes files, and somebody starts the daemon again when it fails.       *)
(*                                                                         *)
(* What the daemon does to the files is in Klunok; here to store a file is *)
(* to take it out of the queue.  The content of the configuration is the   *)
(* settings that can be seen here.                                         *)
(***************************************************************************)
EXTENDS CommandLine

CONSTANTS
  Argvs,        \* the command lines
  Unprivileged, \* directories of users other than root
  File,         \* the files that editors write, the configuration aside
  Config,       \* settings: records of queue, debounce and journal
  Default,      \* the settings without a file
  Broken,       \* a file that is not a configuration
  Openable,     \* paths where queues and journals can be opened
  Overflow,     \* the event of a full queue of the kernel
  Millisecond,  \* poll takes the pause in this many parts of a second
  IntLimit,     \* the first number that int does not have: 2^31
  MaxWrites,    \* bound: writes of files
  MaxEdits,     \* bound: edits of the configuration
  MaxEvents,    \* bound: the queue of the kernel
  MaxCrashes    \* bound: times the daemon is killed

ASSUME ServiceAssumption ==
  /\ \A c \in Config : c.debounce \in Nat
  /\ \A a \in Argvs : Parse(a).config \notin File
  /\ Default \in Config /\ Broken \notin Config
  /\ Millisecond \in Nat \ {0} /\ IntLimit \in Nat \ {0}
  /\ MaxWrites \in Nat /\ MaxEdits \in Nat
  /\ MaxEvents \in Nat \ {0} /\ MaxCrashes \in Nat

VARIABLES
  args,
  pc,       \* where the daemon is
  file,     \* the content of the configuration file
  writing,  \* whether an editor has it open
  events,   \* what the kernel has for the daemon
  signal,   \* whether SIGTERM is pending
  config,   \* handler->config
  journal,  \* the path handler->journal is open at
  linq,     \* handler->linq: its path and its debounce
  queued,   \* the paths in each queue on disk
  superseded, \* in each queue, how many older entries of a path there are
  pause,    \* of main
  owed,     \* history: files written under a mark, before poll reports the
            \* signal, and not stored since
  unseen,   \* history: the last edit was a flush
  writes, edits, crashes

user == <<file, writing, signal, writes, edits>>
handler == <<config, journal, linq>>
entries == <<queued, superseded>>
vars == <<args, pc, user, events, handler, entries, pause, owed, unseen,
          crashes>>

-----------------------------------------------------------------------------
ParamsOf == [a \in Argvs |-> Parse(a)]

Params == ParamsOf[args]

Queues == {c.queue : c \in Config}

IsMarked == pc \notin {"off", "done"}

IsServing == pc \in {"polling", "expired", "draining"}

\* load_config, load_linq and open_journal succeed.
IsLoadable(c) ==
  c # Broken /\ c.queue \in Openable /\ c.journal \in Openable \cup {None}

\* What load_config reads.
Content == IF Params.config = None THEN Default ELSE file

Init ==
  /\ args \in Argvs
  /\ file \in Config
  /\ pc = "off" /\ writing = FALSE /\ signal = FALSE /\ unseen = FALSE
  /\ events = <<>>
  /\ config = None /\ journal = None /\ linq = None /\ pause = 0
  /\ queued \in [Queues -> {{}, File}] \* a run before left entries, one a path
  /\ superseded = [q \in Queues |-> [path \in File \cup {Params.config} |-> 0]]
  /\ owed = {}
  /\ writes = 0 /\ edits = 0 /\ crashes = 0

-----------------------------------------------------------------------------
IsAbout(event, path) == event # Overflow /\ event.path = path

\* fanotify: an event like one that waits may be merged with it, one that finds
\* no room is replaced by the overflow event.
Notify(path, isFlush) ==
  LET event == [path |-> path, isFlush |-> isFlush] IN
  IF ~IsMarked \/ ~IsWatched(path, Params) THEN UNCHANGED events
  ELSE IF Len(events) < MaxEvents
  THEN \/ events' = Append(events, event)
       \/ event \in ToSet(events) /\ UNCHANGED events
  ELSE events' = IF Overflow \in ToSet(events) THEN events
                 ELSE Append(events, Overflow)

Write(path) ==
  /\ writes < MaxWrites
  /\ writes' = writes + 1
  /\ Notify(path, FALSE)
  /\ owed' = IF IsMarked /\ pc # "stopping" /\ IsWatched(path, Params)
             THEN owed \cup {path} ELSE owed
  /\ UNCHANGED <<args, pc, file, writing, signal, edits, handler, entries,
                 pause, unseen, crashes>>

\* The file is cut off or rewritten in pieces.
OpenConfig ==
  /\ Params.config # None
  /\ ~writing /\ edits < MaxEdits
  /\ writing' = TRUE
  /\ file' \in {Broken, Default}
  /\ edits' = edits + 1
  /\ UNCHANGED <<args, pc, signal, writes, events, handler, entries, pause,
                 owed, unseen, crashes>>

CloseConfig(isFlush) ==
  /\ writing
  /\ writing' = FALSE
  /\ file' \in Config \cup {Broken}
  /\ Notify(Params.config, isFlush)
  /\ unseen' = isFlush
  /\ UNCHANGED <<args, pc, signal, writes, edits, handler, entries, pause, owed,
                 crashes>>

Signal ==
  /\ IsServing /\ ~signal
  /\ signal' = TRUE
  /\ UNCHANGED <<args, pc, file, writing, writes, edits, events, handler,
                 entries, pause, owed, unseen, crashes>>

-----------------------------------------------------------------------------
\* main before it takes anything on: the usage, -h, -v, and no user to become.
IsRefused ==
  IsUsageError(Params) \/ IsInformation(Params) \/ Params.drop \notin Unprivileged

Refuse ==
  /\ pc = "off" /\ IsRefused
  /\ pc' = "done"
  /\ UNCHANGED <<args, user, events, handler, entries, pause, owed, unseen,
                 crashes>>

\* fanotify_init and the marks: from here on events are kept.
Start ==
  /\ pc = "off" /\ ~IsRefused
  /\ pc' = "marked"
  /\ UNCHANGED <<args, user, events, handler, entries, pause, owed, unseen,
                 crashes>>

\* The process ends without success, with what was in memory.
Down ==
  /\ pc' = "off"
  /\ events' = <<>> /\ signal' = FALSE
  /\ config' = None /\ journal' = None /\ linq' = None /\ pause' = 0
  /\ owed' = {path \in owed : \E q \in Queues : path \in queued'[q]}
  /\ UNCHANGED <<args, file, writing, writes, edits, unseen>>

Use(c) ==
  /\ config' = c
  /\ journal' = c.journal
  /\ linq' = [path |-> c.queue, debounce |-> c.debounce]
  /\ unseen' = FALSE

\* Mutant of Load: main sleeps for ever at first, not for no time.
BuggyLoad ==
  /\ pc = "marked" /\ IsLoadable(Content)
  /\ pc' = "polling"
  /\ pause' = -1
  /\ Use(Content)
  /\ UNCHANGED <<args, user, events, entries, owed, crashes>>

\* load_handler; main looks at the queue at once.
Load ==
  /\ pc = "marked" /\ IsLoadable(Content)
  /\ pc' = "polling"
  /\ pause' = 0
  /\ Use(Content)
  /\ UNCHANGED <<args, user, events, entries, owed, crashes>>

LoadFails ==
  /\ pc = "marked" /\ ~IsLoadable(Content)
  /\ UNCHANGED <<entries, crashes>>
  /\ Down

-----------------------------------------------------------------------------
ReadsEvent == pc = "polling" /\ events # <<>>

IsConfigWrite(event) ==
  /\ event # Overflow /\ Params.config # None
  /\ event.path = Params.config /\ ~event.isFlush

Push(path) ==
  /\ queued' = [queued EXCEPT ![linq.path] = @ \cup {path}]
  /\ superseded' = IF path \in queued[linq.path]
                   THEN [superseded EXCEPT ![linq.path][path] = @ + 1]
                   ELSE superseded

\* push_to_linq may ignore the configuration file: no editor wrote it.
PushOrIgnore(path) == Push(path) \/ UNCHANGED entries

\* A flush too ends in the queue, as an entry that cancels, and returns before
\* the configuration is looked at.
HandleWrite ==
  /\ ReadsEvent
  /\ LET event == Head(events) IN
     /\ event # Overflow /\ ~IsConfigWrite(event)
     /\ Push(event.path)
  /\ events' = Tail(events)
  /\ pc' = "draining"
  /\ UNCHANGED <<args, user, handler, pause, owed, unseen, crashes>>

\* Mutant of Reload: the queue stays when only its debounce changed.
BuggyReload ==
  /\ ReadsEvent /\ IsConfigWrite(Head(events)) /\ IsLoadable(file)
  /\ PushOrIgnore(Params.config)
  /\ config' = file
  /\ journal' = file.journal
  /\ linq' = IF linq.path = file.queue THEN linq
             ELSE [path |-> file.queue, debounce |-> file.debounce]
  /\ unseen' = FALSE
  /\ events' = Tail(events)
  /\ pc' = "draining"
  /\ UNCHANGED <<args, user, pause, owed, crashes>>

\* The write is queued where the old settings say.  The queue is opened again
\* only under another path; redebounce makes the rest of the difference.
Reload ==
  /\ ReadsEvent /\ IsConfigWrite(Head(events)) /\ IsLoadable(file)
  /\ PushOrIgnore(Params.config)
  /\ Use(file)
  /\ events' = Tail(events)
  /\ pc' = "draining"
  /\ UNCHANGED <<args, user, pause, owed, crashes>>

ReloadFails ==
  /\ ReadsEvent /\ IsConfigWrite(Head(events)) /\ ~IsLoadable(file)
  /\ PushOrIgnore(Params.config)
  /\ Down
  /\ UNCHANGED crashes

HandleOverflow ==
  /\ ReadsEvent /\ Head(events) = Overflow
  /\ UNCHANGED <<entries, crashes>>
  /\ Down

\* The time-out of poll: the pause narrowed to int; below 0 is for ever.
Timeout == ((pause * Millisecond + IntLimit) % (2 * IntLimit)) - IntLimit

\* After the whole pause the head is ripe, or superseded.
TimesOut ==
  /\ pc = "polling" /\ Timeout >= 0
  /\ pc' = IF pause > 0 /\ Timeout = pause * Millisecond THEN "expired"
           ELSE "draining"
  /\ UNCHANGED <<args, user, events, handler, entries, pause, owed, unseen,
                 crashes>>

\* Mutant of Stop: main looks at the signal first.
BuggyStop ==
  /\ pc = "polling" /\ signal
  /\ pc' = "stopping"
  /\ UNCHANGED <<args, user, events, handler, entries, pause, owed, unseen,
                 crashes>>

\* What poll reports: events go before the signal.
Stop ==
  /\ pc = "polling" /\ events = <<>> /\ signal
  /\ pc' = "stopping"
  /\ UNCHANGED <<args, user, events, handler, entries, pause, owed, unseen,
                 crashes>>

\* main returns; events that came after the answer of poll are not read.
Exit ==
  /\ pc = "stopping"
  /\ pc' = "done"
  /\ events' = <<>>
  /\ UNCHANGED <<args, user, handler, entries, pause, owed, unseen, crashes>>

-----------------------------------------------------------------------------
\* get_head drops a superseded head; the next one may not be ripe.
SkipHead(path) ==
  /\ pc = "expired"
  /\ superseded[linq.path][path] > 0
  /\ pc' = "draining"
  /\ superseded' = [superseded EXCEPT ![linq.path][path] = @ - 1]
  /\ UNCHANGED <<args, user, events, handler, queued, pause, owed, unseen,
                 crashes>>

\* handle_timeout: a ripe head is stored and popped, the last entry of its path.
StoreHead(path) ==
  /\ pc \in {"expired", "draining"}
  /\ path \in queued[linq.path]
  /\ pc' = "draining"
  /\ queued' = [queued EXCEPT ![linq.path] = @ \ {path}]
  /\ superseded' = [superseded EXCEPT ![linq.path][path] = 0]
  /\ owed' = IF \E event \in ToSet(events) : IsAbout(event, path) THEN owed
             ELSE owed \ {path}
  /\ UNCHANGED <<args, user, events, handler, pause, unseen, crashes>>

\* The head is not ripe, or there is none.
FinishTimeout ==
  /\ pc = "draining"
  /\ IF queued[linq.path] = {} THEN pause' = -1
     ELSE pause' \in 1..linq.debounce
  /\ pc' = "polling"
  /\ UNCHANGED <<args, user, events, handler, entries, owed, unseen, crashes>>

Crash ==
  /\ pc \notin {"off", "done"} /\ crashes < MaxCrashes
  /\ crashes' = crashes + 1
  /\ UNCHANGED entries /\ Down

-----------------------------------------------------------------------------
User ==
  \/ \E path \in File : Write(path)
  \/ OpenConfig \/ (\E isFlush \in BOOLEAN : CloseConfig(isFlush))
  \/ Signal

Daemon ==
  \/ Refuse \/ Start \/ Load \/ LoadFails
  \/ HandleWrite \/ Reload \/ ReloadFails \/ HandleOverflow
  \/ TimesOut \/ Stop \/ Exit
  \/ \E path \in File \cup {Params.config} : SkipHead(path) \/ StoreHead(path)
  \/ FinishTimeout

Next == User \/ Daemon \/ Crash

Spec == Init /\ [][Next]_vars

\* One thread, started again unless it ended with success.
FairSpec == Spec /\ WF_vars(Daemon)

-----------------------------------------------------------------------------
\* Nothing the kernel has for the daemon bears on the settings.
NoEditIsUnread ==
  \A i \in DOMAIN events :
    events[i] # Overflow /\ events[i].path # Params.config

\* The queue and the journal are those of the settings, and the settings are
\* those of the file whenever the daemon waits, nothing about the file is
\* unread and it is watched: an edit between any two steps, also between the
\* marks and the first load, is found.  (A flush of the file is not.)
SettingsAreCurrent ==
  IsServing =>
    /\ journal = config.journal
    /\ linq = [path |-> config.queue, debounce |-> config.debounce]
    /\ Params.config = None => config = Default
    /\ Params.config # None /\ IsWatched(Params.config, Params)
         /\ NoEditIsUnread /\ ~writing /\ ~unseen => config = file

\* A stop by a signal leaves each write that was made under the marks, before
\* poll reports the signal, stored or in a queue, where the next start finds it.
StopLosesNothing ==
  pc = "done" => \A path \in owed : \E q \in Queues : path \in queued[q]

IsExcused ==
  \/ pc = "done"
  \/ pc \in {"off", "marked"} /\ ~IsLoadable(Content)
  \/ IsServing /\ linq.debounce * Millisecond >= IntLimit

IsDrained == pc = "polling" /\ queued[linq.path] = {}

\* Whatever changes of the settings come, the queue in use is emptied again and
\* again, unless the daemon was stopped, cannot start, or has a debounce that
\* poll does not take.
QueueIsDrained == []<>(IsExcused \/ IsDrained)
=============================================================================
