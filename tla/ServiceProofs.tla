--------------------------- MODULE ServiceProofs ----------------------------
(***************************************************************************)
(* Proofs about the life of the daemon, for any command lines, settings    *)
(* and bounds: its settings are those of the file, and a stop loses no     *)
(* write.                                                                  *)
(*                                                                         *)
(* An edit that the settings do not have yet waits in the queue of the     *)
(* kernel, or the overflow that stops the daemon does, and so does every   *)
(* write that is in no queue of the daemon: SettingsAreRight, OwedIsKept.  *)
(*                                                                         *)
(* And about the functions it starts with, for any words and paths: the    *)
(* loop over the command line, and the common parent of the mounts.        *)
(***************************************************************************)
EXTENDS MCService, SequenceTheorems, WellFoundedInduction, TLAPS

Configs == {ParamsOf[a].config : a \in Argvs}

Path == File \cup Configs

WatchesConfig == [a \in Argvs |-> IsWatched(ParamsOf[a].config, ParamsOf[a])]

Event == [path : Path, isFlush : BOOLEAN] \cup {Overflow}

TypeOK ==
  /\ args \in Argvs
  /\ pc \in {"off", "marked", "polling", "expired", "draining", "stopping", "done"}
  /\ file \in Config \cup {Broken}
  /\ events \in Seq(Event)
  /\ queued \in [Queues -> SUBSET Path]
  /\ owed \subseteq File
  /\ ~IsMarked => events = <<>>

\* An event that makes the daemon read the file again, or stops it.
BearsOnSettings(event) == event = Overflow \/ IsConfigWrite(event)

SettingsAreRight ==
  IsServing =>
    /\ config \in Config
    /\ journal = config.journal
    /\ linq = [path |-> config.queue, debounce |-> config.debounce]
    /\ Params.config = None => config = Default
    /\ \/ Params.config = None \/ ~WatchesConfig[args]
       \/ writing \/ unseen
       \/ config = file
       \/ \E i \in DOMAIN events : BearsOnSettings(events[i])

\* A write that is owed is in a queue or among the events that will be read.
OwedIsKept ==
  \A path \in owed :
    \/ \E q \in Queues : path \in queued[q]
    \/ /\ pc # "stopping"
       /\ \E i \in DOMAIN events : events[i] = Overflow \/ events[i].path = path

IInv == TypeOK /\ SettingsAreRight /\ OwedIsKept

-----------------------------------------------------------------------------
\* The command line is constant; the configuration file is not one of the files.
LEMMA Arguments ==
  ASSUME TypeOK
  PROVE  /\ Params.config \in Path /\ Params.config \notin File
         /\ WatchesConfig[args] <=> IsWatched(Params.config, Params)
  <1>1. args \in Argvs
    BY DEF TypeOK
  <1>2. Params = Parse(args) /\ ParamsOf[args] = Params
    BY <1>1 DEF Params, ParamsOf
  <1>3. Params.config \in Configs
    BY <1>1, <1>2 DEF Configs
  <1>4. WatchesConfig[args] = IsWatched(Params.config, Params)
    BY <1>1, <1>2 DEF WatchesConfig
  <1> QED
    BY <1>1, <1>2, <1>3, <1>4, ServiceAssumption DEF Path

\* What the kernel does to its queue: an event for a path that is watched is
\* there, or the overflow is, and no event goes.
LEMMA NotifyKeepsEvents ==
  ASSUME TypeOK, NEW path \in Path, NEW isFlush \in BOOLEAN,
         Notify(path, isFlush)
  PROVE  /\ events' \in Seq(Event)
         /\ \A i \in DOMAIN events :
              i \in DOMAIN events' /\ events'[i] = events[i]
         /\ IsMarked /\ IsWatched(path, Params) =>
              \E i \in DOMAIN events' :
                \/ events'[i] = Overflow
                \/ events'[i] = [path |-> path, isFlush |-> isFlush]
         /\ ~IsMarked => events' = events
  <1> DEFINE event == [path |-> path, isFlush |-> isFlush]
  <1>1. events \in Seq(Event) /\ event \in Event /\ Overflow \in Event
    BY DEF TypeOK, Event
  <1>2. \/ events' = events /\ ~(IsMarked /\ IsWatched(path, Params))
        \/ events' = Append(events, event) /\ IsMarked
        \/ events' = events /\ event \in ToSet(events) /\ IsMarked
        \/ events' = events /\ Overflow \in ToSet(events) /\ IsMarked
        \/ events' = Append(events, Overflow) /\ IsMarked
    BY DEF Notify
  <1> HIDE DEF event
  <1>3. ASSUME NEW e \in Event, events' = Append(events, e)
        PROVE  /\ events' \in Seq(Event)
               /\ \A i \in DOMAIN events :
                    i \in DOMAIN events' /\ events'[i] = events[i]
               /\ \E i \in DOMAIN events' : events'[i] = e
    <2>1. /\ events' \in Seq(Event)
          /\ Len(events) + 1 \in DOMAIN events'
          /\ events'[Len(events) + 1] = e
          /\ \A i \in DOMAIN events :
               i \in DOMAIN events' /\ events'[i] = events[i]
      BY <1>1, <1>3
    <2> QED
      BY <2>1
  <1>4. CASE events' = events /\ ~(IsMarked /\ IsWatched(path, Params))
    BY <1>1, <1>4
  <1>5. CASE events' = Append(events, event) /\ IsMarked
    BY <1>1, <1>3, <1>5 DEF event
  <1>6. CASE events' = events /\ event \in ToSet(events) /\ IsMarked
    BY <1>1, <1>6 DEF event, ToSet
  <1>7. CASE events' = events /\ Overflow \in ToSet(events) /\ IsMarked
    BY <1>1, <1>7 DEF ToSet
  <1>8. CASE events' = Append(events, Overflow) /\ IsMarked
    BY <1>1, <1>3, <1>8
  <1> QED
    BY <1>2, <1>4, <1>5, <1>6, <1>7, <1>8

\* The event that is handled and the ones that stay.
LEMMA HeadAndTail ==
  ASSUME NEW s \in Seq(Event), s # <<>>
  PROVE  /\ 1 \in DOMAIN s /\ Head(s) = s[1] /\ Head(s) \in Event
         /\ Tail(s) \in Seq(Event)
         /\ \A i \in DOMAIN s \ {1} :
              i - 1 \in DOMAIN Tail(s) /\ Tail(s)[i - 1] = s[i]
  OBVIOUS

\* Nothing is marked, nothing is owed.
LEMMA InitIInv ==
  ASSUME Init
  PROVE  IInv
  <1>1. <<>> \in Seq(Event)
    OBVIOUS
  <1>2. queued \in [Queues -> SUBSET Path]
    BY DEF Init, Path
  <1> QED
    BY <1>1, <1>2 DEF Init, IInv, TypeOK, SettingsAreRight, OwedIsKept, IsServing

-----------------------------------------------------------------------------
\* The write is owed and among the events.
LEMMA WriteKeeps ==
  ASSUME IInv, NEW path \in File, Write(path)
  PROVE  IInv'
  <1>1. /\ args' = args /\ pc' = pc /\ file' = file /\ writing' = writing
        /\ config' = config /\ journal' = journal /\ linq' = linq
        /\ queued' = queued /\ unseen' = unseen
        /\ Notify(path, FALSE)
        /\ \/ owed' = owed
           \/ /\ owed' = owed \cup {path} /\ IsMarked /\ pc # "stopping"
              /\ IsWatched(path, Params)
    BY DEF Write, handler, entries
  <1>2. TypeOK /\ Params' = Params
    BY <1>1 DEF IInv, Params
  <1>3. /\ events' \in Seq(Event)
        /\ \A i \in DOMAIN events :
             i \in DOMAIN events' /\ events'[i] = events[i]
        /\ IsMarked /\ IsWatched(path, Params) =>
             \E i \in DOMAIN events' :
               \/ events'[i] = Overflow
               \/ events'[i] = [path |-> path, isFlush |-> FALSE]
        /\ ~IsMarked => events' = events
    BY <1>1, <1>2, NotifyKeepsEvents DEF Path
  <1>4. TypeOK'
    BY <1>1, <1>2, <1>3 DEF TypeOK, IsMarked
  <1>5. SettingsAreRight'
    BY <1>1, <1>2, <1>3 DEF IInv, SettingsAreRight, IsServing, BearsOnSettings,
         IsConfigWrite
  <1>6. OwedIsKept'
    <2>1. ASSUME NEW x \in owed'
          PROVE  \/ \E q \in Queues : x \in queued[q]
                 \/ /\ pc # "stopping"
                    /\ \E i \in DOMAIN events' :
                         events'[i] = Overflow \/ events'[i].path = x
      <3>1. CASE x \in owed
        BY <1>3, <3>1 DEF IInv, OwedIsKept
      <3>2. CASE /\ x = path /\ IsMarked /\ pc # "stopping"
                 /\ IsWatched(path, Params)
        BY <1>3, <3>2
      <3> QED
        BY <1>1, <2>1, <3>1, <3>2
    <2> QED
      BY <1>1, <2>1 DEF OwedIsKept
  <1> QED
    BY <1>4, <1>5, <1>6 DEF IInv

\* An edit is under way, unread or a flush.
LEMMA EditKeeps ==
  ASSUME IInv, NEW isFlush \in BOOLEAN, OpenConfig \/ CloseConfig(isFlush)
  PROVE  IInv'
  <1>1. /\ args' = args /\ pc' = pc /\ config' = config /\ journal' = journal
        /\ linq' = linq /\ queued' = queued /\ owed' = owed /\ Params' = Params
        /\ file' \in Config \cup {Broken}
        /\ \/ writing' = TRUE /\ events' = events /\ unseen' = unseen
           \/ /\ writing' = FALSE /\ unseen' = isFlush
              /\ Notify(Params.config, isFlush)
    BY ServiceAssumption DEF OpenConfig, CloseConfig, handler, entries, Params
  <1>2. TypeOK /\ events \in Seq(Event)
    BY DEF IInv, TypeOK
  <1>3. /\ events' \in Seq(Event)
        /\ \A i \in DOMAIN events :
             i \in DOMAIN events' /\ events'[i] = events[i]
        /\ ~IsMarked => events' = events
    BY <1>1, <1>2, Arguments, NotifyKeepsEvents
  <1>4. TypeOK'
    BY <1>1, <1>2, <1>3 DEF TypeOK, IsMarked
  <1>5. OwedIsKept'
    BY <1>1, <1>3 DEF IInv, OwedIsKept
  <1>6. SettingsAreRight'
    <2>1. CASE writing' = TRUE
      BY <1>1, <2>1 DEF IInv, SettingsAreRight, IsServing
    <2>2. CASE unseen' = TRUE
      BY <1>1, <2>2 DEF IInv, SettingsAreRight, IsServing
    <2>3. CASE /\ IsServing /\ Params.config # None /\ WatchesConfig[args]
               /\ isFlush = FALSE /\ Notify(Params.config, isFlush)
      <3>1. IsMarked /\ IsWatched(Params.config, Params)
        BY <1>2, <2>3, Arguments DEF IsServing, IsMarked
      <3>2. PICK i \in DOMAIN events' :
              \/ events'[i] = Overflow
              \/ events'[i] = [path |-> Params.config, isFlush |-> isFlush]
        BY <1>2, <2>3, <3>1, Arguments, NotifyKeepsEvents
      <3>3. events'[i] = Overflow \/ IsConfigWrite(events'[i])
        BY <2>3, <3>2 DEF IsConfigWrite
      <3> QED
        BY <1>1, <3>3 DEF IInv, SettingsAreRight, IsServing, BearsOnSettings,
             IsConfigWrite
    <2>4. CASE ~(IsServing /\ Params.config # None /\ WatchesConfig[args])
      BY <1>1, <2>4 DEF IInv, SettingsAreRight, IsServing
    <2> QED
      BY <1>1, <2>1, <2>2, <2>3, <2>4
  <1> QED
    BY <1>4, <1>5, <1>6 DEF IInv

-----------------------------------------------------------------------------
\* The daemon ends before it serves, or a signal or a time-out comes: neither
\* the settings nor the queues change.
LEMMA WaitKeeps ==
  ASSUME IInv,
         \/ Signal \/ Refuse \/ Start \/ TimesOut \/ FinishTimeout
         \/ Stop \/ \E path : SkipHead(path)
  PROVE  IInv'
  <1>1. /\ args' = args /\ file' = file /\ writing' = writing
        /\ events' = events /\ config' = config /\ journal' = journal
        /\ linq' = linq /\ queued' = queued /\ owed' = owed
        /\ unseen' = unseen /\ Params' = Params
        /\ \/ pc' = pc
           \/ pc = "off" /\ pc' \in {"done", "marked"}
           \/ IsServing /\ pc' \in {"expired", "draining", "polling"}
           \/ pc' = "stopping" /\ events = <<>>
    BY DEF Signal, Refuse, Start, TimesOut, FinishTimeout, Stop, SkipHead, user,
         handler, entries, Params, IsServing
  <1>2. TypeOK
    BY DEF IInv
  <1>3. /\ pc' \in {"off", "marked", "polling", "expired", "draining",
                    "stopping", "done"}
        /\ IsServing' => IsServing
        /\ ~IsMarked' => events = <<>>
    BY <1>1, <1>2 DEF TypeOK, IsServing, IsMarked
  <1>4. TypeOK'
    BY <1>1, <1>2, <1>3 DEF TypeOK
  <1>5. SettingsAreRight'
    BY <1>1, <1>3 DEF IInv, SettingsAreRight, BearsOnSettings, IsConfigWrite
  <1>6. OwedIsKept'
    BY <1>1 DEF IInv, OwedIsKept, IsServing
  <1> QED
    BY <1>4, <1>5, <1>6 DEF IInv

\* What is owed when main returns is in a queue.
LEMMA ExitKeeps ==
  ASSUME IInv, Exit
  PROVE  IInv'
  <1>1. /\ args' = args /\ file' = file /\ queued' = queued /\ owed' = owed
        /\ events' = <<>> /\ pc = "stopping" /\ pc' = "done"
    BY DEF Exit, user, entries
  <1>2. TypeOK /\ <<>> \in Seq(Event)
    BY DEF IInv
  <1>3. TypeOK'
    BY <1>1, <1>2 DEF TypeOK
  <1>4. SettingsAreRight'
    BY <1>1 DEF SettingsAreRight, IsServing
  <1>5. OwedIsKept'
    BY <1>1 DEF IInv, OwedIsKept
  <1> QED
    BY <1>3, <1>4, <1>5 DEF IInv

-----------------------------------------------------------------------------
\* Of the writes that were only events nothing is owed any more.
LEMMA DownKeeps ==
  ASSUME IInv, Down, queued' \in [Queues -> SUBSET Path]
  PROVE  IInv'
  <1>1. /\ args' = args /\ pc' = "off" /\ file' = file /\ events' = <<>>
        /\ owed' = {path \in owed : \E q \in Queues : path \in queued'[q]}
    BY DEF Down
  <1>2. TypeOK /\ <<>> \in Seq(Event)
    BY DEF IInv
  <1>3. TypeOK'
    BY <1>1, <1>2 DEF TypeOK
  <1>4. SettingsAreRight'
    BY <1>1 DEF SettingsAreRight, IsServing
  <1>5. OwedIsKept'
    BY <1>1 DEF OwedIsKept
  <1> QED
    BY <1>3, <1>4, <1>5 DEF IInv

\* The settings are those that the file has, or the default without a file.
LEMMA UseKeeps ==
  ASSUME TypeOK, NEW c, IsLoadable(c), c = Content, Use(c), args' = args,
         file' = file, writing' = writing
  PROVE  SettingsAreRight'
  <1>1. /\ config' = c /\ journal' = c.journal
        /\ linq' = [path |-> c.queue, debounce |-> c.debounce]
        /\ Params' = Params
    BY DEF Use, Params
  <1>2. c \in Config
    BY ServiceAssumption DEF TypeOK, IsLoadable, Content
  <1>3. Params.config = None => c = Default
    BY DEF Content
  <1>4. Params.config # None => c = file
    BY DEF Content
  <1> QED
    BY <1>1, <1>2, <1>3, <1>4 DEF SettingsAreRight

\* The first load.
LEMMA LoadKeeps ==
  ASSUME IInv, Load
  PROVE  IInv'
  <1>1. /\ args' = args /\ file' = file /\ writing' = writing
        /\ events' = events /\ queued' = queued /\ owed' = owed
        /\ pc = "marked" /\ pc' = "polling"
        /\ IsLoadable(Content) /\ Use(Content)
    BY DEF Load, user, entries
  <1>2. TypeOK
    BY DEF IInv
  <1>3. TypeOK'
    BY <1>1, <1>2 DEF TypeOK, IsMarked
  <1>4. SettingsAreRight'
    BY <1>1, <1>2, UseKeeps
  <1>5. OwedIsKept'
    BY <1>1 DEF IInv, OwedIsKept
  <1> QED
    BY <1>3, <1>4, <1>5 DEF IInv

\* The queue in use is one of the queues, and the entry is in it.
LEMMA PushKeepsQueues ==
  ASSUME IInv, IsServing, NEW path \in Path, PushOrIgnore(path)
  PROVE  /\ queued' \in [Queues -> SUBSET Path]
         /\ \A q \in Queues : queued[q] \subseteq queued'[q]
         /\ Push(path) => \E q \in Queues : path \in queued'[q]
  <1>1. /\ config \in Config
        /\ linq = [path |-> config.queue, debounce |-> config.debounce]
        /\ queued \in [Queues -> SUBSET Path]
    BY DEF IInv, SettingsAreRight, TypeOK
  <1>2. linq.path \in Queues
    BY <1>1 DEF Queues
  <1>3. CASE Push(path)
    <2>1. queued' = [queued EXCEPT ![linq.path] = @ \cup {path}]
      BY <1>3 DEF Push
    <2> QED
      BY <1>1, <1>2, <2>1
  <1> QED
    BY <1>1, <1>3 DEF PushOrIgnore, entries

\* The path of the first event is in a queue now; the others wait.
LEMMA HandledIsKept ==
  ASSUME IInv, ReadsEvent, Head(events) # Overflow,
         events' = Tail(events), owed' = owed, pc' = "draining",
         \A q \in Queues : queued[q] \subseteq queued'[q],
         Head(events).path \notin File
           \/ \E q \in Queues : Head(events).path \in queued'[q]
  PROVE  OwedIsKept'
  <1>1. events \in Seq(Event) /\ events # <<>> /\ owed \subseteq File
    BY DEF IInv, TypeOK, ReadsEvent
  <1>2. ASSUME NEW x \in owed
        PROVE  \/ \E q \in Queues : x \in queued'[q]
               \/ \E i \in DOMAIN events' : events'[i] = Overflow \/ events'[i].path = x
    <2>1. CASE \E q \in Queues : x \in queued[q]
      BY <2>1
    <2>2. ASSUME NEW i \in DOMAIN events, events[i] = Overflow \/ events[i].path = x
          PROVE  \/ \E q \in Queues : x \in queued'[q]
                 \/ \E k \in DOMAIN events' :
                      events'[k] = Overflow \/ events'[k].path = x
      <3>1. CASE i = 1
        BY <1>1, <1>2, <2>2, <3>1, HeadAndTail
      <3>2. CASE i # 1
        <4>1. i - 1 \in DOMAIN events' /\ events'[i - 1] = events[i]
          BY <1>1, <3>2, HeadAndTail
        <4> QED
          BY <2>2, <4>1
      <3> QED
        BY <3>1, <3>2
    <2> QED
      BY <1>2, <2>1, <2>2 DEF IInv, OwedIsKept
  <1> QED
    BY <1>2 DEF OwedIsKept

\* An event of a path is one of Event, and the path one of Path.
LEMMA HeadIsEvent ==
  ASSUME TypeOK, events # <<>>, Head(events) # Overflow
  PROVE  Head(events).path \in Path
  <1>1. Head(events) \in Event
    BY HeadAndTail DEF TypeOK
  <1> QED
    BY <1>1 DEF Event

\* A write that does not bear on the settings ends in the queue.
LEMMA HandleWriteKeeps ==
  ASSUME IInv, HandleWrite
  PROVE  IInv'
  <1>1. /\ args' = args /\ file' = file /\ writing' = writing
        /\ config' = config /\ journal' = journal /\ linq' = linq
        /\ unseen' = unseen /\ owed' = owed
        /\ events' = Tail(events) /\ pc' = "draining"
        /\ ReadsEvent /\ Head(events) # Overflow
        /\ ~IsConfigWrite(Head(events)) /\ Push(Head(events).path)
    BY DEF HandleWrite, user, handler
  <1>2. /\ TypeOK /\ Params' = Params /\ events \in Seq(Event) /\ events # <<>>
        /\ IsServing /\ IsServing' /\ pc = "polling"
    BY <1>1 DEF IInv, TypeOK, Params, ReadsEvent, IsServing
  <1>3. Head(events).path \in Path
    BY <1>1, <1>2, HeadIsEvent
  <1>4. /\ queued' \in [Queues -> SUBSET Path]
        /\ \A q \in Queues : queued[q] \subseteq queued'[q]
        /\ \E q \in Queues : Head(events).path \in queued'[q]
    BY <1>1, <1>2, <1>3, PushKeepsQueues DEF PushOrIgnore
  <1>5. TypeOK'
    BY <1>1, <1>2, <1>4, HeadAndTail DEF TypeOK, IsMarked
  <1>6. SettingsAreRight'
    <2>1. ASSUME NEW i \in DOMAIN events, BearsOnSettings(events[i])
          PROVE  \E k \in DOMAIN events' : BearsOnSettings(events'[k])
      <3>1. i # 1
        BY <1>1, <1>2, <2>1, HeadAndTail DEF BearsOnSettings
      <3> QED
        BY <1>1, <1>2, <2>1, <3>1, HeadAndTail
    <2> QED
      BY <1>1, <1>2, <2>1 DEF IInv, SettingsAreRight, BearsOnSettings, IsConfigWrite
  <1>7. OwedIsKept'
    BY <1>1, <1>4, HandledIsKept
  <1> QED
    BY <1>5, <1>6, <1>7 DEF IInv

\* The settings are those of the file; no other file's event is gone.
LEMMA ReloadKeeps ==
  ASSUME IInv, Reload
  PROVE  IInv'
  <1>1. /\ args' = args /\ file' = file /\ writing' = writing /\ owed' = owed
        /\ events' = Tail(events) /\ pc' = "draining"
        /\ ReadsEvent /\ IsConfigWrite(Head(events)) /\ IsLoadable(file)
        /\ PushOrIgnore(Params.config) /\ Use(file)
    BY DEF Reload, user
  <1>2. /\ TypeOK /\ events \in Seq(Event) /\ events # <<>>
        /\ IsServing /\ pc = "polling"
    BY <1>1 DEF IInv, TypeOK, ReadsEvent, IsServing
  <1>3. /\ queued' \in [Queues -> SUBSET Path]
        /\ \A q \in Queues : queued[q] \subseteq queued'[q]
    BY <1>1, <1>2, Arguments, PushKeepsQueues
  <1>4. TypeOK'
    BY <1>1, <1>2, <1>3, HeadAndTail DEF TypeOK, IsMarked
  <1>5. SettingsAreRight'
    <2>1. file = Content
      BY <1>1 DEF Content, IsConfigWrite
    <2> QED
      BY <1>1, <1>2, <2>1, UseKeeps
  <1>6. OwedIsKept'
    <2>1. Head(events) # Overflow /\ Head(events).path \notin File
      BY <1>1, <1>2, Arguments DEF IsConfigWrite
    <2> QED
      BY <1>1, <1>3, <2>1, HandledIsKept
  <1> QED
    BY <1>4, <1>5, <1>6 DEF IInv

\* The daemon stops: with settings it cannot load, an overflow, or killed.
LEMMA EndKeeps ==
  ASSUME IInv, LoadFails \/ ReloadFails \/ HandleOverflow \/ Crash
  PROVE  IInv'
  <1>1. TypeOK /\ Down
    BY DEF IInv, LoadFails, ReloadFails, HandleOverflow, Crash
  <1>2. CASE UNCHANGED entries
    BY <1>1, <1>2, DownKeeps DEF TypeOK, entries
  <1>3. CASE ReloadFails
    <2>1. IsServing /\ PushOrIgnore(Params.config)
      BY <1>3 DEF ReloadFails, ReadsEvent, IsServing
    <2>2. queued' \in [Queues -> SUBSET Path]
      BY <1>1, <2>1, Arguments, PushKeepsQueues
    <2> QED
      BY <1>1, <2>2, DownKeeps
  <1> QED
    BY <1>2, <1>3 DEF LoadFails, HandleOverflow, Crash, entries

\* What is popped was stored; a later write of it is still among the events.
LEMMA StoreHeadKeeps ==
  ASSUME IInv, NEW path, StoreHead(path)
  PROVE  IInv'
  <1>1. /\ args' = args /\ file' = file /\ writing' = writing
        /\ events' = events /\ config' = config /\ journal' = journal
        /\ linq' = linq /\ unseen' = unseen
        /\ pc \in {"expired", "draining"} /\ pc' = "draining"
        /\ queued' = [queued EXCEPT ![linq.path] = @ \ {path}]
        /\ owed' \subseteq owed
        /\ path \in owed' => \E event \in ToSet(events) : IsAbout(event, path)
    BY DEF StoreHead, user, handler
  <1>2. TypeOK /\ Params' = Params /\ queued \in [Queues -> SUBSET Path]
    BY <1>1 DEF IInv, TypeOK, Params
  <1>3. queued' \in [Queues -> SUBSET Path]
    BY <1>1, <1>2
  <1>4. TypeOK'
    BY <1>1, <1>2, <1>3 DEF TypeOK, IsMarked
  <1>5. SettingsAreRight'
    BY <1>1, <1>2 DEF IInv, SettingsAreRight, IsServing, BearsOnSettings,
         IsConfigWrite
  <1>6. OwedIsKept'
    <2>1. ASSUME NEW x \in owed'
          PROVE  \/ \E q \in Queues : x \in queued'[q]
                 \/ \E i \in DOMAIN events :
                      events[i] = Overflow \/ events[i].path = x
      <3>1. CASE x = path
        BY <1>1, <2>1, <3>1 DEF IsAbout, ToSet
      <3>2. CASE x # path
        <4>1. \A q \in Queues : x \in queued[q] => x \in queued'[q]
          BY <1>1, <1>2, <3>2
        <4> QED
          BY <1>1, <2>1, <4>1 DEF IInv, OwedIsKept
      <3> QED
        BY <3>1, <3>2
    <2> QED
      BY <1>1, <2>1 DEF OwedIsKept
  <1> QED
    BY <1>4, <1>5, <1>6 DEF IInv

-----------------------------------------------------------------------------
\* No step breaks the invariant.
LEMMA NextIInv ==
  ASSUME IInv, [Next]_vars
  PROVE  IInv'
  <1>1. CASE \E path \in File : Write(path)
    BY <1>1, WriteKeeps
  <1>2. CASE OpenConfig \/ \E isFlush \in BOOLEAN : CloseConfig(isFlush)
    BY <1>2, EditKeeps
  <1>3. CASE Signal \/ Refuse \/ Start \/ TimesOut \/ FinishTimeout \/ Stop
    BY <1>3, WaitKeeps
  <1>4. CASE Load \/ HandleWrite \/ Reload
    BY <1>4, LoadKeeps, HandleWriteKeeps, ReloadKeeps
  <1>5. CASE LoadFails \/ ReloadFails \/ HandleOverflow \/ Crash
    BY <1>5, EndKeeps
  <1>6. CASE \E path \in File \cup {Params.config} : SkipHead(path) \/ StoreHead(path)
    BY <1>6, WaitKeeps, StoreHeadKeeps
  <1>8. CASE Exit
    BY <1>8, ExitKeeps
  <1>7. CASE UNCHANGED vars
    <2>1. /\ args' = args /\ pc' = pc /\ file' = file /\ writing' = writing
          /\ events' = events /\ config' = config /\ journal' = journal
          /\ linq' = linq /\ queued' = queued /\ owed' = owed
          /\ unseen' = unseen
      BY <1>7 DEF vars, user, handler, entries
    <2>2. Params' = Params
      BY <2>1 DEF Params
    <2> QED
      BY <2>1, <2>2 DEF IInv, TypeOK, SettingsAreRight, OwedIsKept, IsServing,
           IsMarked, BearsOnSettings, IsConfigWrite
  <1> QED
    BY <1>1, <1>2, <1>3, <1>4, <1>5, <1>6, <1>7, <1>8 DEF Next, User, Daemon

\* The inductive invariant: settings, events and queues agree in every reachable
\* state.
THEOREM Invariance == Spec => []IInv
  <1>1. Init => IInv
    BY InitIInv
  <1>2. IInv /\ [Next]_vars => IInv'
    BY NextIInv
  <1> QED
    BY <1>1, <1>2, PTL DEF Spec

\* Whenever the daemon waits and has read all events about the file, it goes by
\* the settings in it, with the queue and the journal of these settings.
THEOREM EditsAreFound == Spec => []SettingsAreCurrent
  <1>1. ASSUME IInv
        PROVE  SettingsAreCurrent
    <2>1. ASSUME NoEditIsUnread, NEW i \in DOMAIN events
          PROVE  ~BearsOnSettings(events[i])
      BY <2>1 DEF NoEditIsUnread, BearsOnSettings, IsConfigWrite
    <2>2. WatchesConfig[args] <=> IsWatched(Params.config, Params)
      BY <1>1, Arguments DEF IInv
    <2> QED
      BY <1>1, <2>1, <2>2 DEF IInv, SettingsAreRight, SettingsAreCurrent
  <1> QED
    BY <1>1, Invariance, PTL

\* A stop by a signal loses no write, whatever came before it.
THEOREM NothingIsLostByAStop == Spec => []StopLosesNothing
  <1>1. ASSUME IInv
        PROVE  StopLosesNothing
    <2>1. pc = "done" => events = <<>>
      BY <1>1 DEF IInv, TypeOK, IsMarked
    <2> QED
      BY <1>1, <2>1 DEF IInv, OwedIsKept, StopLosesNothing
  <1> QED
    BY <1>1, Invariance, PTL

-----------------------------------------------------------------------------
\* Induction on the elements of an interval, for sets.
LEMMA IntervalInduction ==
  ASSUME NEW n \in Nat, NEW S, 0 \in S,
         \A i \in 1..n : i - 1 \in S => i \in S
  PROVE  0..n \subseteq S
  <1> DEFINE Bad == {i \in 0..n : i \notin S}
             R == OpToRel(<, Nat)
  <1>1. SUFFICES ASSUME Bad # {} PROVE FALSE
    OBVIOUS
  <1>2. Bad \subseteq Nat
    OBVIOUS
  <1>3. PICK i \in Bad : \A k \in Bad : <<k, i>> \notin R
    <2>1. IsWellFoundedOn(R, Nat)
      BY NatLessThanWellFounded
    <2> HIDE DEF R, Bad
    <2> QED BY <1>1, <1>2, <2>1, WFMin
  <1>4. i \in 1..n
    OBVIOUS
  <1>5. i - 1 \notin S
    BY <1>4
  <1>6. i - 1 \in Bad /\ i - 1 \in Nat /\ i \in Nat /\ i - 1 < i
    BY <1>4, <1>5
  <1>7. <<i - 1, i>> \in R
    BY <1>6 DEF OpToRel
  <1> QED BY <1>3, <1>6, <1>7

\* The loop over the words.
LEMMA WordByWord ==
  ASSUME NEW argv \in Seq(Seq(Character))
  PROVE  /\ AfterWords(argv)[0] = NoParams
         /\ \A n \in 1..Len(argv) :
              AfterWords(argv)[n] = ParseWord(AfterWords(argv)[n - 1], argv[n])
  <1> DEFINE Is(g, k) == g = [n \in 0..k |-> IF n = 0 THEN NoParams
                                             ELSE ParseWord(g[n - 1], argv[n])]
             S == {k \in 0..Len(argv) : \E g : Is(g, k)}
  <1>l. Len(argv) \in Nat
    OBVIOUS
  <1>1. 0 \in S
    <2>g. PICK g : g = [n \in 0..0 |-> NoParams]
      OBVIOUS
    <2>1. \A n \in 0..0 : n = 0
      OBVIOUS
    <2>2. Is(g, 0)
      BY <2>g, <2>1, Zenon
    <2>3. 0 \in 0..Len(argv)
      BY <1>l
    <2> HIDE DEF Is
    <2> QED BY <2>2, <2>3
  <1>2. ASSUME NEW k \in 1..Len(argv), k - 1 \in S PROVE k \in S
    <2>g. PICK g : Is(g, k - 1)
      BY <1>2
    <2>h. PICK h : h = [n \in 0..k |-> IF n = 0 THEN NoParams
                                       ELSE ParseWord(g[n - 1], argv[n])]
      OBVIOUS
    <2>0. k \in Int
      OBVIOUS
    <2>1. \A n \in 0..(k - 1) : h[n] = g[n]
      <3>1. \A n \in 0..(k - 1) : n \in 0..k
        BY <2>0
      <3>2. \A n \in 0..(k - 1) :
              g[n] = IF n = 0 THEN NoParams ELSE ParseWord(g[n - 1], argv[n])
        BY <2>g, Zenon
      <3> QED BY <2>h, <3>1, <3>2, Zenon
    <2>2. \A n \in 0..k : n = 0 \/ h[n - 1] = g[n - 1]
      <3>1. \A n \in 0..k : n = 0 \/ n - 1 \in 0..(k - 1)
        BY <2>0
      <3> QED BY <2>1, <3>1, Zenon
    <2>3. \A n \in 0..k :
            h[n] = IF n = 0 THEN NoParams ELSE ParseWord(h[n - 1], argv[n])
      <3>1. \A n \in 0..k :
              h[n] = IF n = 0 THEN NoParams ELSE ParseWord(g[n - 1], argv[n])
        BY <2>h, Zenon
      <3> QED BY <2>2, <3>1, Zenon
    <2>4. Is(h, k)
      <3>1. h = [n \in 0..k |-> h[n]]
        BY <2>h, Zenon
      <3> QED BY <2>3, <3>1, Zenon
    <2>5. \E f : Is(f, k)
      BY <2>4
    <2>6. k \in 0..Len(argv)
      BY <1>l
    <2> HIDE DEF Is
    <2> QED BY <2>5, <2>6
  <1>3. Len(argv) \in S
    <2> HIDE DEF S
    <2>1. 0..Len(argv) \subseteq S
      BY <1>l, <1>1, <1>2, IntervalInduction
    <2> QED BY <1>l, <2>1
  <1>4. PICK g : Is(g, Len(argv))
    BY <1>3
  <1>5. AfterWords(argv) = [n \in 0..Len(argv) |->
                              IF n = 0 THEN NoParams
                              ELSE ParseWord(AfterWords(argv)[n - 1], argv[n])]
    BY <1>4, Zenon DEF AfterWords
  <1>6. 0 \in 0..Len(argv) /\ \A n \in 1..Len(argv) : n \in 0..Len(argv) /\ n # 0
    BY <1>l
  <1> QED BY <1>5, <1>6, Zenon

-----------------------------------------------------------------------------
Word == Seq(Character)

\* The words behind an option among the first pairs.
ValuesOf(argv, k, letter) ==
  {argv[2 * i] : i \in {j \in 1..k : argv[2 * j - 1] = Option(letter)}}

\* What the loop has after so many pairs.
Collected(argv, k, params) ==
  /\ {params.config} = OrDefault(ValuesOf(argv, k, "c"), None)
  /\ {params.drop} = OrDefault(ValuesOf(argv, k, "d"), None)
  /\ params.write \in Seq(Word) /\ ToSet(params.write) = ValuesOf(argv, k, "w")
  /\ params.exec \in Seq(Word) /\ ToSet(params.exec) = ValuesOf(argv, k, "e")

\* What the loop may have found.
ParsedParams ==
  [opt : Character \cup {None}, error : BOOLEAN, config : Word \cup {None},
   drop : Word \cup {None}, write : Seq(Word), exec : Seq(Word)]

\* Pairs so far, and an option at the end or none.
IsBetween(argv, n, params) ==
  /\ params \in ParsedParams /\ ~params.error
  /\ \E k \in Nat :
       /\ Pairs(argv, k) /\ Collected(argv, k, params)
       /\ \/ n = 2 * k /\ params.opt = None
          \/ /\ n = 2 * k + 1 /\ params.opt \in Character \ {"h", "v"}
             /\ argv[n] = Option(params.opt)

ParsedSoFar(argv, n, params) ==
  \/ IsBetween(argv, n, params)
  \/ ~params.error /\ params.opt \in {"h", "v"} /\ AsksForInformation(argv)
  \/ params.error /\ ~AsksForInformation(argv) /\ ~IsProper(argv)

\* Options are told apart by their letters.
LEMMA OptionsDiffer ==
  /\ \A x, y : Option(x) = Option(y) => x = y
  /\ \A w \in Word : Len(w) = 2 /\ w[1] = "-" => w = Option(w[2]) /\ w[2] \in Character
  /\ \A x : Len(Option(x)) = 2 /\ Option(x)[1] = "-"
  <1>1. ASSUME NEW x, NEW y, Option(x) = Option(y) PROVE x = y
    <2>1. Option(x)[2] = x /\ Option(y)[2] = y
      BY DEF Option
    <2> QED BY <1>1, <2>1
  <1>2. ASSUME NEW w \in Word, Len(w) = 2, w[1] = "-"
        PROVE  w = Option(w[2]) /\ w[2] \in Character
    <2>1. w \in Seq(Character) /\ Len(w) = 2 /\ w[2] \in Character
      BY <1>2 DEF Word
    <2>2. w = [i \in 1..2 |-> w[i]]
      BY <2>1
    <2>3. Option(w[2]) = [i \in 1..2 |-> Option(w[2])[i]]
      BY DEF Option
    <2>4. Option(w[2])[1] = "-" /\ Option(w[2])[2] = w[2]
      BY DEF Option
    <2>5. \A i \in 1..2 : i = 1 \/ i = 2
      OBVIOUS
    <2>6. \A i \in 1..2 : w[i] = Option(w[2])[i]
      BY <1>2, <2>4, <2>5, Zenon
    <2> QED BY <2>1, <2>2, <2>3, <2>6, Zenon
  <1>3. \A x : Len(Option(x)) = 2 /\ Option(x)[1] = "-"
    BY DEF Option
  <1> QED BY <1>1, <1>2, <1>3

\* Fewer pairs are pairs, too.
LEMMA FewerPairs ==
  ASSUME NEW argv, NEW n \in Nat, NEW k \in Nat, k <= n, Pairs(argv, n)
  PROVE  Pairs(argv, k)
  <1>1. 1..k \subseteq 1..n
    OBVIOUS
  <1> QED BY <1>1, Zenon DEF Pairs

\* After proper pairs, a word that is neither an option nor asks for
\* information makes the command line wrong, whatever follows.
LEMMA Rejected ==
  ASSUME NEW argv \in Seq(Word), NEW k \in Nat, Pairs(argv, k),
         2 * k < Len(argv),
         argv[2 * k + 1] \notin {Option("h"), Option("v")},
         2 * k + 2 <= Len(argv) => ~Pairs(argv, k + 1)
  PROVE  ~AsksForInformation(argv) /\ ~IsProper(argv)
  <1>1. ASSUME NEW n \in 0..(Len(argv) \div 2), Pairs(argv, n), 2 * n < Len(argv),
               argv[2 * n + 1] \in {Option("h"), Option("v")}
        PROVE  FALSE
    <2>1. CASE n < k
      <3>1. n + 1 \in 1..k /\ 2 * (n + 1) - 1 = 2 * n + 1
        BY <2>1
      <3>2. argv[2 * n + 1] \in {Option(x) : x \in {"c", "d", "w", "e"}}
        BY <3>1 DEF Pairs
      <3> QED BY <1>1, <3>2, OptionsDiffer
    <2>2. CASE n = k
      BY <1>1, <2>2
    <2>3. CASE n > k
      <3>1. n \in Nat /\ k + 1 \in Nat /\ k + 1 <= n /\ 2 * k + 2 <= Len(argv)
        BY <1>1, <2>3
      <3> QED BY <1>1, <3>1, FewerPairs
    <2> QED BY <2>1, <2>2, <2>3
  <1>2. ASSUME IsProper(argv) PROVE FALSE
    <2>1. PICK n : n = Len(argv) \div 2
      OBVIOUS
    <2>2. n \in Nat /\ 2 * n = Len(argv) /\ Pairs(argv, n)
      BY <1>2, <2>1 DEF IsProper
    <2>3. k + 1 \in Nat /\ k + 1 <= n /\ 2 * k + 2 <= Len(argv)
      BY <2>2
    <2> QED BY <2>2, <2>3, FewerPairs
  <1> QED BY <1>1, <1>2 DEF AsksForInformation

\* The words behind options are words.
LEMMA ValuesAreWords ==
  ASSUME NEW argv \in Seq(Word), NEW k \in Nat, 2 * k <= Len(argv), NEW l
  PROVE  ValuesOf(argv, k, l) \subseteq Word
  <1>1. \A i \in 1..k : 2 * i \in 1..Len(argv)
    OBVIOUS
  <1> QED BY <1>1 DEF ValuesOf

\* An option that may come once comes a second time.
LEMMA SecondTime ==
  ASSUME NEW argv \in Seq(Word), NEW k \in Nat, 2 * k + 2 <= Len(argv),
         NEW l \in {"c", "d"}, argv[2 * k + 1] = Option(l),
         ValuesOf(argv, k, l) # {}
  PROVE  ~Pairs(argv, k + 1)
  <1>1. PICK i \in 1..k : argv[2 * i - 1] = Option(l)
    BY DEF ValuesOf
  <1>2. k + 1 \in 1..(k + 1) /\ i \in 1..(k + 1) /\ i # k + 1
        /\ 2 * (k + 1) - 1 = 2 * k + 1
    OBVIOUS
  <1>3. Option(l) \notin {Option("w"), Option("e")}
    BY OptionsDiffer
  <1> QED BY <1>1, <1>2, <1>3, Zenon DEF Pairs

\* A new option that comes once, or any number of times, makes a pair.
LEMMA PairIsAdded ==
  ASSUME NEW argv \in Seq(Word), NEW k \in Nat, 2 * k + 2 <= Len(argv),
         NEW l \in {"c", "d", "w", "e"}, argv[2 * k + 1] = Option(l),
         l \in {"w", "e"} \/ ValuesOf(argv, k, l) = {}, Pairs(argv, k)
  PROVE  Pairs(argv, k + 1)
  <1>1. \A j \in 1..(k + 1) : j \in 1..k \/ j = k + 1
    OBVIOUS
  <1>2. 2 * (k + 1) - 1 = 2 * k + 1
    OBVIOUS
  <1>3. \A i \in 1..(k + 1) :
          argv[2 * i - 1] \in {Option(x) : x \in {"c", "d", "w", "e"}}
    BY <1>1, <1>2, Zenon DEF Pairs
  <1>4. \A i \in 1..k : argv[2 * i - 1] = Option(l) => l \in {"w", "e"}
    BY DEF ValuesOf
  <1>5. ASSUME NEW i \in 1..(k + 1), NEW j \in 1..(k + 1), i # j,
               argv[2 * i - 1] = argv[2 * j - 1]
        PROVE  argv[2 * i - 1] \in {Option("w"), Option("e")}
    <2>1. CASE i \in 1..k /\ j \in 1..k
      BY <1>5, <2>1 DEF Pairs
    <2>2. CASE i = k + 1 /\ j \in 1..k
      BY <1>2, <1>4, <1>5, <2>2
    <2>3. CASE j = k + 1 /\ i \in 1..k
      BY <1>2, <1>4, <1>5, <2>3
    <2> QED BY <1>1, <1>5, <2>1, <2>2, <2>3
  <1> QED BY <1>3, <1>5 DEF Pairs

\* join puts a word in front of a list.
LEMMA WordIsJoined ==
  ASSUME NEW list \in Seq(Word), NEW w \in Word
  PROVE  /\ <<w>> \o list \in Seq(Word)
         /\ ToSet(<<w>> \o list) = ToSet(list) \cup {w}
  <1>1. PICK l : l = <<w>> \o list
    OBVIOUS
  <1>2. <<w>> \in Seq(Word) /\ Len(<<w>>) = 1 /\ <<w>>[1] = w
    OBVIOUS
  <1>3. /\ l \in Seq(Word) /\ Len(l) = 1 + Len(list) /\ Len(list) \in Nat
        /\ \A i \in 1..(1 + Len(list)) :
             l[i] = IF i <= 1 THEN <<w>>[i] ELSE list[i - 1]
    BY <1>1, <1>2, ConcatProperties
  <1>4. DOMAIN l = 1..(1 + Len(list)) /\ DOMAIN list = 1..Len(list)
    BY <1>3
  <1>5. l[1] = w /\ \A i \in DOMAIN list : i + 1 \in DOMAIN l /\ l[i + 1] = list[i]
    BY <1>2, <1>3, <1>4
  <1>6. \A i \in DOMAIN l : i = 1 \/ (i - 1 \in DOMAIN list /\ l[i] = list[i - 1])
    BY <1>3, <1>4
  <1>7. 1 \in DOMAIN l
    BY <1>3, <1>4
  <1>8. /\ \A v : v \in ToSet(l) <=> \E i \in DOMAIN l : v = l[i]
        /\ \A v : v \in ToSet(list) <=> \E i \in DOMAIN list : v = list[i]
    BY Zenon DEF ToSet
  <1>9. ASSUME NEW v PROVE v \in ToSet(l) <=> v \in ToSet(list) \/ v = w
    <2>1. ASSUME NEW i \in DOMAIN l, v = l[i] PROVE v \in ToSet(list) \/ v = w
      BY <1>5, <1>6, <1>8, <2>1, Zenon
    <2>2. ASSUME NEW i \in DOMAIN list, v = list[i] PROVE v \in ToSet(l)
      BY <1>5, <1>8, <2>2, Zenon
    <2>3. w \in ToSet(l)
      BY <1>5, <1>7, <1>8, Zenon
    <2> QED BY <1>8, <2>1, <2>2, <2>3, Zenon
  <1>10. ToSet(l) = ToSet(list) \cup {w}
    BY <1>9, Zenon
  <1> QED BY <1>1, <1>3, <1>10, Zenon

\* The word behind an option.
LEMMA WordIsTaken ==
  ASSUME NEW argv \in Seq(Word), NEW k \in Nat, 2 * k + 2 <= Len(argv),
         NEW p \in ParsedParams, ~p.error, Pairs(argv, k), Collected(argv, k, p),
         p.opt \in Character \ {"h", "v"},
         NEW l, l = p.opt, argv[2 * k + 1] = Option(l),
         NEW w, w = argv[2 * k + 2], NEW q, q = Take(p, w)
  PROVE  \/ q \in ParsedParams /\ ~q.error /\ q.opt = None
            /\ Pairs(argv, k + 1) /\ Collected(argv, k + 1, q)
         \/ q.error /\ ~AsksForInformation(argv) /\ ~IsProper(argv)
  <1>1. w \in Word
    OBVIOUS
  <1>2. ASSUME q = Wrong(p), ~Pairs(argv, k + 1)
        PROVE  q.error /\ ~AsksForInformation(argv) /\ ~IsProper(argv)
    <2>1. q.error
      BY <1>2 DEF Wrong, ParsedParams
    <2>2. argv[2 * k + 1] \notin {Option("h"), Option("v")}
      BY OptionsDiffer
    <2> QED BY <1>2, <2>1, <2>2, Rejected
  <1>3. \A m : ValuesOf(argv, k, m) \subseteq Word
    BY ValuesAreWords
  <1>n. None \notin Word
    BY CommandLineAssumption DEF Word
  <1>4. /\ p.config = None <=> ValuesOf(argv, k, "c") = {}
        /\ p.drop = None <=> ValuesOf(argv, k, "d") = {}
    BY <1>3, <1>n DEF Collected, OrDefault
  <1>5. ASSUME NEW m
        PROVE  ValuesOf(argv, k + 1, m) =
                 IF m = l THEN ValuesOf(argv, k, m) \cup {w}
                 ELSE ValuesOf(argv, k, m)
    <2>1. \A j : j \in 1..(k + 1) <=> j \in 1..k \/ j = k + 1
      OBVIOUS
    <2>2. 2 * (k + 1) - 1 = 2 * k + 1 /\ 2 * (k + 1) = 2 * k + 2
      OBVIOUS
    <2>3. argv[2 * (k + 1) - 1] = Option(m) <=> m = l
      BY <2>2, OptionsDiffer, Zenon
    <2>4. argv[2 * (k + 1)] = w
      BY <2>2
    <2>5. ASSUME NEW v
          PROVE  v \in ValuesOf(argv, k + 1, m) <=>
                   \/ v \in ValuesOf(argv, k, m)
                   \/ m = l /\ v = w
      BY <2>1, <2>3, <2>4, Zenon DEF ValuesOf
    <2> QED BY <2>5, Zenon
  <1>6. \A list \in Seq(Word) : /\ <<w>> \o list \in Seq(Word)
                                /\ ToSet(<<w>> \o list) = ToSet(list) \cup {w}
    BY <1>1, WordIsJoined
  <1>7. CASE p.opt = "c" /\ p.config = None
    <2>1. q = [p EXCEPT !.opt = None, !.config = w]
      BY <1>7 DEF Take, ParsedParams
    <2>2. q \in ParsedParams /\ ~q.error /\ q.opt = None /\ q.config = w
          /\ q.drop = p.drop /\ q.write = p.write /\ q.exec = p.exec
      BY <1>1, <2>1 DEF ParsedParams
    <2>3. Pairs(argv, k + 1)
      BY <1>4, <1>7, PairIsAdded
    <2>4. /\ ValuesOf(argv, k + 1, "c") = ValuesOf(argv, k, "c") \cup {w}
          /\ ValuesOf(argv, k + 1, "d") = ValuesOf(argv, k, "d")
          /\ ValuesOf(argv, k + 1, "w") = ValuesOf(argv, k, "w")
          /\ ValuesOf(argv, k + 1, "e") = ValuesOf(argv, k, "e")
      BY <1>5, <1>7
    <2>5. Collected(argv, k + 1, q)
      BY <1>4, <1>7, <2>2, <2>4 DEF Collected, OrDefault
    <2> QED BY <2>2, <2>3, <2>5
  <1>8. CASE p.opt = "d" /\ p.drop = None
    <2>1. q = [p EXCEPT !.opt = None, !.drop = w]
      BY <1>8 DEF Take, ParsedParams
    <2>2. q \in ParsedParams /\ ~q.error /\ q.opt = None /\ q.drop = w
          /\ q.config = p.config /\ q.write = p.write /\ q.exec = p.exec
      BY <1>1, <2>1 DEF ParsedParams
    <2>3. Pairs(argv, k + 1)
      BY <1>4, <1>8, PairIsAdded
    <2>4. /\ ValuesOf(argv, k + 1, "d") = ValuesOf(argv, k, "d") \cup {w}
          /\ ValuesOf(argv, k + 1, "c") = ValuesOf(argv, k, "c")
          /\ ValuesOf(argv, k + 1, "w") = ValuesOf(argv, k, "w")
          /\ ValuesOf(argv, k + 1, "e") = ValuesOf(argv, k, "e")
      BY <1>5, <1>8
    <2>5. Collected(argv, k + 1, q)
      BY <1>4, <1>8, <2>2, <2>4 DEF Collected, OrDefault
    <2> QED BY <2>2, <2>3, <2>5
  <1>9. CASE p.opt = "w"
    <2>1. q = [p EXCEPT !.opt = None, !.write = <<w>> \o p.write]
      BY <1>9 DEF Take, ParsedParams
    <2>2. q \in ParsedParams /\ ~q.error /\ q.opt = None /\ q.write = <<w>> \o p.write
          /\ q.config = p.config /\ q.drop = p.drop /\ q.exec = p.exec
      BY <1>6, <2>1 DEF ParsedParams
    <2>3. Pairs(argv, k + 1)
      BY <1>9, PairIsAdded
    <2>4. /\ ValuesOf(argv, k + 1, "w") = ValuesOf(argv, k, "w") \cup {w}
          /\ ValuesOf(argv, k + 1, "c") = ValuesOf(argv, k, "c")
          /\ ValuesOf(argv, k + 1, "d") = ValuesOf(argv, k, "d")
          /\ ValuesOf(argv, k + 1, "e") = ValuesOf(argv, k, "e")
      BY <1>5, <1>9
    <2>5. Collected(argv, k + 1, q)
      BY <1>6, <2>2, <2>4 DEF Collected
    <2> QED BY <2>2, <2>3, <2>5
  <1>10. CASE p.opt = "e"
    <2>1. q = [p EXCEPT !.opt = None, !.exec = <<w>> \o p.exec]
      BY <1>10 DEF Take, ParsedParams
    <2>2. q \in ParsedParams /\ ~q.error /\ q.opt = None /\ q.exec = <<w>> \o p.exec
          /\ q.config = p.config /\ q.drop = p.drop /\ q.write = p.write
      BY <1>6, <2>1 DEF ParsedParams
    <2>3. Pairs(argv, k + 1)
      BY <1>10, PairIsAdded
    <2>4. /\ ValuesOf(argv, k + 1, "e") = ValuesOf(argv, k, "e") \cup {w}
          /\ ValuesOf(argv, k + 1, "c") = ValuesOf(argv, k, "c")
          /\ ValuesOf(argv, k + 1, "d") = ValuesOf(argv, k, "d")
          /\ ValuesOf(argv, k + 1, "w") = ValuesOf(argv, k, "w")
      BY <1>5, <1>10
    <2>5. Collected(argv, k + 1, q)
      BY <1>6, <2>2, <2>4 DEF Collected
    <2> QED BY <2>2, <2>3, <2>5
  <1>11. CASE \/ p.opt = "c" /\ p.config # None
              \/ p.opt = "d" /\ p.drop # None
    <2>1. q = Wrong(p)
      BY <1>11 DEF Take
    <2>2. p.opt \in {"c", "d"} /\ ValuesOf(argv, k, p.opt) # {}
      BY <1>4, <1>11
    <2> QED BY <1>2, <2>1, <2>2, SecondTime
  <1>12. CASE p.opt \notin {"c", "d", "w", "e"}
    <2>1. q = Wrong(p)
      BY <1>12 DEF Take
    <2>2. ~Pairs(argv, k + 1)
      <3>1. k + 1 \in 1..(k + 1) /\ 2 * (k + 1) - 1 = 2 * k + 1
        OBVIOUS
      <3>2. argv[2 * k + 1] \notin {Option(x) : x \in {"c", "d", "w", "e"}}
        BY <1>12, OptionsDiffer
      <3> QED BY <3>1, <3>2, Zenon DEF Pairs
    <2> QED BY <1>2, <2>1, <2>2
  <1> QED BY <1>7, <1>8, <1>9, <1>10, <1>11, <1>12

\* One round of the loop.
LEMMA WordIsParsed ==
  ASSUME NEW argv \in Seq(Word), NEW n \in 1..Len(argv),
         NEW p, ParsedSoFar(argv, n - 1, p), NEW w, w = argv[n],
         NEW q, q = ParseWord(p, w)
  PROVE  ParsedSoFar(argv, n, q)
  <1>1. CASE ~p.error /\ p.opt \in {"h", "v"} /\ AsksForInformation(argv)
    <2>1. q = p
      BY <1>1 DEF ParseWord
    <2> QED BY <1>1, <2>1 DEF ParsedSoFar
  <1>2. CASE p.error /\ ~AsksForInformation(argv) /\ ~IsProper(argv)
    <2>1. q = p
      BY <1>2 DEF ParseWord
    <2> QED BY <1>2, <2>1 DEF ParsedSoFar
  <1>3. CASE IsBetween(argv, n - 1, p)
    <2>1. p \in ParsedParams /\ ~p.error
      BY <1>3 DEF IsBetween
    <2>k. PICK k \in Nat :
            /\ Pairs(argv, k) /\ Collected(argv, k, p)
            /\ \/ n - 1 = 2 * k /\ p.opt = None
               \/ /\ n - 1 = 2 * k + 1 /\ p.opt \in Character \ {"h", "v"}
                  /\ argv[n - 1] = Option(p.opt)
      BY <1>3 DEF IsBetween
    <2>n. n \in Nat /\ n <= Len(argv) /\ Len(argv) \in Nat
      OBVIOUS
    <2>2. CASE n - 1 = 2 * k /\ p.opt = None
      <3>1. w \in Word /\ n = 2 * k + 1 /\ argv[2 * k + 1] = w /\ 2 * k < Len(argv)
        BY <2>n, <2>2
      <3>2. None \notin {"h", "v"}
        BY CommandLineAssumption
      <3>3. CASE Len(w) = 2 /\ w[1] = "-"
        <4>1. w = Option(w[2]) /\ w[2] \in Character
          BY <3>1, <3>3, OptionsDiffer
        <4>2. q = [p EXCEPT !.opt = w[2]]
          BY <2>1, <2>2, <3>2, <3>3 DEF ParseWord
        <4>3. q \in ParsedParams /\ ~q.error /\ q.opt = w[2]
              /\ q.config = p.config /\ q.drop = p.drop
              /\ q.write = p.write /\ q.exec = p.exec
          BY <2>1, <4>1, <4>2 DEF ParsedParams
        <4>4. CASE w[2] \in {"h", "v"}
          <5>1. k \in 0..(Len(argv) \div 2)
            BY <2>n, <3>1
          <5>2. argv[2 * k + 1] \in {Option("h"), Option("v")}
            BY <3>1, <4>1, <4>4
          <5>3. AsksForInformation(argv)
            BY <2>k, <3>1, <5>1, <5>2 DEF AsksForInformation
          <5> QED BY <4>3, <4>4, <5>3 DEF ParsedSoFar
        <4>5. CASE w[2] \notin {"h", "v"}
          <5>1. Collected(argv, k, q)
            BY <2>k, <4>3 DEF Collected
          <5>2. q.opt \in Character \ {"h", "v"} /\ argv[n] = Option(q.opt)
            BY <4>1, <4>3, <4>5
          <5>3. IsBetween(argv, n, q)
            BY <2>k, <3>1, <4>3, <5>1, <5>2 DEF IsBetween
          <5> QED BY <5>3 DEF ParsedSoFar
        <4> QED BY <4>4, <4>5
      <3>4. CASE ~(Len(w) = 2 /\ w[1] = "-")
        <4>1. q = Wrong(p)
          BY <2>1, <2>2, <3>2, <3>4 DEF ParseWord
        <4>2. q.error
          BY <2>1, <4>1 DEF Wrong, ParsedParams
        <4>3. \A x : w # Option(x)
          BY <3>4, OptionsDiffer
        <4>4. ~Pairs(argv, k + 1)
          <5>1. k + 1 \in 1..(k + 1) /\ 2 * (k + 1) - 1 = 2 * k + 1
            OBVIOUS
          <5>2. argv[2 * k + 1] \notin {Option(x) : x \in {"c", "d", "w", "e"}}
            BY <3>1, <4>3
          <5> QED BY <5>1, <5>2, Zenon DEF Pairs
        <4>5. argv[2 * k + 1] \notin {Option("h"), Option("v")}
          BY <3>1, <4>3
        <4>6. ~AsksForInformation(argv) /\ ~IsProper(argv)
          BY <2>k, <3>1, <4>4, <4>5, Rejected
        <4> QED BY <4>2, <4>6 DEF ParsedSoFar
      <3> QED BY <3>3, <3>4
    <2>3. CASE /\ n - 1 = 2 * k + 1 /\ p.opt \in Character \ {"h", "v"}
               /\ argv[n - 1] = Option(p.opt)
      <3>1. /\ n = 2 * k + 2 /\ 2 * k + 2 <= Len(argv) /\ w = argv[2 * k + 2]
            /\ argv[2 * k + 1] = Option(p.opt)
        BY <2>n, <2>3
      <3>2. p.opt # None
        BY <2>3, CommandLineAssumption
      <3>3. q = Take(p, w)
        BY <2>1, <2>3, <3>2 DEF ParseWord
      <3>4. \/ q \in ParsedParams /\ ~q.error /\ q.opt = None
               /\ Pairs(argv, k + 1) /\ Collected(argv, k + 1, q)
            \/ q.error /\ ~AsksForInformation(argv) /\ ~IsProper(argv)
        <4> PICK l : l = p.opt
          OBVIOUS
        <4>1. argv[2 * k + 1] = Option(l) /\ p.opt \in Character \ {"h", "v"}
          BY <2>3, <3>1
        <4> QED BY <2>1, <2>k, <3>1, <3>3, <4>1, WordIsTaken
      <3>5. k + 1 \in Nat /\ n = 2 * (k + 1)
        BY <3>1
      <3>6. CASE q.error /\ ~AsksForInformation(argv) /\ ~IsProper(argv)
        BY <3>6 DEF ParsedSoFar
      <3>7. CASE q \in ParsedParams /\ ~q.error /\ q.opt = None
                 /\ Pairs(argv, k + 1) /\ Collected(argv, k + 1, q)
        <4>1. IsBetween(argv, n, q)
          BY <3>5, <3>7 DEF IsBetween
        <4> QED BY <4>1 DEF ParsedSoFar
      <3> QED BY <3>4, <3>6, <3>7
    <2> QED BY <2>k, <2>2, <2>3
  <1> QED BY <1>1, <1>2, <1>3 DEF ParsedSoFar

\* The loop over all words.
LEMMA AllWordsAreParsed ==
  ASSUME NEW argv \in Seq(Word)
  PROVE  ParsedSoFar(argv, Len(argv), AfterWords(argv)[Len(argv)])
  <1> DEFINE S == {n \in 0..Len(argv) : ParsedSoFar(argv, n, AfterWords(argv)[n])}
  <1>l. Len(argv) \in Nat
    OBVIOUS
  <1>1. 0 \in S
    <2>1. AfterWords(argv)[0] = NoParams
      BY WordByWord DEF Word
    <2>2. Pairs(argv, 0)
      BY DEF Pairs
    <2>3. \A l : ValuesOf(argv, 0, l) = {}
      BY DEF ValuesOf
    <2>4. NoParams \in ParsedParams /\ ~NoParams.error /\ NoParams.opt = None
          /\ NoParams.config = None /\ NoParams.drop = None
          /\ NoParams.write = <<>> /\ NoParams.exec = <<>>
      BY DEF NoParams, ParsedParams
    <2>5. ToSet(<<>>) = {} /\ <<>> \in Seq(Word)
      BY DEF ToSet
    <2>6. Collected(argv, 0, NoParams)
      BY <2>3, <2>4, <2>5 DEF Collected, OrDefault
    <2>7. IsBetween(argv, 0, NoParams)
      BY <2>2, <2>4, <2>6 DEF IsBetween
    <2> QED BY <1>l, <2>1, <2>7 DEF ParsedSoFar
  <1>2. ASSUME NEW n \in 1..Len(argv), n - 1 \in S PROVE n \in S
    <2> PICK p : p = AfterWords(argv)[n - 1]
      OBVIOUS
    <2> PICK w : w = argv[n]
      OBVIOUS
    <2> PICK q : q = AfterWords(argv)[n]
      OBVIOUS
    <2>1. q = ParseWord(p, w)
      BY WordByWord DEF Word
    <2>2. ParsedSoFar(argv, n - 1, p)
      BY <1>2
    <2>3. ParsedSoFar(argv, n, q)
      BY <2>1, <2>2, WordIsParsed
    <2>4. n \in 0..Len(argv)
      BY <1>l
    <2> QED BY <2>3, <2>4
  <1>3. 0..Len(argv) \subseteq S
    <2> HIDE DEF S
    <2> QED BY <1>l, <1>1, <1>2, IntervalInduction
  <1> QED BY <1>l, <1>3

\* Of any command line parse_params makes what the usage line says.
LEMMA EveryCommandLineIsParsed ==
  \A argv \in Seq(Word) : IsParsedAsDocumented(argv)
  <1> SUFFICES ASSUME NEW argv \in Seq(Word) PROVE IsParsedAsDocumented(argv)
    OBVIOUS
  <1>n. PICK n : n = Len(argv)
    OBVIOUS
  <1>p. PICK p : p = AfterWords(argv)[n]
    OBVIOUS
  <1>q. PICK q : q = Parse(argv)
    OBVIOUS
  <1>1. n \in Nat /\ q = IF p.error \/ p.opt \notin {None, "h", "v"} THEN Wrong(p)
                        ELSE WithDefaults(p)
    BY <1>n, <1>p, <1>q DEF Parse
  <1>2. ParsedSoFar(argv, n, p)
    BY <1>n, <1>p, AllWordsAreParsed
  <1>3. SUFFICES
          /\ q.error <=> ~IsProper(argv) /\ ~AsksForInformation(argv)
          /\ ~q.error => (q.opt \in {"h", "v"} <=> AsksForInformation(argv))
          /\ IsProper(argv) =>
               /\ {q.config} = OrDefault(Values(argv, "c"), None)
               /\ {q.drop} = OrDefault(Values(argv, "d"), Cwd)
               /\ ToSet(q.write) = OrDefault(Values(argv, "w"), Cwd)
               /\ ToSet(q.exec) = OrDefault(Values(argv, "e"), TheRoot)
    BY <1>q, Zenon DEF IsParsedAsDocumented, IsUsageError, IsInformation
  <1>4. AsksForInformation(argv) => ~IsProper(argv)
    <2>1. ASSUME NEW m \in 0..(n \div 2), 2 * m < n, IsProper(argv),
                 argv[2 * m + 1] \in {Option("h"), Option("v")}
          PROVE  FALSE
      <3>1. m + 1 \in 1..(n \div 2) /\ 2 * (m + 1) - 1 = 2 * m + 1
        BY <1>n, <1>1, <2>1 DEF IsProper
      <3>2. argv[2 * m + 1] \in {Option(x) : x \in {"c", "d", "w", "e"}}
        BY <1>n, <2>1, <3>1 DEF IsProper, Pairs
      <3> QED BY <2>1, <3>2, OptionsDiffer
    <2> QED BY <1>n, <2>1 DEF AsksForInformation
  <1>5. CASE IsBetween(argv, n, p)
    <2>k. PICK k \in Nat :
            /\ Pairs(argv, k) /\ Collected(argv, k, p)
            /\ \/ n = 2 * k /\ p.opt = None
               \/ /\ n = 2 * k + 1 /\ p.opt \in Character \ {"h", "v"}
                  /\ argv[n] = Option(p.opt)
      BY <1>5 DEF IsBetween
    <2>p. p \in ParsedParams /\ ~p.error
      BY <1>5 DEF IsBetween
    <2>1. CASE n = 2 * k /\ p.opt = None
      <3>1. n % 2 = 0 /\ n \div 2 = k
        BY <2>1
      <3>2. IsProper(argv)
        BY <1>n, <2>k, <3>1 DEF IsProper
      <3>3. \A l : Values(argv, l) = ValuesOf(argv, k, l)
        BY <1>n, <3>1, Zenon DEF Values, ValuesOf
      <3>4. q = WithDefaults(p)
        BY <1>1, <2>1, <2>p
      <3>5. /\ ~q.error /\ q.opt = None /\ q.config = p.config
            /\ q.drop = IF p.drop = None THEN Cwd ELSE p.drop
            /\ q.write = IF p.write = <<>> THEN <<Cwd>> ELSE p.write
            /\ q.exec = IF p.exec = <<>> THEN <<TheRoot>> ELSE p.exec
        BY <2>1, <2>p, <3>4 DEF WithDefaults, ParsedParams
      <3>6. q.opt \notin {"h", "v"}
        BY <3>5, CommandLineAssumption
      <3>7. \A l : ValuesOf(argv, k, l) \subseteq Word
        <4>1. 2 * k <= Len(argv)
          BY <1>n, <2>1
        <4> QED BY <4>1, ValuesAreWords
      <3>8. \A list \in Seq(Word) : list = <<>> <=> ToSet(list) = {}
        <4> SUFFICES ASSUME NEW list \in Seq(Word)
                     PROVE  list = <<>> <=> ToSet(list) = {}
          OBVIOUS
        <4>1. list # <<>> => list[1] \in ToSet(list)
          BY DEF ToSet
        <4>2. list = <<>> => ToSet(list) = {}
          BY DEF ToSet
        <4> QED BY <4>1, <4>2
      <3>9. \A v : ToSet(<<v>>) = {v}
        BY DEF ToSet
      <3>10. None \notin Word
        BY CommandLineAssumption DEF Word
      <3>11. {q.config} = OrDefault(Values(argv, "c"), None)
        BY <2>k, <3>3, <3>5 DEF Collected
      <3>12. {q.drop} = OrDefault(Values(argv, "d"), Cwd)
        BY <2>k, <3>3, <3>5, <3>7, <3>10 DEF Collected, OrDefault
      <3>13. ToSet(q.write) = OrDefault(Values(argv, "w"), Cwd)
        BY <2>k, <3>3, <3>5, <3>8, <3>9 DEF Collected, OrDefault
      <3>14. ToSet(q.exec) = OrDefault(Values(argv, "e"), TheRoot)
        BY <2>k, <3>3, <3>5, <3>8, <3>9 DEF Collected, OrDefault
      <3> QED BY <1>4, <3>2, <3>5, <3>6, <3>11, <3>12, <3>13, <3>14
    <2>2. CASE /\ n = 2 * k + 1 /\ p.opt \in Character \ {"h", "v"}
               /\ argv[n] = Option(p.opt)
      <3>1. p.opt \notin {None, "h", "v"}
        BY <2>2, CommandLineAssumption
      <3>2. q.error
        BY <1>1, <2>p, <3>1 DEF Wrong, ParsedParams
      <3>3. 2 * k < Len(argv) /\ ~(2 * k + 2 <= Len(argv))
        BY <1>n, <2>2
      <3>4. argv[2 * k + 1] \notin {Option("h"), Option("v")}
        BY <2>2, OptionsDiffer
      <3>5. ~AsksForInformation(argv) /\ ~IsProper(argv)
        BY <2>k, <3>3, <3>4, Rejected
      <3> QED BY <3>2, <3>5
    <2> QED BY <2>k, <2>1, <2>2
  <1>6. CASE ~p.error /\ p.opt \in {"h", "v"} /\ AsksForInformation(argv)
    BY <1>1, <1>4, <1>6 DEF WithDefaults
  <1>7. CASE p.error /\ ~AsksForInformation(argv) /\ ~IsProper(argv)
    BY <1>1, <1>7 DEF Wrong
  <1> QED BY <1>2, <1>5, <1>6, <1>7 DEF ParsedSoFar

-----------------------------------------------------------------------------
\* A set of numbers has a least one, and a bounded one a greatest.
LEMMA LeastExists ==
  ASSUME NEW S, S \subseteq Nat, S # {}
  PROVE  Least(S) \in S /\ \A j \in S : Least(S) <= j
  <1> DEFINE R == OpToRel(<, Nat)
  <1>1. PICK i \in S : \A k \in S : <<k, i>> \notin R
    <2>1. IsWellFoundedOn(R, Nat)
      BY NatLessThanWellFounded
    <2> HIDE DEF R
    <2> QED BY <2>1, WFMin
  <1>2. \A k \in S : ~(k < i)
    <2>1. \A k \in S : k < i => <<k, i>> \in R
      BY DEF OpToRel
    <2> QED BY <1>1, <2>1, Zenon
  <1>3. \A k \in S : i <= k
    BY <1>2
  <1> QED BY <1>3, Zenon DEF Least

LEMMA GreatestExists ==
  ASSUME NEW n \in Nat, NEW S, S \subseteq 0..n, S # {}
  PROVE  \E i \in S : \A j \in S : j <= i
  <1> DEFINE T == {n - i : i \in S}
  <1>0. \A i \in S : i \in Int /\ n - i \in Nat
    <2>1. \A i \in S : i \in 0..n
      BY Zenon
    <2> QED BY <2>1
  <1>1. T \subseteq Nat /\ T # {}
    BY <1>0
  <1>2. PICK t \in T : \A u \in T : t <= u
    <2> HIDE DEF T
    <2> QED BY <1>1, LeastExists, Zenon
  <1>3. PICK i \in S : t = n - i
    OBVIOUS
  <1>4. \A j \in S : n - i <= n - j
    BY <1>2, <1>3
  <1>5. \A j \in S : i \in Int /\ j \in Int
    BY <1>0, Zenon
  <1>6. \A j \in S : j <= i
    BY <1>4, <1>5
  <1> QED BY <1>6

-----------------------------------------------------------------------------
\* What realpath answers, as far as it matters.
RealPath ==
  {p \in Seq(Character) : Len(p) > 0 /\ p[1] = Slash /\ (Len(p) > 1 => p[2] # Slash)}

\* Both paths are equal up to the end of a segment of both.
EndsAt(first, second, i) ==
  /\ i >= 1 /\ i <= Len(first) /\ i <= Len(second)
  /\ \A j \in 1..i : first[j] = second[j]
  /\ IsSeparator(At(first, i)) /\ IsSeparator(At(second, i))

LEMMA CommonLengthIsGreatest ==
  ASSUME NEW f \in RealPath, NEW s \in RealPath, NEW c, c = CommonLength(f, s)
  PROVE  /\ c \in Nat /\ c >= 1
         /\ c > 1 => EndsAt(f, s, c - 1)
         /\ \A i \in Nat : EndsAt(f, s, i) => i <= c - 1
  <1> DEFINE Same(i) == At(f, i) = At(s, i) /\ At(f, i) # None
             Bad == {i \in 1..(Len(f) + 1) : ~Same(i)}
  <1>1. /\ f \in Seq(Character) /\ Len(f) \in Nat /\ Len(f) >= 1 /\ f[1] = Slash
        /\ s \in Seq(Character) /\ Len(s) \in Nat /\ Len(s) >= 1 /\ s[1] = Slash
    BY DEF RealPath
  <1>n. None \notin Character
    BY CommandLineAssumption
  <1>a. /\ \A i \in Nat : i < Len(f) => At(f, i) = f[i + 1] /\ At(f, i) \in Character
        /\ \A i \in Nat : ~(i < Len(f)) => At(f, i) = None
        /\ \A i \in Nat : i < Len(s) => At(s, i) = s[i + 1] /\ At(s, i) \in Character
        /\ \A i \in Nat : ~(i < Len(s)) => At(s, i) = None
    <2>1. \A i \in Nat : i < Len(f) => i + 1 \in 1..Len(f) /\ f[i + 1] \in Character
      BY <1>1
    <2>2. \A i \in Nat : i < Len(s) => i + 1 \in 1..Len(s) /\ s[i + 1] \in Character
      BY <1>1
    <2> QED BY <2>1, <2>2 DEF At
  <1>2. PICK stop : stop = Least(Bad)
    OBVIOUS
  <1>3. stop \in Bad /\ \A i \in Bad : stop <= i
    <2>1. ~Same(Len(f))
      BY <1>1, <1>a
    <2>2. Bad \subseteq Nat /\ Bad # {}
      BY <1>1, <2>1
    <2> HIDE DEF Bad
    <2> QED BY <1>2, <2>2, LeastExists
  <1>4. stop \in Nat /\ stop >= 1 /\ ~Same(stop) /\ stop <= Len(f)
    <2>1. ~Same(Len(f)) /\ Len(f) \in 1..(Len(f) + 1)
      BY <1>1, <1>a
    <2> QED BY <1>1, <1>3, <2>1
  <1>5. \A i \in 1..(stop - 1) : Same(i)
    BY <1>1, <1>3, <1>4
  <1>6. stop <= Len(s)
    <2>1. SUFFICES ASSUME stop > Len(s) PROVE FALSE
      BY <1>1, <1>4
    <2>2. Len(s) \in 1..(stop - 1) /\ Len(s) \in Nat /\ ~(Len(s) < Len(s))
      BY <1>1, <1>4, <2>1
    <2> QED BY <1>5, <1>a, <2>2
  <1>7. \A j \in 1..stop : f[j] = s[j]
    <2> SUFFICES ASSUME NEW j \in 1..stop, j # 1 PROVE f[j] = s[j]
      BY <1>1
    <2>1. /\ j - 1 \in 1..(stop - 1) /\ j - 1 \in Nat /\ (j - 1) + 1 = j
          /\ j - 1 < Len(f) /\ j - 1 < Len(s)
      BY <1>1, <1>4, <1>6
    <2>2. Same(j - 1) /\ At(f, j - 1) = f[j] /\ At(s, j - 1) = s[j]
      BY <1>5, <1>a, <2>1
    <2> QED BY <2>2
  <1> DEFINE Ends == {i \in 1..stop : /\ IsSeparator(At(f, i))
                                      /\ IsSeparator(At(s, i))}
  <1>8. c = 1 + (IF Ends = {} THEN 0 ELSE CHOOSE i \in Ends : \A j \in Ends : j <= i)
    BY <1>2 DEF CommonLength
  <1>9. ASSUME NEW i \in Ends PROVE EndsAt(f, s, i) /\ i \in Nat
    BY <1>1, <1>4, <1>6, <1>7 DEF EndsAt
  <1>10. ASSUME NEW i \in Nat, EndsAt(f, s, i) PROVE i \in Ends
    <2>1. i >= 1 /\ i <= Len(f) /\ i <= Len(s)
      BY <1>10 DEF EndsAt
    <2>2. i <= stop
      <3>1. SUFFICES ASSUME stop < i PROVE FALSE
        BY <1>4
      <3>2. stop < Len(f) /\ stop < Len(s) /\ stop + 1 \in 1..i
        BY <1>1, <1>4, <2>1, <3>1
      <3>3. f[stop + 1] = s[stop + 1]
        BY <1>10, <3>2 DEF EndsAt
      <3>4. At(f, stop) = At(s, stop) /\ At(f, stop) \in Character
        BY <1>4, <1>a, <3>2, <3>3
      <3> QED BY <1>4, <1>n, <3>4
    <2>3. i \in 1..stop
      BY <1>4, <2>1, <2>2
    <2> QED BY <1>10, <2>3 DEF EndsAt
  <1>11. CASE Ends = {}
    <2>1. c = 1
      BY <1>8, <1>11
    <2>2. \A i \in Nat : ~EndsAt(f, s, i)
      BY <1>10, <1>11
    <2> QED BY <2>1, <2>2
  <1>12. CASE Ends # {}
    <2>1. \E i \in Ends : \A j \in Ends : j <= i
      <3>1. Ends \subseteq 0..stop
        BY <1>4
      <3> HIDE DEF Ends
      <3> QED BY <1>4, <1>12, <3>1, GreatestExists
    <2>2. PICK e : e = CHOOSE i \in Ends : \A j \in Ends : j <= i
      OBVIOUS
    <2>3. e \in Ends /\ \A j \in Ends : j <= e
      <3> HIDE DEF Ends
      <3> QED BY <2>1, <2>2
    <2>4. c = 1 + e
      BY <1>8, <1>12, <2>2
    <2>5. e \in Nat /\ e >= 1 /\ c - 1 = e
      BY <1>4, <2>3, <2>4
    <2> HIDE DEF Ends
    <2> QED BY <1>9, <1>10, <2>3, <2>4, <2>5
  <1> QED BY <1>11, <1>12

\* main takes the least of the common lengths of neighbours.
LEMMA CommonParentLengthIsLeast ==
  ASSUME NEW mounts \in Seq(RealPath), mounts # <<>>,
         NEW k, k = CommonParentLength(mounts) - 1
  PROVE  /\ k \in Nat /\ CommonParentLength(mounts) = k + 1
         /\ k <= Len(mounts[1])
         /\ \A i \in 1..(Len(mounts) - 1) :
              k <= CommonLength(mounts[i], mounts[i + 1]) - 1
         /\ \/ k = Len(mounts[1])
            \/ \E i \in 1..(Len(mounts) - 1) :
                 k = CommonLength(mounts[i], mounts[i + 1]) - 1
  <1> DEFINE L(i) == CommonLength(mounts[i], mounts[i + 1])
             S == {Len(mounts[1]) + 1} \cup {L(i) : i \in 1..(Len(mounts) - 1)}
  <1>1. /\ Len(mounts) \in Nat /\ mounts[1] \in RealPath
        /\ \A i \in 1..(Len(mounts) - 1) :
             mounts[i] \in RealPath /\ mounts[i + 1] \in RealPath
    OBVIOUS
  <1>2. Len(mounts[1]) \in Nat
    BY <1>1 DEF RealPath
  <1>3. \A i \in 1..(Len(mounts) - 1) : L(i) \in Nat /\ L(i) >= 1
    BY <1>1, CommonLengthIsGreatest
  <1>4. CommonParentLength(mounts) = Least(S)
    BY Zenon DEF CommonParentLength
  <1> HIDE DEF L
  <1>5. S \subseteq Nat /\ S # {} /\ \A x \in S : x >= 1
    <2>1. Len(mounts[1]) + 1 \in Nat /\ Len(mounts[1]) + 1 >= 1
      BY <1>2
    <2>2. \A x \in S : x \in Nat /\ x >= 1
      BY <1>3, <2>1, Zenon
    <2>3. S # {}
      OBVIOUS
    <2> HIDE DEF S
    <2> QED BY <2>2, <2>3
  <1>6. Least(S) \in S /\ \A x \in S : Least(S) <= x
    <2> HIDE DEF S
    <2> QED BY <1>5, LeastExists
  <1>7. k \in Nat /\ Least(S) = k + 1
    <2>l. PICK l : l = Least(S)
      OBVIOUS
    <2>1. l \in Nat /\ l >= 1 /\ k = l - 1
      <3> HIDE DEF S
      <3> QED BY <1>4, <1>5, <1>6, <2>l
    <2> QED BY <2>l, <2>1
  <1>8. k <= Len(mounts[1]) /\ \A i \in 1..(Len(mounts) - 1) : k <= L(i) - 1
    <2>1. /\ Len(mounts[1]) + 1 \in S
          /\ \A i \in 1..(Len(mounts) - 1) : L(i) \in S
      OBVIOUS
    <2>2. /\ k + 1 <= Len(mounts[1]) + 1
          /\ \A i \in 1..(Len(mounts) - 1) : k + 1 <= L(i)
      <3> HIDE DEF S
      <3> QED BY <1>6, <1>7, <2>1, Zenon
    <2> QED BY <1>2, <1>3, <1>7, <2>2
  <1>9. k = Len(mounts[1]) \/ \E i \in 1..(Len(mounts) - 1) : k = L(i) - 1
    <2>1. k + 1 \in S
      <3> HIDE DEF S
      <3> QED BY <1>6, <1>7
    <2>2. k + 1 = Len(mounts[1]) + 1 \/ \E i \in 1..(Len(mounts) - 1) : k + 1 = L(i)
      BY <2>1, Zenon
    <2>3. k + 1 = Len(mounts[1]) + 1 => k = Len(mounts[1])
      BY <1>2, <1>7
    <2>4. \A i \in 1..(Len(mounts) - 1) : k + 1 = L(i) => k = L(i) - 1
      BY <1>3, <1>7
    <2> QED BY <2>2, <2>3, <2>4, Zenon
  <1> QED BY <1>4, <1>7, <1>8, <1>9 DEF L

\* The path is equal to the first up to k, and what is behind is the end of a
\* segment if it is one in the first.
AgreesWith(first, path, k) ==
  /\ k <= Len(path)
  /\ \A j \in 1..k : path[j] = first[j]
  /\ IsSeparator(At(path, k)) <=> IsSeparator(At(first, k))

\* Behind a real path, before its end, are characters.
LEMMA CharactersOfPath ==
  ASSUME NEW p \in RealPath, NEW i \in Nat
  PROVE  /\ Len(p) \in Nat /\ Len(p) >= 1 /\ p[1] = Slash
         /\ i < Len(p) => At(p, i) = p[i + 1] /\ p[i + 1] # None
         /\ ~(i < Len(p)) => At(p, i) = None
  <1>1. p \in Seq(Character) /\ Len(p) \in Nat /\ Len(p) >= 1 /\ p[1] = Slash
    BY DEF RealPath
  <1>2. i < Len(p) => i + 1 \in 1..Len(p) /\ p[i + 1] \in Character
    BY <1>1
  <1> QED BY <1>1, <1>2, CommandLineAssumption DEF At

\* What ends together there agrees before.
LEMMA NeighboursAgree ==
  ASSUME NEW f \in RealPath, NEW s \in RealPath, NEW k \in Nat, k >= 1,
         NEW i \in Nat, EndsAt(f, s, i), k <= i
  PROVE  AgreesWith(f, s, k)
  <1>1. /\ Len(f) \in Nat /\ Len(s) \in Nat
        /\ k < Len(f) => At(f, k) = f[k + 1]
        /\ k < Len(s) => At(s, k) = s[k + 1]
    BY CharactersOfPath
  <1>2. i <= Len(f) /\ i <= Len(s) /\ \A j \in 1..i : f[j] = s[j]
    BY DEF EndsAt
  <1>3. \A j \in 1..k : j \in 1..i
    OBVIOUS
  <1>4. CASE k = i
    BY <1>1, <1>2, <1>4 DEF EndsAt, AgreesWith
  <1>5. CASE k < i
    <2>1. k + 1 \in 1..i /\ k < Len(f) /\ k < Len(s)
      BY <1>1, <1>2, <1>5
    <2>2. At(f, k) = At(s, k)
      BY <1>1, <1>2, <2>1
    <2> QED BY <1>1, <1>2, <1>3, <2>1, <2>2 DEF AgreesWith
  <1> QED BY <1>4, <1>5

\* All mounts are equal up to the common parent length, and have the end of
\* a segment there.
LEMMA AllAgree ==
  ASSUME NEW mounts \in Seq(RealPath), mounts # <<>>,
         NEW k, k = CommonParentLength(mounts) - 1, k >= 1
  PROVE  \A i \in 1..Len(mounts) : /\ AgreesWith(mounts[1], mounts[i], k)
                                   /\ IsSeparator(At(mounts[i], k))
  <1> DEFINE n == Len(mounts)
             S == {i \in 0..(n - 1) : AgreesWith(mounts[1], mounts[i + 1], k)}
             L(i) == CommonLength(mounts[i], mounts[i + 1])
  <1>1. n \in Nat /\ n >= 1 /\ \A i \in 1..n : mounts[i] \in RealPath
    OBVIOUS
  <1>2. /\ k \in Nat /\ k <= Len(mounts[1])
        /\ \A i \in 1..(n - 1) : k <= L(i) - 1
        /\ k = Len(mounts[1]) \/ \E i \in 1..(n - 1) : k = L(i) - 1
    BY CommonParentLengthIsLeast
  <1>3. ASSUME NEW i \in 1..(n - 1)
        PROVE  EndsAt(mounts[i], mounts[i + 1], L(i) - 1) /\ L(i) - 1 \in Nat
    <2>1. /\ i \in 1..n /\ i + 1 \in 1..n
          /\ mounts[i] \in RealPath /\ mounts[i + 1] \in RealPath
      BY <1>1
    <2>2. PICK l : l = L(i)
      OBVIOUS
    <2>3. l \in Nat /\ (l > 1 => EndsAt(mounts[i], mounts[i + 1], l - 1))
      BY <2>1, <2>2, CommonLengthIsGreatest
    <2>4. l > 1 /\ l - 1 \in Nat
      <3>1. k <= l - 1
        BY <1>2, <2>2
      <3> QED BY <1>2, <2>3, <3>1
    <2> QED BY <2>2, <2>3, <2>4
  <1>4. \A i \in 1..(n - 1) : AgreesWith(mounts[i], mounts[i + 1], k)
    <2> SUFFICES ASSUME NEW i \in 1..(n - 1)
                 PROVE  AgreesWith(mounts[i], mounts[i + 1], k)
      OBVIOUS
    <2>1. mounts[i] \in RealPath /\ mounts[i + 1] \in RealPath
      BY <1>1
    <2>2. PICK l : l = L(i) - 1
      OBVIOUS
    <2>3. l \in Nat /\ EndsAt(mounts[i], mounts[i + 1], l) /\ k <= l
      BY <1>2, <1>3, <2>2
    <2> HIDE DEF L, n
    <2> QED BY <1>2, <2>1, <2>3, NeighboursAgree
  <1>5. 0..(n - 1) \subseteq S
    <2>1. 0 \in S
      <3>1. 0 \in 0..(n - 1) /\ mounts[0 + 1] = mounts[1]
        BY <1>1
      <3>2. AgreesWith(mounts[1], mounts[1], k)
        BY <1>2 DEF AgreesWith
      <3> QED BY <3>1, <3>2
    <2>2. ASSUME NEW i \in 1..(n - 1), i - 1 \in S PROVE i \in S
      <3>1. (i - 1) + 1 = i /\ i \in 0..(n - 1)
        BY <1>1
      <3>2. AgreesWith(mounts[1], mounts[i], k)
        BY <2>2, <3>1
      <3>3. AgreesWith(mounts[1], mounts[i + 1], k)
        BY <1>4, <3>2, Zenon DEF AgreesWith
      <3> QED BY <3>1, <3>3
    <2>3. n - 1 \in Nat
      BY <1>1
    <2> HIDE DEF S
    <2> QED BY <2>1, <2>2, <2>3, IntervalInduction
  <1>6. \A i \in 1..n : AgreesWith(mounts[1], mounts[i], k)
    <2>1. \A i \in 1..n : i - 1 \in 0..(n - 1) /\ (i - 1) + 1 = i
      BY <1>1
    <2>2. \A i \in 0..(n - 1) : AgreesWith(mounts[1], mounts[i + 1], k)
      BY <1>5
    <2> HIDE DEF n
    <2> QED BY <2>1, <2>2
  <1>7. IsSeparator(At(mounts[1], k))
    <2>1. CASE k = Len(mounts[1])
      <3>1. mounts[1] \in RealPath /\ ~(k < Len(mounts[1]))
        BY <1>1, <1>2, <2>1
      <3>2. At(mounts[1], k) = None
        BY <1>2, <3>1, CharactersOfPath
      <3> QED BY <3>2 DEF IsSeparator
    <2>2. ASSUME NEW i \in 1..(n - 1), k = L(i) - 1 PROVE IsSeparator(At(mounts[1], k))
      <3>1. IsSeparator(At(mounts[i], k))
        BY <1>3, <2>2 DEF EndsAt
      <3>2. AgreesWith(mounts[1], mounts[i], k)
        BY <1>1, <1>6
      <3> QED BY <3>1, <3>2 DEF AgreesWith
    <2> HIDE DEF L, n
    <2> QED BY <1>2, <2>1, <2>2
  <1>8. \A i \in 1..n : IsSeparator(At(mounts[i], k))
    BY <1>6, <1>7, Zenon DEF AgreesWith
  <1> QED BY <1>6, <1>8

\* A path begins with what it has up to there.
LEMMA PathIsSplit ==
  ASSUME NEW p \in Seq(Character), NEW a \in Seq(Character),
         Len(a) <= Len(p), \A j \in 1..Len(a) : p[j] = a[j]
  PROVE  p = a \o SubSeq(p, Len(a) + 1, Len(p))
  <1> PICK b : b = SubSeq(p, Len(a) + 1, Len(p))
    OBVIOUS
  <1>1. Len(a) \in Nat /\ Len(p) \in Nat
    OBVIOUS
  <1>2. /\ b \in Seq(Character) /\ Len(b) = Len(p) - Len(a)
        /\ \A j \in 1..(Len(p) - Len(a)) : b[j] = p[Len(a) + j]
    <2>1. \A j \in (Len(a) + 1)..Len(p) : p[j] \in Character
      BY <1>1
    <2>2. /\ b \in Seq(Character)
          /\ Len(b) = IF Len(a) + 1 <= Len(p) THEN Len(p) - (Len(a) + 1) + 1 ELSE 0
          /\ \A j \in 1..(Len(p) - (Len(a) + 1) + 1) : b[j] = p[(Len(a) + 1) + j - 1]
      BY <1>1, <2>1, SubSeqProperties
    <2> QED BY <1>1, <2>2
  <1>3. PICK q : q = a \o b
    OBVIOUS
  <1>4. /\ q \in Seq(Character) /\ Len(q) = Len(a) + Len(b)
        /\ \A j \in 1..(Len(a) + Len(b)) :
             q[j] = IF j <= Len(a) THEN a[j] ELSE b[j - Len(a)]
    BY <1>2, <1>3, ConcatProperties
  <1>5. Len(q) = Len(p)
    BY <1>1, <1>2, <1>4
  <1>6. \A j \in 1..Len(q) : q[j] = p[j]
    <2> SUFFICES ASSUME NEW j \in 1..Len(q) PROVE q[j] = p[j]
      OBVIOUS
    <2>1. CASE j <= Len(a)
      BY <1>1, <1>2, <1>4, <2>1
    <2>2. CASE ~(j <= Len(a))
      <3>1. j - Len(a) \in 1..(Len(p) - Len(a)) /\ Len(a) + (j - Len(a)) = j
        BY <1>1, <1>5, <2>2
      <3>2. q[j] = b[j - Len(a)]
        BY <1>1, <1>2, <1>4, <2>2
      <3> QED BY <1>2, <3>1, <3>2
    <2> QED BY <2>1, <2>2
  <1>7. q = p
    BY <1>4, <1>5, <1>6, SeqEqual
  <1> QED BY <1>3, <1>7

\* Only the root has one character.
LEMMA RootIsShort ==
  ASSUME NEW d \in Seq(Character), Len(d) >= 2
  PROVE  d # TheRoot
  <1>1. \A x : x = TheRoot => ~(Len(x) >= 2)
    BY DEF TheRoot
  <1> QED BY <1>1, Zenon

\* The path m begins with d, and a slash comes then, if any.
GoesOn(m, d) ==
  /\ Len(d) <= Len(m)
  /\ \A j \in 1..Len(d) : m[j] = d[j]
  /\ Len(d) < Len(m) => m[Len(d) + 1] = Slash

\* What is below a directory begins with it and a slash.
LEMMA BelowMeans ==
  ASSUME NEW m \in Seq(Character), NEW d \in Seq(Character), Len(d) >= 2
  PROVE  IsBelow(m, d) <=> GoesOn(m, d)
  <1>1. Len(d) \in Nat /\ Len(m) \in Nat
    OBVIOUS
  <1>2. d # TheRoot
    BY RootIsShort
  <1>s. Slash \in Character
    BY CommandLineAssumption DEF Slash
  <1> PICK a, n : a = Append(d, Slash) /\ n = Len(d) + 1
    OBVIOUS
  <1>3. /\ a \in Seq(Character) /\ Len(a) = n /\ a[n] = Slash
        /\ \A j \in 1..Len(d) : a[j] = d[j]
    BY <1>s, AppendProperties
  <1>4. n \in Nat /\ \A j \in 1..n : j \in 1..Len(d) \/ j = n
    BY <1>1
  <1>5. SubSeq(a, 1, n) = a
    BY <1>3, <1>4
  <1>6. IsPrefix(a, m) <=> n <= Len(m) /\ a = SubSeq(m, 1, n)
    BY <1>3, <1>5 DEF IsPrefix
  <1>7. ASSUME n <= Len(m)
        PROVE  /\ SubSeq(m, 1, n) \in Seq(Character) /\ Len(SubSeq(m, 1, n)) = n
               /\ \A j \in 1..n : SubSeq(m, 1, n)[j] = m[j]
    BY <1>1, <1>4, <1>7
  <1>8. ASSUME IsPrefix(a, m)
        PROVE  /\ Len(d) < Len(m) /\ m[n] = Slash
               /\ \A j \in 1..Len(d) : m[j] = d[j]
    <2>1. n <= Len(m) /\ \A j \in 1..n : a[j] = m[j]
      BY <1>6, <1>7, <1>8
    <2>2. n \in 1..n /\ \A j \in 1..Len(d) : j \in 1..n
      BY <1>1
    <2> QED BY <1>1, <1>3, <2>1, <2>2
  <1>9. ASSUME Len(d) < Len(m), m[n] = Slash, \A j \in 1..Len(d) : m[j] = d[j]
        PROVE  IsPrefix(a, m)
    <2>1. n <= Len(m)
      BY <1>1, <1>9
    <2>2. \A j \in 1..n : a[j] = SubSeq(m, 1, n)[j]
      BY <1>3, <1>4, <1>7, <1>9, <2>1
    <2>3. a = SubSeq(m, 1, n)
      BY <1>3, <1>7, <2>1, <2>2, SeqEqual
    <2> QED BY <1>6, <2>1, <2>3
  <1>10. ASSUME Len(d) = Len(m), \A j \in 1..Len(d) : m[j] = d[j]
         PROVE  m = d
    BY <1>10, SeqEqual
  <1>11. Len(d) <= Len(m) => Len(d) < Len(m) \/ Len(d) = Len(m)
    BY <1>1
  <1>12. IsBelow(m, d) <=> m = d \/ IsPrefix(a, m)
    BY <1>2, Zenon DEF IsBelow
  <1>13. GoesOn(m, d) <=> \/ /\ Len(d) < Len(m) /\ m[n] = Slash
                             /\ \A j \in 1..Len(d) : m[j] = d[j]
                          \/ /\ Len(d) = Len(m)
                             /\ \A j \in 1..Len(d) : m[j] = d[j]
    BY <1>1, <1>11 DEF GoesOn
  <1>14. m = d => Len(d) = Len(m) /\ \A j \in 1..Len(d) : m[j] = d[j]
    OBVIOUS
  <1> QED BY <1>8, <1>9, <1>10, <1>12, <1>13, <1>14

\* The first k characters of a path.
IsBeginning(d, p, k) ==
  d \in Seq(Character) /\ Len(d) = k /\ \A j \in 1..k : d[j] = p[j]

\* The first so many characters of a path.
LEMMA PathBegins ==
  ASSUME NEW p \in RealPath, NEW k \in Nat, k >= 1, k <= Len(p),
         NEW d, d = SubSeq(p, 1, k)
  PROVE  IsBeginning(d, p, k)
  <1>1. p \in Seq(Character) /\ Len(p) \in Nat
    BY DEF RealPath
  <1>2. \A j \in 1..k : p[j] \in Character
    BY <1>1
  <1>3. /\ d \in Seq(Character) /\ Len(d) = IF 1 <= k THEN k - 1 + 1 ELSE 0
        /\ \A j \in 1..(k - 1 + 1) : d[j] = p[1 + j - 1]
    BY <1>2, SubSeqProperties
  <1> QED BY <1>3 DEF IsBeginning

\* The common parent length is that of a directory that the mounts are in.
LEMMA ParentIsCommon ==
  ASSUME NEW mounts \in Seq(RealPath), mounts # <<>>,
         NEW k, k = CommonParentLength(mounts) - 1, k >= 2,
         NEW d, d = SubSeq(mounts[1], 1, k)
  PROVE  \A i \in DOMAIN mounts : IsBelow(mounts[i], d)
  <1>1. k \in Nat /\ k <= Len(mounts[1]) /\ mounts[1] \in RealPath
    BY CommonParentLengthIsLeast
  <1>f. PICK f : f = mounts[1]
    OBVIOUS
  <1>g. f \in RealPath /\ k \in Nat /\ k >= 1 /\ k <= Len(f) /\ d = SubSeq(f, 1, k)
    BY <1>1, <1>f
  <1>2. d \in Seq(Character) /\ Len(d) = k /\ \A j \in 1..k : d[j] = mounts[1][j]
    <2>1. d \in Seq(Character) /\ Len(d) = k /\ \A j \in 1..k : d[j] = f[j]
      <3>1. IsBeginning(d, f, k)
        BY <1>g, PathBegins, Zenon
      <3> QED BY <3>1 DEF IsBeginning
    <2> QED BY <2>1, <1>f
  <1> SUFFICES ASSUME NEW i \in DOMAIN mounts PROVE IsBelow(mounts[i], d)
    OBVIOUS
  <1>3. i \in 1..Len(mounts) /\ mounts[i] \in RealPath
    OBVIOUS
  <1>4. AgreesWith(mounts[1], mounts[i], k) /\ IsSeparator(At(mounts[i], k))
    BY <1>3, AllAgree
  <1> PICK m : m = mounts[i]
    OBVIOUS
  <1>5. m \in RealPath /\ m \in Seq(Character)
    BY <1>3 DEF RealPath
  <1>6. k < Len(m) => m[k + 1] = Slash
    BY <1>1, <1>4, <1>5, CharactersOfPath DEF IsSeparator
  <1>7. k <= Len(m) /\ \A j \in 1..k : m[j] = d[j]
    BY <1>2, <1>4 DEF AgreesWith
  <1>8. Len(d) >= 2 /\ GoesOn(m, d)
    BY <1>2, <1>6, <1>7 DEF GoesOn
  <1>9. IsBelow(m, d)
    BY <1>2, <1>5, <1>8, BelowMeans, Zenon
  <1> QED BY <1>9

\* There is no such directory further down.
LEMMA ParentIsInnermost ==
  ASSUME NEW mounts \in Seq(RealPath), mounts # <<>>,
         NEW k, k = CommonParentLength(mounts) - 1,
         NEW l \in Nat, l >= 2, l > k, l <= Len(mounts[1]),
         NEW d, d = SubSeq(mounts[1], 1, l)
  PROVE  \E i \in DOMAIN mounts : ~IsBelow(mounts[i], d)
  <1> SUFFICES ASSUME \A i \in DOMAIN mounts : IsBelow(mounts[i], d) PROVE FALSE
    OBVIOUS
  <1>1. /\ k \in Nat
        /\ \/ k = Len(mounts[1])
           \/ \E i \in 1..(Len(mounts) - 1) :
                k = CommonLength(mounts[i], mounts[i + 1]) - 1
    BY CommonParentLengthIsLeast
  <1>2. mounts[1] \in RealPath /\ Len(mounts) \in Nat
    OBVIOUS
  <1>3. d \in Seq(Character) /\ Len(d) = l
    <2>f. PICK f : f = mounts[1]
      OBVIOUS
    <2>1. f \in RealPath /\ l >= 1 /\ l <= Len(f) /\ d = SubSeq(f, 1, l)
      BY <1>2, <2>f
    <2>2. IsBeginning(d, f, l)
      BY <2>1, PathBegins, Zenon
    <2> QED BY <2>2 DEF IsBeginning
  <1>4. k # Len(mounts[1])
    BY <1>1
  <1>5. PICK i \in 1..(Len(mounts) - 1) :
          k = CommonLength(mounts[i], mounts[i + 1]) - 1
    BY <1>1, <1>4
  <1> PICK f, s : f = mounts[i] /\ s = mounts[i + 1]
    OBVIOUS
  <1>6. i \in DOMAIN mounts /\ i + 1 \in DOMAIN mounts
    BY <1>2
  <1>7. f \in RealPath /\ s \in RealPath /\ IsBelow(f, d) /\ IsBelow(s, d)
    BY <1>6
  <1>8. ASSUME NEW p \in RealPath, IsBelow(p, d)
        PROVE  l <= Len(p) /\ (\A j \in 1..l : p[j] = d[j]) /\ IsSeparator(At(p, l))
    <2>1. p \in Seq(Character)
      BY DEF RealPath
    <2>2. /\ l <= Len(p) /\ \A j \in 1..l : p[j] = d[j]
          /\ l < Len(p) => p[l + 1] = Slash
      <3>1. Len(d) >= 2
        BY <1>3
      <3>2. GoesOn(p, d)
        BY <1>3, <1>8, <2>1, <3>1, BelowMeans, Zenon
      <3> QED BY <1>3, <3>2 DEF GoesOn
    <2>3. IsSeparator(At(p, l))
      BY <2>2, CharactersOfPath DEF IsSeparator
    <2> QED BY <2>2, <2>3
  <1>9. EndsAt(f, s, l)
    BY <1>7, <1>8 DEF EndsAt
  <1> PICK c : c = CommonLength(f, s)
    OBVIOUS
  <1>10. c \in Nat /\ l <= c - 1
    BY <1>7, <1>9, CommonLengthIsGreatest
  <1> QED BY <1>5, <1>10

\* If the mounts only have the root in common, it is not cut off.
LEMMA RootIsKept ==
  ASSUME NEW mounts \in Seq(RealPath), mounts # <<>>, ToSet(mounts) # {TheRoot}
  PROVE  CommonParentLength(mounts) - 1 # 1
  <1> SUFFICES ASSUME CommonParentLength(mounts) - 1 = 1 PROVE FALSE
    OBVIOUS
  <1> PICK k : k = CommonParentLength(mounts) - 1
    OBVIOUS
  <1>1. k >= 1 /\ k = 1
    OBVIOUS
  <1>2. \A i \in 1..Len(mounts) : IsSeparator(At(mounts[i], k))
    BY <1>1, AllAgree
  <1>3. ASSUME NEW p \in RealPath, IsSeparator(At(p, 1)) PROVE p = TheRoot
    <2>1. Len(p) \in Nat /\ Len(p) >= 1 /\ p[1] = Slash /\ p \in Seq(Character)
      BY DEF RealPath
    <2>2. ~(1 < Len(p))
      <3>1. 1 < Len(p) => At(p, 1) = p[2] /\ p[2] # None
        BY CharactersOfPath
      <3>2. 1 < Len(p) => p[2] # Slash
        BY DEF RealPath
      <3> QED BY <1>3, <3>1, <3>2 DEF IsSeparator
    <2>3. Len(p) = 1
      <3> PICK n : n = Len(p)
        OBVIOUS
      <3>1. n \in Nat /\ n >= 1 /\ ~(1 < n)
        BY <2>1, <2>2
      <3>2. n = 1
        BY <3>1
      <3> QED BY <3>2
    <2> QED BY <2>1, <2>3 DEF TheRoot
  <1>4. \A i \in DOMAIN mounts : mounts[i] = TheRoot
    BY <1>1, <1>2, <1>3
  <1>5. 1 \in DOMAIN mounts
    OBVIOUS
  <1> QED BY <1>4, <1>5 DEF ToSet

\* A file below a mount has a path relative to the common parent of the
\* mounts, whatever they are.
LEMMA RelativeToTheCommonParent ==
  ASSUME NEW mounts \in Seq(RealPath), mounts # <<>>, ToSet(mounts) # {TheRoot},
         NEW m \in ToSet(mounts),
         NEW path \in RealPath, IsBelow(path, m), path # m
  PROVE  IsRelativeToCommonParent(path, mounts)
  <1> PICK k : k = CommonParentLength(mounts) - 1
    OBVIOUS
  <1>1. /\ k \in Nat /\ CommonParentLength(mounts) = k + 1
        /\ k <= Len(mounts[1]) /\ k # 1
    BY CommonParentLengthIsLeast, RootIsKept
  <1>2. /\ path \in Seq(Character) /\ Len(path) \in Nat /\ Len(path) >= 1
        /\ path[1] = Slash
    BY DEF RealPath
  <1> PICK first : first = mounts[1]
    OBVIOUS
  <1>3. first \in RealPath /\ Len(first) \in Nat /\ Len(first) >= 1 /\ first[1] = Slash
    BY DEF RealPath
  <1>4. SUFFICES ASSUME TRUE
                 PROVE  \E n \in 1..Len(first), d \in Seq(Character) :
                          /\ d = SubSeq(first, 1, n)
                          /\ \A i \in DOMAIN mounts : IsBelow(mounts[i], d)
                          /\ \A l \in (Len(d) + 1)..Len(first) :
                               \E i \in DOMAIN mounts :
                                 ~IsBelow(mounts[i], SubSeq(first, 1, l))
                          /\ path = (IF d = TheRoot THEN d ELSE Append(d, Slash))
                                      \o SubSeq(path, k + 2, Len(path))
    <2>1. RelativePath(path, mounts) = SubSeq(path, k + 2, Len(path))
      <3>1. CommonParentLength(mounts) + 1 = k + 2
        BY <1>1
      <3> QED BY <3>1 DEF RelativePath
    <2> QED BY <2>1, Zenon DEF IsRelativeToCommonParent, IsCommonParent
  <1>5. CASE k = 0
    <2> PICK d : d = TheRoot
      OBVIOUS
    <2>s. Slash \in Character
      BY CommandLineAssumption DEF Slash
    <2>1. d \in Seq(Character) /\ Len(d) = 1 /\ d[1] = Slash
      BY <2>s DEF TheRoot
    <2>2. d = SubSeq(first, 1, 1)
      <3> PICK e : e = SubSeq(first, 1, 1)
        OBVIOUS
      <3>o. PICK n : n = 1
        OBVIOUS
      <3>0. first \in RealPath /\ n \in Nat /\ n >= 1 /\ n <= Len(first) /\ e = SubSeq(first, 1, n)
        BY <1>3, <3>o
      <3>e. e \in Seq(Character) /\ Len(e) = n /\ \A j \in 1..n : e[j] = first[j]
        <4>1. IsBeginning(e, first, n)
          BY <3>0, PathBegins, Zenon
        <4> QED BY <4>1 DEF IsBeginning
      <3>1. e \in Seq(Character) /\ Len(e) = 1 /\ \A j \in 1..1 : e[j] = first[j]
        BY <3>o, <3>e
      <3>2. \A j \in 1..Len(e) : e[j] = d[j]
        BY <1>3, <2>1, <3>1
      <3> QED BY <2>1, <3>1, <3>2, SeqEqual
    <2>3. \A i \in DOMAIN mounts : IsBelow(mounts[i], d)
      BY DEF IsBelow
    <2>4. ASSUME NEW l \in (Len(d) + 1)..Len(first)
          PROVE  \E i \in DOMAIN mounts : ~IsBelow(mounts[i], SubSeq(first, 1, l))
      <3> PICK e : e = SubSeq(mounts[1], 1, l)
        OBVIOUS
      <3>1. l \in Nat /\ l >= 2 /\ l > k /\ l <= Len(mounts[1])
        BY <1>3, <1>5, <2>1
      <3> QED BY <3>1, ParentIsInnermost
    <2>5. path = d \o SubSeq(path, 2, Len(path))
      <3>1. Len(d) <= Len(path) /\ \A j \in 1..Len(d) : path[j] = d[j]
        BY <1>2, <2>1
      <3>2. path = d \o SubSeq(path, Len(d) + 1, Len(path))
        BY <1>2, <2>1, <3>1, PathIsSplit
      <3> QED BY <2>1, <3>2
    <2>6. 1 \in 1..Len(first) /\ k + 2 = 2
      BY <1>3, <1>5
    <2> QED BY <2>1, <2>2, <2>3, <2>4, <2>5, <2>6
  <1>6. CASE k >= 2
    <2> PICK d : d = SubSeq(first, 1, k)
      OBVIOUS
    <2>1. d \in Seq(Character) /\ Len(d) = k
      <3>1. k >= 1 /\ k <= Len(first)
        BY <1>1, <1>6
      <3>2. IsBeginning(d, first, k)
        BY <1>1, <1>3, <3>1, PathBegins, Zenon
      <3> QED BY <3>2 DEF IsBeginning
    <2>2. \A i \in DOMAIN mounts : IsBelow(mounts[i], d)
      BY <1>6, ParentIsCommon
    <2>3. ASSUME NEW l \in (Len(d) + 1)..Len(first)
          PROVE  \E i \in DOMAIN mounts : ~IsBelow(mounts[i], SubSeq(first, 1, l))
      <3> PICK e : e = SubSeq(mounts[1], 1, l)
        OBVIOUS
      <3>1. l \in Nat /\ l >= 2 /\ l > k /\ l <= Len(mounts[1])
        BY <1>1, <1>3, <1>6, <2>1
      <3> QED BY <3>1, ParentIsInnermost
    <2>4. d # TheRoot
      <3>1. d \in Seq(Character) /\ Len(d) >= 2
        BY <1>6, <2>1
      <3> QED BY <3>1, RootIsShort, Zenon
    <2>5. m \in RealPath /\ m \in Seq(Character) /\ Len(m) \in Nat /\ IsBelow(m, d)
      <3>1. PICK i \in DOMAIN mounts : m = mounts[i]
        BY Zenon DEF ToSet
      <3>2. m \in RealPath
        BY <3>1
      <3>3. m \in Seq(Character) /\ Len(m) \in Nat
        BY <3>2 DEF RealPath
      <3> QED BY <2>2, <3>1, <3>2, <3>3
    <2>6. /\ k <= Len(m) /\ \A j \in 1..k : m[j] = d[j]
          /\ k < Len(m) => m[k + 1] = Slash
      <3>1. Len(d) >= 2
        BY <1>6, <2>1
      <3>2. GoesOn(m, d)
        BY <2>1, <2>5, <3>1, BelowMeans, Zenon
      <3> QED BY <2>1, <3>2 DEF GoesOn
    <2>7. /\ Len(m) < Len(path) /\ \A j \in 1..Len(m) : path[j] = m[j]
          /\ path[Len(m) + 1] = Slash
      <3>1. Len(m) >= 2
        BY <1>1, <1>6, <2>5, <2>6
      <3>g. GoesOn(path, m)
        BY <1>2, <2>5, <3>1, BelowMeans, Zenon
      <3>2. /\ Len(m) <= Len(path) /\ \A j \in 1..Len(m) : path[j] = m[j]
            /\ Len(m) < Len(path) => path[Len(m) + 1] = Slash
        BY <3>g DEF GoesOn
      <3>3. Len(m) # Len(path)
        BY <1>2, <2>5, <3>2, SeqEqual
      <3> QED BY <1>2, <2>5, <3>2, <3>3
    <2> PICK a : a = Append(d, Slash)
      OBVIOUS
    <2>8. /\ a \in Seq(Character) /\ Len(a) = k + 1 /\ a[k + 1] = Slash
          /\ \A j \in 1..k : a[j] = d[j]
      <3>1. Slash \in Character
        BY CommandLineAssumption DEF Slash
      <3> QED BY <2>1, <3>1, AppendProperties
    <2>9. path[k + 1] = Slash
      <3>1. CASE k = Len(m)
        BY <2>7, <3>1
      <3>2. CASE k # Len(m)
        <4>1. k < Len(m) /\ k + 1 \in 1..Len(m)
          BY <1>1, <2>5, <2>6, <3>2
        <4> QED BY <2>6, <2>7, <4>1
      <3> QED BY <3>1, <3>2
    <2>10. Len(a) <= Len(path) /\ \A j \in 1..Len(a) : path[j] = a[j]
      <3>1. \A j \in 1..Len(a) : j = k + 1 \/ j \in 1..k
        BY <1>1, <2>8
      <3>2. \A j \in 1..k : j \in 1..Len(m)
        BY <1>1, <2>5, <2>6
      <3>3. \A j \in 1..k : path[j] = a[j]
        BY <2>6, <2>7, <2>8, <3>2
      <3>4. Len(a) <= Len(path)
        BY <1>1, <1>2, <2>5, <2>6, <2>7, <2>8
      <3> QED BY <2>8, <2>9, <3>1, <3>3, <3>4
    <2>11. path = a \o SubSeq(path, k + 2, Len(path))
      <3>1. path = a \o SubSeq(path, Len(a) + 1, Len(path))
        BY <1>2, <2>8, <2>10, PathIsSplit
      <3>2. Len(a) + 1 = k + 2
        BY <1>1, <2>8
      <3> QED BY <3>1, <3>2
    <2>12. k \in 1..Len(first)
      BY <1>1, <1>3, <1>6
    <2> QED BY <2>1, <2>2, <2>3, <2>4, <2>11, <2>12
  <1>7. k = 0 \/ k >= 2
    BY <1>1
  <1> QED BY <1>5, <1>6, <1>7

-----------------------------------------------------------------------------
\* Sequences up to a length are sequences.
LEMMA ShortSequences ==
  ASSUME NEW T, NEW S, S \subseteq T, NEW n \in Nat, NEW s \in SequencesUpTo(n, S)
  PROVE  s \in Seq(T)
  <1>1. PICK k \in 0..n : s \in [1..k -> S]
    BY DEF SequencesUpTo
  <1>2. k \in Nat /\ \A i \in 1..k : s[i] \in T
    BY <1>1
  <1> QED
    BY <1>1, <1>2

\* The loop of parse_params makes of every command line, of any words and any
\* length, what the usage line says; those of the run are some of them.
THEOREM CommandLinesAreParsedAsDocumented ==
  /\ \A argv \in Seq(Word) : IsParsedAsDocumented(argv)
  /\ Spec => []ParsedAsDocumented
  <1>1. Words \subseteq Word
    BY CommandLineAssumption DEF Words, Word, Option, Home, Elsewhere
  <1>2. \A argv \in SequencesUpTo(MaxWords, Words) : argv \in Seq(Word)
    BY <1>1, MCServiceAssumption, ShortSequences
  <1>3. ParsedAsDocumented
    BY <1>2, EveryCommandLineIsParsed DEF ParsedAsDocumented, AllAreParsedAsDocumented
  <1> QED
    BY <1>3, EveryCommandLineIsParsed, PTL

\* The mounts of the run are real paths.
LEMMA WatchedIsReal ==
  ASSUME NEW dir \in Watched
  PROVE  /\ dir \in RealPath /\ dir \in Seq(Character)
         /\ Len(dir) \in Nat /\ Len(dir) >= 1 /\ dir[1] = Slash
         /\ dir # TheRoot => Len(dir) >= 2 /\ dir[2] # Slash
  <1>1. Slash = "/" /\ Slash \in Character /\ "c" \in Character /\ "d" \in Character
        /\ "c" # Slash /\ "d" # Slash
    BY CommandLineAssumption DEF Slash
  <1>2. CASE dir = TheRoot
    <2>1. \A x : x = TheRoot => /\ x \in Seq(Character) /\ Len(x) \in Nat
                               /\ Len(x) >= 1 /\ x[1] = Slash
                               /\ Len(x) > 0 /\ ~(Len(x) > 1)
      BY <1>1 DEF TheRoot
    <2>2. /\ dir \in Seq(Character) /\ Len(dir) \in Nat
          /\ Len(dir) >= 1 /\ dir[1] = Slash
          /\ Len(dir) > 0 /\ ~(Len(dir) > 1)
      BY <1>2, <2>1, Zenon
    <2>3. dir \in RealPath
      BY <2>2 DEF RealPath
    <2> QED
      BY <1>2, <2>2, <2>3, Zenon
  <1>3. CASE dir # TheRoot
    <2>1. /\ dir \in Seq(Character) /\ Len(dir) \in Nat /\ Len(dir) >= 2
          /\ dir[1] = Slash /\ dir[2] # Slash
      <3>1. CASE dir = <<Slash, "c">>
        BY <1>1, <3>1
      <3>2. CASE dir = <<Slash, "d">>
        BY <1>1, <3>2
      <3>3. CASE dir = <<Slash, "c", Slash, "d">>
        BY <1>1, <3>3
      <3>4. CASE dir = <<Slash, "c", "d">>
        BY <1>1, <3>4
      <3>5. CASE dir = <<Slash, "c", Slash, "d", Slash, "c">>
        BY <1>1, <3>5
      <3> QED
        BY <1>3, <3>1, <3>2, <3>3, <3>4, <3>5, Zenon DEF Watched, Slash
    <2>2. Len(dir) > 0 /\ Len(dir) >= 1
      BY <2>1
    <2>3. dir \in RealPath
      BY <2>1, <2>2 DEF RealPath
    <2> QED
      BY <2>1, <2>2, <2>3, Zenon
  <1> QED
    BY <1>2, <1>3, Zenon

\* Below the mount at dir are real paths.
LEMMA PathsAreBelow ==
  ASSUME NEW dir \in Watched, NEW path \in Paths(dir)
  PROVE  /\ dir \in RealPath /\ path \in RealPath
         /\ IsBelow(path, dir) /\ path # dir
  <1>1. PICK name \in SequencesUpTo(MaxLength, {"c", "d"}) \ {<<>>} :
          path = (IF dir = TheRoot THEN dir ELSE Append(dir, "/")) \o name
    BY DEF Paths
  <1>2. /\ name \in Seq(Character) /\ Len(name) \in Nat /\ Len(name) >= 1
        /\ name[1] # Slash
    <2>1. PICK n \in 0..MaxLength : name \in [1..n -> {"c", "d"}]
      BY <1>1 DEF SequencesUpTo
    <2>2. n \in Nat
      BY MCServiceAssumption
    <2>3. n # 0
      BY <1>1, <2>1
    <2>4. 1 \in 1..n
      BY <2>2, <2>3
    <2>5. name[1] \in {"c", "d"}
      BY <2>1, <2>4
    <2>6. {"c", "d"} \subseteq Character
      BY CommandLineAssumption
    <2> QED
      BY <2>1, <2>2, <2>4, <2>5, <2>6 DEF Slash
  <1>3. Slash \in Character /\ Slash = "/"
    BY CommandLineAssumption DEF Slash
  <1>4. /\ dir \in Seq(Character) /\ Len(dir) \in Nat /\ Len(dir) >= 1
        /\ dir[1] = Slash
        /\ dir # TheRoot => Len(dir) >= 2 /\ dir[2] # Slash
    BY WatchedIsReal
  <1>r. Len(TheRoot) = 1
    BY DEF TheRoot
  <1>5. dir \in RealPath
    BY WatchedIsReal
  <1>b. PICK begin : begin = IF dir = TheRoot THEN dir ELSE Append(dir, "/")
    OBVIOUS
  <1>6. /\ begin \in Seq(Character) /\ Len(begin) \in Nat /\ Len(begin) >= 1
        /\ begin[1] = Slash
        /\ dir # TheRoot => /\ Len(begin) = Len(dir) + 1
                            /\ \A i \in 1..Len(dir) : begin[i] = dir[i]
        /\ dir = TheRoot => Len(begin) = 1
    <2>1. CASE dir = TheRoot
      BY <1>b, <1>4, <1>r, <2>1
    <2>2. CASE dir # TheRoot
      <3>a. begin = Append(dir, "/") /\ "/" \in Character
        BY <1>b, <1>3, <2>2
      <3>1. /\ begin \in Seq(Character) /\ Len(begin) = Len(dir) + 1
            /\ \A i \in 1..Len(dir) : begin[i] = dir[i]
        BY <1>4, <3>a, AppendProperties
      <3>2. 1 \in 1..Len(dir)
        BY <1>4
      <3> QED
        BY <1>4, <2>2, <3>1, <3>2
    <2> QED
      BY <2>1, <2>2
  <1>7. /\ path \in Seq(Character) /\ Len(path) = Len(begin) + Len(name)
        /\ \A i \in 1..(Len(begin) + Len(name)) :
             path[i] = IF i <= Len(begin) THEN begin[i] ELSE name[i - Len(begin)]
    <2>1. path = begin \o name
      BY <1>1, <1>b
    <2> QED
      BY <1>2, <1>6, <2>1, ConcatProperties
  <1>8. /\ Len(path) > 0 /\ path[1] = Slash
        /\ \A i \in 1..Len(begin) : path[i] = begin[i]
    <2>1. 1 \in 1..Len(begin) /\ \A i \in 1..Len(begin) :
            i \in 1..(Len(begin) + Len(name)) /\ i <= Len(begin)
      BY <1>2, <1>6
    <2>2. \A i \in 1..Len(begin) : path[i] = begin[i]
      BY <1>7, <2>1
    <2>3. Len(path) > 0
      BY <1>2, <1>6, <1>7
    <2> QED
      BY <1>6, <2>1, <2>2, <2>3
  <1>9. path[2] # Slash
    <2>1. CASE dir = TheRoot
      <3>b. Len(begin) = 1
        BY <1>6, <2>1, Zenon
      <3>1. /\ 2 \in 1..(Len(begin) + Len(name))
            /\ ~(2 <= Len(begin)) /\ 2 - Len(begin) = 1
        BY <1>2, <3>b
      <3>2. path[2] = name[1]
        BY <1>7, <3>1
      <3> QED
        BY <1>2, <3>2
    <2>2. CASE dir # TheRoot
      <3>1. 2 \in 1..Len(dir) /\ 2 \in 1..Len(begin)
        BY <1>4, <1>6, <2>2
      <3> QED
        BY <1>4, <1>6, <1>8, <2>2, <3>1
    <2> QED
      BY <2>1, <2>2
  <1>10. path \in RealPath
    BY <1>7, <1>8, <1>9 DEF RealPath
  <1>11. path # dir
    <2>1. Len(dir) < Len(path)
      <3>1. CASE dir = TheRoot
        BY <1>2, <1>6, <1>7, <1>r, <3>1
      <3>2. CASE dir # TheRoot
        BY <1>2, <1>4, <1>6, <1>7, <3>2
      <3> QED
        BY <3>1, <3>2
    <2>2. path = dir => Len(path) = Len(dir)
      OBVIOUS
    <2> QED
      BY <1>4, <2>1, <2>2
  <1>12. IsBelow(path, dir)
    <2>1. CASE dir = TheRoot
      BY <2>1 DEF IsBelow
    <2>2. CASE dir # TheRoot
      <3>1. begin = Append(dir, "/") /\ Len(begin) <= Len(path)
        BY <1>b, <1>2, <1>6, <1>7, <2>2
      <3>2. begin = SubSeq(path, 1, Len(begin)) /\ SubSeq(begin, 1, Len(begin)) = begin
        <4>n. PICK n : n = Len(begin)
          OBVIOUS
        <4>s. PICK s : s = SubSeq(path, 1, n)
          OBVIOUS
        <4>1. path \in RealPath /\ n \in Nat /\ n >= 1 /\ n <= Len(path)
          BY <1>6, <1>10, <3>1, <4>n
        <4>2. IsBeginning(s, path, n)
          BY <4>1, <4>s, PathBegins, Zenon
        <4>3. s \in Seq(Character) /\ Len(s) = n /\ \A i \in 1..n : s[i] = begin[i]
          BY <1>8, <4>2, <4>n DEF IsBeginning
        <4>4. s = begin
          BY <1>6, <4>3, <4>n, SeqEqual
        <4>5. SubSeq(begin, 1, Len(begin)) = begin
          BY <1>6
        <4> QED
          BY <4>4, <4>5, <4>n, <4>s
      <3>3. IsPrefix(begin, path)
        BY <3>1, <3>2 DEF IsPrefix
      <3> QED
        BY <3>1, <3>3 DEF IsBelow, Slash
    <2> QED
      BY <2>1, <2>2
  <1> QED
    BY <1>5, <1>10, <1>11, <1>12

\* Whatever is watched, but for the root alone, what store gets for a file below
\* a mount is its path relative to the innermost directory all mounts are in,
\* so that no two files share their versions; those of the run are some of them.
THEOREM PathsAreRelativeToTheCommonParent ==
  /\ \A mounts \in Seq(RealPath) :
       mounts # <<>> /\ ToSet(mounts) # {TheRoot} =>
         \A m \in ToSet(mounts), path \in RealPath :
           IsBelow(path, m) /\ path # m => IsRelativeToCommonParent(path, mounts)
  /\ Spec => []RelativePathsAreDistinct
  <1>1. \A mounts \in Seq(RealPath) :
          mounts # <<>> /\ ToSet(mounts) # {TheRoot} =>
            \A m \in ToSet(mounts), path \in RealPath :
              IsBelow(path, m) /\ path # m => IsRelativeToCommonParent(path, mounts)
    BY RelativeToTheCommonParent
  <1>2. ASSUME NEW mounts \in SequencesUpTo(MaxMounts, Watched) \ {<<>>},
               ToSet(mounts) # {TheRoot},
               NEW m \in ToSet(mounts), NEW path \in Paths(m)
        PROVE  IsRelativeToCommonParent(path, mounts)
    <2>1. Watched \subseteq RealPath
      BY WatchedIsReal, Zenon
    <2>2. mounts \in Seq(RealPath) /\ mounts \in Seq(Watched)
      BY <2>1, MCServiceAssumption, ShortSequences
    <2>3. m \in Watched
      BY <2>2 DEF ToSet
    <2>4. path \in RealPath /\ IsBelow(path, m) /\ path # m
      BY <2>3, PathsAreBelow
    <2> QED
      BY <1>1, <1>2, <2>2, <2>4
  <1>3. AllAreRelativeToCommonParent
    <2> SUFFICES ASSUME NEW mounts \in SequencesUpTo(MaxMounts, Watched) \ {<<>>},
                        ToSet(mounts) # {TheRoot},
                        NEW path \in UNION {Paths(mount) : mount \in ToSet(mounts)}
                 PROVE  IsRelativeToCommonParent(path, mounts)
      BY Zenon DEF AllAreRelativeToCommonParent
    <2>1. PICK m \in ToSet(mounts) : path \in Paths(m)
      BY Zenon
    <2> QED
      BY <1>2, <2>1, Zenon
  <1>4. RelativePathsAreDistinct
    BY <1>3 DEF RelativePathsAreDistinct
  <1> QED
    BY <1>1, <1>4, PTL
=============================================================================
