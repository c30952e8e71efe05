--------------------------- MODULE FlusherProofs ----------------------------
(***************************************************************************)
(* Proofs about flush requests, for any processes, files and bounds: each  *)
(* is served once, answered after a version that was made for it (if the   *)
(* file is still there) and to a process that may ask for it, and no       *)
(* descriptor leaks.                                                       *)
(*                                                                         *)
(* A request is served once because its time is not later than the clock,  *)
(* while each run of the daemon begins at a later time and remembers per   *)
(* path the last time it answered: TakenIsPast.  The rest follows the job  *)
(* from the event to the answer.                                           *)
(***************************************************************************)
EXTENDS Flusher, TLAPS

Fifo == [pid : Pid, number : Nat]

Request == [pid : Pid, path : Path, fifo : Fifo, boot : Nat, timestamp : Nat,
            isValid : BOOLEAN]

Event == [pid : Pid, path : Path]

TypeOK ==
  /\ boot \in Nat /\ clock \in Nat
  /\ requests \in Seq(Request)
  /\ stamped \in [Pid -> Nat]
  /\ attribute \in [Path -> Nat]
  /\ events \in Seq(Event)
  /\ listens \in [Pid -> Nat]
  /\ inbox \in [Pid -> SUBSET Nat]
  /\ pc \in {"down", "poll", "store", "acknowledge"}
  /\ job \in [id : Nat, pid : Pid \cup {None}, path : Path \cup {None}]
  /\ bootId \in Nat /\ globalTimestamp \in Nat
  /\ pathTimestamps \in [Path -> Nat]
  /\ lastPid \in Pid \cup {None}
  /\ lastPidFd \in Fifo \cup {None}
  /\ fds \subseteq Fifo
  /\ taken \subseteq Nat
  /\ versions \in [Path -> Nat] /\ removals \in [Path -> Nat]

\* No request is from the future.
RequestsArePast ==
  /\ \A i \in Ids :
       /\ requests[i].path \in PathsOf[requests[i].pid]
       /\ requests[i].boot <= boot
       /\ requests[i].boot = boot => requests[i].timestamp <= clock
  /\ \A p \in Pid : stamped[p] <= clock
  /\ \A f \in Path :
       /\ attribute[f] # 0 =>
            attribute[f] \in Ids /\ requests[attribute[f]].path = f
       /\ versions[f] <= Len(requests) /\ removals[f] <= Len(requests)

\* A request that was served is too old for the daemon that runs.
TakenIsPast ==
  /\ pc # "down" => bootId = boot
  /\ \A i \in taken :
       /\ i \in Ids
       /\ pc # "down" /\ requests[i].boot = bootId =>
            \/ requests[i].timestamp < globalTimestamp
            \/ requests[i].timestamp <= pathTimestamps[requests[i].path]

\* What the daemon does for the last event.
JobIsRight ==
  /\ \A i \in DOMAIN events : events[i].path \in PathsOf[events[i].pid]
  /\ pc \in {"store", "acknowledge"} =>
       /\ job.pid \in Pid
       /\ job.path \in PathsOf[job.pid]
       /\ job.id \in Ids
       /\ requests[job.id].path = job.path
  /\ pc = "store" =>
       job.path \in files \/ job.id <= removals[job.path]
  /\ pc = "acknowledge" =>
       job.id <= versions[job.path] \/ job.id <= removals[job.path]

FifosAreRight ==
  /\ lastPid # None => lastPidFd # None /\ lastPidFd.pid = lastPid
  /\ pc = "down" => fds = {}
  /\ \A p \in Pid : inbox[p] \subseteq Ids

IInv ==
  /\ TypeOK
  /\ RequestsArePast
  /\ TakenIsPast
  /\ JobIsRight
  /\ FifosAreRight
  /\ AcknowledgedIsStored
  /\ NoFdIsLeaked
  /\ AnswersAreForTheReader

-----------------------------------------------------------------------------
\* What the assumption on the constants says.
LEMMA Constants ==
  /\ PathsOf \in [Pid -> SUBSET Path]
  /\ None \notin Pid /\ None \notin Fifo
  BY FlusherAssumption DEF Fifo

\* A request that was made.
LEMMA RequestTypes ==
  ASSUME TypeOK, NEW i \in Ids
  PROVE  /\ i \in Nat /\ i >= 1 /\ i <= Len(requests)
         /\ requests[i] \in Request
         /\ requests[i].pid \in Pid /\ requests[i].path \in Path
         /\ requests[i].boot \in Nat /\ requests[i].timestamp \in Nat
  <1>1. requests \in Seq(Request)
    BY DEF TypeOK
  <1>2. /\ i \in Nat /\ i >= 1 /\ i <= Len(requests)
        /\ requests[i] \in Request
    BY <1>1 DEF Ids
  <1> QED
    BY <1>2 DEF Request

\* An event that waits.
LEMMA EventTypes ==
  ASSUME NEW s \in Seq(Event), NEW i \in DOMAIN s
  PROVE  s[i].pid \in Pid /\ s[i].path \in Path
  <1>1. s[i] \in Event
    OBVIOUS
  <1> QED
    BY <1>1 DEF Event

\* The daemon has not made any FIFO and knows no request.
LEMMA InitIInv ==
  ASSUME Init
  PROVE  IInv
  <1>1. <<>> \in Seq(Request) /\ <<>> \in Seq(Event)
    OBVIOUS
  <1>2. TypeOK
    BY <1>1 DEF Init, TypeOK, NoJob
  <1>3. RequestsArePast /\ TakenIsPast
    BY DEF Init, RequestsArePast, TakenIsPast, Ids
  <1>4. JobIsRight /\ FifosAreRight
    BY DEF Init, JobIsRight, FifosAreRight
  <1>5. AcknowledgedIsStored /\ NoFdIsLeaked /\ AnswersAreForTheReader
    BY DEF Init, AcknowledgedIsStored, NoFdIsLeaked, AnswersAreForTheReader
  <1> QED
    BY <1>2, <1>3, <1>4, <1>5 DEF IInv

-----------------------------------------------------------------------------
\* A process changes its FIFO, which loses the answers in it, or takes the time.
LEMMA PrepareKeeps ==
  ASSUME IInv, NEW p \in Pid, Listen(p) \/ HangUp(p) \/ TakeStamp(p)
  PROVE  IInv'
  <1>1. /\ boot' = boot /\ requests' = requests /\ attribute' = attribute
        /\ events' = events /\ pc' = pc /\ job' = job /\ bootId' = bootId
        /\ globalTimestamp' = globalTimestamp
        /\ pathTimestamps' = pathTimestamps /\ lastPid' = lastPid
        /\ lastPidFd' = lastPidFd /\ fds' = fds /\ taken' = taken
        /\ versions' = versions /\ files' = files /\ removals' = removals
        /\ inbox' = inbox \/ inbox' = [inbox EXCEPT ![p] = {}]
        /\ listens' = listens \/ listens' = [listens EXCEPT ![p] = @ + 1]
        /\ \/ clock' = clock /\ stamped' = stamped
           \/ /\ clock' = clock + 1
              /\ stamped' = [stamped EXCEPT ![p] = clock + 1]
    BY DEF Listen, HangUp, TakeStamp, requesters, fifos, flusher, pipes, tree
  <1>2. TypeOK
    BY DEF IInv
  <1>3. TypeOK'
    <2>1. clock' \in Nat /\ stamped' \in [Pid -> Nat]
      <3>1. clock \in Nat /\ stamped \in [Pid -> Nat]
        BY <1>2 DEF TypeOK
      <3> QED
        BY <1>1, <3>1
    <2>2. inbox' \in [Pid -> SUBSET Nat]
      BY <1>1, <1>2 DEF TypeOK
    <2>3. listens' \in [Pid -> Nat]
      <3>1. /\ listens \in [Pid -> Nat]
            /\ listens' = listens \/ listens' = [listens EXCEPT ![p] = @ + 1]
        BY <1>1, <1>2 DEF TypeOK
      <3> QED
        BY <3>1
    <2> QED
      BY <1>1, <1>2, <2>1, <2>2, <2>3 DEF TypeOK
  <1>4. \A q \in Pid : inbox'[q] \subseteq inbox[q]
    BY <1>1, <1>2 DEF TypeOK
  <1>5. RequestsArePast'
    <2>1. clock \in Nat /\ clock' \in Nat /\ clock <= clock'
      BY <1>1, <1>2 DEF TypeOK
    <2>2. ASSUME NEW q \in Pid
          PROVE  stamped'[q] <= clock'
      <3>1. stamped[q] \in Nat /\ stamped[q] <= clock
        BY <1>2 DEF IInv, TypeOK, RequestsArePast
      <3>2. stamped'[q] = stamped[q] \/ stamped'[q] = clock'
        BY <1>1, <1>2 DEF TypeOK
      <3> QED
        BY <2>1, <3>1, <3>2
    <2>3. ASSUME NEW i \in Ids, requests[i].boot = boot
          PROVE  requests[i].timestamp <= clock'
      BY <1>2, <2>1, <2>3, RequestTypes DEF IInv, RequestsArePast
    <2> QED
      BY <1>1, <2>2, <2>3 DEF IInv, RequestsArePast, Ids
  <1>6. TakenIsPast' /\ JobIsRight'
    BY <1>1 DEF IInv, TakenIsPast, JobIsRight, Ids
  <1>7. FifosAreRight' /\ NoFdIsLeaked'
    BY <1>1, <1>4 DEF IInv, FifosAreRight, NoFdIsLeaked, Ids
  <1>8. AcknowledgedIsStored' /\ AnswersAreForTheReader'
    BY <1>1, <1>4 DEF IInv, AcknowledgedIsStored, AnswersAreForTheReader, IsOwned
  <1> QED
    BY <1>3, <1>5, <1>6, <1>7, <1>8 DEF IInv

\* The new request is one that nobody has answered; the others stay.
LEMMA AskKeeps ==
  ASSUME IInv, NEW p \in Pid, NEW f \in Path, NEW isValid \in BOOLEAN,
         Ask(p, f, isValid)
  PROVE  IInv'
  <1> DEFINE r == [pid |-> p, path |-> f, fifo |-> FifoOf(p), boot |-> boot,
                   timestamp |-> stamped[p], isValid |-> isValid]
  <1>1. /\ boot' = boot /\ clock' = clock /\ events' = events
        /\ listens' = listens /\ inbox' = inbox /\ pc' = pc /\ job' = job
        /\ bootId' = bootId /\ globalTimestamp' = globalTimestamp
        /\ pathTimestamps' = pathTimestamps /\ lastPid' = lastPid
        /\ lastPidFd' = lastPidFd /\ fds' = fds /\ taken' = taken
        /\ versions' = versions /\ files' = files /\ removals' = removals
        /\ f \in PathsOf[p]
        /\ requests' = Append(requests, r)
        /\ stamped' = [stamped EXCEPT ![p] = 0]
        /\ attribute' = [attribute EXCEPT ![f] = Len(requests) + 1]
    BY DEF Ask, fifos, flusher, pipes, tree
  <1>2. TypeOK
    BY DEF IInv
  <1>3. /\ r \in Request /\ r.path = f /\ r.pid = p /\ r.boot = boot
        /\ r.timestamp = stamped[p]
    BY <1>2 DEF TypeOK, Request, Fifo, FifoOf
  <1> HIDE DEF r
  <1>4. /\ requests' \in Seq(Request) /\ Len(requests') = Len(requests) + 1
        /\ Len(requests) \in Nat
        /\ \A i \in Ids : requests'[i] = requests[i]
        /\ requests'[Len(requests) + 1] = r
        /\ Ids' = Ids \cup {Len(requests) + 1}
    <2>1. requests \in Seq(Request) /\ Len(requests) \in Nat
      BY <1>2 DEF TypeOK
    <2>2. /\ requests' \in Seq(Request) /\ Len(requests') = Len(requests) + 1
          /\ \A i \in 1..Len(requests) : requests'[i] = requests[i]
          /\ requests'[Len(requests) + 1] = r
      BY <1>1, <1>3, <2>1
    <2>3. 1..(Len(requests) + 1) = (1..Len(requests)) \cup {Len(requests) + 1}
      BY <2>1
    <2> QED
      BY <2>1, <2>2, <2>3 DEF Ids
  <1>5. TypeOK'
    <2>1. stamped' \in [Pid -> Nat] /\ attribute' \in [Path -> Nat]
      <3>1. stamped \in [Pid -> Nat] /\ attribute \in [Path -> Nat]
        BY <1>2 DEF TypeOK
      <3>2. stamped' \in [Pid -> Nat]
        BY <1>1, <3>1
      <3>3. attribute' \in [Path -> Nat]
        BY <1>1, <1>4, <3>1
      <3> QED
        BY <3>2, <3>3
    <2> QED
      BY <1>1, <1>2, <1>4, <2>1 DEF TypeOK
  <1>6. RequestsArePast'
    <2>1. ASSUME NEW i \in Ids'
          PROVE  /\ requests'[i].path \in PathsOf[requests'[i].pid]
                 /\ requests'[i].boot <= boot
                 /\ requests'[i].boot = boot => requests'[i].timestamp <= clock
      <3>1. CASE i \in Ids
        BY <1>4, <3>1 DEF IInv, RequestsArePast
      <3>2. CASE i = Len(requests) + 1
        <4>1. boot \in Nat /\ stamped[p] <= clock
          BY <1>2 DEF IInv, TypeOK, RequestsArePast
        <4> QED
          BY <1>1, <1>3, <1>4, <3>2, <4>1
      <3> QED
        BY <1>4, <2>1, <3>1, <3>2
    <2>2. \A q \in Pid : stamped'[q] <= clock
      BY <1>1, <1>2 DEF IInv, TypeOK, RequestsArePast
    <2>3. ASSUME NEW g \in Path, attribute'[g] # 0
          PROVE  attribute'[g] \in Ids' /\ requests'[attribute'[g]].path = g
      BY <1>1, <1>2, <1>3, <1>4, <2>3 DEF IInv, TypeOK, RequestsArePast
    <2>4. \A g \in Path : versions[g] <= Len(requests') /\ removals[g] <= Len(requests')
      <3>1. versions \in [Path -> Nat] /\ removals \in [Path -> Nat]
        BY <1>2 DEF TypeOK
      <3>2. \A g \in Path : versions[g] <= Len(requests) /\ removals[g] <= Len(requests)
        BY DEF IInv, RequestsArePast
      <3> QED
        BY <1>4, <3>1, <3>2
    <2> QED
      BY <1>1, <2>1, <2>2, <2>3, <2>4 DEF RequestsArePast
  <1>7. TakenIsPast'
    BY <1>1, <1>4 DEF IInv, TakenIsPast
  <1>8. JobIsRight' /\ FifosAreRight' /\ NoFdIsLeaked'
    BY <1>1, <1>4 DEF IInv, JobIsRight, FifosAreRight, NoFdIsLeaked
  <1>9. AcknowledgedIsStored' /\ AnswersAreForTheReader'
    <2>1. \A q \in Pid : \A i \in inbox[q] : requests'[i] = requests[i]
      BY <1>4 DEF IInv, FifosAreRight
    <2>2. AcknowledgedIsStored'
      BY <1>1, <2>1 DEF IInv, AcknowledgedIsStored
    <2>3. ASSUME NEW q \in Pid, NEW i \in inbox[q], IsOwned(requests'[i].path)
          PROVE  requests'[i].pid = q
      BY <2>1, <2>3 DEF IInv, AnswersAreForTheReader
    <2>4. AnswersAreForTheReader'
      BY <1>1, <2>3 DEF AnswersAreForTheReader, IsOwned
    <2> QED
      BY <2>2, <2>4
  <1> QED
    BY <1>5, <1>6, <1>7, <1>8, <1>9 DEF IInv

\* A removal is later than every request that was made.
LEMMA TakeAwayKeeps ==
  ASSUME IInv, NEW f \in Path, TakeAway(f)
  PROVE  IInv'
  <1>1. /\ boot' = boot /\ clock' = clock /\ requests' = requests
        /\ stamped' = stamped /\ attribute' = attribute /\ events' = events
        /\ listens' = listens /\ inbox' = inbox /\ pc' = pc /\ job' = job
        /\ bootId' = bootId /\ globalTimestamp' = globalTimestamp
        /\ pathTimestamps' = pathTimestamps /\ lastPid' = lastPid
        /\ lastPidFd' = lastPidFd /\ fds' = fds /\ taken' = taken
        /\ versions' = versions
        /\ files' = files \ {f}
        /\ removals' = [removals EXCEPT ![f] = Len(requests)]
    BY DEF TakeAway, requesters, fifos, flusher, pipes
  <1>2. /\ TypeOK /\ Len(requests) \in Nat /\ versions \in [Path -> Nat]
        /\ removals \in [Path -> Nat]
    <2>1. /\ TypeOK /\ requests \in Seq(Request) /\ versions \in [Path -> Nat]
          /\ removals \in [Path -> Nat]
      BY DEF IInv, TypeOK
    <2> QED
      BY <2>1
  <1>3. removals' \in [Path -> Nat] /\ removals'[f] = Len(requests)
    BY <1>1, <1>2
  <1>4. \A g \in Path : removals[g] <= Len(requests)
    BY DEF IInv, RequestsArePast
  <1>5. \A g \in Path : removals[g] <= removals'[g] /\ removals'[g] <= Len(requests)
    BY <1>1, <1>2, <1>4
  <1>6. TypeOK'
    BY <1>1, <1>2, <1>3 DEF TypeOK
  <1>7. RequestsArePast'
    BY <1>1, <1>5 DEF IInv, RequestsArePast, Ids
  <1>8. TakenIsPast' /\ FifosAreRight' /\ NoFdIsLeaked'
    BY <1>1 DEF IInv, TakenIsPast, FifosAreRight, NoFdIsLeaked, Ids
  <1>9. JobIsRight'
    <2>1. ASSUME pc \in {"store", "acknowledge"}
          PROVE  /\ job.id \in Nat /\ job.path \in Path
                 /\ job.id <= Len(requests)
      BY <1>2, <2>1, Constants, RequestTypes DEF IInv, JobIsRight
    <2>2. ASSUME pc = "store"
          PROVE  job.path \in files' \/ job.id <= removals'[job.path]
      <3>1. CASE job.path = f
        BY <1>3, <2>1, <2>2, <3>1
      <3>2. CASE job.path # f /\ job.path \in files
        BY <1>1, <3>2
      <3>3. CASE job.path # f /\ job.id <= removals[job.path]
        BY <1>1, <1>2, <2>1, <2>2, <3>3
      <3> QED
        BY <2>2, <3>1, <3>2, <3>3 DEF IInv, JobIsRight
    <2>3. ASSUME pc = "acknowledge", job.id <= removals[job.path]
          PROVE  job.id <= removals'[job.path]
      BY <1>2, <1>3, <1>5, <2>1, <2>3
    <2> QED
      BY <1>1, <2>2, <2>3 DEF IInv, JobIsRight, Ids
  <1>10. AcknowledgedIsStored'
    <2>1. ASSUME NEW p \in Pid, NEW i \in inbox[p]
          PROVE  versions[requests[i].path] >= i \/ removals'[requests[i].path] >= i
      <3>1. /\ i \in Ids
            /\ versions[requests[i].path] >= i \/ removals[requests[i].path] >= i
        BY DEF IInv, FifosAreRight, AcknowledgedIsStored
      <3>2. requests[i].path \in Path /\ i \in Nat
        BY <1>2, <3>1, RequestTypes
      <3> QED
        BY <1>2, <1>3, <1>5, <3>1, <3>2
    <2> QED
      BY <1>1, <2>1 DEF AcknowledgedIsStored
  <1>11. AnswersAreForTheReader'
    BY <1>1 DEF IInv, AnswersAreForTheReader, IsOwned
  <1> QED
    BY <1>6, <1>7, <1>8, <1>9, <1>10, <1>11 DEF IInv

\* A file that comes back has no request that it did not have.
LEMMA PutBackKeeps ==
  ASSUME IInv, NEW f \in Path, PutBack(f)
  PROVE  IInv'
  <1>1. /\ boot' = boot /\ clock' = clock /\ requests' = requests
        /\ stamped' = stamped /\ events' = events
        /\ listens' = listens /\ inbox' = inbox /\ pc' = pc /\ job' = job
        /\ bootId' = bootId /\ globalTimestamp' = globalTimestamp
        /\ pathTimestamps' = pathTimestamps /\ lastPid' = lastPid
        /\ lastPidFd' = lastPidFd /\ fds' = fds /\ taken' = taken
        /\ versions' = versions /\ removals' = removals
        /\ files' = files \cup {f}
        /\ attribute' = attribute \/ attribute' = [attribute EXCEPT ![f] = 0]
    BY DEF PutBack, fifos, flusher, pipes
  <1>2. TypeOK /\ attribute \in [Path -> Nat]
    BY DEF IInv, TypeOK
  <1>3. /\ attribute' \in [Path -> Nat]
        /\ \A g \in Path : attribute'[g] # 0 => attribute'[g] = attribute[g]
    BY <1>1, <1>2
  <1>4. TypeOK'
    <2>1. attribute' \in [Path -> Nat]
      BY <1>3
    <2> QED
      BY <1>1, <1>2, <2>1 DEF TypeOK
  <1>5. RequestsArePast'
    BY <1>1, <1>3 DEF IInv, RequestsArePast, Ids
  <1>6. TakenIsPast' /\ JobIsRight' /\ FifosAreRight' /\ NoFdIsLeaked'
    BY <1>1 DEF IInv, TakenIsPast, JobIsRight, FifosAreRight, NoFdIsLeaked, Ids
  <1>7. AcknowledgedIsStored' /\ AnswersAreForTheReader'
    BY <1>1 DEF IInv, AcknowledgedIsStored, AnswersAreForTheReader, IsOwned
  <1> QED
    BY <1>4, <1>5, <1>6, <1>7 DEF IInv

\* An event is of a process that writes the file.
LEMMA CloseKeeps ==
  ASSUME IInv, NEW p \in Pid, NEW f \in Path, Close(p, f)
  PROVE  IInv'
  <1>1. /\ boot' = boot /\ clock' = clock /\ requests' = requests
        /\ stamped' = stamped /\ attribute' = attribute
        /\ listens' = listens /\ inbox' = inbox /\ pc' = pc /\ job' = job
        /\ bootId' = bootId /\ globalTimestamp' = globalTimestamp
        /\ pathTimestamps' = pathTimestamps /\ lastPid' = lastPid
        /\ lastPidFd' = lastPidFd /\ fds' = fds /\ taken' = taken
        /\ versions' = versions /\ files' = files /\ removals' = removals
        /\ f \in PathsOf[p]
        /\ events' = Append(events, [pid |-> p, path |-> f])
    BY DEF Close, fifos, flusher, pipes, tree
  <1>2. TypeOK
    BY DEF IInv
  <1>3. /\ events \in Seq(Event) /\ [pid |-> p, path |-> f] \in Event
        /\ events' \in Seq(Event)
    BY <1>1, <1>2 DEF TypeOK, Event
  <1>4. TypeOK'
    BY <1>1, <1>2, <1>3 DEF TypeOK
  <1>5. \A i \in DOMAIN events' : \/ i \in DOMAIN events /\ events'[i] = events[i]
                                  \/ events'[i] = [pid |-> p, path |-> f]
    BY <1>1, <1>3
  <1>6. JobIsRight'
    <2>1. \A i \in DOMAIN events' : events'[i].path \in PathsOf[events'[i].pid]
      BY <1>1, <1>5 DEF IInv, JobIsRight
    <2> QED
      BY <1>1, <2>1 DEF IInv, JobIsRight, Ids
  <1>7. RequestsArePast' /\ TakenIsPast' /\ FifosAreRight' /\ NoFdIsLeaked'
    BY <1>1 DEF IInv, RequestsArePast, TakenIsPast, FifosAreRight, NoFdIsLeaked, Ids
  <1>8. AcknowledgedIsStored' /\ AnswersAreForTheReader'
    BY <1>1 DEF IInv, AcknowledgedIsStored, AnswersAreForTheReader, IsOwned
  <1> QED
    BY <1>4, <1>6, <1>7, <1>8 DEF IInv

-----------------------------------------------------------------------------
\* A run of the daemon begins later than every request of the same boot.
LEMMA CreateKeeps ==
  ASSUME IInv, Create
  PROVE  IInv'
  <1>1. /\ boot' = boot /\ requests' = requests
        /\ stamped' = stamped /\ attribute' = attribute /\ events' = events
        /\ listens' = listens /\ inbox' = inbox /\ job' = job
        /\ fds' = fds /\ taken' = taken /\ versions' = versions
        /\ files' = files /\ removals' = removals
        /\ pc = "down" /\ pc' = "poll" /\ clock' = clock + 1
        /\ bootId' = boot /\ globalTimestamp' = clock + 1
        /\ pathTimestamps' = [g \in Path |-> 0]
        /\ lastPid' = None /\ lastPidFd' = None
    BY DEF Create, requesters, fifos, tree
  <1>2. TypeOK
    BY DEF IInv
  <1>3. TypeOK'
    BY <1>1, <1>2 DEF TypeOK
  <1>4. ASSUME NEW i \in Ids, requests[i].boot = boot
        PROVE  requests[i].timestamp < clock + 1
    BY <1>2, <1>4, RequestTypes DEF IInv, RequestsArePast, TypeOK
  <1>5. RequestsArePast'
    <2>1. \A q \in Pid : stamped[q] <= clock + 1
      BY <1>2 DEF IInv, RequestsArePast, TypeOK
    <2>2. \A i \in Ids : requests[i].boot = boot => requests[i].timestamp <= clock + 1
      BY <1>2, <1>4, RequestTypes DEF TypeOK
    <2> QED
      BY <1>1, <2>1, <2>2 DEF IInv, RequestsArePast, Ids
  <1>6. TakenIsPast'
    BY <1>1, <1>4 DEF IInv, TakenIsPast, Ids
  <1>7. JobIsRight' /\ FifosAreRight' /\ NoFdIsLeaked'
    BY <1>1 DEF IInv, JobIsRight, FifosAreRight, NoFdIsLeaked, Ids
  <1>8. AcknowledgedIsStored' /\ AnswersAreForTheReader'
    BY <1>1 DEF IInv, AcknowledgedIsStored, AnswersAreForTheReader, IsOwned
  <1> QED
    BY <1>3, <1>5, <1>6, <1>7, <1>8 DEF IInv

\* What a crash leaves behind; after a reboot all requests are of an earlier boot.
LEMMA DieKeeps ==
  ASSUME IInv, Crash \/ Reboot
  PROVE  IInv'
  <1>1. /\ requests' = requests /\ attribute' = attribute
        /\ listens' = listens /\ inbox' = inbox
        /\ bootId' = bootId /\ globalTimestamp' = globalTimestamp
        /\ pathTimestamps' = pathTimestamps /\ lastPid' = lastPid
        /\ lastPidFd' = lastPidFd /\ taken' = taken /\ versions' = versions
        /\ files' = files /\ removals' = removals
        /\ pc' = "down" /\ events' = <<>> /\ job' = NoJob /\ fds' = {}
        /\ \/ boot' = boot /\ clock' = clock /\ stamped' = stamped
           \/ /\ boot' = boot + 1 /\ clock' = 0
              /\ stamped' = [q \in Pid |-> 0]
    BY DEF Crash, Reboot, Die, requesters, fifos, flusher, tree
  <1>2. TypeOK /\ <<>> \in Seq(Event)
    BY DEF IInv
  <1>3. TypeOK'
    <2>1. job' \in [id : Nat, pid : Pid \cup {None}, path : Path \cup {None}]
      BY <1>1 DEF NoJob
    <2>2. boot' \in Nat /\ clock' \in Nat /\ stamped' \in [Pid -> Nat]
      BY <1>1, <1>2 DEF TypeOK
    <2>3. events' \in Seq(Event) /\ fds' \subseteq Fifo
      BY <1>1, <1>2
    <2> QED
      BY <1>1, <1>2, <2>1, <2>2, <2>3 DEF TypeOK
  <1>4. RequestsArePast'
    <2>1. CASE boot' = boot /\ clock' = clock /\ stamped' = stamped
      BY <1>1, <2>1 DEF IInv, RequestsArePast, Ids
    <2>2. CASE /\ boot' = boot + 1 /\ clock' = 0
               /\ stamped' = [q \in Pid |-> 0]
      <3>1. boot \in Nat /\ \A i \in Ids : requests[i].boot \in Nat
        BY <1>2, RequestTypes DEF TypeOK
      <3>2. \A i \in Ids : requests[i].boot <= boot
        BY DEF IInv, RequestsArePast
      <3>3. \A i \in Ids :
              requests[i].boot <= boot + 1 /\ requests[i].boot # boot + 1
        BY <3>1, <3>2
      <3> QED
        BY <1>1, <2>2, <3>3 DEF IInv, RequestsArePast, Ids
    <2> QED
      BY <1>1, <2>1, <2>2
  <1>5. TakenIsPast' /\ JobIsRight' /\ FifosAreRight' /\ NoFdIsLeaked'
    BY <1>1 DEF IInv, TakenIsPast, JobIsRight, FifosAreRight, NoFdIsLeaked, Ids
  <1>6. AcknowledgedIsStored' /\ AnswersAreForTheReader'
    BY <1>1 DEF IInv, AcknowledgedIsStored, AnswersAreForTheReader, IsOwned
  <1> QED
    BY <1>3, <1>4, <1>5, <1>6 DEF IInv

-----------------------------------------------------------------------------
\* The event that is handled and the ones that stay.
LEMMA HeadAndTail ==
  ASSUME NEW s \in Seq(Event), s # <<>>
  PROVE  /\ 1 \in DOMAIN s /\ Head(s) = s[1]
         /\ Tail(s) \in Seq(Event)
         /\ \A i \in DOMAIN Tail(s) : i + 1 \in DOMAIN s /\ Tail(s)[i] = s[i + 1]
  OBVIOUS

\* An event without a request goes away.
LEMMA HandleWriteKeeps ==
  ASSUME IInv, HandleWrite
  PROVE  IInv'
  <1>1. /\ boot' = boot /\ clock' = clock /\ requests' = requests
        /\ stamped' = stamped /\ attribute' = attribute
        /\ listens' = listens /\ inbox' = inbox /\ pc' = pc /\ job' = job
        /\ bootId' = bootId /\ globalTimestamp' = globalTimestamp
        /\ pathTimestamps' = pathTimestamps /\ lastPid' = lastPid
        /\ lastPidFd' = lastPidFd /\ fds' = fds /\ taken' = taken
        /\ versions' = versions /\ files' = files /\ removals' = removals
        /\ events # <<>> /\ events' = Tail(events)
    BY DEF HandleWrite, requesters, fifos, flusher, pipes, tree
  <1>2. TypeOK /\ events \in Seq(Event)
    BY DEF IInv, TypeOK
  <1>3. TypeOK'
    BY <1>1, <1>2, HeadAndTail DEF TypeOK
  <1>4. JobIsRight'
    <2>1. ASSUME NEW i \in DOMAIN events'
          PROVE  events'[i].path \in PathsOf[events'[i].pid]
      <3>1. i + 1 \in DOMAIN events /\ events'[i] = events[i + 1]
        BY <1>1, <1>2, <2>1, HeadAndTail
      <3> QED
        BY <3>1 DEF IInv, JobIsRight
    <2> QED
      BY <1>1, <2>1 DEF IInv, JobIsRight, Ids
  <1>5. RequestsArePast' /\ TakenIsPast' /\ FifosAreRight' /\ NoFdIsLeaked'
    BY <1>1 DEF IInv, RequestsArePast, TakenIsPast, FifosAreRight, NoFdIsLeaked, Ids
  <1>6. AcknowledgedIsStored' /\ AnswersAreForTheReader'
    BY <1>1 DEF IInv, AcknowledgedIsStored, AnswersAreForTheReader, IsOwned
  <1> QED
    BY <1>3, <1>4, <1>5, <1>6 DEF IInv

\* What get_request answers with is newer than what it answered with before.
LEMMA AnswersAreNew ==
  ASSUME IInv, pc # "down", NEW f \in Path, Answers(f)
  PROVE  /\ f \in files
         /\ attribute[f] \in Ids /\ attribute[f] \notin taken
         /\ requests[attribute[f]].path = f
         /\ requests[attribute[f]].timestamp \in Nat
         /\ pathTimestamps[f] \in Nat
         /\ requests[attribute[f]].timestamp > pathTimestamps[f]
  <1>1. TypeOK
    BY DEF IInv
  <1>2. /\ f \in files
        /\ attribute[f] \in Ids /\ requests[attribute[f]].path = f
    BY DEF IInv, RequestsArePast, Answers
  <1>3. /\ requests[attribute[f]].timestamp \in Nat
        /\ pathTimestamps[f] \in Nat /\ globalTimestamp \in Nat
    BY <1>1, <1>2, RequestTypes DEF TypeOK
  <1>4. /\ requests[attribute[f]].boot = bootId
        /\ requests[attribute[f]].timestamp >= globalTimestamp
        /\ requests[attribute[f]].timestamp > pathTimestamps[f]
    BY DEF Answers, LastTimestamp
  <1>5. ASSUME attribute[f] \in taken
        PROVE  FALSE
    <2>1. \/ requests[attribute[f]].timestamp < globalTimestamp
          \/ requests[attribute[f]].timestamp <= pathTimestamps[f]
      BY <1>2, <1>4, <1>5 DEF IInv, TakenIsPast
    <2> QED
      BY <1>3, <1>4, <2>1
  <1> QED
    BY <1>2, <1>3, <1>4, <1>5

\* The request is taken and remembered with its path.
LEMMA HandleRequestKeeps ==
  ASSUME IInv, HandleRequest
  PROVE  IInv'
  <1> DEFINE f == Head(events).path
             t == requests[attribute[f]].timestamp
             q == Head(events).pid
  <1>1. /\ boot' = boot /\ clock' = clock /\ requests' = requests
        /\ stamped' = stamped /\ attribute' = attribute
        /\ listens' = listens /\ inbox' = inbox
        /\ bootId' = bootId /\ globalTimestamp' = globalTimestamp
        /\ lastPid' = lastPid
        /\ lastPidFd' = lastPidFd /\ fds' = fds
        /\ versions' = versions /\ files' = files /\ removals' = removals
        /\ pc = "poll" /\ pc' = "store" /\ Answers(f)
        /\ events # <<>> /\ events' = Tail(events)
        /\ job' = [id |-> attribute[f], pid |-> q, path |-> f]
        /\ taken' = taken \cup {attribute[f]}
        /\ pathTimestamps' = [pathTimestamps EXCEPT ![f] = t]
    BY DEF HandleRequest, requesters, fifos, pipes, tree
  <1>2. TypeOK /\ events \in Seq(Event) /\ pathTimestamps \in [Path -> Nat]
    BY DEF IInv, TypeOK
  <1>3. f \in PathsOf[q] /\ q \in Pid /\ f \in Path
    <2>1. 1 \in DOMAIN events /\ Head(events) = events[1]
      BY <1>1, <1>2, HeadAndTail
    <2> QED
      BY <1>2, <2>1, EventTypes DEF IInv, JobIsRight
  <1> HIDE DEF f, t, q
  <1>4. /\ f \in files
        /\ attribute[f] \in Ids /\ requests[attribute[f]].path = f
        /\ t \in Nat /\ pathTimestamps[f] \in Nat /\ t > pathTimestamps[f]
    BY <1>1, <1>3, AnswersAreNew DEF t
  <1>5. TypeOK'
    <2>1. attribute[f] \in Nat
      BY <1>2, <1>3 DEF TypeOK
    <2>2. /\ pathTimestamps' \in [Path -> Nat] /\ taken' \subseteq Nat
          /\ events' \in Seq(Event)
          /\ job' \in [id : Nat, pid : Pid \cup {None}, path : Path \cup {None}]
      BY <1>1, <1>2, <1>3, <1>4, <2>1, HeadAndTail DEF TypeOK
    <2> QED
      BY <1>1, <1>2, <2>2 DEF TypeOK
  <1>6. TakenIsPast'
    <2>1. ASSUME NEW i \in taken', requests[i].boot = bootId
          PROVE  \/ requests[i].timestamp < globalTimestamp
                 \/ requests[i].timestamp <= pathTimestamps'[requests[i].path]
      <3>1. CASE i = attribute[f]
        BY <1>1, <1>2, <1>3, <1>4, <3>1 DEF t
      <3>2. CASE i \in taken
        <4>1. /\ i \in Ids
              /\ \/ requests[i].timestamp < globalTimestamp
                 \/ requests[i].timestamp <= pathTimestamps[requests[i].path]
          BY <1>1, <2>1, <3>2 DEF IInv, TakenIsPast
        <4>2. requests[i].path \in Path /\ requests[i].timestamp \in Nat
          BY <1>2, <4>1, RequestTypes
        <4>3. CASE requests[i].path = f
          BY <1>1, <1>2, <1>3, <1>4, <4>1, <4>2, <4>3
        <4>4. CASE requests[i].path # f
          BY <1>1, <1>2, <4>1, <4>2, <4>4
        <4> QED
          BY <4>3, <4>4
      <3> QED
        BY <1>1, <2>1, <3>1, <3>2
    <2>2. \A i \in taken' : i \in Ids
      BY <1>1, <1>4 DEF IInv, TakenIsPast
    <2> QED
      BY <1>1, <2>1, <2>2 DEF IInv, TakenIsPast, Ids
  <1>7. JobIsRight'
    <2>1. ASSUME NEW i \in DOMAIN events'
          PROVE  events'[i].path \in PathsOf[events'[i].pid]
      <3>1. i + 1 \in DOMAIN events /\ events'[i] = events[i + 1]
        BY <1>1, <1>2, <2>1, HeadAndTail
      <3> QED
        BY <3>1 DEF IInv, JobIsRight
    <2> QED
      BY <1>1, <1>3, <1>4, <2>1 DEF JobIsRight, Ids
  <1>8. RequestsArePast' /\ FifosAreRight' /\ NoFdIsLeaked'
    BY <1>1 DEF IInv, RequestsArePast, FifosAreRight, NoFdIsLeaked, Ids
  <1>9. AcknowledgedIsStored' /\ AnswersAreForTheReader'
    BY <1>1 DEF IInv, AcknowledgedIsStored, AnswersAreForTheReader, IsOwned
  <1> QED
    BY <1>5, <1>6, <1>7, <1>8, <1>9 DEF IInv

\* The version is later than every request that was made.
LEMMA StoreKeeps ==
  ASSUME IInv, Store
  PROVE  IInv'
  <1> DEFINE f == job.path
  <1>1. /\ boot' = boot /\ clock' = clock /\ requests' = requests
        /\ stamped' = stamped /\ attribute' = attribute /\ events' = events
        /\ listens' = listens /\ inbox' = inbox /\ job' = job
        /\ bootId' = bootId /\ globalTimestamp' = globalTimestamp
        /\ pathTimestamps' = pathTimestamps /\ lastPid' = lastPid
        /\ lastPidFd' = lastPidFd /\ fds' = fds /\ taken' = taken
        /\ files' = files /\ removals' = removals
        /\ pc = "store" /\ pc' = "acknowledge"
        /\ versions' = [versions EXCEPT ![f] = Len(requests)]
    BY DEF Store, requesters, fifos, flusher, pipes, tree
  <1>2. TypeOK /\ Len(requests) \in Nat /\ versions \in [Path -> Nat]
    BY DEF IInv, TypeOK
  <1>3. /\ job.pid \in Pid /\ f \in PathsOf[job.pid] /\ job.id \in Ids
        /\ requests[job.id].path = f
    BY <1>1 DEF IInv, JobIsRight
  <1>4. f \in Path
    BY <1>2, <1>3, Constants
  <1> HIDE DEF f
  <1>5. \A g \in Path : versions[g] \in Nat /\ versions[g] <= Len(requests)
    BY <1>2 DEF IInv, RequestsArePast, TypeOK
  <1>6. versions' \in [Path -> Nat]
    BY <1>1, <1>2
  <1>7. versions'[f] = Len(requests)
    BY <1>1, <1>2, <1>4
  <1>8. ASSUME NEW g \in Path
        PROVE  versions[g] <= versions'[g] /\ versions'[g] <= Len(requests)
    BY <1>1, <1>2, <1>4, <1>5
  <1>9. TypeOK'
    BY <1>1, <1>2, <1>6 DEF TypeOK
  <1>10. RequestsArePast'
    BY <1>1, <1>8 DEF IInv, RequestsArePast, Ids
  <1>11. TakenIsPast' /\ FifosAreRight' /\ NoFdIsLeaked'
    BY <1>1 DEF IInv, TakenIsPast, FifosAreRight, NoFdIsLeaked, Ids
  <1>12. JobIsRight'
    <2>1. job.id <= versions'[f]
      BY <1>2, <1>3, <1>7, RequestTypes
    <2> QED
      BY <1>1, <1>3, <2>1 DEF f, IInv, JobIsRight, Ids
  <1>13. AcknowledgedIsStored'
    <2>1. ASSUME NEW p \in Pid, NEW i \in inbox[p]
          PROVE  versions'[requests[i].path] >= i \/ removals[requests[i].path] >= i
      <3>1. /\ i \in Ids
            /\ versions[requests[i].path] >= i \/ removals[requests[i].path] >= i
        BY DEF IInv, FifosAreRight, AcknowledgedIsStored
      <3>2. requests[i].path \in Path /\ i \in Nat
        BY <1>2, <3>1, RequestTypes
      <3>3. versions'[requests[i].path] \in Nat
        BY <1>6, <3>2
      <3> QED
        BY <1>5, <1>8, <3>1, <3>2, <3>3
    <2> QED
      BY <1>1, <2>1 DEF AcknowledgedIsStored
  <1>14. AnswersAreForTheReader'
    BY <1>1 DEF IInv, AnswersAreForTheReader, IsOwned
  <1> QED
    BY <1>9, <1>10, <1>11, <1>12, <1>13, <1>14 DEF IInv

\* Without a version, for the file was taken away since the request.
LEMMA SourceIsMissingKeeps ==
  ASSUME IInv, SourceIsMissing
  PROVE  IInv'
  <1>1. /\ boot' = boot /\ clock' = clock /\ requests' = requests
        /\ stamped' = stamped /\ attribute' = attribute /\ events' = events
        /\ listens' = listens /\ inbox' = inbox /\ job' = job
        /\ bootId' = bootId /\ globalTimestamp' = globalTimestamp
        /\ pathTimestamps' = pathTimestamps /\ lastPid' = lastPid
        /\ lastPidFd' = lastPidFd /\ fds' = fds /\ taken' = taken
        /\ files' = files /\ removals' = removals /\ versions' = versions
        /\ pc = "store" /\ pc' = "acknowledge" /\ job.path \notin files
    BY DEF SourceIsMissing, requesters, tree, fifos, flusher, pipes
  <1>2. TypeOK'
    BY <1>1 DEF IInv, TypeOK
  <1>3. RequestsArePast' /\ TakenIsPast' /\ FifosAreRight' /\ NoFdIsLeaked'
    BY <1>1 DEF IInv, RequestsArePast, TakenIsPast, FifosAreRight, NoFdIsLeaked, Ids
  <1>4. JobIsRight'
    BY <1>1 DEF IInv, JobIsRight, Ids
  <1>5. AcknowledgedIsStored' /\ AnswersAreForTheReader'
    BY <1>1 DEF IInv, AcknowledgedIsStored, AnswersAreForTheReader, IsOwned
  <1> QED
    BY <1>2, <1>3, <1>4, <1>5 DEF IInv

-----------------------------------------------------------------------------
\* The answer goes to the process whose close the daemon found the request by,
\* or nowhere.
LEMMA AnswerGoesToTheCloser ==
  ASSUME NEW fd, fd.pid = job.pid, WriteAnswer(fd)
  PROVE  \/ inbox' = inbox
         \/ inbox' = [inbox EXCEPT ![job.pid] = @ \cup {job.id}]
  BY DEF WriteAnswer, AcknowledgedId

\* What acknowledge does to the cache of one descriptor.
LEMMA CacheOfOneDescriptor ==
  ASSUME IInv, Connect \/ Acknowledge
  PROVE  /\ inbox' = inbox \/ inbox' = [inbox EXCEPT ![job.pid] = @ \cup {job.id}]
         /\ lastPid' \in Pid \cup {None} /\ lastPidFd' \in Fifo \cup {None}
         /\ lastPid' # None => lastPidFd' # None /\ lastPidFd'.pid = lastPid'
         /\ fds' = {lastPidFd'} \ {None}
  <1>1. TypeOK /\ pc = "acknowledge"
    BY DEF IInv, Connect, Acknowledge
  <1>2. job.pid \in Pid /\ job.pid # None
    BY <1>1, Constants DEF IInv, JobIsRight
  <1>3. /\ lastPid \in Pid \cup {None} /\ lastPidFd \in Fifo \cup {None}
        /\ lastPid # None => lastPidFd # None /\ lastPidFd.pid = lastPid
        /\ fds = {lastPidFd} \ {None}
    BY <1>1 DEF IInv, TypeOK, FifosAreRight, NoFdIsLeaked
  <1>4. CASE Answer
    <2>1. lastPidFd.pid = job.pid
      BY <1>2, <1>3, <1>4 DEF Answer, IsConnected
    <2>2. \/ inbox' = inbox
          \/ inbox' = [inbox EXCEPT ![job.pid] = @ \cup {job.id}]
      BY <1>4, <2>1, AnswerGoesToTheCloser DEF Answer
    <2>3. CASE HasReader(lastPidFd)
      BY <1>3, <1>4, <2>2, <2>3 DEF Answer, pipes
    <2>4. CASE ~HasReader(lastPidFd)
      <3>1. lastPid' = None /\ lastPidFd' = None /\ fds' = fds \ {lastPidFd}
        BY <1>4, <2>4 DEF Answer
      <3>2. fds' = {lastPidFd'} \ {None}
        BY <1>3, <3>1
      <3> QED
        BY <2>2, <3>1, <3>2
    <2> QED
      BY <2>3, <2>4
  <1>5. CASE Connect
    <2> DEFINE fd == FifoOf(job.pid)
    <2>1. fd \in Fifo /\ fd.pid = job.pid
      BY <1>1, <1>2 DEF FifoOf, Fifo, TypeOK
    <2>2. /\ lastPid' = job.pid /\ lastPidFd' = fd
          /\ fds' = (fds \ {lastPidFd}) \cup {fd}
          /\ inbox' = inbox
      BY <1>5 DEF Connect, FdsWith, fifos
    <2> HIDE DEF fd
    <2>3. fd # None
      BY <2>1, Constants
    <2>4. fds' = {lastPidFd'} \ {None}
      BY <1>3, <2>2, <2>3
    <2> QED
      BY <1>2, <2>1, <2>2, <2>3, <2>4
  <1>6. CASE NobodyListens
    BY <1>3, <1>6 DEF NobodyListens, pipes
  <1> QED
    BY <1>4, <1>5, <1>6 DEF Acknowledge

\* The FIFO of another process takes the place of the one that was open.
LEMMA ConnectKeeps ==
  ASSUME IInv, Connect
  PROVE  IInv'
  <1>1. /\ boot' = boot /\ clock' = clock /\ requests' = requests
        /\ stamped' = stamped /\ attribute' = attribute /\ events' = events
        /\ listens' = listens /\ inbox' = inbox /\ job' = job
        /\ bootId' = bootId /\ globalTimestamp' = globalTimestamp
        /\ pathTimestamps' = pathTimestamps /\ taken' = taken
        /\ files' = files /\ removals' = removals /\ versions' = versions
        /\ pc = "acknowledge" /\ pc' = "acknowledge"
    BY DEF Connect, requesters, tree, fifos, flusher
  <1>2. /\ lastPid' \in Pid \cup {None} /\ lastPidFd' \in Fifo \cup {None}
        /\ lastPid' # None => lastPidFd' # None /\ lastPidFd'.pid = lastPid'
        /\ fds' = {lastPidFd'} \ {None}
    BY CacheOfOneDescriptor
  <1>3. fds' \subseteq Fifo
    BY <1>2
  <1>4. TypeOK'
    BY <1>1, <1>2, <1>3 DEF IInv, TypeOK
  <1>5. RequestsArePast' /\ TakenIsPast' /\ JobIsRight'
    BY <1>1 DEF IInv, RequestsArePast, TakenIsPast, JobIsRight, Ids
  <1>6. FifosAreRight' /\ NoFdIsLeaked'
    BY <1>1, <1>2 DEF IInv, FifosAreRight, NoFdIsLeaked, Ids
  <1>7. AcknowledgedIsStored' /\ AnswersAreForTheReader'
    BY <1>1 DEF IInv, AcknowledgedIsStored, AnswersAreForTheReader, IsOwned
  <1> QED
    BY <1>4, <1>5, <1>6, <1>7 DEF IInv

\* The identifier of a request gets into a FIFO after the version, or after the
\* file was taken away.
LEMMA AcknowledgeKeeps ==
  ASSUME IInv, Acknowledge
  PROVE  IInv'
  <1>1. /\ boot' = boot /\ clock' = clock /\ requests' = requests
        /\ stamped' = stamped /\ attribute' = attribute /\ events' = events
        /\ listens' = listens /\ job' = NoJob
        /\ bootId' = bootId /\ globalTimestamp' = globalTimestamp
        /\ pathTimestamps' = pathTimestamps /\ taken' = taken
        /\ versions' = versions /\ files' = files /\ removals' = removals
        /\ pc = "acknowledge" /\ pc' = "poll"
    BY DEF Acknowledge, requesters, flusher, tree
  <1>2. TypeOK
    BY DEF IInv
  <1>3. /\ \/ inbox' = inbox
           \/ inbox' = [inbox EXCEPT ![job.pid] = @ \cup {job.id}]
        /\ lastPid' \in Pid \cup {None} /\ lastPidFd' \in Fifo \cup {None}
        /\ lastPid' # None => lastPidFd' # None /\ lastPidFd'.pid = lastPid'
        /\ fds' = {lastPidFd'} \ {None}
    BY CacheOfOneDescriptor
  <1>4. /\ job.pid \in Pid /\ job.path \in PathsOf[job.pid] /\ job.id \in Ids
        /\ requests[job.id].path = job.path
        /\ job.id <= versions[job.path] \/ job.id <= removals[job.path]
    BY <1>1 DEF IInv, JobIsRight
  <1>5. /\ job.id \in Nat /\ job.path \in Path
        /\ versions[job.path] \in Nat /\ removals[job.path] \in Nat
    BY <1>2, <1>4, Constants DEF TypeOK
  <1>6. inbox \in [Pid -> SUBSET Nat]
    BY <1>2 DEF TypeOK
  <1>7. ASSUME NEW p \in Pid, NEW i \in inbox'[p], i \notin inbox[p]
        PROVE  p = job.pid /\ i = job.id
    BY <1>3, <1>4, <1>6, <1>7
  <1>8. TypeOK'
    <2>1. inbox' \in [Pid -> SUBSET Nat]
      BY <1>3, <1>4, <1>5, <1>6
    <2>2. job' \in [id : Nat, pid : Pid \cup {None}, path : Path \cup {None}]
      BY <1>1 DEF NoJob
    <2>3. fds' \subseteq Fifo
      BY <1>3
    <2> QED
      BY <1>1, <1>2, <1>3, <2>1, <2>2, <2>3 DEF TypeOK
  <1>9. RequestsArePast' /\ TakenIsPast' /\ JobIsRight'
    BY <1>1 DEF IInv, RequestsArePast, TakenIsPast, JobIsRight, Ids
  <1>10. FifosAreRight'
    <2>1. \A p \in Pid : inbox'[p] \subseteq Ids
      BY <1>4, <1>7 DEF IInv, FifosAreRight
    <2> QED
      BY <1>1, <1>3, <2>1 DEF FifosAreRight, Ids
  <1>11. AcknowledgedIsStored'
    <2>1. ASSUME NEW p \in Pid, NEW i \in inbox'[p]
          PROVE  versions[requests[i].path] >= i \/ removals[requests[i].path] >= i
      <3>1. CASE i \in inbox[p]
        BY <3>1 DEF IInv, AcknowledgedIsStored
      <3>2. CASE i \notin inbox[p]
        BY <1>4, <1>5, <1>7, <2>1, <3>2
      <3> QED
        BY <3>1, <3>2
    <2> QED
      BY <1>1, <2>1 DEF AcknowledgedIsStored
  <1>12. NoFdIsLeaked'
    BY <1>3 DEF NoFdIsLeaked
  <1>13. AnswersAreForTheReader'
    <2>1. ASSUME NEW p \in Pid, NEW i \in inbox'[p], IsOwned(requests[i].path)
          PROVE  requests[i].pid = p
      <3>1. CASE i \in inbox[p]
        BY <2>1, <3>1 DEF IInv, AnswersAreForTheReader
      <3>2. CASE i \notin inbox[p]
        <4>1. p = job.pid /\ i = job.id
          BY <1>7, <2>1, <3>2
        <4>2. /\ requests[i].pid \in Pid
              /\ requests[i].path \in PathsOf[requests[i].pid]
          BY <1>2, <1>4, <4>1, RequestTypes DEF IInv, RequestsArePast
        <4> QED
          BY <1>4, <2>1, <4>1, <4>2 DEF IsOwned
      <3> QED
        BY <3>1, <3>2
    <2> QED
      BY <1>1, <2>1 DEF AnswersAreForTheReader, IsOwned
  <1> QED
    BY <1>8, <1>9, <1>10, <1>11, <1>12, <1>13 DEF IInv

-----------------------------------------------------------------------------
\* No step breaks the invariant.
LEMMA NextIInv ==
  ASSUME IInv, [Next]_vars
  PROVE  IInv'
  <1>1. CASE \E p \in Pid : Listen(p) \/ HangUp(p) \/ TakeStamp(p)
    BY <1>1, PrepareKeeps
  <1>2. CASE \E p \in Pid, f \in Path : \E isValid \in BOOLEAN : Ask(p, f, isValid)
    BY <1>2, AskKeeps
  <1>3. CASE \E p \in Pid, f \in Path : Close(p, f)
    BY <1>3, CloseKeeps
  <1>4. CASE Daemon
    BY <1>4, CreateKeeps, HandleWriteKeeps, HandleRequestKeeps, StoreKeeps,
       SourceIsMissingKeeps, ConnectKeeps, AcknowledgeKeeps DEF Daemon
  <1>5. CASE Crash \/ Reboot
    BY <1>5, DieKeeps
  <1>6. CASE \E f \in Path : TakeAway(f) \/ PutBack(f)
    BY <1>6, TakeAwayKeeps, PutBackKeeps
  <1>7. CASE UNCHANGED vars
    <2>1. /\ boot' = boot /\ clock' = clock /\ requests' = requests
          /\ stamped' = stamped /\ attribute' = attribute /\ events' = events
          /\ listens' = listens /\ inbox' = inbox /\ pc' = pc /\ job' = job
          /\ bootId' = bootId /\ globalTimestamp' = globalTimestamp
          /\ pathTimestamps' = pathTimestamps /\ lastPid' = lastPid
          /\ lastPidFd' = lastPidFd /\ fds' = fds /\ taken' = taken
          /\ versions' = versions
          /\ files' = files /\ removals' = removals
      BY <1>7 DEF vars, tree, requesters, fifos, flusher, pipes
    <2> QED
      BY <2>1 DEF IInv, TypeOK, RequestsArePast, TakenIsPast, JobIsRight,
           FifosAreRight, AcknowledgedIsStored, NoFdIsLeaked,
           AnswersAreForTheReader, IsOwned, Ids
  <1> QED
    BY <1>1, <1>2, <1>3, <1>4, <1>5, <1>6, <1>7 DEF Next

\* The inductive invariant: struct flusher, the attributes and the FIFOs agree
\* in every reachable state.
THEOREM Invariance == Spec => []IInv
  <1>1. Init => IInv
    BY InitIInv
  <1>2. IInv /\ [Next]_vars => IInv'
    BY NextIInv
  <1> QED
    BY <1>1, <1>2, PTL DEF Spec

\* An answer means a version that is not older than its request, or that the file
\* was taken away after the request, for any processes and files, through crashes
\* and reboots.
THEOREM AnswersMeanVersions == Spec => []AcknowledgedIsStored
  <1>1. IInv => AcknowledgedIsStored
    BY DEF IInv
  <1> QED
    BY <1>1, Invariance, PTL

\* The daemon keeps no FIFO open but the last one.
THEOREM OneFifoIsOpen == Spec => []NoFdIsLeaked
  <1>1. IInv => NoFdIsLeaked
    BY DEF IInv
  <1> QED
    BY <1>1, Invariance, PTL

\* A process whose files nobody else writes reads its own answers only.
THEOREM NobodyElsesAnswers == Spec => []AnswersAreForTheReader
  <1>1. IInv => AnswersAreForTheReader
    BY DEF IInv
  <1> QED
    BY <1>1, Invariance, PTL

\* get_request answers with each request once, whatever the order of closes,
\* requests, crashes and reboots.
THEOREM RequestsAreServedOnce == Spec => ServedOnce
  <1>1. ASSUME IInv, [Next]_vars, job = NoJob, job' # NoJob
        PROVE  job'.id \notin taken
    <2>1. HandleRequest
      BY <1>1 DEF Next, Daemon, vars, Listen, HangUp, TakeStamp, Ask, Close,
           TakeAway, PutBack, Create, HandleWrite, Store, SourceIsMissing, Connect,
           Acknowledge, Crash, Reboot, Die
    <2> DEFINE f == Head(events).path
    <2>2. /\ pc = "poll" /\ events # <<>> /\ Answers(f)
          /\ job'.id = attribute[f]
      BY <2>1 DEF HandleRequest
    <2>3. f \in Path
      <3>1. events \in Seq(Event)
        BY <1>1 DEF IInv, TypeOK
      <3>2. 1 \in DOMAIN events /\ Head(events) = events[1]
        BY <2>2, <3>1, HeadAndTail
      <3> QED
        BY <3>1, <3>2, EventTypes
    <2> HIDE DEF f
    <2> QED
      BY <1>1, <2>2, <2>3, AnswersAreNew
  <1>2. IInv /\ [Next]_vars =>
          [job = NoJob /\ job' # NoJob => job'.id \notin taken]_vars
    BY <1>1
  <1> QED
    BY <1>2, Invariance, PTL DEF Spec, ServedOnce
=============================================================================
