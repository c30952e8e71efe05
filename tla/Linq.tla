-------------------------------- MODULE Linq --------------------------------
(***************************************************************************)
(* The persistent write queue of src/src/linq.c.                           *)
(*                                                                         *)
(* The queue is a directory of symbolic links with decimal names; the      *)
(* target of a link is the pushed path and its mtime the time of the push. *)
(* A target that starts with '!' instead of '/' cancels earlier entries of *)
(* the path.  The directory survives a crash, struct linq does not.  Each  *)
(* function changes the directory with one system call at most (symlinkat  *)
(* or unlinkat), so that one action per function call, plus the actions in *)
(* which the call fails half way, loses no crash point; get_head, which    *)
(* pops superseded entries in a tail recursion, is one action per round.   *)
(*                                                                         *)
(* The caller is src/src/handler.c: it calls get_head and, when it gets a  *)
(* path, works on it and calls pop_head before it pushes again, and a      *)
(* failure of any function ends the process.                               *)
(***************************************************************************)
EXTENDS Integers, FiniteSets

CONSTANTS
  Path,       \* the paths that are pushed
  Debounces,  \* the values of the setting debounce_seconds
  None,       \* head_mtime that is not valid
  MaxIndex,   \* bound: names of entries are less than this
  MaxTime,    \* bound: the clock
  LastPush,   \* bound: no path is pushed after this time
  MaxFaults,  \* bound: crashes, failures and clock changes together
  ClockMayBeSetBack  \* whether somebody changes the wall clock

ASSUME LinqAssumption ==
  /\ Debounces \subseteq Nat
  /\ Debounces # {}
  /\ None \notin Int
  /\ None \notin Path
  /\ MaxIndex \in Nat
  /\ MaxTime \in Nat
  /\ LastPush \in Nat
  /\ MaxFaults \in Nat
  /\ ClockMayBeSetBack \in BOOLEAN

VARIABLES
  entries,    \* the directory: index -> [mark, path, mtime]
  headIndex,  \* linq->head_index
  size,       \* linq->size
  set,        \* linq->set: path -> number of entries
  headMtime,  \* linq->head_mtime
  debounce,   \* linq->debounce_seconds
  pause,      \* head->pause that get_head answered, until the next call
  pc,         \* where the process is
  now,        \* the wall clock
  faults      \* bound: faults so far

memory == <<headIndex, size, set, headMtime, debounce>>
vars == <<entries, headIndex, size, set, headMtime, debounce, pause, pc, now,
          faults>>

Entry == [mark : {"/", "!"}, path : Path, mtime : Nat]

\* "getting": get_head has popped a superseded entry and goes on;
\* "ready": the caller works on the head; "failed": the trace is not ok.
Pc == {"down", "idle", "getting", "ready", "failed"}

Indexes == DOMAIN entries
IndexesOf(p) == {i \in Indexes : entries[i].path = p}

With(i, entry) ==
  [j \in Indexes \cup {i} |-> IF j = i THEN entry ELSE entries[j]]
Without(i) == [j \in Indexes \ {i} |-> entries[j]]

NoMemory ==
  /\ headIndex' = 0
  /\ size' = 0
  /\ set' = [p \in Path |-> 0]
  /\ headMtime' = None

Init ==
  /\ entries = [i \in {} |-> None]
  /\ headIndex = 0
  /\ size = 0
  /\ set = [p \in Path |-> 0]
  /\ headMtime = None
  /\ debounce \in Debounces
  /\ pause = 0
  /\ pc = "down"
  /\ now = 0
  /\ faults = 0

-----------------------------------------------------------------------------
\* scandir sorts the names by their number: the first one is the head.
BuggyLoadedHead ==  \* as if the head had been handled before the process stopped
  IF Indexes = {} THEN 0 ELSE 1 + CHOOSE i \in Indexes : \A j \in Indexes : i <= j
LoadedHead ==
  IF Indexes = {} THEN 0 ELSE CHOOSE i \in Indexes : \A j \in Indexes : i <= j

\* dot_filter leaves all names but "." and "..".
BuggyLoadedSize == Cardinality(Indexes) - 1  \* the filter takes one more
LoadedSize == Cardinality(Indexes)

\* The process starts.
Load(d) ==
  /\ pc = "down"
  /\ size' = LoadedSize
  /\ headIndex' = LoadedHead
  /\ set' = [p \in Path |-> Cardinality(IndexesOf(p))]
  /\ headMtime' = None
  /\ debounce' = d
  /\ pc' = "idle"
  /\ UNCHANGED <<entries, pause, now, faults>>

PushedEntry(mark, p) == [mark |-> mark, path |-> p, mtime |-> now]

\* add counts the path with '/' in the place of its mark.
BuggySetWith(mark, p) == IF mark = "!" THEN set ELSE [set EXCEPT ![p] = @ + 1]
SetWith(mark, p) == [set EXCEPT ![p] = @ + 1]

\* The caller may push; MaxIndex and LastPush are bounds.
MayPush ==
  /\ pc = "idle"
  /\ headIndex + size < MaxIndex
  /\ now <= LastPush

Push(mark, p) ==
  /\ MayPush
  /\ headIndex + size \notin Indexes
  /\ entries' = With(headIndex + size, PushedEntry(mark, p))
  /\ set' = SetWith(mark, p)
  /\ size' = size + 1
  /\ pause' = 0
  /\ UNCHANGED <<headIndex, headMtime, debounce, pc, now, faults>>

Fault ==
  /\ faults < MaxFaults
  /\ faults' = faults + 1

Fail ==
  /\ pc' = "failed"
  /\ pause' = 0
  /\ UNCHANGED <<memory, now>>

\* No link was made: out of memory, or symlinkat failed.  It always fails
\* when the name is taken (EEXIST), which needs no fault of the system.
PushFails ==
  /\ MayPush
  /\ IF headIndex + size \in Indexes THEN faults' = faults ELSE Fault
  /\ Fail
  /\ UNCHANGED entries

\* The link was made and add failed: neither set nor size counts it.
PushFailsHalfWay(mark, p) ==
  /\ MayPush
  /\ headIndex + size \notin Indexes
  /\ entries' = With(headIndex + size, PushedEntry(mark, p))
  /\ Fault
  /\ Fail

-----------------------------------------------------------------------------
Getting == pc \in {"idle", "getting"}

Head == entries[headIndex]

\* head_mtime.value once the cache is valid.
Mtime == IF headMtime = None THEN Head.mtime ELSE headMtime

Age == now - Mtime

\* The set is asked for the target as it is, with its mark, and its keys all
\* start with '/': an entry marked '!' has no count.
BuggyCountOfHead == 0  \* no key has the form that is asked for
CountOfHead == IF Head.mark = "/" THEN set[Head.path] ELSE 0

HeadIsThere == Getting /\ size > 0 /\ headIndex \in Indexes
HeadIsRipe == HeadIsThere /\ Age >= debounce
HeadIsSuperseded == HeadIsRipe /\ CountOfHead > 1

BuggyHeadIsReady == HeadIsRipe /\ CountOfHead = 1  \* a count of 0 is forgotten
HeadIsReady == HeadIsRipe /\ CountOfHead <= 1

GetHeadEmpty ==
  /\ Getting
  /\ size = 0
  /\ pause' = -1
  /\ pc' = "idle"
  /\ UNCHANGED <<entries, memory, now, faults>>

BuggyPauseOfHead == debounce  \* the age is not taken off
PauseOfHead == debounce - Age

GetHeadPaused ==
  /\ HeadIsThere
  /\ Age < debounce
  /\ headMtime' = Mtime
  /\ pause' = PauseOfHead
  /\ pc' = "idle"
  /\ UNCHANGED <<entries, headIndex, size, set, debounce, now, faults>>

GetHeadReady ==
  /\ HeadIsReady
  /\ headMtime' = Mtime
  /\ pause' = 0
  /\ pc' = "ready"
  /\ UNCHANGED <<entries, headIndex, size, set, debounce, now, faults>>

BuggyHeadAfterPop == IF size - 1 > 1 THEN headIndex + 1 ELSE 0  \* one too early
HeadAfterPop == IF size - 1 > 0 THEN headIndex + 1 ELSE 0

BuggyMtimeAfterPop == Mtime  \* the cache is not dropped
MtimeAfterPop == None

\* What pop_head does to the directory and to struct linq.
Pop ==
  /\ headIndex \in Indexes
  /\ entries' = Without(headIndex)
  /\ set' = [set EXCEPT ![Head.path] = IF @ > 0 THEN @ - 1 ELSE @]
  /\ size' = size - 1
  /\ headIndex' = HeadAfterPop
  /\ headMtime' = MtimeAfterPop
  /\ UNCHANGED debounce

GetHeadSkips ==
  /\ HeadIsSuperseded
  /\ Pop
  /\ pause' = 0
  /\ pc' = "getting"
  /\ UNCHANGED <<now, faults>>

\* fstatat, readlinkat or an allocation failed; it fails without any fault of
\* the system when the head's name is missing from the directory.
GetHeadFails ==
  /\ Getting
  /\ IF size > 0 /\ headIndex \notin Indexes THEN faults' = faults ELSE Fault
  /\ Fail
  /\ UNCHANGED entries

PopHead ==
  /\ pc = "ready"
  /\ Pop
  /\ pause' = 0
  /\ pc' = "idle"
  /\ UNCHANGED <<now, faults>>

\* The caller's work on the head, or the part of pop_head before unlinkat.
ReadyFails ==
  /\ pc = "ready"
  /\ Fault
  /\ Fail
  /\ UNCHANGED entries

\* The link is gone, but there was no memory to look its path up in the set.
PopFailsHalfWay ==
  /\ pc = "ready" \/ HeadIsSuperseded
  /\ entries' = Without(headIndex)
  /\ Fault
  /\ Fail

-----------------------------------------------------------------------------
Redebounce(d) ==
  /\ pc = "idle"
  /\ d # debounce
  /\ debounce' = d
  /\ pause' = 0
  /\ UNCHANGED <<entries, headIndex, size, set, headMtime, pc, now, faults>>

\* A failure leaves main's loop: the process frees the queue and ends.
Exit ==
  /\ pc = "failed"
  /\ pc' = "down"
  /\ NoMemory
  /\ UNCHANGED <<entries, debounce, pause, now, faults>>

\* The process is killed, or the machine goes down.
Crash ==
  /\ pc \notin {"down", "failed"}
  /\ pc' = "down"
  /\ pause' = 0
  /\ NoMemory
  /\ Fault
  /\ UNCHANGED <<entries, debounce, now>>

Tick ==
  /\ now < MaxTime
  /\ now' = now + 1
  /\ UNCHANGED <<entries, memory, pause, pc, faults>>

SetClockBack ==
  /\ ClockMayBeSetBack
  /\ now > 0
  /\ now' = now - 1
  /\ Fault
  /\ UNCHANGED <<entries, memory, pause, pc>>

GetHead == GetHeadEmpty \/ GetHeadPaused \/ GetHeadSkips \/ GetHeadReady

Next ==
  \/ \E d \in Debounces : Load(d) \/ Redebounce(d)
  \/ \E mark \in {"/", "!"}, p \in Path :
       Push(mark, p) \/ PushFailsHalfWay(mark, p)
  \/ PushFails
  \/ GetHeadEmpty
  \/ GetHeadPaused
  \/ GetHeadSkips
  \/ GetHeadReady
  \/ GetHeadFails
  \/ PopHead
  \/ ReadyFails
  \/ PopFailsHalfWay
  \/ Exit
  \/ Crash
  \/ Tick
  \/ SetClockBack

Spec == Init /\ [][Next]_vars

\* A service manager starts the process again, main's loop keeps asking for
\* the head and works on it, and time passes.
Fairness ==
  /\ WF_vars(\E d \in Debounces : Load(d))
  /\ WF_vars(GetHead)
  /\ WF_vars(PopHead)
  /\ WF_vars(Exit)
  /\ WF_vars(Tick)

FairSpec == Spec /\ Fairness

-----------------------------------------------------------------------------
\* Type correctness of the directory and of struct linq.
TypeOK ==
  /\ IsFiniteSet(Indexes)
  /\ Indexes \subseteq Nat
  /\ entries \in [Indexes -> Entry]
  /\ headIndex \in Nat
  /\ size \in Nat
  /\ set \in [Path -> Nat]
  /\ headMtime \in Nat \cup {None}
  /\ debounce \in Debounces
  /\ pause \in Int
  /\ pc \in Pc
  /\ now \in Nat
  /\ faults \in 0..MaxFaults

InMemory == pc \in {"idle", "getting", "ready"}

\* The names in the directory have no gap, whatever crashed or failed: the
\* next load takes the least name and the number of names for the queue.
Contiguous ==
  Indexes # {} =>
    \E lo \in Indexes : Indexes = lo..(lo + Cardinality(Indexes) - 1)

\* struct linq describes the directory (load_or_create_linq, push, pop_head):
\* its entries are head_index, head_index + 1, ..., `size` of them, and the
\* set counts the entries of each path.
MemoryIsDirectory ==
  InMemory => /\ Indexes = headIndex..(headIndex + size - 1)
              /\ \A p \in Path : set[p] = Cardinality(IndexesOf(p))

\* A valid head_mtime is the mtime of the present head: pop_head drops it
\* with the entry it belongs to.
MtimeIsFresh ==
  InMemory /\ headMtime # None =>
    size > 0 /\ headIndex \in Indexes /\ headMtime = Head.mtime

\* The head the caller works on is the only entry of its path, so that nothing
\* that was pushed later is lost when it is popped.
ReadyHeadIsLast ==
  pc = "ready" =>
    /\ headIndex \in Indexes
    /\ Head.mark = "/" => IndexesOf(Head.path) = {headIndex}

\* The queue never runs into its own names: push finds its name free and
\* get_head and pop_head find the head, unless the system fails.  Otherwise
\* the daemon would end with EEXIST or ENOENT and again after each restart.
NoFailureOfItsOwn ==
  [][pc' = "failed" /\ pc # "failed" => faults' = faults + 1]_vars

LastOf(p) == {i \in IndexesOf(p) : \A j \in IndexesOf(p) : j <= i}

LastIndex(p) == CHOOSE i \in LastOf(p) : TRUE

\* The time of the pending write of a path.
Due(p) ==
  IF LastOf(p) # {} /\ entries[LastIndex(p)].mark = "/"
  THEN entries[LastIndex(p)].mtime ELSE None

\* The pending paths that come before it.
Older(p) ==
  IF Due(p) = None THEN {}
  ELSE {q \in Path : Due(q) # None /\ LastIndex(q) < LastIndex(p)}

\* The entries are in the order of their times: nobody has set the clock back
\* since the oldest of them was pushed.
InOrder ==
  \A i \in Indexes :
    /\ entries[i].mtime <= now
    /\ \A j \in Indexes : i <= j => entries[i].mtime <= entries[j].mtime

\* Unless the clock was set back, the pause that get_head answers is not longer
\* than any pending write asks for, and it is endless (-1) only when nothing is
\* pending: main sleeps that long in poll.
PauseIsSound ==
  [][InOrder /\ pause' # 0 /\ UNCHANGED now =>
       \A p \in Path : Due(p)' # None =>
         pause' > 0 /\ now + pause' <= Due(p)' + debounce']_vars

HandedPath ==
  IF pc = "ready" /\ headIndex \in Indexes /\ Head.mark = "/"
  THEN Head.path ELSE None

D == INSTANCE Debounce WITH due <- [p \in Path |-> Due(p)],
                            older <- [p \in Path |-> Older(p)],
                            handed <- HandedPath

\* The directory, its indexes and its cancelling marks implement one pending
\* write per path, handed out no earlier than debounce_seconds after the last
\* write and kept until popped, through crashes and half-done calls.
ImplementsDebounce == D!Spec

\* Every pending write is handed out, cancelled or superseded in the end.
EveryWriteIsSettled ==
  \A p \in Path : (Due(p) # None) ~> (Due(p) = None)
=============================================================================
