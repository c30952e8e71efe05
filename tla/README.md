# A formal model of Klunok

Klunok is a daemon that keeps versions of the files a user edits. It listens to
fanotify, waits until a file has not been written for `debounce_seconds`, and
copies it into a store; files of projects also get into snapshots of the whole
project. This directory holds TLA+ modules that model the daemon, TLC
configurations that check them on small instances, and proofs for TLAPS. Paths
like `handler.c:464` are relative to `src/src/`.

    tlc -config MCLinq.cfg MCLinq.tla     # check one run
    tlapm LinqProofs.tla                  # check one module of proofs

`PROJECT.json` lists the components, the runs with their properties, the source
lines behind every definition, mutants (for every property a plausible bug of
the code that makes TLC report it), the hazards and the findings.

## The system

| component | state | operations | module |
|---|---|---|---|
| main loop, `main.c` | the pause | mark the mounts, poll, read an event, dispatch, drain the queue, stop at a signal; any error ends the process | `Service`, `Klunok` |
| write handler, `handler.c` | the parts below, the configuration | `load_handler`, `handle_close_write`, `handle_timeout`, `store`, the reload | `Klunok`, `Service`, `Sieve`, `FileStore`, `Flusher` |
| write queue, `linq.c` | a directory of symbolic links (on disk); index, size, counts, cached mtime (in memory) | `load_linq`, `push`, `get_head`, `pop_head`, `redebounce` | `Linq` implements `Debounce` |
| rules about paths, `sieve.c` | none | `sieve`, decisions in `push_to_linq` and `store` | `Sieve` |
| versions of a file, `sync.c`, `counter.c`, `storepath.c` | versions, offset files, working-copy links (on disk) | `sync_file`, `read_counter`, `write_counter`, `increment` | `FileStore` |
| versions of a project, `sync.c` | unstable copies, project versions (on disk) | `sync_shallow_tree`, replacement of a link | `Tree`; `Klunok` for the order in the queue |
| flush requests, `flusher.c` | the times of served requests, the FIFO of the last requester | `get_request`, `acknowledge` | `Flusher` |
| registry of editors, `bitmap.c`, `elfinterp.c` | a bit per process, the known loaders | `handle_open_exec` | `Editors` |
| counted sets, `set.c` | hash table | `add`, `pop`, `get_count`, `get_last_metadata`, `is_within` | `HashSet` implements `Multiset` |
| buffers, `buffer.c` | a string, the hash of what has been hashed | `concat_*`, `set_length`, `get_hash` | `Buffer` |
| traces, `trace.c` | stack of messages, two depths | `try`, `throw_*`, `catch_static`, `finally*` | `Trace` implements `Exceptions` |
| command line, `params.c`; mounts, `mountinfo.c`; `parents.c` | none | `parse_params`, `make_mount`, `get_common_parent_path_length` | `CommandLine` |
| ancestor directories, `parents.c` | none | `create_parents`, `remove_empty_parents` | `Tree` (the first), `FileStore` (the second, in one step) |
| configuration, journal | the values; an open file | when they are loaded and opened, and what a failure does | `Service` |
| messages, formats, packaging | | | not modelled |

The daemon is one thread. Concurrency comes from outside: editors write, delete
and replace files between any two of its system calls; the kernel queues events
and gives up with an overflow event; processes execute programs and ask for
flushes; somebody changes the clock; the daemon is killed, fails (every error
that is not caught ends the process) and is started again. What survives is what
is on disk: the queue, the store, the offsets, the unstable copies.

The components meet as follows. An event of a write goes to
`handle_close_write`, which asks the flusher for a request. Without one,
`push_to_linq` sieves the path, looks the process up among the editors, and
pushes the path and the root of its project to the queue; if it is the path of
the configuration, the configuration is read again and the queue, the debounce
and the journal follow. With one, the file is stored at once, a cancelling
entry is pushed and the requester gets its answer. After each event
`handle_timeout` takes heads from the queue while they are ripe, stores each
and pops it afterwards, and answers with the time to sleep.

What makes each part correct:

- the queue: no write is lost, forgotten entries stay forgotten, memory and
  directory agree, through crashes and failures half way;
- the daemon: a write whose event was handled is in the queue or in the store,
  whatever is interleaved with it; a project version contains what it was made
  for;
- the rules: the one-pass decisions are the documented ones, and `push_to_linq`
  and `store`, which decide independently, agree;
- the store: nothing of a growing file is skipped, closed versions stay;
- flushes: a request is served once and its answer means something;
- editors: a write is judged by the program that made it;
- projects: a version has what the project has, whatever changes meanwhile, and
  a walk that fails is made up for;
- the service: the settings in use are those of the file, a stop loses nothing,
  the queue is drained through restarts and reloads, and relative paths tell
  files apart;
- sets, buffers and traces: they are what their callers take them for.

## The modules

**Debounce** is what the queue promises: one pending write per path, handed out
in the order of the last pushes and not before `debounce` seconds have passed,
kept until it is popped. **Linq** is the code: `entries` is the directory
(index to mark, path and mtime), `headIndex`, `size`, `set`, `headMtime` and
`debounce` are the fields of `struct linq`. Every function makes one system
call at most that changes the directory, so one action per call, with further
actions for the calls that fail before or after it (`PushFails`,
`PushFailsHalfWay`, `PopFailsHalfWay`), loses no crash point. The tail
recursion of `get_head` is one action per round (`GetHeadSkips`). The
refinement mapping takes the last entry of a path, if it is no cancelling one,
for the pending write.

**Klunok** composes the daemon with the abstract queue (an `INSTANCE` of
`Debounce` for files and project roots), so that what is checked here rests on
the refinement proved for `Linq`. Contents are the numbers of the writes that
made them. `pc` stands between system calls that change the disk: `sync_file` is
`CreateVersion` and `CopyVersion`, the replacement of the link in the unstable
copy is `UnlinkUnstable` and `LinkUnstable`, `sync_shallow_tree` is
`CreateSnapshot`, one `Fill` per file, `FinishSnapshot` (projects are flat here,
`Tree` has the directories). A file may be deleted, and may be `withheld` for a
while, which stands for what the daemon cannot copy though something is there:
it may not read it (`SourceIsMissing` covers that error, too), or it is no
regular file, which is detected after an empty version was made
(`SourceIsNotRegular`). `recorded`, `promised` and `void` are history variables:
the last write whose event was handled, the state of `recorded` at the last push
of the project, and the last write of a file that was deleted or withheld since,
for which nothing is owed any more (`IsOwed`).

**Tree** is `sync_shallow_tree` as `fts_read` drives it: `cursor` is the
directory it is in, `seen` what it has returned, `VisitFile`, `EnterDirectory`
and `LeaveDirectory` are the cases of `fts_info`. `access` looks at the project
anew in each step, and the user makes, replaces and removes files and
directories in between. What feeds the walk is there in the detail that matters
to it: the entry in the queue, the version of the file in one step, `unlink`,
`create_parents` one `mkdir` after the other, `link`. Each call that can fail
has an action that fails (`OpenFails`, `UnlinkFails`, `ParentIsMissing`,
`RmdirFails`). `kept`, `ever`, `lost` and `disturbed` are history variables; a
file of a project that existed before the daemon watched it is in `lost` until
it is written.

**CommandLine** holds pure functions: `Parse` is the loop of `parse_params`,
`CommonParentLength` what `main` computes from neighbours in the list of mounts,
`IsWatched` which of the marks is above a path. **Service** extends it with the
life of the process: `Start` sets the marks, `Load` reads the configuration,
`HandleWrite`, `Reload` and `HandleOverflow` are the events, `TimesOut`,
`SkipHead` and `FinishTimeout` the pause (with the narrowing to the `int` that
`poll` takes, and a head that turns out to be superseded after its pause),
`Stop` the answer of `poll` that the signal is there, and `Exit` what follows.
`queued` has the paths in each queue on disk, since the configuration may name
another one, and `superseded` counts the older entries of each. An edit of the
configuration opens the file, leaves it broken or empty for a while, and closes
it.

**Sieve** follows one write through `push_to_linq` and `store`. A configuration
is the set of positions on the path at which each of the six sets of rules has
an entry, and the hidden segments; `Scan` is one round of `sieve`'s loop. TLC
enumerates all configurations with up to three rules.

**FileStore** is the file branch of `store`, system call by system call. The
file only grows, as `history_paths` assumes; a version is an interval of bytes,
the offset file a number whose digits are written one by one.

**Flusher** models `struct flusher` and the processes that ask. A request is an
index into all requests so far; attributes keep one, survive restarts and
reboots, and are found again by each close. FIFOs are numbered per process, so
that a descriptor of an old one can be told from the new one. A file may be
taken away between any two steps: `Store` makes a version if it is there,
`SourceIsMissing` makes none, and the answer is the same. To open the FIFO
(`Connect`, or `NobodyListens`) and to write to it (`Answer`) are steps of their
own, between which the reader may hang up.

**Editors** models `handle_open_exec`. An `execve` opens a script, its
interpreter and the loader one after the other; each is an event, between those
of other processes. Each write event remembers what the process really was when
it wrote.

**Buffer** has the string, its hash and how much of it has been hashed.
**HashSet** has the chains, the counter of empty chains, the metadata, and the
one buffer that `sieve` asks with while it grows and is cut;
**Multiset** is a function from values to counts and metadata. **Trace** has the
frames, the frames dropped for lack of memory and the two depths; **Exceptions**
has the depth, the block the exception was thrown in, and the exception.

## The runs

| run | bounds | what it shows |
|---|---|---|
| `linq` | two paths, debounce 0 or 2, names up to 3, two faults (a crash, a failure half way, or the clock set back) | directory and memory agree, no gap, fresh mtime, no failure of its own making, pauses are never too long, every write is settled; `Linq` implements `Debounce` |
| `klunok` | two files of one project, three writes, a flush, a deletion or a file withheld, a crash, an event queue of two | no handled write is lost, a torn version is made again, a version of a project holds what was handled before it was asked for |
| `klunok_live` | a file in a project and one outside, two writes, a flush, a crash | handled writes are stored in the end |
| `tree` | a directory that may also be a file, two files in it, five changes, a crash | a finished version has the last version of each file that stayed and nothing that never was there, the unstable copy loses no file, the daemon fails only in a race, what failed is made up for |
| `service` | six command lines, one file written twice, two edits of the configuration (four contents or broken), a crash; an event queue of two | the settings in use are those of the file, a stop loses no write, the queue in use is emptied again and again; all command lines of four words are parsed as the usage says; relative paths of up to three mounts tell files apart |
| `sieve` | paths of three segments, up to three rules | decisions are the documented ones and agree |
| `file_store` | three bytes, three calls, two changes of source or configuration, a crash, two digits of base 2 and one more | no byte skipped, complete versions, none twice without a crash, closed versions stay, both loops end |
| `flusher` | two processes with a file each, two requests, two FIFOs, one trouble (a crash, a reboot, a file taken away) | served once, answered after a version or after the file went, every request of a process that listens answered, no answer goes astray, no descriptor leaks |
| `editors` | two processes, four programs, three executions, a restart | exactly the writes of editors are taken |
| `hash_set` | strings of two characters, one to three chains, hashes of three bits, counts up to two | a string is found if it was added, whatever its buffer held before; implements `Multiset` |
| `trace` | two messages, four frames, depth four | implements `Exceptions` |
| `sieve_parent` | up to two rules | the finding below |

Some properties hold under a condition, which they state. `SnapshotKeepsPromise`
is about behaviours without a crash and `WrittenProjectIsPendingOrStored` about
those without a crash or a flush, `TornVersionIsRedone` about those without a
flush, `PauseIsSound` about times in which nobody set the clock back; the
hazards say what happens otherwise. `HandledIsPendingOrStored` and the others of
`Klunok` are about writes after which the file was neither deleted nor withheld
(`IsOwed`): the entry of such a file is dropped, by design, and the next write
counts again. `AcknowledgedIsStored` says that the file has a version that is
newer than the request, or was taken away after it: the answer does not tell one
from the other. `StopLosesNothing` is about writes before `poll` reports the
signal; one that is closed between this and the end of the process is reported
to nobody. `ProjectIsStoredInTheEnd` and `FailsOnlyInARace` leave out that a
directory and a file change places (`HasChangedKind`), `QueueIsDrained` a daemon
that was stopped, that cannot start with the file as it is, or whose debounce
overflows (`IsExcused`), `SettingsAreCurrent` a configuration that was saved
with a flush (`unseen`) or is not below a mark, and `RelativePathsAreDistinct`
the single mount `/`. The two properties of `Flusher` about who gets answers are
about files with one writer: with two, the answer goes to the process whose
close the daemon saw first. The others of `Flusher` are proved for files with
any number of writers; the files of the run have one.

Why the bounds are enough to be of use: names 0 to 2 let the queue hold a
superseded entry, a cancelling one and a later one, empty and start again at 0;
two faults let a failure half way be followed by one during recovery. Two files
are one in a project and one outside, or two of one project, which are the ways
files interact; one project with two interchangeable files is checked with
their symmetry, and with a view that takes states for one when they differ only
in versions that are neither the newest nor the last, which no step and no
property reads. Three bytes with digits of base 2 (`Power` = 1, 2, 4) give an
offset of two digits, so that a crash leaves a prefix which is not 0. Three
rules on three segments give every order of two rules and a third that should
not matter. The smallest project
with something to walk is a directory with two files: one can be linked or
removed while the other is still to come, and the directory can go, come back,
or be a file; five changes are enough to replace a file and take its directory
away. In `service` the two edits are a good one after a broken one or the other
way round, and an event queue of two overflows with a write and an edit. Three
mounts are the least that `main` compares more than once. Hashes of three bits
let different strings collide in hash, in chain, or not at all. The mutants in
`PROJECT.json` show for each property that its run can see it broken.

`CHECK_DEADLOCK FALSE` is set where the bounds on writes, requests, calls or
time let a model stop; the queue, the set and the trace never stop.

### Fairness

`Linq`: somebody starts the process again, `main` keeps calling `get_head` and
finishes what it got, time passes. `Klunok`, `Tree` and `Service`: weak
fairness of the daemon as a whole, which is one thread that never waits for
anything but `poll`, and of its start after a failure, which somebody takes
care of, as in `Linq`; in `Klunok` of the clock too, while in `Service` the
pause is an outcome of `poll`. In `Service` a stop by the signal is final:
nothing starts the daemon again after it. `FileStore`: the steps of `store`.
`Flusher`: the daemon, and that a process that has put a request on a file
closes the file; this one is strong because the bounded event queue may be full
in between. No fairness is assumed of editors, users, signals, crashes or the
clock being set back.

## What is proved

For every value of the constants, with TLAPS:

- `LinqProofs`: `Invariance`, that `IInv` is an invariant of `Linq!Spec`. `IInv`
  is the conjunction of `TypeOK`, `Contiguous`, `MemoryIsDirectory`,
  `MtimeIsFresh` and `ReadyHeadIsLast`; none but the first is inductive alone.
  The free name of a push follows from `MemoryIsDirectory`, which a load
  establishes only because the directory is `Contiguous`, which a pop preserves
  only because it removes the least name, which is `headIndex` by
  `MemoryIsDirectory` again. From it `TypeCorrect`, `DirectoryHasNoGap`,
  `MemoryAgrees`, `CacheIsFresh`, `FailsOnlyWithTheSystem` (the action property
  `NoFailureOfItsOwn`), `PausesAreSound` (the action property `PauseIsSound`,
  from the order of the entries and the fresh mtime), `HeadIsLast` (the entry
  that is popped is the last of its path) and `Refinement` (`Linq` implements
  `Debounce`).
- `UtilityProofs`, about the three modules that the others are built from:
  - `Invariance`, `TypeCorrect`, `DepthsAreRight` and `Refinement` (`Trace`
    implements `Exceptions`).
  - `TableInvariance`, `BuffersAreAlwaysFound` (`BuffersAreFound`) and
    `TableIsAMultiset` (`HashSet` implements `Multiset`), for any strings, any
    number of chains and any collisions. `HInv` says that no chain has two
    entries of a value, that `emptyHeadCount` is the number of empty chains, and
    that the hash a buffer keeps is that of the prefix it has seen. That hashing
    a string in parts is hashing it at once (`HashContinues`) is an induction
    over its characters, done for the set of the positions up to which the two
    agree: the least position outside it cannot be (`IntervalInduction`).
  - `SieveInvariance`, `PushedAsTheDocumentationHasIt` (`PushedAsDocumented`),
    `PushAndStoreSeeTheSameProject` (`PushAndStoreAgree`) and
    `OnlyHistoriesAreStoredInParts` (`OnlyHistoryIsStoredInParts`), for a path
    of any length and any configuration. `SInv` says that at each step of the
    loop the ends are those of the last rules among the prefixes passed
    (`Sieved`), what has been done by then (`Life`), and that the root pushed
    follows from the last rules about projects (`RootPushed`). A set has one
    such end (`EndIsUnique`): so `store`, which sieves the path again, sees the
    ends that `push_to_linq` saw.
- `KlunokProofs`: `NoWriteIsLost` (`HandledIsPendingOrStored`),
  `TornVersionsAreRedone` (`TornVersionIsRedone`), `NoProjectIsForgotten`
  (`WrittenProjectIsPendingOrStored`) and the action property
  `SnapshotsKeepPromises` (`SnapshotKeepsPromise`), for any files and projects,
  any writes, deletions, flushes and unreadable files in between, and a crash
  between any two system calls. `IInv` follows a job from call to call: what was
  handled or promised is no newer than the content (`Written`), the path of the
  job is what `pc` says and is pending until it is popped (`JobIsRight`), the
  version under way is the last one of its file and no older than what is
  handled or promised of it (`VersionIsRight`), the unstable copy is not older
  either unless the file is pending or being linked (`CopyIsRight`), a pending
  file is among those that come out before its project (`FilesComeFirst`), and
  so is each file that the walk has filled in no older than what is owed
  (`SnapshotIsRight`).
- `FileStoreProofs`: `NoByteIsSkipped` (`NothingIsSkipped`),
  `VersionsAreComplete` (`StoredIsComplete`), `VersionsAreDisjoint`
  (`NoByteTwice`) and the action property `VersionsStay` (`ClosedVersionsStay`),
  for a file of any length and any digits. `VersionsAreComplete` is about the
  calls of `store` that succeed: what the file had when the call began is in the
  new version, or, of a history, in the new version and those before it. What is
  covered by versions only grows and a prefix of the digits of a number is no
  greater than the number; that no byte is in two versions needs `EndsInOrder`:
  as long as nothing crashed, all versions end at or before the offset.
- `FlusherProofs`: `AnswersMeanVersions` (`AcknowledgedIsStored`),
  `OneFifoIsOpen` (`NoFdIsLeaked`), `NobodyElsesAnswers`
  (`AnswersAreForTheReader`) and the action property `RequestsAreServedOnce`
  (`ServedOnce`), for any processes and files, and files taken away at any time.
  An answer means that a version was made, or the file was taken away, after the
  request. A request is not served again because each request taken is of an
  earlier boot, or its time is not later than the time at which the daemon was
  started, or than the last one answered for its path (`TakenIsPast`), which
  holds because no time that was stamped is later than the clock
  (`RequestsArePast`).
- `ServiceProofs`: `EditsAreFound` (`SettingsAreCurrent`) and
  `NothingIsLostByAStop` (`StopLosesNothing`), for any command lines and
  settings. `SettingsAreRight` says that an edit the settings do not have is
  still to come: the editor has the file open, or the event or an overflow
  waits; `OwedIsKept` the same of each write that is in no queue, but once
  `poll` has reported the signal all are in a queue. Two more theorems are about
  the functions of `CommandLine`, for words and paths of any characters and any
  length, in lists of any length; the properties of the run, which evaluate them
  for short ones, follow:
  - `CommandLinesAreParsedAsDocumented` (`ParsedAsDocumented`). The invariant of
    the loop is `ParsedSoFar`: proper pairs of an option and a word so far, with
    each value in its field (`Collected`), and maybe an option that waits for
    its word; or a request for help that the usage line knows; or an error, and
    what has been read cannot be the start of a proper line (`Rejected`).
  - `PathsAreRelativeToTheCommonParent` (`RelativePathsAreDistinct`). The length
    that `main` finds is the least of those of neighbours
    (`CommonParentLengthIsLeast`), each the last place where a segment ends in
    both and they are equal up to there (`CommonLengthIsGreatest`): so all
    mounts agree up to there (`AllAgree`), from one neighbour to the next, and
    two of them part before any later place (`ParentIsInnermost`).
- `EditorsProofs`: `EditorsAreTold` (`WritesAreJudgedRight`), for any programs,
  scripts, loaders and processes. An event is judged by what those before it
  leave in the bitmap, so that the invariant looks ahead: there are a bitmap and
  a set of loaders for each waiting event, each what the event before makes of
  the last, with which every waiting write is judged right, and which fit the
  programs that run now at the end.
- `TreeProofs`: `CopyKeepsFiles` (`UnstableKeepsFiles`), `VersionsAreComplete`
  (`VersionIsTheProject`) and the action property `FailuresAreRaces`
  (`FailsOnlyInARace`), for a project with any tree of paths. The invariant
  `IInv` adds to the first two what they rest on: a file that is stored anew is
  in the queue until it is linked (`HeadIsRight`, `KeptIsStored`), the unstable
  copy is a tree (`CopyIsTree`), and what the walk has done so far
  (`WalkIsRight`): of each directory that `fts_read` has left everything has
  been seen, and what has been seen and is still there is in the version. When
  the walk ends everything has been seen, or there would be a topmost path that
  has not (`TopmostExists`, from the well-founded order of the depths), in a
  directory that has been left. The third rests on `CInv`: while nobody disturbs
  it, the walk has made each directory it is in, and has removed all that it has
  left and that is not there.

The assumptions are those in the modules, one per module (`LinqAssumption`,
`KlunokAssumption` and so on), which TLC evaluates in each run: that bounds are
numbers, that options and the slash are among the characters, that `None`,
`Dir`, `Unnamed`, `Overflow` and `Broken` are nothing else, that files and
projects, programs and loaders are different, that the directories above a path
are those above its parent and the parent, that identifiers of processes are
numbers, and that the editors of `Service` write the configuration only as the
configuration (`OpenConfig`, `CloseConfig`).

Each of these invariants was first checked with TLC on the run of its module.

Only model-checked is liveness (`EveryWriteIsSettled`,
`HandledIsStoredInTheEnd`, `ProjectIsStoredInTheEnd`, `QueueIsDrained`,
`StoreEnds`, `EveryRequestIsAnswered`): TLAPS does not reason about fairness
here.

## Findings

One place where the code does something else than the documentation says has a
run for which TLC reports a violation:

- a child of a directory in `project_parents` is queued as a project but then
  taken for a regular file (`sieve_parent`, `handler.c:290`,
  `web/docs/projects.md:27`).

Further ones, which conditions of the properties or notes of the hazards name,
and which no run checks:

- a flush of a file of a project makes no version of the project
  (`handler.c:464`, `web/docs/projects.md:21`);
- a flush stores an excluded path (`handler.c:465`,
  `web/docs/configuration.md:436`);
- a configuration file saved with a flush is not reloaded (`handler.c:464`,
  `web/docs/configuration.md:13`);
- a project root below a history path makes the whole file be copied each time
  (`handler.c:284`, `web/docs/configuration.md:415`);
- with `/` as the only mount the relative path is one character too short
  (`main.c:90`, `web/docs/configuration.md:277`): the length of the path and one
  more is cut off, as for mounts that do not end in a slash;
- a process that gets the identifier of an editor that has exited, without
  executing a program, is taken for an editor (`handler.c:136`,
  `web/docs/configuration.md:359`).

What nothing in the repository contradicts, but a reader should know:

- a flush of a file that vanished meanwhile, or that is no regular file any more
  or may not be read, is answered though no version is made (`handler.c:363`,
  `handler.c:471`): the answer does not tell;
- a process that opens its FIFO anew gets no answer to its next request, because
  the daemon still has the earlier FIFO open (`flusher.c:179`);
- a crash between the two pushes of `push_to_linq` leaves a project without the
  version it should get, and a crash between `unlink` and `link` in a flush
  leaves the file out of later versions of the project;
- when a directory takes the place of a file of a project, or a file that of a
  directory, `open` or `unlink` answer `ENOTDIR` or `EISDIR`, the daemon ends,
  and ends at the same entry after each start (`sync.c:38`, `handler.c:433`);
- a walk that failed leaves its part of a version in the store, where nothing
  tells it from a whole one (`sync.c:203`);
- two projects with the same last segment share one unstable copy, and the walk
  of one removes the files of the other (`handler.c:297`);
- when the configuration names another queue, the entries of the one before,
  with them the write of the configuration itself, wait until the setting is
  changed back (`handler.c:482`);
- a debounce of more than 24 days does not fit the `int` that `poll` takes: the
  time-out is then short, or for ever (`main.c:174`).

## What is left out

- The Lua configuration and the build that weaves its parts: the values are
  constants of the modules. `Service` has when they are read and what follows.
- The journal: `Service` opens it; that a line cannot be written is a crash.
- Privileges, except that the start is refused without a user to become and that
  a file may be unreadable (`Klunok`, `Flusher`), and `/proc/self/mounts`, in
  which a path with a blank is escaped and then not found. The default mark on
  the store of Nix, a constant of the build.
- Strings: paths are model values, numbers of segments in `Sieve`, sequences of
  characters in `CommandLine` and `Buffer` only.
- `access` is taken to fail for what does not exist; a directory that may not be
  searched looks the same to the code.
- In `Tree` the store of one file is one step (`FileStore` has the steps), the
  order of entries in the queue is only that the project is behind its files
  (`Klunok` has the order), and the version of a walk that failed is forgotten.
  The daemon has one project.
- In `Service` a file is stored by taking it out of the queue (`Klunok`), which
  has no order there (`Linq`), and the run before left no superseded entries.
- Widths of integers, but for the pause, the counts and the hashes of sets:
  nothing else that is modelled comes near them.
- In `Flusher`, a file at the path of a FIFO that is no FIFO, which the code
  closes at once, is the same as none, and the events of a file that was taken
  away stand for those of the file that is put in its place. In `Editors`, a
  file that is executed and then rejected by the kernel, and a child that goes
  on with the program of its parent.
- Applications that replace a file with `rename` or write with `mmap`, which
  the documentation excludes.
- Messages, formats of times and extensions, packaging, tests: nothing in them
  changes a state.

## Plan

Done: `Debounce`, `Linq` and `LinqProofs`; `Klunok` on top of `Debounce`, and
`KlunokProofs`; `Multiset`, `Buffer`, `HashSet`; `Exceptions`, `Trace`; `Sieve`;
`UtilityProofs`; `FileStore` and `FileStoreProofs`; `Flusher` and
`FlusherProofs`; `Editors` and `EditorsProofs`; `Tree` and `TreeProofs`;
`CommandLine`, `Service` and `ServiceProofs`.

All safety properties of the passing runs are proved. Next: that the steps of
`FileStore` implement the single step as which `Klunok` and `Tree` take a
version of a file.
