----------------------------- MODULE FileStore ------------------------------
(***************************************************************************)
(* Versions of one file on disk, system call by system call: the file      *)
(* branch of store in src/src/handler.c with sync_file (src/src/sync.c),   *)
(* the names of versions (src/src/storepath.c) and the offsets of          *)
(* histories (src/src/counter.c).                                          *)
(*                                                                         *)
(* The file is appended to while it is copied, goes away and comes back,   *)
(* and the daemon dies anywhere and is told to store the file again.       *)
(* Versions are named by a time of bounded resolution, so that names       *)
(* collide.  As the setting history_paths assumes, the file only grows;    *)
(* bytes are numbered, and a version is an interval of them.               *)
(***************************************************************************)
EXTENDS Integers

CONSTANTS
  Stamp,        \* the answers of get_timestamp
  Power,        \* the powers of the base of an offset file's digits: 1, 10, ...
  None,
  MaxLength,    \* bound: the length of the file
  MaxStores,    \* bound: calls of store
  MaxSwitches,  \* bound: changes of the configuration
  MaxCrashes    \* bound: crashes

ASSUME FileStoreAssumption ==
  /\ Power \subseteq Nat \ {0} /\ 1 \in Power
  /\ None \notin Nat
  /\ MaxLength \in Nat

VARIABLES
  source,     \* what open and fstat find: "regular", "other" or "unreadable"
  length,     \* the length of the file
  isHistory,  \* whether history_paths decides about the file
  versions,   \* the files of the store: name -> the bytes from + 1 .. to
  counter,    \* the number in the offset file, 0 if it is empty, or None
  link,       \* whether the link to the working copy exists
  pc,         \* where store is
  name,       \* get_current_path(store_path)
  offset,     \* where the version begins
  remaining,  \* in_fd_stat.st_size in sync_file
  stores, switches, crashes,  \* bounds: so many so far
  owed        \* the length of the file when store was called

job == <<name, offset, remaining>>
environment == <<source, length, isHistory, switches>>
vars == <<environment, versions, counter, link, pc, job, stores, crashes, owed>>

\* The name a version is tried with first.
FirstName(stamp) == [stamp |-> stamp, copy |-> 0]

Init ==
  /\ source = "regular"
  /\ length \in 0..1
  /\ isHistory \in BOOLEAN
  /\ versions = <<>>
  /\ counter = None
  /\ link = FALSE
  /\ pc = "idle"
  /\ name = None /\ offset = 0 /\ remaining = 0
  /\ stores = 0 /\ switches = 0 /\ crashes = 0
  /\ owed = 0

-----------------------------------------------------------------------------
(***************************************************************************)
(* The environment.                                                        *)
(***************************************************************************)

AppendByte ==
  /\ source = "regular"
  /\ length < MaxLength
  /\ length' = length + 1
  /\ UNCHANGED <<source, isHistory, switches, versions, counter, link, pc, job,
                 stores, crashes, owed>>

\* The file is moved away, something else takes its place, it comes back.
Replace(what) ==
  /\ switches < MaxSwitches
  /\ what # source
  /\ source' = what
  /\ switches' = switches + 1
  /\ UNCHANGED <<length, isHistory, versions, counter, link, pc, job, stores,
                 crashes, owed>>

\* Another configuration, between two calls of store.
Reconfigure ==
  /\ pc = "idle"
  /\ switches < MaxSwitches
  /\ isHistory' = ~isHistory
  /\ switches' = switches + 1
  /\ UNCHANGED <<source, length, versions, counter, link, pc, job, stores,
                 crashes, owed>>

\* The daemon dies, or a system call fails: store is left where it is.
Crash ==
  /\ pc # "idle"
  /\ crashes < MaxCrashes
  /\ crashes' = crashes + 1
  /\ pc' = "idle"
  /\ UNCHANGED <<environment, versions, counter, link, job, stores, owed>>

-----------------------------------------------------------------------------
(***************************************************************************)
(* store and sync_file.                                                    *)
(***************************************************************************)

\* read_counter: an offset file without digits reads as 0.
ReadCounter == IF counter = None THEN 0 ELSE counter

\* create_store_path, read_counter; the clock may have any value.
Begin(stamp) ==
  /\ pc = "idle"
  /\ stores < MaxStores
  /\ stores' = stores + 1
  /\ name' = FirstName(stamp)
  /\ offset' = IF isHistory THEN ReadCounter ELSE 0
  /\ owed' = length
  /\ pc' = "open"
  /\ UNCHANGED <<environment, versions, counter, link, remaining, crashes>>

\* The file does not exist or may not be read: there is no version of it.
SourceIsUnreadable ==
  /\ pc = "open"
  /\ source = "unreadable"
  /\ pc' = "idle"
  /\ UNCHANGED <<environment, versions, counter, link, job, stores, crashes, owed>>

\* Mutant of TryAgain: the same name is tried again.
BuggyTryAgain ==
  /\ pc = "taken"
  /\ pc' = "open"
  /\ UNCHANGED <<environment, versions, counter, link, job, stores, crashes, owed>>

\* increment: the next name.
TryAgain ==
  /\ pc = "taken"
  /\ name' = [name EXCEPT !.copy = @ + 1]
  /\ pc' = "open"
  /\ UNCHANGED <<environment, versions, counter, link, offset, remaining, stores,
                 crashes, owed>>

With(v, version) ==
  [w \in DOMAIN versions \cup {v} |-> IF w = v THEN version ELSE versions[w]]

\* Mutant of Create: a version of the same name is opened, and emptied.
BuggyCreate ==
  /\ pc = "open"
  /\ source # "unreadable"
  /\ versions' = With(name, [from |-> offset, to |-> offset])
  /\ pc' = "size"
  /\ UNCHANGED <<environment, counter, link, job, stores, crashes, owed>>

\* open of the source, and of the version with O_CREAT | O_EXCL.
Create ==
  /\ pc = "open"
  /\ source # "unreadable"
  /\ IF name \in DOMAIN versions
     THEN pc' = "taken" /\ UNCHANGED versions
     ELSE /\ versions' = With(name, [from |-> offset, to |-> offset])
          /\ pc' = "size"
  /\ UNCHANGED <<environment, counter, link, job, stores, crashes, owed>>

\* fstat.  What is not a regular file leaves an empty version.
TakeSize ==
  /\ pc = "size"
  /\ IF source = "other"
     THEN pc' = "idle" /\ UNCHANGED remaining
     ELSE pc' = "copy" /\ remaining' = length
  /\ UNCHANGED <<environment, versions, counter, link, name, offset, stores,
                 crashes, owed>>

Position == versions[name].to

\* One sendfile; it may send less than it is asked for.
Send(n) ==
  /\ pc = "copy"
  /\ n \in 1..remaining
  /\ Position + n <= length
  /\ versions' = [versions EXCEPT ![name].to = @ + n]
  /\ remaining' = remaining - n
  /\ UNCHANGED <<environment, counter, link, pc, name, offset, stores, crashes, owed>>

\* Mutant of IsSent: one sendfile is enough.
BuggyIsSent == remaining = 0 \/ Position > offset \/ Position >= length

\* The loop ends when st_size bytes were sent, or at the end of the file: with
\* an offset there are fewer.
IsSent == remaining = 0 \/ Position >= length

CloseVersion ==
  /\ pc = "copy"
  /\ IsSent
  /\ pc' = "counter"
  /\ UNCHANGED <<environment, versions, counter, link, job, stores, crashes, owed>>

\* Mutants of NewOffset: the size of the file, the number of the next byte, the
\* offset that was read.
BuggyNewOffset == IF isHistory THEN length ELSE 0
StaleNewOffset == IF isHistory THEN offset ELSE 0

\* The answer of sync_file, for a history.
NewOffset == IF isHistory THEN Position ELSE 0

\* write_counter of 0: no offset file.
RemoveCounter ==
  /\ pc = "counter"
  /\ NewOffset = 0
  /\ counter' = None
  /\ pc' = "link"
  /\ UNCHANGED <<environment, versions, link, job, stores, crashes, owed>>

\* write_counter: the file is opened, or created, and truncated ...
TruncateCounter ==
  /\ pc = "counter"
  /\ NewOffset # 0
  /\ counter' = 0
  /\ pc' = "digits"
  /\ UNCHANGED <<environment, versions, link, job, stores, crashes, owed>>

\* ... and its digits written, perhaps not all at once: some are missing yet.
WriteDigits(power) ==
  /\ pc = "digits"
  /\ counter' = NewOffset \div power
  /\ counter' > counter
  /\ pc' = IF power = 1 THEN "link" ELSE pc
  /\ UNCHANGED <<environment, versions, link, job, stores, crashes, owed>>

\* The link to the working copy, unless there is one.
LinkWorkingCopy ==
  /\ pc = "link"
  /\ link' = TRUE
  /\ pc' = "idle"
  /\ UNCHANGED <<environment, versions, counter, job, stores, crashes, owed>>

StoreStep ==
  \/ SourceIsUnreadable \/ Create \/ TryAgain
  \/ TakeSize \/ (\E n \in 1..MaxLength : Send(n)) \/ CloseVersion
  \/ RemoveCounter \/ TruncateCounter
  \/ (\E power \in Power : WriteDigits(power))
  \/ LinkWorkingCopy

Next ==
  \/ AppendByte
  \/ \E what \in {"regular", "other", "unreadable"} : Replace(what)
  \/ Reconfigure
  \/ Crash
  \/ \E stamp \in Stamp : Begin(stamp)
  \/ StoreStep

Spec == Init /\ [][Next]_vars

\* store is one call: nothing but a crash keeps it from going on.
FairSpec == Spec /\ WF_vars(StoreStep)

-----------------------------------------------------------------------------
Bytes(v) == (versions[v].from + 1)..versions[v].to

Kept == UNION {Bytes(v) : v \in DOMAIN versions}

\* Once a version is closed nothing changes it, and none disappears: neither a
\* later version with the same time nor one after a crash takes its name
\* (sync_file creates with O_EXCL, store goes on to the next name).
ClosedVersionsStay ==
  [][\A v \in DOMAIN versions :
       /\ v \in DOMAIN versions'
       /\ versions'[v] # versions[v] => pc = "copy" /\ v = name]_vars

\* The number in the offset file is covered by versions, however a crash cut it
\* and whatever was appended meanwhile: the next version of the history begins
\* no later than the last one ended.
NothingIsSkipped == counter # None => 1..counter \subseteq Kept

\* A call that stores the file makes a version that is complete: this one version
\* holds all that the file had when store was called, from the first byte, or in
\* a history from where earlier versions end without a gap (sync_file, and the
\* offset of store).
StoredIsComplete ==
  pc \in {"counter", "digits", "link"} =>
    /\ (offset + 1)..owed \subseteq Bytes(name)
    /\ IF isHistory THEN 1..offset \subseteq Kept ELSE offset = 0

\* Only changes are stored as new versions of a history: without a crash no
\* byte is in two versions.
NoByteTwice ==
  isHistory /\ switches = 0 /\ crashes = 0 =>
    \A v, w \in DOMAIN versions : v # w => Bytes(v) \cap Bytes(w) = {}

\* A call of store comes to an end, whatever is appended meanwhile and however
\* many versions have its time in their names.
StoreEnds == pc # "idle" ~> pc = "idle"
=============================================================================
