------------------------------ MODULE Editors -------------------------------
(***************************************************************************)
(* Which processes are editors: handle_open_exec in src/src/handler.c with *)
(* src/src/bitmap.c and src/src/elfinterp.c, and what the answer is used   *)
(* for, the rule of push_to_linq that only editors' writes are pushed.     *)
(*                                                                         *)
(* The kernel reports every file that an execve opens: a script, then the  *)
(* program of its first line, then the loader (the ELF interpreter) of the *)
(* program.  Events of all processes wait in one queue with the writes, so *)
(* that the daemon judges a write long after other programs may have run.  *)
(* The daemon never learns that a process has exited.                      *)
(***************************************************************************)
EXTENDS Integers, Sequences, FiniteSets

CONSTANTS
  Pid,
  Program,
  Loader,
  LoaderOf,    \* Program -> its loader, None for a static program or a script
  ShebangOf,   \* Program -> the program that runs the script, or None
  Editor,      \* the programs with a name in the setting editors
  SizeGuess,   \* the setting max_pid_guess
  None,
  MaxExecs,    \* bound: calls of execve
  MaxEvents,   \* bound: events that wait
  MaxCrashes   \* bound: crashes of the daemon

ASSUME EditorsAssumption ==
  /\ Pid \subseteq Nat
  /\ Editor \subseteq Program
  /\ Loader \cap Program = {}
  /\ None \notin Pid \cup Program \cup Loader
  /\ LoaderOf \in [Program -> Loader \cup {None}]
  /\ ShebangOf \in [Program -> Program \cup {None}]
  /\ SizeGuess \in Nat

VARIABLES
  image,    \* Pid -> the program that runs, None if there is no process
  opening,  \* Pid -> the files its execve has yet to open
  events,   \* fanotify's queue
  bitmap,   \* handler->editor_pid_bitmap, as long as its array
  elfInterpreters,
  up,       \* whether the daemon runs
  verdict,  \* the last write it judged: by an editor, taken for an editor's
  execs, crashes  \* bounds: so many so far

handler == <<bitmap, elfInterpreters>>
vars == <<image, opening, events, handler, up, verdict, execs, crashes>>

NoVerdict == [byEditor |-> FALSE, taken |-> FALSE]

\* create_bitmap, create_set.
Load ==
  /\ bitmap' = [pid \in 0..(SizeGuess - 1) |-> FALSE]
  /\ elfInterpreters' = {}

Init ==
  /\ image = [p \in Pid |-> None]
  /\ opening = [p \in Pid |-> <<>>]
  /\ events = <<>>
  /\ bitmap = [pid \in 0..(SizeGuess - 1) |-> FALSE]
  /\ elfInterpreters = {}
  /\ up = TRUE
  /\ verdict = NoVerdict
  /\ execs = 0 /\ crashes = 0

-----------------------------------------------------------------------------
(***************************************************************************)
(* Processes.                                                              *)
(***************************************************************************)

FilesOf(x) ==
  LET binary == IF ShebangOf[x] = None THEN x ELSE ShebangOf[x]
      scripts == IF ShebangOf[x] = None THEN <<>> ELSE <<x>>
      loaders == IF LoaderOf[binary] = None THEN <<>> ELSE <<LoaderOf[binary]>>
  IN scripts \o <<binary>> \o loaders

\* execve, perhaps in a process that was just forked for it.
Exec(p, x) ==
  /\ opening[p] = <<>>
  /\ execs < MaxExecs
  /\ execs' = execs + 1
  /\ image' = [image EXCEPT ![p] = IF ShebangOf[x] = None THEN x
                                                       ELSE ShebangOf[x]]
  /\ opening' = [opening EXCEPT ![p] = FilesOf(x)]
  /\ UNCHANGED <<events, handler, up, verdict, crashes>>

Notify(event) ==
  /\ Len(events) < MaxEvents
  /\ events' = IF up THEN Append(events, event) ELSE events

\* FAN_OPEN_EXEC.
Open(p) ==
  /\ opening[p] # <<>>
  /\ Notify([type |-> "exec", pid |-> p, file |-> Head(opening[p])])
  /\ opening' = [opening EXCEPT ![p] = Tail(@)]
  /\ UNCHANGED <<image, handler, up, verdict, execs, crashes>>

\* FAN_CLOSE_WRITE.
Write(p) ==
  /\ image[p] # None
  /\ opening[p] = <<>>
  /\ Notify([type |-> "write", pid |-> p, byEditor |-> image[p] \in Editor])
  /\ UNCHANGED <<image, opening, handler, up, verdict, execs, crashes>>

Exit(p) ==
  /\ image[p] # None
  /\ opening[p] = <<>>
  /\ image' = [image EXCEPT ![p] = None]
  /\ UNCHANGED <<opening, events, handler, up, verdict, execs, crashes>>

-----------------------------------------------------------------------------
(***************************************************************************)
(* The daemon.                                                             *)
(***************************************************************************)

GetBit(pid) == pid \in DOMAIN bitmap /\ bitmap[pid]

\* The array, long enough for the bit.
Grown(pid) ==
  IF pid \in DOMAIN bitmap
  THEN bitmap
  ELSE [i \in 0..((pid + 1) * 2 - 1) |-> GetBit(i)]

SetBit(pid) == bitmap' = [Grown(pid) EXCEPT ![pid] = TRUE]
UnsetBit(pid) == bitmap' = [bitmap EXCEPT ![pid] = FALSE]

\* get_elf_interpreter; most files have none.
Interpreters(file) ==
  IF file \in Program /\ LoaderOf[file] # None THEN {LoaderOf[file]} ELSE {}

NextEvent(type) ==
  /\ up
  /\ events # <<>>
  /\ Head(events).type = type
  /\ events' = Tail(events)

\* handle_open_exec of an editor.
RegisterEditor ==
  /\ NextEvent("exec")
  /\ Head(events).file \in Editor
  /\ SetBit(Head(events).pid)
  /\ elfInterpreters' = elfInterpreters \cup Interpreters(Head(events).file)
  /\ UNCHANGED <<image, opening, up, verdict, execs, crashes>>

\* Mutant of IsOtherProgram: the loader of an editor is another program, too.
BuggyIsOtherProgram(file) == TRUE

\* What an editor opens when it starts is no other program.
IsOtherProgram(file) == file \notin elfInterpreters

\* Mutant of HandleOtherExec: once an editor, always an editor.
BuggyHandleOtherExec ==
  /\ NextEvent("exec")
  /\ Head(events).file \notin Editor
  /\ UNCHANGED <<image, opening, handler, up, verdict, execs, crashes>>

\* handle_open_exec of another file.
HandleOtherExec ==
  /\ NextEvent("exec")
  /\ Head(events).file \notin Editor
  /\ IF GetBit(Head(events).pid) /\ IsOtherProgram(Head(events).file)
     THEN UnsetBit(Head(events).pid)
     ELSE UNCHANGED bitmap
  /\ UNCHANGED <<image, opening, elfInterpreters, up, verdict, execs, crashes>>

\* handle_close_write of a path that no rule speaks of.
Judge ==
  /\ NextEvent("write")
  /\ verdict' = [byEditor |-> Head(events).byEditor,
                 taken |-> GetBit(Head(events).pid)]
  /\ UNCHANGED <<image, opening, handler, up, execs, crashes>>

Crash ==
  /\ up
  /\ crashes < MaxCrashes
  /\ crashes' = crashes + 1
  /\ up' = FALSE
  /\ events' = <<>>
  /\ UNCHANGED <<image, opening, handler, verdict, execs>>

Restart ==
  /\ ~up
  /\ up' = TRUE
  /\ Load
  /\ UNCHANGED <<image, opening, events, verdict, execs, crashes>>

Next ==
  \/ \E p \in Pid :
       \/ \E x \in Program : Exec(p, x)
       \/ Open(p) \/ Write(p) \/ Exit(p)
  \/ RegisterEditor \/ HandleOtherExec \/ Judge
  \/ Crash \/ Restart

Spec == Init /\ [][Next]_vars

-----------------------------------------------------------------------------
\* A write that is taken for an editor's is an editor's, however many events lie
\* between the write and its handling, and with processes that run program after
\* program; and the other way round, as long as the daemon has seen the editors
\* start.
WritesAreJudgedRight ==
  /\ verdict.taken => verdict.byEditor
  /\ crashes = 0 /\ verdict.byEditor => verdict.taken
=============================================================================
