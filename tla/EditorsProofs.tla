--------------------------- MODULE EditorsProofs ----------------------------
(***************************************************************************)
(* Proofs about editors, for any processes, programs, loaders and bounds:  *)
(* a write is judged by the program that made it, though programs come and *)
(* go while it waits.                                                      *)
(*                                                                         *)
(* The invariant looks ahead: bits and known tell what the bitmap and the  *)
(* set of loaders will be after each of the events that wait, so that each *)
(* write among them will be judged right, and what is known after the last *)
(* of them fits the programs that run now.                                 *)
(***************************************************************************)
EXTENDS Editors, SequenceTheorems, TLAPS

Executable == Program \cup Loader

ExecEvent == [type : {"exec"}, pid : Pid, file : Executable]
WriteEvent == [type : {"write"}, pid : Pid, byEditor : BOOLEAN]

Event == ExecEvent \cup WriteEvent

TypeOK ==
  /\ image \in [Pid -> Program \cup {None}]
  /\ opening \in [Pid -> Seq(Executable)]
  /\ events \in Seq(Event)
  /\ \E n \in Nat : bitmap \in [0..(n - 1) -> BOOLEAN]
  /\ elfInterpreters \subseteq Loader
  /\ up \in BOOLEAN
  /\ verdict \in [byEditor : BOOLEAN, taken : BOOLEAN]
  /\ crashes \in Nat
  /\ ~up => events = <<>> /\ crashes # 0

\* What an execve of x has yet to open, x being what then runs.
Openings(x) ==
  IF LoaderOf[x] = None
  THEN {<<>>, <<x>>} \cup {<<script, x>> : script \in Program}
  ELSE {<<>>, <<LoaderOf[x]>>, <<x, LoaderOf[x]>>}
         \cup {<<script, x, LoaderOf[x]>> : script \in Program}

OpeningIsRight ==
  \A p \in Pid : opening[p] # <<>> =>
    image[p] \in Program /\ opening[p] \in Openings(image[p])

BitsAfter(bits, known, event) ==
  IF event.type = "write" THEN bits
  ELSE IF event.file \in Editor THEN bits \cup {event.pid}
  ELSE IF event.file \in known THEN bits
  ELSE bits \ {event.pid}

KnownAfter(known, event) ==
  IF event.type = "exec" /\ event.file \in Editor
  THEN known \cup Interpreters(event.file)
  ELSE known

IsJudgedRight(bits, event) ==
  event.type = "write" =>
    /\ event.pid \in bits => event.byEditor
    /\ crashes = 0 /\ event.byEditor => event.pid \in bits

\* The program that runs has been opened; perhaps its loader has not.
HasOpened(p) == opening[p] = <<>> \/ Head(opening[p]) \in Loader

FitsProcess(bits, known, p) ==
  HasOpened(p) =>
    /\ image[p] # None =>
         /\ p \in bits => image[p] \in Editor
         /\ crashes = 0 /\ image[p] \in Editor => p \in bits
    /\ opening[p] # <<>> /\ p \in bits => Head(opening[p]) \in known

Foresees(bits, known) ==
  /\ bits \in [0..Len(events) -> SUBSET Pid]
  /\ known \in [0..Len(events) -> SUBSET Loader]
  /\ bits[0] = {p \in Pid : GetBit(p)}
  /\ known[0] = elfInterpreters
  /\ \A i \in 1..Len(events) :
       /\ bits[i] = BitsAfter(bits[i - 1], known[i - 1], events[i])
       /\ known[i] = KnownAfter(known[i - 1], events[i])
       /\ IsJudgedRight(bits[i], events[i])
  /\ \A p \in Pid : FitsProcess(bits[Len(events)], known[Len(events)], p)

BitmapIsRight == up => \E bits, known : Foresees(bits, known)

IInv == TypeOK /\ OpeningIsRight /\ BitmapIsRight /\ WritesAreJudgedRight

-----------------------------------------------------------------------------
\* What the assumptions on the constants say.
LEMMA Constants ==
  /\ Pid \subseteq Nat /\ Editor \subseteq Program
  /\ Program \cap Loader = {}
  /\ None \notin Program /\ None \notin Loader
  /\ \A x \in Program : LoaderOf[x] \in Loader \/ LoaderOf[x] = None
  BY EditorsAssumption

\* One element.
LEMMA OneElement ==
  ASSUME NEW S, NEW a \in S
  PROVE  <<a>> \in Seq(S)
  OBVIOUS

\* Two elements.
LEMMA Pair ==
  ASSUME NEW S, NEW a \in S, NEW b \in S
  PROVE  <<a>> \o <<b>> = <<a, b>>
  <1> DEFINE s == <<a>>
             t == Append(s, b)
             u == <<a, b>>
  <1>1. s \in Seq(S) /\ t \in Seq(S) /\ u \in Seq(S)
    OBVIOUS
  <1>2. Len(t) = 2 /\ t[1] = a /\ t[2] = b
    OBVIOUS
  <1>3. Len(u) = 2 /\ u[1] = a /\ u[2] = b
    OBVIOUS
  <1> HIDE DEF t, u
  <1>4. t = u
    <2>1. \A i \in 1..Len(t) : t[i] = u[i]
      BY <1>2, <1>3
    <2>2. Len(t) = Len(u)
      BY <1>2, <1>3
    <2> QED
      BY <1>1, <2>1, <2>2, SeqEqual
  <1>5. s \o <<b>> = t
    BY <1>1, AppendIsConcat DEF t
  <1> QED
    BY <1>4, <1>5 DEF s, t, u

\* Three elements.
LEMMA Triple ==
  ASSUME NEW S, NEW a \in S, NEW b \in S, NEW c \in S
  PROVE  <<a, b>> \o <<c>> = <<a, b, c>>
  <1> DEFINE s == <<a, b>>
             t == Append(s, c)
             u == <<a, b, c>>
  <1>1. s \in Seq(S) /\ t \in Seq(S) /\ u \in Seq(S)
    OBVIOUS
  <1>2. Len(t) = 3 /\ t[1] = a /\ t[2] = b /\ t[3] = c
    OBVIOUS
  <1>3. Len(u) = 3 /\ u[1] = a /\ u[2] = b /\ u[3] = c
    OBVIOUS
  <1> HIDE DEF t, u
  <1>4. t = u
    <2>1. \A i \in 1..Len(t) : t[i] = u[i]
      BY <1>2, <1>3
    <2>2. Len(t) = Len(u)
      BY <1>2, <1>3
    <2> QED
      BY <1>1, <2>1, <2>2, SeqEqual
  <1>5. s \o <<c>> = t
    BY <1>1, AppendIsConcat DEF t
  <1> QED
    BY <1>4, <1>5 DEF s, t, u

\* The kernel opens the script, the program and the loader.
LEMMA FilesAreOpenings ==
  ASSUME NEW x \in Program,
         NEW y, y = IF ShebangOf[x] = None THEN x ELSE ShebangOf[x]
  PROVE  /\ y \in Program
         /\ FilesOf(x) \in Openings(y) /\ FilesOf(x) \in Seq(Executable)
         /\ FilesOf(x) # <<>> /\ Head(FilesOf(x)) \in Program
  <1>1. y \in Program /\ (LoaderOf[y] \in Loader \/ LoaderOf[y] = None)
    BY EditorsAssumption
  <1>2. /\ x \in Executable /\ y \in Executable
        /\ LoaderOf[y] # None => LoaderOf[y] \in Executable
    BY <1>1 DEF Executable
  <1>3. CASE ShebangOf[x] = None /\ LoaderOf[y] = None
    <2>1. FilesOf(x) = (<<>> \o <<x>>) \o <<>> /\ y = x
      BY <1>3 DEF FilesOf
    <2>2. FilesOf(x) = <<x>>
      BY <1>2, <2>1, OneElement, ConcatEmptySeq
    <2> QED
      BY <1>1, <1>2, <1>3, <2>1, <2>2 DEF Openings
  <1>4. CASE ShebangOf[x] = None /\ LoaderOf[y] # None
    <2>1. FilesOf(x) = (<<>> \o <<x>>) \o <<LoaderOf[y]>> /\ y = x
      BY <1>4 DEF FilesOf
    <2>2. <<>> \o <<x>> = <<x>> /\ LoaderOf[y] \in Executable
      BY <1>2, <1>4, OneElement, ConcatEmptySeq
    <2>3. <<x>> \o <<LoaderOf[y]>> = <<x, LoaderOf[y]>>
      BY <1>2, <2>2, Pair
    <2>4. FilesOf(x) = <<y, LoaderOf[y]>>
      BY <2>1, <2>2, <2>3
    <2>5. FilesOf(x) \in Openings(y)
      BY <1>4, <2>4 DEF Openings
    <2>6. FilesOf(x) \in Seq(Executable)
      BY <1>2, <2>2, <2>4
    <2> QED
      BY <1>1, <2>1, <2>4, <2>5, <2>6
  <1>5. CASE ShebangOf[x] # None /\ LoaderOf[y] = None
    <2>1. FilesOf(x) = (<<x>> \o <<y>>) \o <<>>
      BY <1>5 DEF FilesOf
    <2>2. <<x, y>> \in Seq(Executable)
      BY <1>2
    <2>3. FilesOf(x) = <<x, y>>
      BY <1>2, <2>1, <2>2, Pair, ConcatEmptySeq
    <2> QED
      BY <1>1, <1>2, <1>5, <2>3 DEF Openings
  <1>6. CASE ShebangOf[x] # None /\ LoaderOf[y] # None
    <2>1. FilesOf(x) = (<<x>> \o <<y>>) \o <<LoaderOf[y]>>
      BY <1>6 DEF FilesOf
    <2>2. <<x>> \o <<y>> = <<x, y>> /\ LoaderOf[y] \in Executable
      BY <1>2, <1>6, Pair
    <2>3. <<x, y>> \o <<LoaderOf[y]>> = <<x, y, LoaderOf[y]>>
      BY <1>2, <2>2, Triple
    <2>4. FilesOf(x) = <<x, y, LoaderOf[y]>>
      BY <2>1, <2>2, <2>3
    <2> QED
      BY <1>1, <1>2, <1>6, <2>4 DEF Openings
  <1> QED
    BY <1>3, <1>4, <1>5, <1>6

\* One file of an execve is opened.
LEMMA OpeningStep ==
  ASSUME NEW x \in Program, NEW s \in Openings(x), s # <<>>
  PROVE  /\ Head(s) \in Executable /\ Tail(s) \in Openings(x)
         /\ Head(s) \in Loader => Tail(s) = <<>> /\ Head(s) = LoaderOf[x]
         /\ Head(s) \in Program /\ (Tail(s) = <<>> \/ Head(Tail(s)) \in Loader)
              => Head(s) = x
         /\ Tail(s) # <<>> /\ Head(Tail(s)) \in Loader => Head(Tail(s)) = LoaderOf[x]
  <1>1. /\ Program \cap Loader = {} /\ x \in Executable
        /\ LoaderOf[x] \in Loader \/ LoaderOf[x] = None
        /\ LoaderOf[x] # None => LoaderOf[x] \in Executable
    BY Constants DEF Executable
  <1>2. CASE LoaderOf[x] = None
    <2>1. CASE s = <<x>>
      <3>1. Head(s) = x /\ Tail(s) = <<>>
        BY <2>1
      <3> QED
        BY <1>1, <1>2, <3>1 DEF Openings
    <2>2. ASSUME NEW script \in Program, s = <<script, x>>
          PROVE  /\ Head(s) = script /\ Tail(s) = <<x>> /\ Head(Tail(s)) = x
      BY <2>2
    <2>3. CASE \E script \in Program : s = <<script, x>>
      BY <1>1, <1>2, <2>2, <2>3 DEF Openings, Executable
    <2> QED
      BY <1>2, <2>1, <2>3 DEF Openings
  <1>3. CASE LoaderOf[x] # None
    <2>1. CASE s = <<LoaderOf[x]>>
      <3>1. Head(s) = LoaderOf[x] /\ Tail(s) = <<>>
        BY <2>1
      <3> QED
        BY <1>1, <1>3, <3>1 DEF Openings
    <2>2. CASE s = <<x, LoaderOf[x]>>
      <3>1. Head(s) = x /\ Tail(s) = <<LoaderOf[x]>> /\ Head(Tail(s)) = LoaderOf[x]
        BY <2>2
      <3> QED
        BY <1>1, <1>3, <3>1 DEF Openings
    <2>3. ASSUME NEW script \in Program, s = <<script, x, LoaderOf[x]>>
          PROVE  Head(s) = script /\ Tail(s) = <<x, LoaderOf[x]>> /\ Head(Tail(s)) = x
      BY <2>3
    <2>4. CASE \E script \in Program : s = <<script, x, LoaderOf[x]>>
      BY <1>1, <1>3, <2>3, <2>4 DEF Openings, Executable
    <2> QED
      BY <1>3, <2>1, <2>2, <2>4 DEF Openings
  <1> QED
    BY <1>2, <1>3

\* Setting a bit, though the array may have to grow for it, changes no other.
LEMMA BitIsSet ==
  ASSUME TypeOK, NEW pid \in Nat, SetBit(pid)
  PROVE  /\ \E n \in Nat : bitmap' \in [0..(n - 1) -> BOOLEAN]
         /\ \A q \in Nat : GetBit(q)' <=> (q = pid \/ GetBit(q))
  <1>1. PICK n \in Nat : bitmap \in [0..(n - 1) -> BOOLEAN]
    BY DEF TypeOK
  <1>2. bitmap' = [Grown(pid) EXCEPT ![pid] = TRUE]
    BY DEF SetBit
  <1>3. CASE pid \in DOMAIN bitmap
    <2>1. bitmap' = [bitmap EXCEPT ![pid] = TRUE]
      BY <1>2, <1>3 DEF Grown
    <2>2. bitmap' \in [0..(n - 1) -> BOOLEAN]
      BY <1>1, <2>1
    <2> QED
      BY <1>1, <1>3, <2>1, <2>2 DEF GetBit
  <1>4. CASE pid \notin DOMAIN bitmap
    <2> DEFINE m == (pid + 1) * 2
    <2>1. m \in Nat /\ pid \in 0..(m - 1) /\ \A i \in 0..(n - 1) : i \in 0..(m - 1)
      BY <1>1, <1>4
    <2>2. bitmap' = [[i \in 0..(m - 1) |-> GetBit(i)] EXCEPT ![pid] = TRUE]
      BY <1>2, <1>4 DEF Grown
    <2> HIDE DEF m
    <2>3. \A i : GetBit(i) \in BOOLEAN
      BY <1>1 DEF GetBit
    <2>4. bitmap' \in [0..(m - 1) -> BOOLEAN]
      BY <2>1, <2>2, <2>3
    <2>5. \A q \in 0..(m - 1) : bitmap'[q] = (q = pid \/ GetBit(q))
      BY <2>1, <2>2, <2>3
    <2>6. \A q \in Nat : GetBit(q)' <=> (q = pid \/ GetBit(q))
      BY <1>1, <2>1, <2>4, <2>5 DEF GetBit
    <2> QED
      BY <2>1, <2>4, <2>6
  <1> QED
    BY <1>3, <1>4

\* Unsetting one neither.
LEMMA BitIsUnset ==
  ASSUME TypeOK, NEW pid \in Nat, UnsetBit(pid)
  PROVE  /\ \E n \in Nat : bitmap' \in [0..(n - 1) -> BOOLEAN]
         /\ \A q \in Nat : GetBit(q)' <=> (q # pid /\ GetBit(q))
  <1>1. PICK n \in Nat : bitmap \in [0..(n - 1) -> BOOLEAN]
    BY DEF TypeOK
  <1>2. bitmap' = [bitmap EXCEPT ![pid] = FALSE]
    BY DEF UnsetBit
  <1>3. bitmap' \in [0..(n - 1) -> BOOLEAN]
    BY <1>1, <1>2
  <1> QED
    BY <1>1, <1>2, <1>3 DEF GetBit

-----------------------------------------------------------------------------
\* What an event does to the bits and the loaders that are known.
LEMMA AfterTypes ==
  ASSUME NEW bits \in SUBSET Pid, NEW known \in SUBSET Loader,
         NEW event \in Event
  PROVE  /\ BitsAfter(bits, known, event) \in SUBSET Pid
         /\ KnownAfter(known, event) \in SUBSET Loader
  <1>1. event.pid \in Pid
    BY DEF Event, ExecEvent, WriteEvent
  <1>2. \A x : Interpreters(x) \subseteq Loader
    BY Constants DEF Interpreters
  <1> QED
    BY <1>1, <1>2 DEF BitsAfter, KnownAfter

\* An event more: the future is one step longer.
LEMMA AppendForesees ==
  ASSUME TypeOK, NEW bits, NEW known, Foresees(bits, known),
         NEW event \in Event, events' = Append(events, event),
         bitmap' = bitmap, elfInterpreters' = elfInterpreters,
         crashes' = crashes,
         NEW lastBits,
         lastBits = BitsAfter(bits[Len(events)], known[Len(events)], event),
         NEW lastKnown,
         lastKnown = KnownAfter(known[Len(events)], event),
         IsJudgedRight(lastBits, event),
         \A p \in Pid : FitsProcess(lastBits, lastKnown, p)'
  PROVE  (\E b, k : Foresees(b, k))'
  <1>n. PICK n : n = Len(events)
    OBVIOUS
  <1>b. PICK b : b = [i \in 0..(n + 1) |-> IF i = n + 1 THEN lastBits ELSE bits[i]]
    OBVIOUS
  <1>k. PICK k : k = [i \in 0..(n + 1) |-> IF i = n + 1 THEN lastKnown ELSE known[i]]
    OBVIOUS
  <1>1. /\ events \in Seq(Event) /\ n \in Nat /\ Len(events') = n + 1
        /\ events'[n + 1] = event
        /\ \A i \in 1..n : events'[i] = events[i]
    BY <1>n DEF TypeOK
  <1>2. /\ bits \in [0..n -> SUBSET Pid] /\ known \in [0..n -> SUBSET Loader]
        /\ bits[0] = {p \in Pid : GetBit(p)} /\ known[0] = elfInterpreters
        /\ \A i \in 1..n :
             /\ bits[i] = BitsAfter(bits[i - 1], known[i - 1], events[i])
             /\ known[i] = KnownAfter(known[i - 1], events[i])
             /\ IsJudgedRight(bits[i], events[i])
    BY <1>n DEF Foresees
  <1>3. lastBits \in SUBSET Pid /\ lastKnown \in SUBSET Loader
    <2>1. bits[n] \in SUBSET Pid /\ known[n] \in SUBSET Loader
      BY <1>1, <1>2
    <2> QED
      BY <1>n, <2>1, AfterTypes
  <1>4. /\ b \in [0..(n + 1) -> SUBSET Pid] /\ k \in [0..(n + 1) -> SUBSET Loader]
        /\ b[n + 1] = lastBits /\ k[n + 1] = lastKnown
        /\ \A i \in 0..n : b[i] = bits[i] /\ k[i] = known[i]
    BY <1>b, <1>k, <1>1, <1>2, <1>3
  <1>5. b[0] = {p \in Pid : GetBit(p)}' /\ k[0] = elfInterpreters'
    BY <1>1, <1>2, <1>4 DEF GetBit
  <1>6. ASSUME NEW i \in 1..(n + 1)
        PROVE  /\ b[i] = BitsAfter(b[i - 1], k[i - 1], events'[i])
               /\ k[i] = KnownAfter(k[i - 1], events'[i])
               /\ IsJudgedRight(b[i], events'[i])
    <2>1. CASE i \in 1..n
      <3>1. /\ i \in 0..n /\ i - 1 \in 0..n
            /\ b[i] = bits[i] /\ k[i] = known[i] /\ events'[i] = events[i]
            /\ b[i - 1] = bits[i - 1] /\ k[i - 1] = known[i - 1]
        BY <1>1, <1>4, <2>1
      <3> QED
        BY <1>2, <2>1, <3>1
    <2>2. CASE i = n + 1
      <3>1. i - 1 = n /\ n \in 0..n
        BY <1>1, <2>2
      <3>2. /\ events'[i] = event /\ b[i] = lastBits /\ k[i] = lastKnown
            /\ b[i - 1] = bits[n] /\ k[i - 1] = known[n]
        BY <1>1, <1>4, <2>2, <3>1
      <3> QED
        BY <1>n, <3>2
    <2> QED
      BY <1>1, <2>1, <2>2
  <1>7. \A i \in 1..(n + 1) : IsJudgedRight(b[i], events[i])'
    BY <1>6 DEF IsJudgedRight
  <1>8. \A p \in Pid : FitsProcess(b[n + 1], k[n + 1], p)'
    BY <1>4
  <1>9. Foresees(b, k)'
    BY <1>1, <1>4, <1>5, <1>6, <1>7, <1>8 DEF Foresees
  <1> QED
    BY <1>9

\* An event less: the future is what it was, if the daemon does what was expected.
LEMMA TailForesees ==
  ASSUME TypeOK, events # <<>>, events' = Tail(events),
         NEW bits, NEW known, Foresees(bits, known),
         image' = image, opening' = opening, crashes' = crashes,
         {p \in Pid : GetBit(p)}' = BitsAfter(bits[0], known[0], Head(events)),
         elfInterpreters' = KnownAfter(known[0], Head(events))
  PROVE  (\E b, k : Foresees(b, k))'
  <1>n. PICK n : n = Len(events)
    OBVIOUS
  <1>b. PICK b : b = [i \in 0..(n - 1) |-> bits[i + 1]]
    OBVIOUS
  <1>k. PICK k : k = [i \in 0..(n - 1) |-> known[i + 1]]
    OBVIOUS
  <1>1. /\ events \in Seq(Event) /\ n \in Nat \ {0} /\ Len(events') = n - 1
        /\ Head(events) = events[1]
        /\ \A i \in 1..(n - 1) : events'[i] = events[i + 1]
    BY <1>n DEF TypeOK
  <1>2. /\ bits \in [0..n -> SUBSET Pid] /\ known \in [0..n -> SUBSET Loader]
        /\ \A i \in 1..n :
             /\ bits[i] = BitsAfter(bits[i - 1], known[i - 1], events[i])
             /\ known[i] = KnownAfter(known[i - 1], events[i])
             /\ IsJudgedRight(bits[i], events[i])
        /\ \A p \in Pid : FitsProcess(bits[n], known[n], p)
    BY <1>n DEF Foresees
  <1>3. /\ b \in [0..(n - 1) -> SUBSET Pid] /\ k \in [0..(n - 1) -> SUBSET Loader]
        /\ \A i \in 0..(n - 1) : b[i] = bits[i + 1] /\ k[i] = known[i + 1]
    BY <1>b, <1>k, <1>1, <1>2
  <1>4. b[0] = {p \in Pid : GetBit(p)}' /\ k[0] = elfInterpreters'
    <2>1. 1 \in 1..n /\ 0 \in 0..(n - 1)
      BY <1>1
    <2>2. /\ bits[1] = BitsAfter(bits[1 - 1], known[1 - 1], events[1])
          /\ known[1] = KnownAfter(known[1 - 1], events[1])
      BY <1>2, <2>1
    <2>3. b[0] = bits[1] /\ k[0] = known[1]
      BY <1>3, <2>1
    <2> QED
      BY <1>1, <2>2, <2>3
  <1>5. ASSUME NEW i \in 1..(n - 1)
        PROVE  /\ b[i] = BitsAfter(b[i - 1], k[i - 1], events'[i])
               /\ k[i] = KnownAfter(k[i - 1], events'[i])
               /\ IsJudgedRight(b[i], events'[i])
    <2>1. i + 1 \in 1..n /\ i \in 0..(n - 1) /\ i - 1 \in 0..(n - 1)
      BY <1>1
    <2>2. (i + 1) - 1 = i /\ (i - 1) + 1 = i
      BY <1>1
    <2>3. /\ b[i] = bits[i + 1] /\ k[i] = known[i + 1]
          /\ b[i - 1] = bits[i] /\ k[i - 1] = known[i]
          /\ events'[i] = events[i + 1]
      BY <1>1, <1>3, <2>1, <2>2
    <2>4. /\ bits[i + 1] = BitsAfter(bits[(i + 1) - 1], known[(i + 1) - 1], events[i + 1])
          /\ known[i + 1] = KnownAfter(known[(i + 1) - 1], events[i + 1])
          /\ IsJudgedRight(bits[i + 1], events[i + 1])
      BY <1>2, <2>1
    <2> QED
      BY <2>2, <2>3, <2>4
  <1>6. \A i \in 1..(n - 1) : IsJudgedRight(b[i], events[i])'
    BY <1>5 DEF IsJudgedRight
  <1>7. \A p \in Pid : FitsProcess(b[n - 1], k[n - 1], p)'
    <2>1. b[n - 1] = bits[n] /\ k[n - 1] = known[n]
      BY <1>1, <1>3
    <2> QED
      BY <1>2, <2>1 DEF FitsProcess, HasOpened
  <1>8. Foresees(b, k)'
    BY <1>1, <1>3, <1>4, <1>5, <1>6, <1>7 DEF Foresees
  <1> QED
    BY <1>8

-----------------------------------------------------------------------------
\* No process runs and no bit is set.
LEMMA InitIInv ==
  ASSUME Init
  PROVE  IInv
  <1>1. <<>> \in Seq(Event) /\ <<>> \in Seq(Executable) /\ Len(<<>>) = 0
    OBVIOUS
  <1>2. bitmap \in [0..(SizeGuess - 1) -> BOOLEAN] /\ SizeGuess \in Nat
    BY EditorsAssumption DEF Init
  <1>3. TypeOK
    <2>1. verdict \in [byEditor : BOOLEAN, taken : BOOLEAN]
      BY DEF Init, NoVerdict
    <2> QED
      BY <1>1, <1>2, <2>1 DEF Init, TypeOK
  <1>4. OpeningIsRight
    BY DEF Init, OpeningIsRight
  <1>5. BitmapIsRight
    <2>1. \A p \in Pid : ~GetBit(p)
      BY DEF Init, GetBit
    <2> DEFINE b == [i \in 0..0 |-> {}]
    <2>2. /\ b \in [0..0 -> SUBSET Pid] /\ b \in [0..0 -> SUBSET Loader]
          /\ b[0] = {}
      OBVIOUS
    <2> HIDE DEF b
    <2>3. \A p \in Pid : FitsProcess({}, {}, p)
      BY DEF Init, FitsProcess
    <2>4. /\ Len(events) = 0 /\ elfInterpreters = {}
          /\ {p \in Pid : GetBit(p)} = {} /\ 1..0 = {}
      BY <1>1, <2>1 DEF Init
    <2>5. Foresees(b, b)
      BY <2>2, <2>3, <2>4 DEF Foresees
    <2> QED
      BY <2>5 DEF BitmapIsRight
  <1>6. WritesAreJudgedRight
    BY DEF Init, NoVerdict, WritesAreJudgedRight
  <1> QED
    BY <1>3, <1>4, <1>5, <1>6 DEF IInv

\* What waits does not depend on the processes.
LEMMA ProcessForesees ==
  ASSUME TypeOK, BitmapIsRight,
         events' = events, bitmap' = bitmap, up' = up,
         elfInterpreters' = elfInterpreters, crashes' = crashes,
         \A p \in Pid : \A b, k : FitsProcess(b, k, p) => FitsProcess(b, k, p)'
  PROVE  BitmapIsRight'
  <1>1. ASSUME NEW bits, NEW known, Foresees(bits, known)
        PROVE  Foresees(bits, known)'
    <2>1. PICK n : n = Len(events)
      OBVIOUS
    <2>2. \A p \in Pid : FitsProcess(bits[n], known[n], p)'
      BY <1>1, <2>1 DEF Foresees
    <2>3. {p \in Pid : GetBit(p)}' = {p \in Pid : GetBit(p)}
      BY DEF GetBit
    <2>4. \A i \in 1..n : IsJudgedRight(bits[i], events[i])'
      BY <1>1, <2>1 DEF Foresees, IsJudgedRight
    <2> QED
      BY <1>1, <2>1, <2>2, <2>3, <2>4 DEF Foresees
  <1> QED
    BY <1>1 DEF BitmapIsRight

\* The process has yet to open the program it runs.
LEMMA ExecKeeps ==
  ASSUME IInv, NEW p \in Pid, NEW x \in Program, Exec(p, x)
  PROVE  IInv'
  <1>1. PICK y : y = IF ShebangOf[x] = None THEN x ELSE ShebangOf[x]
    OBVIOUS
  <1>2. PICK s : s = FilesOf(x)
    OBVIOUS
  <1>3. /\ events' = events /\ bitmap' = bitmap /\ up' = up
        /\ elfInterpreters' = elfInterpreters /\ crashes' = crashes
        /\ verdict' = verdict
        /\ image' = [image EXCEPT ![p] = y]
        /\ opening' = [opening EXCEPT ![p] = s]
    BY <1>1, <1>2 DEF Exec, handler
  <1>4. TypeOK /\ OpeningIsRight /\ BitmapIsRight
    BY DEF IInv
  <1>5. /\ y \in Program /\ s \in Openings(y) /\ s \in Seq(Executable)
        /\ s # <<>> /\ Head(s) \notin Loader
    BY <1>1, <1>2, FilesAreOpenings, Constants
  <1>6. TypeOK'
    BY <1>3, <1>4, <1>5 DEF TypeOK
  <1>7. \A q \in Pid : IF q = p THEN image'[q] = y /\ opening'[q] = s
                       ELSE image'[q] = image[q] /\ opening'[q] = opening[q]
    BY <1>3, <1>4 DEF TypeOK
  <1>8. OpeningIsRight'
    BY <1>4, <1>5, <1>7 DEF OpeningIsRight
  <1>9. BitmapIsRight'
    <2>1. ASSUME NEW q \in Pid, NEW b, NEW k, FitsProcess(b, k, q)
          PROVE  FitsProcess(b, k, q)'
      BY <1>3, <1>5, <1>7, <2>1 DEF FitsProcess, HasOpened
    <2> QED
      BY <1>3, <1>4, <2>1, ProcessForesees
  <1>10. WritesAreJudgedRight'
    BY <1>3 DEF IInv, WritesAreJudgedRight
  <1> QED
    BY <1>6, <1>8, <1>9, <1>10 DEF IInv

\* No process, no program.
LEMMA ExitKeeps ==
  ASSUME IInv, NEW p \in Pid, Exit(p)
  PROVE  IInv'
  <1>1. /\ events' = events /\ bitmap' = bitmap /\ up' = up
        /\ elfInterpreters' = elfInterpreters /\ crashes' = crashes
        /\ verdict' = verdict /\ opening' = opening /\ opening[p] = <<>>
        /\ image' = [image EXCEPT ![p] = None]
    BY DEF Exit, handler
  <1>2. TypeOK /\ OpeningIsRight /\ BitmapIsRight
    BY DEF IInv
  <1>3. TypeOK'
    BY <1>1, <1>2 DEF TypeOK
  <1>4. \A q \in Pid : image'[q] = IF q = p THEN None ELSE image[q]
    BY <1>1, <1>2 DEF TypeOK
  <1>5. OpeningIsRight'
    BY <1>1, <1>2, <1>4 DEF OpeningIsRight
  <1>6. BitmapIsRight'
    <2>1. ASSUME NEW q \in Pid, NEW b, NEW k, FitsProcess(b, k, q)
          PROVE  FitsProcess(b, k, q)'
      BY <1>1, <1>4, <2>1 DEF FitsProcess, HasOpened
    <2> QED
      BY <1>1, <1>2, <2>1, ProcessForesees
  <1>7. WritesAreJudgedRight'
    BY <1>1 DEF IInv, WritesAreJudgedRight
  <1> QED
    BY <1>3, <1>5, <1>6, <1>7 DEF IInv

\* After the program and after its loader, the last event of the process leaves
\* the bit as it is to be.
LEMMA OpenKeeps ==
  ASSUME IInv, NEW p \in Pid, Open(p)
  PROVE  IInv'
  <1>1. PICK s : s = opening[p]
    OBVIOUS
  <1>2. PICK event : event = [type |-> "exec", pid |-> p, file |-> Head(s)]
    OBVIOUS
  <1>3. /\ image' = image /\ bitmap' = bitmap /\ up' = up
        /\ elfInterpreters' = elfInterpreters /\ crashes' = crashes
        /\ verdict' = verdict
        /\ s # <<>> /\ opening' = [opening EXCEPT ![p] = Tail(s)]
        /\ events' = IF up THEN Append(events, event) ELSE events
    BY <1>1, <1>2 DEF Open, Notify, handler
  <1>4. TypeOK /\ OpeningIsRight /\ BitmapIsRight
    BY DEF IInv
  <1>5. PICK x : x = image[p]
    OBVIOUS
  <1>6. x \in Program /\ s \in Openings(x) /\ s \in Seq(Executable)
    BY <1>1, <1>3, <1>4, <1>5 DEF OpeningIsRight, TypeOK
  <1>7. /\ Head(s) \in Executable /\ Tail(s) \in Openings(x)
        /\ Tail(s) \in Seq(Executable)
        /\ Head(s) \in Loader => Tail(s) = <<>> /\ Head(s) = LoaderOf[x]
        /\ Head(s) \in Program /\ (Tail(s) = <<>> \/ Head(Tail(s)) \in Loader)
             => Head(s) = x
        /\ Tail(s) # <<>> /\ Head(Tail(s)) \in Loader => Head(Tail(s)) = LoaderOf[x]
    BY <1>3, <1>6, OpeningStep
  <1>8. event \in Event
    BY <1>2, <1>7 DEF Event, ExecEvent
  <1>9. \A q \in Pid : opening'[q] = IF q = p THEN Tail(s) ELSE opening[q]
    BY <1>3, <1>4 DEF TypeOK
  <1>10. TypeOK'
    <2>1. opening' \in [Pid -> Seq(Executable)]
      BY <1>3, <1>4, <1>7 DEF TypeOK
    <2>2. events' \in Seq(Event)
      BY <1>3, <1>4, <1>8 DEF TypeOK
    <2> QED
      BY <1>3, <1>4, <2>1, <2>2 DEF TypeOK
  <1>11. OpeningIsRight'
    BY <1>3, <1>4, <1>5, <1>6, <1>7, <1>9 DEF OpeningIsRight
  <1>12. BitmapIsRight'
    <2>1. SUFFICES ASSUME up
                   PROVE  (\E b, k : Foresees(b, k))'
      BY <1>3 DEF BitmapIsRight
    <2>2. PICK bits, known : Foresees(bits, known)
      BY <1>4, <2>1 DEF BitmapIsRight
    <2>3. PICK b : b = bits[Len(events)]
      OBVIOUS
    <2>4. PICK k : k = known[Len(events)]
      OBVIOUS
    <2>5. PICK lastBits : lastBits = BitsAfter(b, k, event)
      OBVIOUS
    <2>6. PICK lastKnown : lastKnown = KnownAfter(k, event)
      OBVIOUS
    <2>7. k \subseteq Loader /\ \A q \in Pid : FitsProcess(b, k, q)
      <3>1. Len(events) \in 0..Len(events)
        BY <1>4 DEF TypeOK
      <3> QED
        BY <2>2, <2>3, <2>4, <3>1 DEF Foresees
    <2>8. event.type = "exec" /\ event.pid = p /\ event.file = Head(s)
      BY <1>2
    <2>9. ASSUME NEW q \in Pid, q # p
          PROVE  FitsProcess(lastBits, lastKnown, q)'
      <3>1. k \subseteq lastKnown /\ (q \in lastBits <=> q \in b)
        BY <2>5, <2>6, <2>8, <2>9 DEF BitsAfter, KnownAfter
      <3>2. FitsProcess(b, k, q) /\ opening'[q] = opening[q]
        BY <1>9, <2>7, <2>9
      <3> QED
        BY <1>3, <3>1, <3>2 DEF FitsProcess, HasOpened
    <2>10. FitsProcess(lastBits, lastKnown, p)'
      <3>1. CASE Head(s) \in Program
        <4>1. p \in lastBits <=> Head(s) \in Editor
          BY <2>5, <2>7, <2>8, <3>1, Constants DEF BitsAfter
        <4>2. ASSUME Tail(s) # <<>>, Head(Tail(s)) \in Loader, p \in lastBits
              PROVE  Head(Tail(s)) \in lastKnown
          <5>1. Head(s) = x /\ x \in Editor /\ Head(Tail(s)) = LoaderOf[x]
            BY <1>7, <3>1, <4>1, <4>2
          <5>2. LoaderOf[x] \in Interpreters(x)
            BY <1>6, <4>2, <5>1, Constants DEF Interpreters
          <5> QED
            BY <2>6, <2>8, <5>1, <5>2 DEF KnownAfter
        <4> QED
          BY <1>3, <1>5, <1>7, <1>9, <3>1, <4>1, <4>2 DEF FitsProcess, HasOpened
      <3>2. CASE Head(s) \in Loader
        <4>1. FitsProcess(b, k, p) /\ HasOpened(p)
          BY <1>1, <2>7, <3>2 DEF HasOpened
        <4>2. Head(s) \notin Editor /\ (p \in b => Head(s) \in k)
          BY <1>1, <1>3, <3>2, <4>1, Constants DEF FitsProcess
        <4>3. p \in lastBits <=> p \in b
          BY <2>5, <2>8, <4>2 DEF BitsAfter
        <4>4. opening'[p] = <<>>
          BY <1>7, <1>9, <3>2
        <4> QED
          BY <1>3, <4>1, <4>3, <4>4 DEF FitsProcess, HasOpened
      <3> QED
        BY <1>7, <3>1, <3>2 DEF Executable
    <2>11. IsJudgedRight(lastBits, event)
      BY <2>8 DEF IsJudgedRight
    <2>12. events' = Append(events, event)
      BY <1>3, <2>1
    <2>13. \A q \in Pid : FitsProcess(lastBits, lastKnown, q)'
      BY <2>9, <2>10
    <2> QED
      BY <1>3, <1>4, <1>8, <2>2, <2>3, <2>4, <2>5, <2>6, <2>11, <2>12, <2>13,
         AppendForesees
  <1>13. WritesAreJudgedRight'
    BY <1>3 DEF IInv, WritesAreJudgedRight
  <1> QED
    BY <1>10, <1>11, <1>12, <1>13 DEF IInv

\* A write comes when the process has opened all, so that the bit will be right.
LEMMA WriteKeeps ==
  ASSUME IInv, NEW p \in Pid, Write(p)
  PROVE  IInv'
  <1>1. PICK event : event = [type |-> "write", pid |-> p,
                              byEditor |-> image[p] \in Editor]
    OBVIOUS
  <1>2. /\ image' = image /\ bitmap' = bitmap /\ up' = up
        /\ elfInterpreters' = elfInterpreters /\ crashes' = crashes
        /\ verdict' = verdict /\ opening' = opening
        /\ image[p] # None /\ opening[p] = <<>>
        /\ events' = IF up THEN Append(events, event) ELSE events
    BY <1>1 DEF Write, Notify, handler
  <1>3. TypeOK /\ OpeningIsRight /\ BitmapIsRight
    BY DEF IInv
  <1>4. /\ event \in Event /\ event.type = "write" /\ event.pid = p
        /\ event.byEditor <=> image[p] \in Editor
    <2>1. PICK w \in BOOLEAN : w <=> image[p] \in Editor
      OBVIOUS
    <2>2. event = [type |-> "write", pid |-> p, byEditor |-> w]
      BY <1>1, <2>1
    <2>3. event \in Event /\ event.type = "write" /\ event.pid = p
      BY <2>2 DEF Event, WriteEvent
    <2>4. event.byEditor = w
      BY <2>2
    <2> QED
      BY <2>1, <2>3, <2>4
  <1>5. TypeOK'
    <2>1. events' \in Seq(Event)
      BY <1>2, <1>3, <1>4 DEF TypeOK
    <2> QED
      BY <1>2, <1>3, <2>1 DEF TypeOK
  <1>6. OpeningIsRight'
    BY <1>2, <1>3 DEF OpeningIsRight
  <1>7. BitmapIsRight'
    <2>1. SUFFICES ASSUME up
                   PROVE  (\E b, k : Foresees(b, k))'
      BY <1>2 DEF BitmapIsRight
    <2>2. PICK bits, known : Foresees(bits, known)
      BY <1>3, <2>1 DEF BitmapIsRight
    <2>3. PICK b : b = bits[Len(events)]
      OBVIOUS
    <2>4. PICK k : k = known[Len(events)]
      OBVIOUS
    <2>5. b = BitsAfter(b, k, event) /\ k = KnownAfter(k, event)
      BY <1>4 DEF BitsAfter, KnownAfter
    <2>6. \A q \in Pid : FitsProcess(b, k, q)
      BY <2>2, <2>3, <2>4 DEF Foresees
    <2>7. IsJudgedRight(b, event)
      BY <1>2, <1>4, <2>6 DEF FitsProcess, HasOpened, IsJudgedRight
    <2>8. \A q \in Pid : FitsProcess(b, k, q)'
      BY <1>2, <2>6 DEF FitsProcess, HasOpened
    <2>9. events' = Append(events, event)
      BY <1>2, <2>1
    <2> QED
      BY <1>2, <1>3, <1>4, <2>2, <2>3, <2>4, <2>5, <2>7, <2>8, <2>9,
         AppendForesees
  <1>8. WritesAreJudgedRight'
    BY <1>2 DEF IInv, WritesAreJudgedRight
  <1> QED
    BY <1>5, <1>6, <1>7, <1>8 DEF IInv

-----------------------------------------------------------------------------
\* The event that is handled.
LEMMA HeadIsEvent ==
  ASSUME TypeOK, events # <<>>
  PROVE  /\ Head(events) \in Event /\ Head(events).pid \in Pid
         /\ Head(events).pid \in Nat
         /\ Tail(events) \in Seq(Event)
         /\ Head(events) = events[1] /\ 1 \in 1..Len(events)
  <1>1. /\ Head(events) \in Event /\ Tail(events) \in Seq(Event)
        /\ Head(events) = events[1] /\ 1 \in 1..Len(events)
    BY DEF TypeOK
  <1>2. Head(events).pid \in Pid
    BY <1>1 DEF Event, ExecEvent, WriteEvent
  <1> QED
    BY <1>1, <1>2, Constants

\* The daemon does to the bitmap and the set of loaders what was expected.
LEMMA HandlingForesees ==
  ASSUME TypeOK, BitmapIsRight, up, events # <<>>, events' = Tail(events),
         image' = image, opening' = opening, crashes' = crashes,
         \A b, k : /\ b = {p \in Pid : GetBit(p)} /\ k = elfInterpreters
                   => /\ {p \in Pid : GetBit(p)}' = BitsAfter(b, k, Head(events))
                      /\ elfInterpreters' = KnownAfter(k, Head(events))
  PROVE  BitmapIsRight'
  <1>1. PICK bits, known : Foresees(bits, known)
    BY DEF BitmapIsRight
  <1>2. bits[0] = {p \in Pid : GetBit(p)} /\ known[0] = elfInterpreters
    BY <1>1 DEF Foresees
  <1>3. /\ {p \in Pid : GetBit(p)}' = BitsAfter(bits[0], known[0], Head(events))
        /\ elfInterpreters' = KnownAfter(known[0], Head(events))
    BY <1>2
  <1>4. (\E b, k : Foresees(b, k))'
    BY <1>1, <1>3, TailForesees
  <1> QED
    BY <1>4 DEF BitmapIsRight

\* An editor starts.
LEMMA RegisterEditorKeeps ==
  ASSUME IInv, RegisterEditor
  PROVE  IInv'
  <1>1. PICK event : event = Head(events)
    OBVIOUS
  <1>2. /\ image' = image /\ opening' = opening /\ up' = up /\ up
        /\ crashes' = crashes /\ verdict' = verdict
        /\ events # <<>> /\ events' = Tail(events)
        /\ event.type = "exec" /\ event.file \in Editor
        /\ SetBit(event.pid)
        /\ elfInterpreters' = elfInterpreters \cup Interpreters(event.file)
    BY <1>1 DEF RegisterEditor, NextEvent
  <1>3. TypeOK /\ OpeningIsRight /\ BitmapIsRight
    BY DEF IInv
  <1>4. event.pid \in Pid /\ event.pid \in Nat /\ Tail(events) \in Seq(Event)
    BY <1>1, <1>2, <1>3, HeadIsEvent
  <1>5. /\ \E n \in Nat : bitmap' \in [0..(n - 1) -> BOOLEAN]
        /\ \A q \in Nat : GetBit(q)' <=> (q = event.pid \/ GetBit(q))
    BY <1>2, <1>3, <1>4, BitIsSet
  <1>6. TypeOK'
    <2>1. elfInterpreters' \subseteq Loader
      BY <1>2, <1>3, Constants DEF TypeOK, Interpreters
    <2> QED
      BY <1>2, <1>3, <1>4, <1>5, <2>1 DEF TypeOK
  <1>7. BitmapIsRight'
    <2>1. \A q \in Pid : GetBit(q)' <=> (q = event.pid \/ GetBit(q))
      BY <1>5, Constants
    <2>2. ASSUME NEW b, NEW k, b = {p \in Pid : GetBit(p)}, k = elfInterpreters
          PROVE  /\ {p \in Pid : GetBit(p)}' = BitsAfter(b, k, event)
                 /\ elfInterpreters' = KnownAfter(k, event)
      <3>1. {p \in Pid : GetBit(p)}' = b \cup {event.pid}
        BY <1>4, <2>1, <2>2
      <3> QED
        BY <1>2, <2>2, <3>1 DEF BitsAfter, KnownAfter
    <2> QED
      BY <1>1, <1>2, <1>3, <2>2, HandlingForesees
  <1>8. OpeningIsRight' /\ WritesAreJudgedRight'
    BY <1>2 DEF IInv, OpeningIsRight, WritesAreJudgedRight
  <1> QED
    BY <1>6, <1>7, <1>8 DEF IInv

\* Another program starts, or what an editor opens.
LEMMA HandleOtherExecKeeps ==
  ASSUME IInv, HandleOtherExec
  PROVE  IInv'
  <1>1. PICK event : event = Head(events)
    OBVIOUS
  <1>2. /\ image' = image /\ opening' = opening /\ up' = up /\ up
        /\ crashes' = crashes /\ verdict' = verdict
        /\ elfInterpreters' = elfInterpreters
        /\ events # <<>> /\ events' = Tail(events)
        /\ event.type = "exec" /\ event.file \notin Editor
        /\ IF GetBit(event.pid) /\ event.file \notin elfInterpreters
           THEN UnsetBit(event.pid) ELSE bitmap' = bitmap
    BY <1>1 DEF HandleOtherExec, NextEvent, IsOtherProgram
  <1>3. TypeOK /\ OpeningIsRight /\ BitmapIsRight
    BY DEF IInv
  <1>4. event.pid \in Pid /\ event.pid \in Nat /\ Tail(events) \in Seq(Event)
    BY <1>1, <1>2, <1>3, HeadIsEvent
  <1>5. /\ \E n \in Nat : bitmap' \in [0..(n - 1) -> BOOLEAN]
        /\ \A q \in Nat :
             GetBit(q)' <=> IF event.file \in elfInterpreters THEN GetBit(q)
                            ELSE q # event.pid /\ GetBit(q)
    <2>1. CASE GetBit(event.pid) /\ event.file \notin elfInterpreters
      BY <1>2, <1>3, <1>4, <2>1, BitIsUnset
    <2>2. CASE ~(GetBit(event.pid) /\ event.file \notin elfInterpreters)
      <3>1. bitmap' = bitmap
        BY <1>2, <2>2
      <3>2. \A q \in Nat : GetBit(q)' <=> GetBit(q)
        BY <3>1 DEF GetBit
      <3>3. \E n \in Nat : bitmap' \in [0..(n - 1) -> BOOLEAN]
        BY <1>3, <3>1 DEF TypeOK
      <3> QED
        BY <2>2, <3>2, <3>3
    <2> QED
      BY <2>1, <2>2
  <1>6. TypeOK'
    BY <1>2, <1>3, <1>4, <1>5 DEF TypeOK
  <1>7. BitmapIsRight'
    <2>1. \A q \in Pid :
            GetBit(q)' <=> IF event.file \in elfInterpreters THEN GetBit(q)
                           ELSE q # event.pid /\ GetBit(q)
      BY <1>5, Constants
    <2>2. ASSUME NEW b, NEW k, b = {p \in Pid : GetBit(p)}, k = elfInterpreters
          PROVE  /\ {p \in Pid : GetBit(p)}' = BitsAfter(b, k, event)
                 /\ elfInterpreters' = KnownAfter(k, event)
      <3>1. {p \in Pid : GetBit(p)}' =
              IF event.file \in k THEN b ELSE b \ {event.pid}
        BY <2>1, <2>2
      <3> QED
        BY <1>2, <2>2, <3>1 DEF BitsAfter, KnownAfter
    <2> QED
      BY <1>1, <1>2, <1>3, <2>2, HandlingForesees
  <1>8. OpeningIsRight' /\ WritesAreJudgedRight'
    BY <1>2 DEF IInv, OpeningIsRight, WritesAreJudgedRight
  <1> QED
    BY <1>6, <1>7, <1>8 DEF IInv

\* The bit is what the write needs.
LEMMA JudgeKeeps ==
  ASSUME IInv, Judge
  PROVE  IInv'
  <1>1. PICK event : event = Head(events)
    OBVIOUS
  <1>2. /\ image' = image /\ opening' = opening /\ up' = up /\ up
        /\ crashes' = crashes /\ bitmap' = bitmap
        /\ elfInterpreters' = elfInterpreters
        /\ events # <<>> /\ events' = Tail(events)
        /\ event.type = "write"
        /\ verdict' = [byEditor |-> event.byEditor, taken |-> GetBit(event.pid)]
    BY <1>1 DEF Judge, NextEvent, handler
  <1>3. TypeOK /\ OpeningIsRight /\ BitmapIsRight
    BY DEF IInv
  <1>4. /\ event \in Event /\ event.pid \in Pid /\ Tail(events) \in Seq(Event)
        /\ event = events[1] /\ 1 \in 1..Len(events)
    BY <1>1, <1>2, <1>3, HeadIsEvent
  <1>5. event.byEditor \in BOOLEAN
    BY <1>2, <1>4 DEF Event, ExecEvent, WriteEvent
  <1>6. GetBit(event.pid) \in BOOLEAN
    BY <1>3 DEF TypeOK, GetBit
  <1>7. TypeOK'
    <2>1. verdict' \in [byEditor : BOOLEAN, taken : BOOLEAN]
      BY <1>2, <1>5, <1>6
    <2> QED
      BY <1>2, <1>3, <1>4, <2>1 DEF TypeOK
  <1>8. BitmapIsRight'
    <2>1. {p \in Pid : GetBit(p)}' = {p \in Pid : GetBit(p)}
      BY <1>2 DEF GetBit
    <2>2. ASSUME NEW b, NEW k, b = {p \in Pid : GetBit(p)}, k = elfInterpreters
          PROVE  /\ {p \in Pid : GetBit(p)}' = BitsAfter(b, k, event)
                 /\ elfInterpreters' = KnownAfter(k, event)
      BY <1>2, <2>1, <2>2 DEF BitsAfter, KnownAfter
    <2> QED
      BY <1>1, <1>2, <1>3, <2>2, HandlingForesees
  <1>9. WritesAreJudgedRight'
    <2>1. PICK bits, known : Foresees(bits, known)
      BY <1>2, <1>3 DEF BitmapIsRight
    <2>2. /\ bits[1] = BitsAfter(bits[1 - 1], known[1 - 1], events[1])
          /\ IsJudgedRight(bits[1], events[1])
          /\ bits[0] = {p \in Pid : GetBit(p)}
      BY <1>4, <2>1 DEF Foresees
    <2>3. bits[1] = {p \in Pid : GetBit(p)}
      BY <1>2, <1>4, <2>2 DEF BitsAfter
    <2>4. /\ GetBit(event.pid) => event.byEditor
          /\ crashes = 0 /\ event.byEditor => GetBit(event.pid)
      BY <1>2, <1>4, <2>2, <2>3 DEF IsJudgedRight
    <2>5. verdict'.byEditor = event.byEditor /\ verdict'.taken = GetBit(event.pid)
      BY <1>2
    <2> QED
      BY <1>2, <2>4, <2>5 DEF WritesAreJudgedRight
  <1>10. OpeningIsRight'
    BY <1>2, <1>3 DEF OpeningIsRight
  <1> QED
    BY <1>7, <1>8, <1>9, <1>10 DEF IInv

-----------------------------------------------------------------------------
\* Nothing is foreseen of a daemon that does not run.
LEMMA CrashKeeps ==
  ASSUME IInv, Crash
  PROVE  IInv'
  <1>1. /\ image' = image /\ opening' = opening /\ bitmap' = bitmap
        /\ elfInterpreters' = elfInterpreters /\ verdict' = verdict
        /\ up' = FALSE /\ events' = <<>> /\ crashes' = crashes + 1
    BY DEF Crash, handler
  <1>2. \A S : <<>> \in Seq(S)
    OBVIOUS
  <1>3. TypeOK
    BY DEF IInv
  <1>4. crashes \in Nat
    BY <1>3 DEF TypeOK
  <1>5. crashes' \in Nat /\ crashes' # 0
    BY <1>1, <1>4
  <1>6. TypeOK'
    BY <1>1, <1>2, <1>3, <1>5 DEF TypeOK
  <1>7. OpeningIsRight' /\ BitmapIsRight' /\ WritesAreJudgedRight'
    BY <1>1, <1>5 DEF IInv, OpeningIsRight, BitmapIsRight, WritesAreJudgedRight
  <1> QED
    BY <1>6, <1>7 DEF IInv

\* It starts with no bit set, whatever the processes have opened meanwhile.
LEMMA RestartKeeps ==
  ASSUME IInv, Restart
  PROVE  IInv'
  <1>1. /\ image' = image /\ opening' = opening /\ events' = events
        /\ verdict' = verdict /\ crashes' = crashes /\ ~up /\ up' = TRUE
        /\ bitmap' = [pid \in 0..(SizeGuess - 1) |-> FALSE]
        /\ elfInterpreters' = {}
    BY DEF Restart, Load
  <1>2. TypeOK /\ events = <<>> /\ crashes # 0 /\ SizeGuess \in Nat
    BY <1>1, EditorsAssumption DEF IInv, TypeOK
  <1>3. bitmap' \in [0..(SizeGuess - 1) -> BOOLEAN]
    BY <1>1
  <1>4. TypeOK'
    BY <1>1, <1>2, <1>3 DEF TypeOK
  <1>5. BitmapIsRight'
    <2>1. \A p \in Pid : ~GetBit(p)'
      BY <1>1 DEF GetBit
    <2>2. PICK b : b = [i \in 0..0 |-> {}]
      OBVIOUS
    <2>3. /\ b \in [0..0 -> SUBSET Pid] /\ b \in [0..0 -> SUBSET Loader]
          /\ b[0] = {}
      BY <2>2
    <2>4. \A p \in Pid : FitsProcess({}, {}, p)'
      BY <1>1, <1>2 DEF FitsProcess
    <2>5. Len(events') = 0 /\ {p \in Pid : GetBit(p)}' = {} /\ 1..0 = {}
      BY <1>1, <1>2, <2>1
    <2>6. Foresees(b, b)'
      BY <1>1, <2>3, <2>4, <2>5 DEF Foresees
    <2> QED
      BY <2>6 DEF BitmapIsRight
  <1>6. OpeningIsRight' /\ WritesAreJudgedRight'
    BY <1>1 DEF IInv, OpeningIsRight, WritesAreJudgedRight
  <1> QED
    BY <1>4, <1>5, <1>6 DEF IInv

\* No step breaks the invariant.
LEMMA NextIInv ==
  ASSUME IInv, [Next]_vars
  PROVE  IInv'
  <1>1. CASE \E p \in Pid, x \in Program : Exec(p, x)
    BY <1>1, ExecKeeps
  <1>2. CASE \E p \in Pid : Open(p) \/ Write(p) \/ Exit(p)
    BY <1>2, OpenKeeps, WriteKeeps, ExitKeeps
  <1>3. CASE RegisterEditor \/ HandleOtherExec \/ Judge
    BY <1>3, RegisterEditorKeeps, HandleOtherExecKeeps, JudgeKeeps
  <1>4. CASE Crash \/ Restart
    BY <1>4, CrashKeeps, RestartKeeps
  <1>5. CASE UNCHANGED vars
    <2>1. /\ image' = image /\ opening' = opening /\ events' = events
          /\ bitmap' = bitmap /\ elfInterpreters' = elfInterpreters
          /\ up' = up /\ verdict' = verdict /\ crashes' = crashes
      BY <1>5 DEF vars, handler
    <2>2. TypeOK /\ BitmapIsRight
      BY DEF IInv
    <2>3. \A p \in Pid : \A b, k : FitsProcess(b, k, p) => FitsProcess(b, k, p)'
      BY <2>1 DEF FitsProcess, HasOpened
    <2>4. BitmapIsRight'
      BY <2>1, <2>2, <2>3, ProcessForesees
    <2>5. TypeOK' /\ OpeningIsRight' /\ WritesAreJudgedRight'
      BY <2>1 DEF IInv, TypeOK, OpeningIsRight, WritesAreJudgedRight
    <2> QED
      BY <2>4, <2>5 DEF IInv
  <1> QED
    BY <1>1, <1>2, <1>3, <1>4, <1>5 DEF Next

\* The inductive invariant: bitmap, loaders, events and processes fit together
\* in every reachable state.
THEOREM Invariance == Spec => []IInv
  <1>1. Init => IInv
    BY InitIInv
  <1>2. IInv /\ [Next]_vars => IInv'
    BY NextIInv
  <1> QED
    BY <1>1, <1>2, PTL DEF Spec

\* handle_open_exec sets and unsets bits such that push_to_linq takes a write for
\* an editor's only if it is one, for any number of processes, programs, scripts
\* and loaders, and for every such write unless the daemon has crashed.
THEOREM EditorsAreTold == Spec => []WritesAreJudgedRight
  <1>1. IInv => WritesAreJudgedRight
    BY DEF IInv
  <1> QED
    BY <1>1, Invariance, PTL
=============================================================================
