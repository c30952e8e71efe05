----------------------------- MODULE LinqProofs -----------------------------
(***************************************************************************)
(* Proofs about the write queue, for all values of its constants: the      *)
(* inductive invariant, the safety properties of Linq that follow from it, *)
(* and that Linq implements Debounce.                                      *)
(***************************************************************************)
EXTENDS Linq, FiniteSetTheorems, TLAPS

\* The inductive invariant: what the run checks of single states, and that the
\* head which is handed out is the last entry of its path.
IInv ==
  /\ TypeOK
  /\ Contiguous
  /\ MemoryIsDirectory
  /\ MtimeIsFresh
  /\ ReadyHeadIsLast

-----------------------------------------------------------------------------
\* Consecutive names and their number: what scandir reports determines them.
LEMMA IntervalSize ==
  ASSUME NEW lo \in Nat, NEW n \in Nat
  PROVE  /\ IsFiniteSet(lo..(lo + n - 1))
         /\ Cardinality(lo..(lo + n - 1)) = n
  <1>1. lo \in Int /\ lo + n - 1 \in Int
    OBVIOUS
  <1>2. /\ IsFiniteSet(lo..(lo + n - 1))
        /\ Cardinality(lo..(lo + n - 1)) =
             IF lo > lo + n - 1 THEN 0 ELSE (lo + n - 1) - lo + 1
    BY <1>1, FS_Interval
  <1> QED
    BY <1>2

\* A directory with consecutive names has no gap.
LEMMA IntervalIsContiguous ==
  ASSUME NEW S, NEW lo \in Nat, NEW n \in Nat, S = lo..(lo + n - 1)
  PROVE  S # {} => \E i \in S : S = i..(i + Cardinality(S) - 1)
  <1>1. Cardinality(S) = n
    BY IntervalSize
  <1>2. ASSUME S # {} PROVE lo \in S
    BY <1>2
  <1> QED
    BY <1>1, <1>2

\* The entries of one path are finitely many.
LEMMA IndexesOfFinite ==
  ASSUME IsFiniteSet(Indexes), NEW p
  PROVE  /\ IsFiniteSet(IndexesOf(p))
         /\ Cardinality(IndexesOf(p)) \in Nat
  BY FS_Subset, FS_CardinalityType DEF IndexesOf

\* What a new link changes in the directory (symlinkat).
LEMMA LinkMade ==
  ASSUME TypeOK, NEW i \in Nat, i \notin Indexes,
         NEW mark \in {"/", "!"}, NEW p \in Path,
         entries' = With(i, PushedEntry(mark, p))
  PROVE  /\ Indexes' = Indexes \cup {i}
         /\ IsFiniteSet(Indexes')
         /\ entries' \in [Indexes' -> Entry]
         /\ entries'[i] = PushedEntry(mark, p)
         /\ \A j \in Indexes : entries'[j] = entries[j]
         /\ IndexesOf(p)' = IndexesOf(p) \cup {i}
         /\ \A q \in Path \ {p} : IndexesOf(q)' = IndexesOf(q)
         /\ Cardinality(IndexesOf(p)') = Cardinality(IndexesOf(p)) + 1
  <1>1. Indexes' = Indexes \cup {i}
    BY DEF With, Indexes
  <1>2. IsFiniteSet(Indexes')
    BY <1>1, FS_AddElement DEF TypeOK
  <1>3. entries'[i] = PushedEntry(mark, p)
    BY DEF With, Indexes
  <1>4. \A j \in Indexes : entries'[j] = entries[j]
    BY DEF With, Indexes
  <1>5. PushedEntry(mark, p) \in Entry
    BY DEF TypeOK, PushedEntry, Entry
  <1>6. entries' \in [Indexes' -> Entry]
    BY <1>5 DEF With, Indexes, TypeOK
  <1>7. IndexesOf(p)' = IndexesOf(p) \cup {i}
    BY <1>1, <1>3, <1>4 DEF IndexesOf, PushedEntry
  <1>8. \A q \in Path \ {p} : IndexesOf(q)' = IndexesOf(q)
    BY <1>1, <1>3, <1>4 DEF IndexesOf, PushedEntry
  <1>9. Cardinality(IndexesOf(p)') = Cardinality(IndexesOf(p)) + 1
    <2>1. IsFiniteSet(IndexesOf(p))
      BY IndexesOfFinite DEF TypeOK
    <2>2. i \notin IndexesOf(p)
      BY DEF IndexesOf
    <2> QED
      BY <1>7, <2>1, <2>2, FS_AddElement
  <1> QED
    BY <1>1, <1>2, <1>3, <1>4, <1>6, <1>7, <1>8, <1>9

\* What removing the head's link changes in the directory (unlinkat).
LEMMA LinkRemoved ==
  ASSUME TypeOK, headIndex \in Indexes, NEW p \in Path, p = Head.path,
         entries' = Without(headIndex)
  PROVE  /\ Indexes' = Indexes \ {headIndex}
         /\ IsFiniteSet(Indexes')
         /\ entries' \in [Indexes' -> Entry]
         /\ \A j \in Indexes' : entries'[j] = entries[j]
         /\ IndexesOf(p)' = IndexesOf(p) \ {headIndex}
         /\ \A q \in Path \ {p} : IndexesOf(q)' = IndexesOf(q)
         /\ headIndex \in IndexesOf(p)
         /\ Cardinality(IndexesOf(p)') = Cardinality(IndexesOf(p)) - 1
  <1>1. Indexes' = Indexes \ {headIndex}
    BY DEF Without, Indexes
  <1>2. IsFiniteSet(Indexes')
    BY <1>1, FS_RemoveElement DEF TypeOK
  <1>3. \A j \in Indexes' : entries'[j] = entries[j]
    BY <1>1 DEF Without, Indexes
  <1>4. entries' \in [Indexes' -> Entry]
    BY <1>1 DEF Without, Indexes, TypeOK
  <1>5. IndexesOf(p)' = IndexesOf(p) \ {headIndex}
    BY <1>1, <1>3 DEF IndexesOf
  <1>6. \A q \in Path \ {p} : IndexesOf(q)' = IndexesOf(q)
    BY <1>1, <1>3 DEF IndexesOf, Head
  <1>7. headIndex \in IndexesOf(p)
    BY DEF IndexesOf, Head
  <1>8. Cardinality(IndexesOf(p)') = Cardinality(IndexesOf(p)) - 1
    <2>1. IsFiniteSet(IndexesOf(p))
      BY IndexesOfFinite DEF TypeOK
    <2> QED
      BY <1>5, <1>7, <2>1, FS_RemoveElement
  <1> QED
    BY <1>1, <1>2, <1>3, <1>4, <1>5, <1>6, <1>7, <1>8

\* The path of the head is one of the paths.
LEMMA HeadTyped ==
  ASSUME TypeOK, headIndex \in Indexes
  PROVE  Head \in Entry /\ Head.path \in Path /\ Head.mtime \in Nat
  BY DEF TypeOK, Head, Entry

-----------------------------------------------------------------------------
\* Before the process starts the directory is empty.
LEMMA InitIInv == Init => IInv
  <1> SUFFICES ASSUME Init PROVE IInv
    OBVIOUS
  <1>1. Indexes = {} /\ IsFiniteSet({})
    BY FS_EmptySet DEF Init, Indexes
  <1>2. TypeOK
    BY <1>1, LinqAssumption DEF Init, TypeOK, Pc, Indexes
  <1> QED
    BY <1>1, <1>2 DEF Init, IInv, Contiguous, MemoryIsDirectory, InMemory,
       MtimeIsFresh, ReadyHeadIsLast

\* load_or_create_linq finds consecutive names and counts them.
LEMMA LoadIInv ==
  ASSUME IInv, NEW d \in Debounces, Load(d)
  PROVE  IInv'
  <1>1. TypeOK /\ Contiguous
    BY DEF IInv
  <1>2. UNCHANGED entries /\ Indexes' = Indexes
    BY DEF Load, Indexes
  <1>3. \A p \in Path : IndexesOf(p)' = IndexesOf(p)
    BY <1>2 DEF IndexesOf
  <1>4. LoadedSize \in Nat
    BY <1>1, FS_CardinalityType DEF TypeOK, LoadedSize
  <1>5. /\ LoadedHead \in Nat
        /\ Indexes = LoadedHead..(LoadedHead + LoadedSize - 1)
    <2>1. CASE Indexes = {}
      <3>1. LoadedSize = 0 /\ LoadedHead = 0
        BY <2>1, FS_EmptySet DEF LoadedSize, LoadedHead
      <3> QED
        BY <2>1, <3>1
    <2>2. CASE Indexes # {}
      <3>1. PICK lo \in Indexes : Indexes = lo..(lo + LoadedSize - 1)
        BY <1>1, <2>2 DEF Contiguous, LoadedSize
      <3>2. lo \in Nat /\ \A j \in Indexes : lo <= j
        BY <1>1, <3>1, <1>4 DEF TypeOK
      <3>3. LoadedHead = CHOOSE i \in Indexes : \A j \in Indexes : i <= j
        BY <2>2 DEF LoadedHead
      <3>4. /\ LoadedHead \in Indexes
            /\ \A j \in Indexes : LoadedHead <= j
        BY <3>1, <3>2, <3>3
      <3>5. LoadedHead = lo
        BY <1>1, <3>1, <3>2, <3>4 DEF TypeOK
      <3> QED
        BY <3>1, <3>2, <3>5
    <2> QED
      BY <2>1, <2>2
  <1>6. \A p \in Path : Cardinality(IndexesOf(p)) \in Nat
    BY <1>1, IndexesOfFinite DEF TypeOK
  <1>7. TypeOK'
    BY <1>1, <1>2, <1>4, <1>5, <1>6 DEF TypeOK, Load, Pc
  <1>8. MemoryIsDirectory'
    BY <1>2, <1>3, <1>5 DEF MemoryIsDirectory, Load
  <1>9. Contiguous'
    BY <1>1, <1>2 DEF Contiguous
  <1> QED
    BY <1>7, <1>8, <1>9 DEF IInv, Load, MtimeIsFresh, ReadyHeadIsLast

\* push finds its name free and appends an entry, or leaves things alone.
LEMMA PushIInv ==
  ASSUME IInv, NEW mark \in {"/", "!"}, NEW p \in Path,
         Push(mark, p) \/ PushFailsHalfWay(mark, p)
  PROVE  IInv'
  <1> DEFINE i == headIndex + size
  <1>1. TypeOK /\ i \in Nat /\ i \notin Indexes /\ InMemory
    BY DEF IInv, TypeOK, Push, PushFailsHalfWay, MayPush, InMemory
  <1>2. entries' = With(i, PushedEntry(mark, p))
    BY DEF Push, PushFailsHalfWay
  <1>3. /\ Indexes' = Indexes \cup {i}
        /\ IsFiniteSet(Indexes')
        /\ entries' \in [Indexes' -> Entry]
        /\ \A j \in Indexes : entries'[j] = entries[j]
        /\ IndexesOf(p)' = IndexesOf(p) \cup {i}
        /\ \A q \in Path \ {p} : IndexesOf(q)' = IndexesOf(q)
        /\ Cardinality(IndexesOf(p)') = Cardinality(IndexesOf(p)) + 1
    <2> HIDE DEF i
    <2> QED
      BY <1>1, <1>2, LinkMade
  <1>4. /\ Indexes = headIndex..(headIndex + size - 1)
        /\ \A q \in Path : set[q] = Cardinality(IndexesOf(q))
    BY <1>1 DEF IInv, MemoryIsDirectory
  <1>5. Indexes' = headIndex..(headIndex + (size + 1) - 1)
    BY <1>1, <1>3, <1>4 DEF TypeOK
  <1>6. Contiguous'
    <2>1. Indexes' # {} =>
            \E j \in Indexes' : Indexes' = j..(j + Cardinality(Indexes') - 1)
      <3> DEFINE n == size + 1
                 S == Indexes'
      <3>1. headIndex \in Nat /\ n \in Nat /\ S = headIndex..(headIndex + n - 1)
        BY <1>1, <1>5 DEF TypeOK
      <3> HIDE DEF n, S
      <3>2. S # {} => \E j \in S : S = j..(j + Cardinality(S) - 1)
        BY <3>1, IntervalIsContiguous
      <3> QED
        BY <3>2 DEF S
    <2> QED
      BY <2>1 DEF Contiguous
  <1>7. CASE Push(mark, p)
    <2>1. TypeOK'
      BY <1>1, <1>3, <1>7 DEF TypeOK, Push, SetWith
    <2>2. \A q \in Path : set'[q] = Cardinality(IndexesOf(q)')
      BY <1>1, <1>3, <1>4, <1>7 DEF TypeOK, Push, SetWith
    <2>3. Indexes' = headIndex'..(headIndex' + size' - 1)
      BY <1>5, <1>7 DEF Push
    <2>4. MemoryIsDirectory'
      BY <2>2, <2>3 DEF MemoryIsDirectory
    <2>5. MtimeIsFresh'
      BY <1>1, <1>3, <1>7 DEF IInv, MtimeIsFresh, InMemory, Push, Head, TypeOK
    <2>6. ReadyHeadIsLast'
      BY <1>7 DEF Push, MayPush, ReadyHeadIsLast
    <2> QED
      BY <1>6, <2>1, <2>4, <2>5, <2>6 DEF IInv
  <1>8. CASE PushFailsHalfWay(mark, p)
    <2>1. pc' = "failed"
      BY <1>8 DEF PushFailsHalfWay, Fail
    <2>2. TypeOK'
      BY <1>1, <1>3, <1>8, LinqAssumption
      DEF TypeOK, PushFailsHalfWay, Fail, Fault, memory, Pc
    <2> QED
      BY <1>6, <2>1, <2>2
      DEF IInv, MemoryIsDirectory, MtimeIsFresh, ReadyHeadIsLast, InMemory
  <1> QED
    BY <1>7, <1>8

\* pop_head takes the head out of the directory and of struct linq.
LEMMA PopIInv ==
  ASSUME IInv, InMemory, Pop, pc' \in {"idle", "getting"},
         pause' = 0, UNCHANGED <<now, faults>>
  PROVE  IInv'
  <1>1. TypeOK /\ headIndex \in Indexes
    BY DEF IInv, Pop
  <1>2. PICK p \in Path : p = Head.path
    BY <1>1, HeadTyped
  <1>3. /\ Indexes' = Indexes \ {headIndex}
        /\ IsFiniteSet(Indexes')
        /\ entries' \in [Indexes' -> Entry]
        /\ IndexesOf(p)' = IndexesOf(p) \ {headIndex}
        /\ \A q \in Path \ {p} : IndexesOf(q)' = IndexesOf(q)
        /\ Cardinality(IndexesOf(p)') = Cardinality(IndexesOf(p)) - 1
    BY <1>1, <1>2, LinkRemoved DEF Pop
  <1>4. /\ Indexes = headIndex..(headIndex + size - 1)
        /\ \A q \in Path : set[q] = Cardinality(IndexesOf(q))
    BY DEF IInv, MemoryIsDirectory
  <1>5. Cardinality(IndexesOf(p)') \in Nat
    BY <1>3, IndexesOfFinite, FS_Subset, FS_CardinalityType DEF IndexesOf
  <1>6. set' = [set EXCEPT ![p] = @ - 1] /\ set[p] > 0
    <2>1. set' = [set EXCEPT ![p] = IF @ > 0 THEN @ - 1 ELSE @]
      BY <1>2 DEF Pop
    <2>2. set[p] \in Nat /\ set[p] > 0
      BY <1>1, <1>3, <1>4, <1>5 DEF TypeOK
    <2> QED
      BY <2>1, <2>2
  <1>7. size \in Nat /\ size > 0 /\ size' = size - 1
    BY <1>1, <1>4 DEF Pop, TypeOK
  <1>8. Indexes' = (headIndex + 1)..((headIndex + 1) + (size - 1) - 1)
    BY <1>1, <1>3, <1>4, <1>7 DEF TypeOK
  <1>9. Indexes' = headIndex'..(headIndex' + size' - 1) /\ headIndex' \in Nat
    <2>1. CASE size = 1
      BY <1>1, <1>7, <1>8, <2>1 DEF Pop, HeadAfterPop, TypeOK
    <2>2. CASE size > 1
      BY <1>1, <1>7, <1>8, <2>2 DEF Pop, HeadAfterPop, TypeOK
    <2> QED
      BY <1>7, <2>1, <2>2
  <1>10. TypeOK'
    BY <1>1, <1>3, <1>6, <1>7, <1>9 DEF TypeOK, Pop, MtimeAfterPop, Pc
  <1>11. MemoryIsDirectory'
    BY <1>1, <1>3, <1>4, <1>6, <1>9 DEF MemoryIsDirectory, TypeOK
  <1>12. Contiguous'
    <2>1. Indexes' # {} =>
            \E j \in Indexes' : Indexes' = j..(j + Cardinality(Indexes') - 1)
      <3> DEFINE lo == headIndex'
                 n == size'
                 S == Indexes'
      <3>1. lo \in Nat /\ n \in Nat /\ S = lo..(lo + n - 1)
        BY <1>7, <1>9
      <3> HIDE DEF lo, n, S
      <3>2. S # {} => \E j \in S : S = j..(j + Cardinality(S) - 1)
        BY <3>1, IntervalIsContiguous
      <3> QED
        BY <3>2 DEF S
    <2> QED
      BY <2>1 DEF Contiguous
  <1> QED
    BY <1>10, <1>11, <1>12
    DEF IInv, Pop, MtimeAfterPop, MtimeIsFresh, ReadyHeadIsLast

\* A failure in the middle of pop_head leaves consecutive names on the disk.
LEMMA PopFailsIInv ==
  ASSUME IInv, PopFailsHalfWay
  PROVE  IInv'
  <1>1. TypeOK /\ InMemory
    BY DEF IInv, PopFailsHalfWay, InMemory, HeadIsSuperseded, HeadIsRipe,
           HeadIsThere, Getting
  <1>2. Indexes = headIndex..(headIndex + size - 1)
    BY <1>1 DEF IInv, MemoryIsDirectory
  <1>3. headIndex \in Indexes
    BY DEF IInv, ReadyHeadIsLast, PopFailsHalfWay, HeadIsSuperseded,
           HeadIsRipe, HeadIsThere
  <1>4. /\ Indexes' = Indexes \ {headIndex}
        /\ IsFiniteSet(Indexes')
        /\ entries' \in [Indexes' -> Entry]
    BY <1>1, <1>3, HeadTyped, LinkRemoved DEF PopFailsHalfWay
  <1>5. Contiguous'
    <2> DEFINE lo == headIndex + 1
               n == size - 1
               S == Indexes'
    <2>1. lo \in Nat /\ n \in Nat /\ S = lo..(lo + n - 1)
      BY <1>1, <1>2, <1>3, <1>4 DEF TypeOK
    <2> HIDE DEF lo, n, S
    <2>2. S # {} => \E j \in S : S = j..(j + Cardinality(S) - 1)
      BY <2>1, IntervalIsContiguous
    <2> QED
      BY <2>2 DEF Contiguous, S
  <1>6. TypeOK'
    BY <1>1, <1>4, LinqAssumption
    DEF TypeOK, PopFailsHalfWay, Fail, Fault, memory, Pc
  <1> QED
    BY <1>5, <1>6
    DEF IInv, PopFailsHalfWay, Fail, MemoryIsDirectory, MtimeIsFresh,
        ReadyHeadIsLast, InMemory

\* The calls that leave the directory alone and do not fail.
LEMMA GetHeadIInv ==
  ASSUME IInv, GetHeadEmpty \/ GetHeadPaused \/ GetHeadReady
  PROVE  IInv'
  <1> USE DEF IInv
  <1>1. UNCHANGED <<entries, headIndex, size, set, debounce, now, faults>>
    BY DEF GetHeadEmpty, GetHeadPaused, GetHeadReady, memory
  <1>2. Indexes' = Indexes /\ \A p : IndexesOf(p)' = IndexesOf(p)
    BY <1>1 DEF Indexes, IndexesOf
  <1>3. InMemory
    BY DEF GetHeadEmpty, GetHeadPaused, GetHeadReady, HeadIsReady, HeadIsRipe,
           HeadIsThere, Getting, InMemory
  <1>4. Contiguous' /\ MemoryIsDirectory'
    BY <1>1, <1>2, <1>3 DEF Contiguous, MemoryIsDirectory
  <1>5. CASE GetHeadEmpty
    BY <1>1, <1>2, <1>3, <1>4, <1>5
    DEF GetHeadEmpty, memory, TypeOK, Pc, MtimeIsFresh, ReadyHeadIsLast, Head,
        InMemory
  <1>6. ASSUME GetHeadPaused \/ GetHeadReady
        PROVE  /\ HeadIsThere
               /\ headMtime' = Head.mtime
               /\ Mtime = Head.mtime
               /\ Head \in Entry
    <2>1. HeadIsThere /\ headMtime' = Mtime
      BY <1>6 DEF GetHeadPaused, GetHeadReady, HeadIsReady, HeadIsRipe
    <2>2. Mtime = Head.mtime
      BY <1>3, <2>1 DEF Mtime, MtimeIsFresh
    <2> QED
      BY <2>1, <2>2, HeadTyped DEF HeadIsThere
  <1>7. CASE GetHeadPaused
    <2>1. pause' \in Int
      BY <1>6, <1>7, LinqAssumption
      DEF GetHeadPaused, PauseOfHead, Age, TypeOK, Entry
    <2>2. TypeOK'
      BY <1>1, <1>2, <1>6, <1>7, <2>1 DEF GetHeadPaused, TypeOK, Pc, Entry
    <2>3. MtimeIsFresh' /\ ReadyHeadIsLast'
      BY <1>1, <1>2, <1>6, <1>7
      DEF GetHeadPaused, MtimeIsFresh, ReadyHeadIsLast, HeadIsThere, Head
    <2> QED
      BY <1>4, <2>2, <2>3
  <1>8. CASE GetHeadReady
    <2>1. TypeOK'
      BY <1>1, <1>2, <1>6, <1>8 DEF GetHeadReady, TypeOK, Pc, Entry
    <2>2. MtimeIsFresh'
      BY <1>1, <1>2, <1>6, <1>8
      DEF GetHeadReady, MtimeIsFresh, HeadIsThere, Head
    <2>3. ASSUME Head.mark = "/"
          PROVE  IndexesOf(Head.path) = {headIndex}
      <3>1. headIndex \in IndexesOf(Head.path)
        BY <1>6, <1>8 DEF IndexesOf, Head, HeadIsThere
      <3>2. Head.path \in Path
        BY <1>6, <1>8 DEF Entry
      <3>3. Cardinality(IndexesOf(Head.path)) <= 1
        BY <1>3, <1>8, <2>3, <3>2
        DEF GetHeadReady, HeadIsReady, CountOfHead, MemoryIsDirectory
      <3>4. /\ IsFiniteSet(IndexesOf(Head.path))
            /\ Cardinality(IndexesOf(Head.path)) \in Nat
        BY IndexesOfFinite DEF TypeOK
      <3>5. Cardinality(IndexesOf(Head.path)) # 0
        BY <3>1, <3>4, FS_EmptySet
      <3>6. \E x : IndexesOf(Head.path) = {x}
        <4>1. Cardinality(IndexesOf(Head.path)) = 1
          BY <3>3, <3>4, <3>5
        <4> QED
          BY <3>4, <4>1, FS_Singleton
      <3> QED
        BY <3>1, <3>6
    <2>4. ReadyHeadIsLast'
      <3>1. Head' = Head /\ headIndex \in Indexes
        BY <1>1, <1>6, <1>8 DEF Head, HeadIsThere
      <3>2. IndexesOf(Head.path)' = IndexesOf(Head.path)
        BY <1>1, <1>2, <3>1 DEF IndexesOf
      <3> QED
        BY <1>1, <1>2, <2>3, <3>1, <3>2 DEF ReadyHeadIsLast
    <2> QED
      BY <1>4, <2>1, <2>2, <2>4
  <1> QED
    BY <1>5, <1>7, <1>8

\* Failures before any change, the end of the process and the clock.
LEMMA OtherIInv ==
  ASSUME IInv,
         \/ PushFails \/ GetHeadFails \/ ReadyFails
         \/ (\E d \in Debounces : Redebounce(d))
         \/ Exit \/ Crash \/ Tick \/ SetClockBack
         \/ UNCHANGED vars
  PROVE  IInv'
  <1> USE DEF IInv
  <1>1. entries' = entries
    BY DEF PushFails, GetHeadFails, ReadyFails, Redebounce, Exit, Crash, Tick,
           SetClockBack, vars
  <1>2. Indexes' = Indexes /\ \A p : IndexesOf(p)' = IndexesOf(p)
    BY <1>1 DEF Indexes, IndexesOf
  <1>3. Contiguous'
    BY <1>2 DEF Contiguous
  <1>4. CASE PushFails \/ GetHeadFails \/ ReadyFails
    <2>1. /\ pc' = "failed" /\ pause' = 0 /\ UNCHANGED <<memory, now>>
          /\ faults' = faults \/ Fault
      BY <1>4 DEF PushFails, GetHeadFails, ReadyFails, Fail
    <2>2. TypeOK'
      BY <1>1, <1>2, <2>1, LinqAssumption DEF TypeOK, Fault, memory, Pc
    <2> QED
      BY <1>3, <2>1, <2>2
      DEF MemoryIsDirectory, MtimeIsFresh, ReadyHeadIsLast, InMemory
  <1>5. CASE \E d \in Debounces : Redebounce(d)
    BY <1>1, <1>2, <1>3, <1>5
    DEF Redebounce, TypeOK, MemoryIsDirectory, MtimeIsFresh, ReadyHeadIsLast,
        InMemory, Head
  <1>6. CASE Exit \/ Crash
    <2>1. pc' = "down" /\ NoMemory /\ pause' \in Int /\ UNCHANGED <<debounce, now>>
          /\ (faults' = faults \/ Fault)
      BY <1>6 DEF Exit, Crash, TypeOK
    <2>2. TypeOK'
      BY <1>1, <1>2, <2>1, LinqAssumption DEF TypeOK, NoMemory, Fault, Pc
    <2> QED
      BY <1>3, <2>1, <2>2
      DEF MemoryIsDirectory, MtimeIsFresh, ReadyHeadIsLast, InMemory
  <1>7. CASE Tick \/ SetClockBack \/ UNCHANGED vars
    <2>1. /\ UNCHANGED <<headIndex, size, set, headMtime, debounce, pause, pc>>
          /\ now' \in Nat /\ (faults' = faults \/ Fault)
      BY <1>7 DEF Tick, SetClockBack, vars, memory, TypeOK
    <2>2. TypeOK'
      BY <1>1, <1>2, <2>1, LinqAssumption DEF TypeOK, Fault
    <2> QED
      BY <1>1, <1>2, <1>3, <2>1, <2>2
      DEF MemoryIsDirectory, MtimeIsFresh, ReadyHeadIsLast, InMemory, Head
  <1> QED
    BY <1>4, <1>5, <1>6, <1>7

LEMMA NextIInv == IInv /\ [Next]_vars => IInv'
  <1> SUFFICES ASSUME IInv, [Next]_vars PROVE IInv'
    OBVIOUS
  <1>1. CASE \E d \in Debounces : Load(d)
    BY <1>1, LoadIInv
  <1>2. CASE \E mark \in {"/", "!"}, p \in Path :
               Push(mark, p) \/ PushFailsHalfWay(mark, p)
    BY <1>2, PushIInv
  <1>3. CASE GetHeadSkips
    <2>1. InMemory
      BY <1>3 DEF GetHeadSkips, HeadIsSuperseded, HeadIsRipe, HeadIsThere,
                  Getting, InMemory
    <2> QED
      BY <1>3, <2>1, PopIInv DEF GetHeadSkips
  <1>4. CASE PopHead
    <2>1. InMemory
      BY <1>4 DEF PopHead, InMemory
    <2> QED
      BY <1>4, <2>1, PopIInv DEF PopHead
  <1>5. CASE PopFailsHalfWay
    BY <1>5, PopFailsIInv
  <1>6. CASE GetHeadEmpty \/ GetHeadPaused \/ GetHeadReady
    BY <1>6, GetHeadIInv
  <1>7. CASE \/ PushFails \/ GetHeadFails \/ ReadyFails
             \/ (\E d \in Debounces : Redebounce(d))
             \/ Exit \/ Crash \/ Tick \/ SetClockBack
             \/ UNCHANGED vars
    BY <1>7, OtherIInv
  <1> QED
    BY <1>1, <1>2, <1>3, <1>4, <1>5, <1>6, <1>7 DEF Next

-----------------------------------------------------------------------------
\* The inductive invariant holds in every state of every behaviour.
THEOREM Invariance == Spec => []IInv
  <1> QED
    BY InitIInv, NextIInv, PTL DEF Spec

\* Type correctness of the directory and of struct linq.
THEOREM TypeCorrect == Spec => []TypeOK
  <1>1. IInv => TypeOK
    BY DEF IInv
  <1> QED
    BY <1>1, Invariance, PTL

\* Whatever crashed or failed half way, load_or_create_linq finds consecutive
\* names: no restart of the daemon meets a queue it cannot read.
THEOREM DirectoryHasNoGap == Spec => []Contiguous
  <1>1. IInv => Contiguous
    BY DEF IInv
  <1> QED
    BY <1>1, Invariance, PTL

\* struct linq never disagrees with the directory while the process runs.
THEOREM MemoryAgrees == Spec => []MemoryIsDirectory
  <1>1. IInv => MemoryIsDirectory
    BY DEF IInv
  <1> QED
    BY <1>1, Invariance, PTL

\* The cached mtime is never that of an entry that was popped.
THEOREM CacheIsFresh == Spec => []MtimeIsFresh
  <1>1. IInv => MtimeIsFresh
    BY DEF IInv
  <1> QED
    BY <1>1, Invariance, PTL

\* A head that main gets is the last entry of its path, so that no later write
\* is popped with it (get_head skips the entries before).
THEOREM HeadIsLast == Spec => []ReadyHeadIsLast
  <1>1. IInv => ReadyHeadIsLast
    BY DEF IInv
  <1> QED
    BY <1>1, Invariance, PTL

\* push never meets EEXIST, get_head and pop_head never meet ENOENT.
THEOREM FailsOnlyWithTheSystem == Spec => NoFailureOfItsOwn
  <1>1. IInv /\ [Next]_vars =>
          [pc' = "failed" /\ pc # "failed" => faults' = faults + 1]_vars
    <2> SUFFICES ASSUME IInv, Next, pc' = "failed", pc # "failed"
                 PROVE  faults' = faults + 1
      OBVIOUS
    <2>1. CASE PushFails
      <3>1. headIndex + size \notin Indexes
        BY <2>1 DEF IInv, MemoryIsDirectory, InMemory, PushFails, MayPush,
                    TypeOK
      <3> QED
        BY <2>1, <3>1 DEF PushFails, Fault
    <2>2. CASE GetHeadFails
      <3>1. size > 0 => headIndex \in Indexes
        BY <2>2 DEF IInv, MemoryIsDirectory, InMemory, GetHeadFails, Getting,
                    TypeOK
      <3> QED
        BY <2>2, <3>1 DEF GetHeadFails, Fault
    <2>3. CASE ReadyFails \/ PopFailsHalfWay
      BY <2>3 DEF ReadyFails, PopFailsHalfWay, Fault
    <2>4. CASE \E mark \in {"/", "!"}, p \in Path : PushFailsHalfWay(mark, p)
      BY <2>4 DEF PushFailsHalfWay, Fault
    <2>5. ASSUME \/ \E d \in Debounces : Load(d) \/ Redebounce(d)
                 \/ \E mark \in {"/", "!"}, p \in Path : Push(mark, p)
                 \/ GetHeadEmpty \/ GetHeadPaused \/ GetHeadSkips
                 \/ GetHeadReady \/ PopHead
                 \/ Exit \/ Crash \/ Tick \/ SetClockBack
          PROVE  FALSE
      BY <2>5 DEF Load, Redebounce, Push, GetHeadEmpty, GetHeadPaused,
                  GetHeadSkips, GetHeadReady, PopHead, Exit, Crash, Tick,
                  SetClockBack
    <2> QED
      BY <2>1, <2>2, <2>3, <2>4, <2>5 DEF Next
  <1> QED
    BY <1>1, Invariance, PTL DEF Spec, NoFailureOfItsOwn

-----------------------------------------------------------------------------
(***************************************************************************)
(* Linq implements Debounce: what the abstract state is made of.           *)
(***************************************************************************)

\* What is pending for a path depends on its last entry only.
LEMMA DueDependsOnLast ==
  ASSUME NEW p, LastOf(p)' = LastOf(p),
         \A i \in LastOf(p) : entries'[i] = entries[i]
  PROVE  Due(p)' = Due(p) /\ LastIndex(p)' = LastIndex(p)
  <1>1. LastIndex(p)' = LastIndex(p)
    BY DEF LastIndex
  <1>2. LastOf(p) # {} => entries'[LastIndex(p)] = entries[LastIndex(p)]
    BY DEF LastIndex
  <1> QED
    BY <1>1, <1>2 DEF Due

\* A pending path has a last entry.
LEMMA LastIndexTyped ==
  ASSUME TypeOK, NEW p, Due(p) # None
  PROVE  /\ LastIndex(p) \in LastOf(p)
         /\ LastIndex(p) \in IndexesOf(p)
         /\ LastIndex(p) \in Indexes
         /\ LastIndex(p) \in Nat
  <1>1. LastOf(p) # {}
    BY DEF Due
  <1>2. LastIndex(p) \in LastOf(p)
    BY <1>1 DEF LastIndex
  <1> QED
    BY <1>2 DEF LastOf, IndexesOf, TypeOK

LEMMA DueOfSingle ==
  ASSUME NEW p, NEW i \in Int, IndexesOf(p) = {i}
  PROVE  /\ Due(p) = IF entries[i].mark = "/" THEN entries[i].mtime ELSE None
         /\ LastIndex(p) = i
  <1>1. LastOf(p) = {i}
    BY DEF LastOf
  <1>2. LastIndex(p) = i
    BY <1>1 DEF LastIndex
  <1> QED
    BY <1>1, <1>2 DEF Due

LEMMA DueOfNone ==
  ASSUME NEW p, IndexesOf(p) = {}
  PROVE  Due(p) = None
  BY DEF Due, LastOf

\* Steps that leave the directory alone leave what is pending.
LEMMA DueUnchanged ==
  ASSUME UNCHANGED entries
  PROVE  /\ \A p \in Path : Due(p)' = Due(p)
         /\ \A p \in Path : Older(p)' = Older(p)
  <1>1. ASSUME NEW p \in Path
        PROVE  Due(p)' = Due(p) /\ LastIndex(p)' = LastIndex(p)
    <2>1. LastOf(p)' = LastOf(p)
      BY DEF LastOf, IndexesOf, Indexes
    <2> QED
      BY <2>1, DueDependsOnLast
  <1> QED
    BY <1>1 DEF Older

\* A new link decides what is pending for its path and puts it last.
LEMMA DueAfterPush ==
  ASSUME IInv, NEW mark \in {"/", "!"}, NEW p \in Path,
         Push(mark, p) \/ PushFailsHalfWay(mark, p)
  PROVE  /\ Due(p)' = IF mark = "/" THEN now ELSE None
         /\ \A q \in Path \ {p} : Due(q)' = Due(q)
         /\ \A q \in Path \ {p} : Older(q)' = Older(q) \ {p}
         /\ Older(p)' = IF mark = "/" THEN {q \in Path \ {p} : Due(q) # None}
                        ELSE {}
  <1> DEFINE i == headIndex + size
  <1>1. TypeOK /\ i \in Nat /\ i \notin Indexes /\ InMemory
    BY DEF IInv, TypeOK, Push, PushFailsHalfWay, MayPush, InMemory
  <1>2. entries' = With(i, PushedEntry(mark, p))
    BY DEF Push, PushFailsHalfWay
  <1>3. \A j \in Indexes : j < i
    BY <1>1 DEF IInv, MemoryIsDirectory, TypeOK
  <1> HIDE DEF i
  <1>4. /\ Indexes' = Indexes \cup {i}
        /\ entries'[i] = PushedEntry(mark, p)
        /\ \A j \in Indexes : entries'[j] = entries[j]
        /\ IndexesOf(p)' = IndexesOf(p) \cup {i}
        /\ \A q \in Path \ {p} : IndexesOf(q)' = IndexesOf(q)
    BY <1>1, <1>2, LinkMade
  <1>5. LastOf(p)' = {i}
    <2>1. \A j \in IndexesOf(p) : j < i /\ j \in Nat
      BY <1>1, <1>3 DEF IndexesOf, TypeOK
    <2> QED
      BY <1>1, <1>4, <2>1 DEF LastOf
  <1>6. LastIndex(p)' = i
    BY <1>5 DEF LastIndex
  <1>7. Due(p)' = IF mark = "/" THEN now ELSE None
    BY <1>4, <1>5, <1>6 DEF Due, PushedEntry
  <1>8. ASSUME NEW q \in Path \ {p}
        PROVE  Due(q)' = Due(q) /\ LastIndex(q)' = LastIndex(q)
    <2>1. LastOf(q)' = LastOf(q)
      BY <1>4 DEF LastOf
    <2>2. \A j \in LastOf(q) : entries'[j] = entries[j]
      BY <1>4 DEF LastOf, IndexesOf
    <2> QED
      BY <2>1, <2>2, DueDependsOnLast
  <1>9. \A q \in Path : Due(q) # None => LastIndex(q) < i /\ LastIndex(q) \in Nat
    BY <1>1, <1>3, LastIndexTyped
  <1>10. now # None
    BY <1>1, LinqAssumption DEF TypeOK
  <1>11. ASSUME NEW q \in Path \ {p} PROVE Older(q)' = Older(q) \ {p}
    <2>1. CASE Due(q) = None
      BY <1>8, <2>1 DEF Older
    <2>2. CASE Due(q) # None
      <3>1. ~(LastIndex(p)' < LastIndex(q)')
        BY <1>1, <1>6, <1>8, <1>9, <2>2
      <3>2. Older(q)' = {r \in Path : Due(r)' # None
                                      /\ LastIndex(r)' < LastIndex(q)'}
        BY <1>8, <2>2 DEF Older
      <3>3. Older(q) = {r \in Path : Due(r) # None
                                     /\ LastIndex(r) < LastIndex(q)}
        BY <2>2 DEF Older
      <3> QED
        BY <1>8, <3>1, <3>2, <3>3
    <2> QED
      BY <2>1, <2>2
  <1>12. Older(p)' = IF mark = "/" THEN {q \in Path \ {p} : Due(q) # None}
                     ELSE {}
    <2>1. CASE mark = "!"
      BY <1>7, <2>1 DEF Older
    <2>2. CASE mark = "/"
      <3>1. Older(p)' = {r \in Path : Due(r)' # None /\ LastIndex(r)' < i}
        BY <1>6, <1>7, <1>10, <2>2 DEF Older
      <3>2. ~(LastIndex(p)' < i)
        BY <1>1, <1>6
      <3> QED
        BY <1>8, <1>9, <2>2, <3>1, <3>2
    <2> QED
      BY <2>1, <2>2
  <1> QED
    BY <1>7, <1>8, <1>11, <1>12

\* Removing the head's link changes what is pending only when the head is the
\* only entry of its path.
LEMMA DueAfterPop ==
  ASSUME IInv, InMemory, headIndex \in Indexes, NEW p \in Path,
         p = Head.path, entries' = Without(headIndex)
  PROVE  /\ IndexesOf(p) = {headIndex} =>
              /\ Due(p)' = None
              /\ Older(p)' = {}
              /\ \A q \in Path \ {p} : Older(q)' = Older(q) \ {p}
         /\ IndexesOf(p) # {headIndex} =>
              /\ Due(p)' = Due(p)
              /\ \A q \in Path : Older(q)' = Older(q)
         /\ \A q \in Path \ {p} : Due(q)' = Due(q)
  <1> DEFINE h == headIndex
  <1>1. TypeOK
    BY DEF IInv
  <1>2. /\ Indexes' = Indexes \ {headIndex}
        /\ \A j \in Indexes' : entries'[j] = entries[j]
        /\ IndexesOf(p)' = IndexesOf(p) \ {headIndex}
        /\ \A q \in Path \ {p} : IndexesOf(q)' = IndexesOf(q)
        /\ headIndex \in IndexesOf(p)
    BY <1>1, LinkRemoved
  <1>3. \A j \in Indexes : h <= j /\ j \in Nat /\ h \in Nat
    BY <1>1 DEF IInv, MemoryIsDirectory, TypeOK
  <1>4. ASSUME NEW q \in Path \ {p}
        PROVE  Due(q)' = Due(q) /\ LastIndex(q)' = LastIndex(q)
    <2>1. LastOf(q)' = LastOf(q)
      BY <1>2 DEF LastOf
    <2>2. h \notin IndexesOf(q)
      BY DEF IndexesOf, Head
    <2>3. \A j \in LastOf(q) : entries'[j] = entries[j]
      BY <1>2, <2>2 DEF LastOf, IndexesOf
    <2> QED
      BY <2>1, <2>3, DueDependsOnLast
  <1>5. ASSUME IndexesOf(p) = {h}
        PROVE  /\ Due(p)' = None
               /\ Older(p)' = {}
               /\ \A q \in Path \ {p} : Older(q)' = Older(q) \ {p}
    <2>1. IndexesOf(p)' = {}
      BY <1>2, <1>5
    <2>2. Due(p)' = None
      BY <2>1 DEF Due, LastOf
    <2>3. ASSUME NEW q \in Path \ {p} PROVE Older(q)' = Older(q) \ {p}
      BY <1>4, <2>2 DEF Older
    <2> QED
      BY <2>2, <2>3 DEF Older
  <1>6. ASSUME IndexesOf(p) # {h}
        PROVE  Due(p)' = Due(p) /\ LastIndex(p)' = LastIndex(p)
    <2>1. PICK k \in IndexesOf(p) : k # h
      BY <1>2, <1>6
    <2>2. \A j \in IndexesOf(p) : h <= j /\ j \in Nat /\ h \in Nat
      BY <1>3 DEF IndexesOf
    <2>3. h \notin LastOf(p)
      BY <2>1, <2>2 DEF LastOf
    <2>4. LastOf(p)' = LastOf(p)
      BY <1>2, <2>1, <2>2, <2>3 DEF LastOf
    <2>5. \A j \in LastOf(p) : entries'[j] = entries[j]
      BY <1>2, <2>3 DEF LastOf, IndexesOf
    <2> QED
      BY <2>4, <2>5, DueDependsOnLast
  <1>7. ASSUME IndexesOf(p) # {h}
        PROVE  \A q \in Path : Older(q)' = Older(q)
    <2>1. \A q \in Path : Due(q)' = Due(q) /\ LastIndex(q)' = LastIndex(q)
      BY <1>4, <1>6, <1>7
    <2> QED
      BY <2>1 DEF Older
  <1> QED
    BY <1>4, <1>5, <1>6, <1>7

\* Nothing that is pending comes before the head.
LEMMA NoneBeforeHead ==
  ASSUME IInv, InMemory, NEW p \in Path, IndexesOf(p) = {headIndex}
  PROVE  Older(p) = {}
  <1>1. TypeOK /\ headIndex \in Nat
    BY DEF IInv, TypeOK
  <1>2. LastIndex(p) = headIndex
    BY <1>1, DueOfSingle
  <1>3. \A j \in Indexes : headIndex <= j
    BY <1>1 DEF IInv, MemoryIsDirectory, TypeOK
  <1>4. ASSUME NEW q \in Path, Due(q) # None
        PROVE  ~(LastIndex(q) < LastIndex(p))
    BY <1>1, <1>2, <1>3, <1>4, LastIndexTyped
  <1> QED
    BY <1>4 DEF Older

DueOf == [p \in Path |-> Due(p)]
OlderOf == [p \in Path |-> Older(p)]

\* A path that was handed out is the only one of its entries.
LEMMA HandedIsDue ==
  ASSUME IInv, pc = "ready"
  PROVE  /\ headIndex \in Indexes /\ Head.path \in Path
         /\ HandedPath = IF Head.mark = "/" THEN Head.path ELSE None
         /\ Head.mark = "/" => IndexesOf(Head.path) = {headIndex}
  BY HeadTyped DEF IInv, ReadyHeadIsLast, HandedPath

\* Removing the link of a head that was handed out is Commit; of a cancelling
\* or superseded one, nothing.
LEMMA PopRefines ==
  ASSUME IInv, entries' = Without(headIndex), UNCHANGED <<debounce, now>>,
         pc' # "ready", pc = "ready" \/ HeadIsSuperseded
  PROVE  [D!Next]_(D!vars)
  <1>1. TypeOK /\ InMemory
    BY DEF IInv, InMemory, HeadIsSuperseded, HeadIsRipe, HeadIsThere, Getting
  <1>2. headIndex \in Indexes
    BY DEF IInv, ReadyHeadIsLast, HeadIsSuperseded, HeadIsRipe, HeadIsThere
  <1>3. PICK p \in Path : p = Head.path
    BY <1>1, <1>2, HeadTyped
  <1>4. /\ IndexesOf(p) = {headIndex} =>
             /\ Due(p)' = None
             /\ Older(p)' = {}
             /\ \A q \in Path \ {p} : Older(q)' = Older(q) \ {p}
        /\ IndexesOf(p) # {headIndex} =>
             /\ Due(p)' = Due(p)
             /\ \A q \in Path : Older(q)' = Older(q)
        /\ \A q \in Path \ {p} : Due(q)' = Due(q)
    BY <1>1, <1>2, <1>3, DueAfterPop
  <1>5. HandedPath' = None
    BY DEF HandedPath
  <1>6. CASE pc = "ready" /\ Head.mark = "/"
    <2>1. HandedPath = p /\ p # None /\ IndexesOf(p) = {headIndex}
      BY <1>3, <1>6, HandedIsDue, LinqAssumption
    <2>2. DueOf' = [DueOf EXCEPT ![p] = None]
      BY <1>4, <2>1 DEF DueOf
    <2>3. OlderOf' = [q \in Path |-> IF q = p THEN {} ELSE OlderOf[q] \ {p}]
      BY <1>4, <2>1 DEF OlderOf
    <2>4. D!Commit
      BY <1>5, <2>1, <2>2, <2>3 DEF D!Commit, D!Forget, DueOf, OlderOf
    <2> QED
      BY <2>4 DEF D!Next
  <1>7. CASE pc = "ready" /\ Head.mark = "!"
    <2>1. HandedPath = None
      BY <1>7 DEF HandedPath
    <2>2. Due(p)' = Due(p)
      <3>1. ASSUME IndexesOf(p) = {headIndex} PROVE Due(p) = None
        <4>1. headIndex \in Int
          BY <1>1 DEF TypeOK
        <4> QED
          BY <1>7, <3>1, <4>1, DueOfSingle DEF Head
      <3> QED
        BY <1>4, <3>1
    <2>3. DueOf' = DueOf
      BY <1>4, <2>2 DEF DueOf
    <2>4. \A q \in Path : Older(q)' = Older(q)
      <3>1. CASE IndexesOf(p) = {headIndex}
        <4>1. Due(p) = None
          BY <1>4, <2>2, <3>1
        <4>2. \A q \in Path : p \notin Older(q)
          BY <4>1 DEF Older
        <4>3. Older(p) = {}
          BY <4>1 DEF Older
        <4> QED
          BY <1>4, <3>1, <4>2, <4>3
      <3>2. CASE IndexesOf(p) # {headIndex}
        BY <1>4, <3>2
      <3> QED
        BY <3>1, <3>2
    <2>5. OlderOf' = OlderOf
      BY <2>4 DEF OlderOf
    <2> QED
      BY <1>5, <2>1, <2>3, <2>5 DEF D!vars, DueOf, OlderOf
  <1>8. CASE HeadIsSuperseded
    <2>1. HandedPath = None
      BY <1>8 DEF HandedPath, HeadIsSuperseded, HeadIsRipe, HeadIsThere, Getting
    <2>2. Cardinality(IndexesOf(p)) > 1
      BY <1>1, <1>3, <1>8
      DEF IInv, MemoryIsDirectory, HeadIsSuperseded, CountOfHead
    <2>3. IndexesOf(p) # {headIndex}
      <3>1. Cardinality({headIndex}) = 1
        BY FS_Singleton
      <3> QED
        BY <2>2, <3>1
    <2>4. DueOf' = DueOf /\ OlderOf' = OlderOf
      BY <1>4, <2>3 DEF DueOf, OlderOf
    <2> QED
      BY <1>5, <2>1, <2>4 DEF D!vars, DueOf, OlderOf
  <1>9. Head.mark \in {"/", "!"}
    BY <1>1, <1>2, HeadTyped DEF Entry
  <1> QED
    BY <1>6, <1>7, <1>8, <1>9

LEMMA NextRefines == IInv /\ IInv' /\ [Next]_vars => [D!Next]_(D!vars)
  <1> SUFFICES ASSUME IInv, IInv', [Next]_vars PROVE [D!Next]_(D!vars)
    OBVIOUS
  <1>1. ASSUME UNCHANGED entries PROVE DueOf' = DueOf /\ OlderOf' = OlderOf
    BY <1>1, DueUnchanged DEF DueOf, OlderOf
  <1>2. pc # "ready" => HandedPath = None
    BY DEF HandedPath
  <1>3. pc' # "ready" => HandedPath' = None
    BY DEF HandedPath
  <1>4. CASE \E mark \in {"/", "!"}, p \in Path :
               Push(mark, p) \/ PushFailsHalfWay(mark, p)
    <2>1. PICK mark \in {"/", "!"}, p \in Path :
                 Push(mark, p) \/ PushFailsHalfWay(mark, p)
      BY <1>4
    <2>2. HandedPath = None /\ HandedPath' = None /\ UNCHANGED <<debounce, now>>
      BY <1>2, <1>3, <2>1 DEF Push, PushFailsHalfWay, MayPush, Fail, memory
    <2>3. DueOf' = [DueOf EXCEPT ![p] = IF mark = "/" THEN now ELSE None]
      BY <2>1, DueAfterPush DEF DueOf
    <2>4. OlderOf' = [q \in Path |->
                        IF q = p
                        THEN IF mark = "/" THEN {r \in Path \ {p} : Due(r) # None}
                             ELSE {}
                        ELSE OlderOf[q] \ {p}]
      BY <2>1, DueAfterPush DEF OlderOf
    <2>5. {r \in Path \ {p} : Due(r) # None} = D!Pending \ {p}
      BY DEF D!Pending
    <2>6. mark = "/" => D!Push(p)
      BY <2>2, <2>3, <2>4, <2>5 DEF D!Push, DueOf, OlderOf
    <2>7. mark = "!" => D!Cancel(p)
      BY <2>2, <2>3, <2>4 DEF D!Cancel, D!Forget, DueOf, OlderOf
    <2> QED
      BY <2>1, <2>6, <2>7 DEF D!Next
  <1>5. CASE PopHead \/ GetHeadSkips \/ PopFailsHalfWay
    <2>1. /\ entries' = Without(headIndex) /\ UNCHANGED <<debounce, now>>
          /\ pc' # "ready" /\ (pc = "ready" \/ HeadIsSuperseded)
      BY <1>5 DEF PopHead, GetHeadSkips, PopFailsHalfWay, Pop, Fail, memory
    <2> QED
      BY <2>1, PopRefines
  <1>6. CASE GetHeadReady
    <2>1. /\ UNCHANGED <<entries, headIndex, debounce, now>>
          /\ pc # "ready" /\ pc' = "ready" /\ HeadIsRipe
      BY <1>6 DEF GetHeadReady, HeadIsReady, HeadIsRipe, HeadIsThere, Getting
    <2>2. DueOf' = DueOf /\ OlderOf' = OlderOf /\ HandedPath = None
      BY <1>1, <1>2, <2>1
    <2>3. Head' = Head /\ Indexes' = Indexes /\ headIndex \in Indexes
      BY <2>1 DEF Head, Indexes, HeadIsRipe, HeadIsThere
    <2>4. HandedPath' = IF Head.mark = "/" THEN Head.path ELSE None
      BY <2>1, <2>3 DEF HandedPath
    <2>5. CASE Head.mark = "/"
      <3>1. PICK p \in Path : p = Head.path
        BY <2>3, HeadTyped DEF IInv
      <3>2. IndexesOf(p) = {headIndex}
        <4>1. IndexesOf(p)' = {headIndex}
          BY <2>1, <2>3, <2>5, <3>1 DEF IInv, ReadyHeadIsLast, IndexesOf
        <4> QED
          BY <2>1, <2>3, <4>1 DEF IndexesOf
      <3>3. Due(p) = Head.mtime
        BY <2>5, <3>2, DueOfSingle DEF Head, IInv, TypeOK
      <3>4. Head.mtime \in Nat /\ Mtime = Head.mtime
        BY <2>1, <2>3, HeadTyped
        DEF IInv, MtimeIsFresh, InMemory, Mtime, HeadIsRipe, HeadIsThere, Getting
      <3>5. D!Ripe(p)
        BY <2>1, <3>3, <3>4, LinqAssumption DEF D!Ripe, HeadIsRipe, Age
      <3>6. Older(p) = {}
        BY <2>1, <3>2, NoneBeforeHead
        DEF InMemory, HeadIsRipe, HeadIsThere, Getting
      <3>7. D!Take(p)
        BY <2>1, <2>2, <2>4, <2>5, <3>1, <3>5, <3>6 DEF D!Take, DueOf, OlderOf
      <3> QED
        BY <3>7 DEF D!Next
    <2>6. CASE Head.mark # "/"
      BY <2>1, <2>2, <2>4, <2>6 DEF D!vars, DueOf, OlderOf
    <2> QED
      BY <2>5, <2>6
  <1>7. CASE \E d \in Debounces : Load(d) \/ Redebounce(d)
    <2>1. PICK d \in Debounces : Load(d) \/ Redebounce(d)
      BY <1>7
    <2>2. /\ UNCHANGED <<entries, now>> /\ debounce' \in Debounces
          /\ pc # "ready" /\ pc' # "ready"
      BY <2>1 DEF Load, Redebounce
    <2>3. D!Redebounce
      BY <1>1, <1>2, <1>3, <2>2 DEF D!Redebounce, DueOf, OlderOf
    <2> QED
      BY <2>3 DEF D!Next
  <1>8. CASE \/ PushFails \/ GetHeadEmpty \/ GetHeadPaused \/ GetHeadFails
             \/ ReadyFails \/ Exit \/ Crash
    <2>1. UNCHANGED <<entries, debounce, now>> /\ pc' # "ready"
      BY <1>8 DEF PushFails, GetHeadEmpty, GetHeadPaused, GetHeadFails,
                  ReadyFails, Exit, Crash, Fail, memory
    <2>2. D!Abandon
      BY <1>1, <1>3, <2>1 DEF D!Abandon, DueOf, OlderOf
    <2> QED
      BY <2>2 DEF D!Next
  <1>9. CASE Tick \/ SetClockBack \/ UNCHANGED vars
    <2>1. UNCHANGED <<entries, headIndex, debounce, pc>> /\ now' \in Nat
      BY <1>9 DEF Tick, SetClockBack, vars, memory, IInv, TypeOK
    <2>2. HandedPath' = HandedPath
      BY <2>1 DEF HandedPath, Head, Indexes
    <2>3. D!Clock
      BY <1>1, <2>1, <2>2 DEF D!Clock, DueOf, OlderOf
    <2> QED
      BY <2>3 DEF D!Next
  <1> QED
    BY <1>4, <1>5, <1>6, <1>7, <1>8, <1>9 DEF Next

\* The directory queue hands out what Debounce promises: each path once per
\* pending write, debounce_seconds after the last one, never after a
\* cancelling push, and again after a crash that came before pop_head.
THEOREM Refinement == Spec => ImplementsDebounce
  <1>1. Init => D!Init
    <2> SUFFICES ASSUME Init PROVE D!Init
      OBVIOUS
    <2>1. Indexes = {}
      BY DEF Init, Indexes
    <2>2. \A p \in Path : Due(p) = None
      BY <2>1, DueOfNone DEF IndexesOf
    <2>3. HandedPath = None
      BY DEF Init, HandedPath
    <2>4. \A p \in Path : Older(p) = {}
      BY <2>2 DEF Older
    <2> QED
      BY <2>2, <2>3, <2>4 DEF D!Init, Init
  <1>2. IInv /\ IInv' /\ [Next]_vars => [D!Next]_(D!vars)
    BY NextRefines
  <1> QED
    BY <1>1, <1>2, Invariance, PTL DEF Spec, ImplementsDebounce, D!Spec

-----------------------------------------------------------------------------
\* Only get_head answers with a pause, and main looks at it before it can fail.
NoPauseAfterTheEnd == pc \in {"down", "failed"} => pause = 0

LEMMA PauseEnds == Spec => []NoPauseAfterTheEnd
  <1>1. Init => NoPauseAfterTheEnd
    BY DEF Init, NoPauseAfterTheEnd
  <1>2. NoPauseAfterTheEnd /\ [Next]_vars => NoPauseAfterTheEnd'
    <2> SUFFICES ASSUME NoPauseAfterTheEnd, [Next]_vars
                 PROVE  NoPauseAfterTheEnd'
      OBVIOUS
    <2>1. CASE PushFails \/ GetHeadFails \/ ReadyFails \/ PopFailsHalfWay
               \/ \E mark \in {"/", "!"}, p \in Path : PushFailsHalfWay(mark, p)
      BY <2>1 DEF PushFails, GetHeadFails, ReadyFails, PopFailsHalfWay,
                  PushFailsHalfWay, Fail, NoPauseAfterTheEnd
    <2>2. CASE \/ Exit \/ Crash \/ Tick \/ SetClockBack \/ UNCHANGED vars
      BY <2>2 DEF Exit, Crash, Tick, SetClockBack, vars, NoPauseAfterTheEnd
    <2>3. CASE \/ \E d \in Debounces : Load(d) \/ Redebounce(d)
               \/ \E mark \in {"/", "!"}, p \in Path : Push(mark, p)
               \/ GetHeadEmpty \/ GetHeadPaused \/ GetHeadSkips
               \/ GetHeadReady \/ PopHead
      BY <2>3 DEF Load, Redebounce, Push, MayPush, GetHeadEmpty, GetHeadPaused,
                  GetHeadSkips, GetHeadReady, PopHead, NoPauseAfterTheEnd
    <2> QED
      BY <2>1, <2>2, <2>3 DEF Next
  <1> QED
    BY <1>1, <1>2, PTL DEF Spec

\* The pause for the head is short enough for all that is pending behind it.
LEMMA PauseOfHeadIsSound ==
  ASSUME IInv, GetHeadPaused, InOrder, NEW p \in Path, Due(p)' # None
  PROVE  pause' > 0 /\ now + pause' <= Due(p)' + debounce'
  <1>1. TypeOK /\ MtimeIsFresh /\ InMemory /\ HeadIsThere
    BY DEF IInv, GetHeadPaused, HeadIsThere, Getting, InMemory
  <1>2. Mtime = Head.mtime /\ Mtime \in Nat
    BY <1>1, HeadTyped DEF MtimeIsFresh, Mtime, HeadIsThere
  <1>3. debounce \in Nat /\ now \in Nat
    BY <1>1, LinqAssumption DEF TypeOK
  <1>4. pause' = debounce - (now - Mtime) /\ now - Mtime < debounce
    BY DEF GetHeadPaused, PauseOfHead, Age
  <1>5. Due(p)' = Due(p) /\ debounce' = debounce
    BY DueUnchanged DEF GetHeadPaused
  <1>6. Due(p) # None
    BY <1>5
  <1>7. LastIndex(p) \in Indexes
    BY <1>1, <1>6, LastIndexTyped
  <1>8. Due(p) = entries[LastIndex(p)].mtime
    BY <1>6 DEF Due
  <1>9. headIndex \in Indexes /\ headIndex <= LastIndex(p)
    BY <1>1, <1>7 DEF IInv, MemoryIsDirectory, HeadIsThere, TypeOK
  <1>10. Head.mtime <= Due(p)
    BY <1>7, <1>8, <1>9 DEF InOrder, Head
  <1>11. Due(p) \in Nat
    BY <1>1, <1>7, <1>8 DEF TypeOK, Entry
  <1>12. pause' > 0 /\ now + pause' = Mtime + debounce
    BY <1>2, <1>3, <1>4
  <1> QED
    BY <1>2, <1>3, <1>5, <1>10, <1>11, <1>12

\* The pause that main sleeps for is never longer than a pending write allows,
\* and never endless while one is pending, unless the clock was set back.
THEOREM PausesAreSound == Spec => PauseIsSound
  <1>1. IInv /\ NoPauseAfterTheEnd /\ [Next]_vars =>
          [InOrder /\ pause' # 0 /\ UNCHANGED now =>
             \A p \in Path : Due(p)' # None =>
               pause' > 0 /\ now + pause' <= Due(p)' + debounce']_vars
    <2> SUFFICES ASSUME IInv, NoPauseAfterTheEnd, Next, ~UNCHANGED vars,
                        InOrder, pause' # 0, UNCHANGED now,
                        NEW p \in Path, Due(p)' # None
                 PROVE  pause' > 0 /\ now + pause' <= Due(p)' + debounce'
      OBVIOUS
    <2>1. CASE GetHeadPaused
      BY <2>1, PauseOfHeadIsSound
    <2>2. CASE GetHeadEmpty
      <3>1. Indexes = {}
        BY <2>2 DEF IInv, MemoryIsDirectory, InMemory, Getting, GetHeadEmpty,
                    TypeOK
      <3>2. Due(p) = None
        BY <3>1, DueOfNone DEF IndexesOf
      <3> QED
        BY <2>2, <3>2, DueUnchanged DEF GetHeadEmpty
    <2>3. CASE (\E d \in Debounces : Load(d)) \/ Exit
      BY <2>3 DEF Load, Exit, NoPauseAfterTheEnd
    <2>4. CASE Tick \/ SetClockBack
      BY <2>4 DEF Tick, SetClockBack, IInv, TypeOK
    <2>5. CASE \/ \E d \in Debounces : Redebounce(d)
               \/ \E mark \in {"/", "!"}, q \in Path :
                    Push(mark, q) \/ PushFailsHalfWay(mark, q)
               \/ PushFails \/ GetHeadSkips \/ GetHeadReady \/ GetHeadFails
               \/ PopHead \/ ReadyFails \/ PopFailsHalfWay \/ Crash
      BY <2>5 DEF Redebounce, Push, PushFailsHalfWay, PushFails, GetHeadSkips,
                  GetHeadReady, GetHeadFails, PopHead, ReadyFails,
                  PopFailsHalfWay, Crash, Fail
    <2> QED
      BY <2>1, <2>2, <2>3, <2>4, <2>5 DEF Next
  <1> QED
    BY <1>1, Invariance, PauseEnds, PTL DEF Spec, PauseIsSound
=============================================================================
