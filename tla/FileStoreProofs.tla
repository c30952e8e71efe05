-------------------------- MODULE FileStoreProofs ---------------------------
(***************************************************************************)
(* Proofs about the versions of a file, for files of any length, any names *)
(* and any number of calls and crashes: nothing is skipped, what counts as *)
(* stored is complete, no byte is stored twice and closed versions stay.   *)
(*                                                                         *)
(* What is in the offset file is covered by versions, and so is all that   *)
(* lies before the version that is being made; at the end of the copy its  *)
(* bytes join them.  That no byte is in two versions needs more: without a *)
(* crash the other versions end where the new one begins.                  *)
(***************************************************************************)
EXTENDS FileStore, TLAPS

Stage == {"idle", "open", "taken", "size", "copy", "counter", "digits", "link"}

Name == [stamp : Stamp, copy : Nat]

TypeOK ==
  /\ source \in {"regular", "other", "unreadable"}
  /\ length \in Nat
  /\ isHistory \in BOOLEAN
  /\ versions \in [DOMAIN versions -> [from : Nat, to : Nat]]
  /\ counter \in Nat \cup {None}
  /\ pc \in Stage
  /\ offset \in Nat /\ remaining \in Nat /\ owed \in Nat
  /\ switches \in Nat /\ crashes \in Nat

\* A version that is being made begins at the offset, where others ended.
JobIsRight ==
  /\ pc # "idle" => owed <= length
  /\ pc \in {"size", "copy", "counter", "digits"} =>
       /\ name \in DOMAIN versions
       /\ versions[name].from = offset
       /\ offset <= Position
  /\ pc \notin {"idle", "link"} =>
       /\ 1..offset \subseteq Kept
       /\ ~isHistory => offset = 0
  /\ pc = "size" => Position = offset
  /\ pc = "copy" => owed <= remaining + Position - offset

\* The versions but the one that is being made end before the next begins.
EndsInOrder ==
  isHistory /\ switches = 0 /\ crashes = 0 =>
    /\ source = "regular"
    /\ pc \in {"idle", "link"} =>
         \A v \in DOMAIN versions : versions[v].to <= ReadCounter
    /\ pc \in {"open", "taken"} =>
         \A v \in DOMAIN versions : versions[v].to <= offset
    /\ pc \in {"size", "copy", "counter", "digits"} =>
         \A v \in DOMAIN versions : v # name => versions[v].to <= offset

IInv ==
  /\ TypeOK
  /\ JobIsRight
  /\ NothingIsSkipped
  /\ StoredIsComplete
  /\ EndsInOrder
  /\ NoByteTwice

-----------------------------------------------------------------------------
\* What the assumption on the constants says of powers and None.
LEMMA Constants ==
  Power \subseteq Nat \ {0} /\ None \notin Nat
  BY FileStoreAssumption

\* The versions that grow, and those that are added, take no byte away.
LEMMA KeptGrows ==
  ASSUME TypeOK, TypeOK',
         \A v \in DOMAIN versions :
           /\ v \in DOMAIN versions'
           /\ versions'[v].from = versions[v].from
           /\ versions[v].to <= versions'[v].to
  PROVE  Kept \subseteq Kept'
  <1>1. ASSUME NEW v \in DOMAIN versions
        PROVE  v \in DOMAIN versions' /\ Bytes(v) \subseteq Bytes(v)'
    <2>1. /\ versions[v].from \in Nat /\ versions[v].to \in Nat
          /\ versions'[v].from \in Nat /\ versions'[v].to \in Nat
      BY DEF TypeOK
    <2> QED
      BY <2>1 DEF Bytes
  <1>2. ASSUME NEW b \in Kept
        PROVE  b \in Kept'
    <2>1. PICK v \in DOMAIN versions : b \in Bytes(v)
      BY DEF Kept
    <2>2. v \in DOMAIN versions' /\ b \in Bytes(v)'
      BY <1>1, <2>1
    <2> QED
      BY <2>2 DEF Kept
  <1> QED
    BY <1>2

\* A version that begins where others have ended, or earlier, continues them.
LEMMA Continues ==
  ASSUME TypeOK, NEW v \in DOMAIN versions, 1..versions[v].from \subseteq Kept
  PROVE  1..versions[v].to \subseteq Kept
  <1>1. versions[v].from \in Nat /\ versions[v].to \in Nat
    BY DEF TypeOK
  <1>2. ASSUME NEW b \in 1..versions[v].to
        PROVE  b \in Kept
    <2>1. CASE b <= versions[v].from
      BY <1>1, <2>1
    <2>2. CASE b > versions[v].from
      BY <1>1, <2>2 DEF Kept, Bytes
    <2> QED
      BY <1>1, <2>1, <2>2
  <1> QED
    BY <1>2

\* The number that is made of the first digits of a number.
LEMMA FirstDigits ==
  ASSUME NEW n \in Nat, NEW power \in Nat \ {0}
  PROVE  /\ n \div power \in Nat
         /\ n \div power <= n
         /\ power = 1 => n \div power = n
  OBVIOUS

-----------------------------------------------------------------------------
\* There is no version yet, and no offset file.
LEMMA InitIInv ==
  ASSUME Init
  PROVE  IInv
  <1>1. DOMAIN versions = {}
    BY DEF Init
  <1>2. TypeOK
    BY <1>1 DEF Init, TypeOK, Stage
  <1>3. JobIsRight /\ NothingIsSkipped /\ StoredIsComplete
    BY DEF Init, JobIsRight, NothingIsSkipped, StoredIsComplete
  <1>4. EndsInOrder /\ NoByteTwice
    BY <1>1 DEF Init, EndsInOrder, NoByteTwice
  <1> QED
    BY <1>2, <1>3, <1>4 DEF IInv

\* The file grows while store looks at it; something else takes its place.
LEMMA SourceKeeps ==
  ASSUME IInv,
         \/ AppendByte
         \/ \E what \in {"regular", "other", "unreadable"} : Replace(what)
  PROVE  IInv'
  <1>1. /\ isHistory' = isHistory /\ versions' = versions /\ counter' = counter
        /\ pc' = pc /\ name' = name /\ offset' = offset
        /\ remaining' = remaining /\ owed' = owed /\ crashes' = crashes
        /\ \/ source' = source /\ length' = length + 1 /\ switches' = switches
           \/ /\ source' \in {"regular", "other", "unreadable"}
              /\ length' = length /\ switches' = switches + 1
    BY DEF AppendByte, Replace, job
  <1>2. TypeOK /\ TypeOK'
    BY <1>1 DEF IInv, TypeOK
  <1>3. Kept' = Kept
    BY <1>1 DEF Kept, Bytes
  <1>4. length <= length' /\ (switches' = 0 => switches = 0 /\ source' = source)
    BY <1>1, <1>2 DEF TypeOK
  <1>5. JobIsRight'
    BY <1>1, <1>2, <1>3, <1>4 DEF IInv, TypeOK, JobIsRight, Position
  <1>6. NothingIsSkipped' /\ StoredIsComplete'
    BY <1>1, <1>3 DEF IInv, NothingIsSkipped, StoredIsComplete, Bytes
  <1>7. EndsInOrder' /\ NoByteTwice'
    BY <1>1, <1>4 DEF IInv, EndsInOrder, NoByteTwice, ReadCounter, Bytes
  <1> QED
    BY <1>2, <1>5, <1>6, <1>7 DEF IInv

\* store is left, by a crash or with nothing made.
LEMMA LeaveKeeps ==
  ASSUME IInv, Reconfigure \/ Crash \/ SourceIsUnreadable
  PROVE  IInv'
  <1>1. /\ length' = length /\ source' = source
        /\ versions' = versions /\ counter' = counter
        /\ pc' = "idle" /\ name' = name /\ offset' = offset
        /\ remaining' = remaining /\ owed' = owed
        /\ isHistory' \in BOOLEAN
        /\ \/ switches' = switches + 1 /\ crashes' = crashes
           \/ switches' = switches /\ crashes' = crashes + 1
           \/ /\ switches' = switches /\ crashes' = crashes
              /\ source = "unreadable" /\ isHistory' = isHistory
    BY DEF IInv, TypeOK, Reconfigure, Crash, SourceIsUnreadable, job, environment
  <1>2. TypeOK /\ TypeOK'
    BY <1>1 DEF IInv, TypeOK, Stage
  <1>3. Kept' = Kept
    BY <1>1 DEF Kept, Bytes
  <1>4. JobIsRight' /\ StoredIsComplete'
    BY <1>1 DEF JobIsRight, StoredIsComplete
  <1>5. NothingIsSkipped'
    BY <1>1, <1>3 DEF IInv, NothingIsSkipped
  <1>6. EndsInOrder' /\ NoByteTwice'
    BY <1>1, <1>2 DEF IInv, TypeOK, EndsInOrder, NoByteTwice, Bytes
  <1> QED
    BY <1>2, <1>4, <1>5, <1>6 DEF IInv

\* The version will begin where the offset file says, or at 0.
LEMMA BeginKeeps ==
  ASSUME IInv, NEW stamp \in Stamp, Begin(stamp)
  PROVE  IInv'
  <1>1. /\ length' = length /\ source' = source /\ isHistory' = isHistory
        /\ versions' = versions /\ counter' = counter
        /\ switches' = switches /\ crashes' = crashes
        /\ pc = "idle" /\ pc' = "open" /\ remaining' = remaining
        /\ offset' = (IF isHistory THEN ReadCounter ELSE 0)
        /\ owed' = length
    BY DEF Begin, environment
  <1>2. TypeOK /\ TypeOK'
    BY <1>1 DEF IInv, TypeOK, Stage, ReadCounter
  <1>3. Kept' = Kept
    BY <1>1 DEF Kept, Bytes
  <1>4. 1..offset' \subseteq Kept
    BY <1>1, Constants DEF IInv, NothingIsSkipped, ReadCounter
  <1>5. JobIsRight'
    BY <1>1, <1>2, <1>3, <1>4 DEF JobIsRight, TypeOK
  <1>6. NothingIsSkipped' /\ StoredIsComplete'
    BY <1>1, <1>3 DEF IInv, NothingIsSkipped, StoredIsComplete
  <1>7. EndsInOrder' /\ NoByteTwice'
    BY <1>1 DEF IInv, EndsInOrder, NoByteTwice, ReadCounter, Bytes
  <1> QED
    BY <1>2, <1>5, <1>6, <1>7 DEF IInv

\* Only the name is another one.
LEMMA TryAgainKeeps ==
  ASSUME IInv, TryAgain
  PROVE  IInv'
  <1>1. /\ length' = length /\ source' = source /\ isHistory' = isHistory
        /\ versions' = versions /\ counter' = counter
        /\ switches' = switches /\ crashes' = crashes
        /\ pc = "taken" /\ pc' = "open" /\ remaining' = remaining
        /\ offset' = offset /\ owed' = owed
    BY DEF TryAgain, environment
  <1>2. TypeOK /\ TypeOK'
    BY <1>1 DEF IInv, TypeOK, Stage
  <1>3. Kept' = Kept
    BY <1>1 DEF Kept, Bytes
  <1>4. JobIsRight' /\ NothingIsSkipped' /\ StoredIsComplete'
    BY <1>1, <1>3 DEF IInv, JobIsRight, NothingIsSkipped, StoredIsComplete
  <1>5. EndsInOrder' /\ NoByteTwice'
    BY <1>1 DEF IInv, EndsInOrder, NoByteTwice, Bytes
  <1> QED
    BY <1>2, <1>4, <1>5 DEF IInv

\* The new version is empty and takes no other's name.
LEMMA CreateKeeps ==
  ASSUME IInv, Create
  PROVE  IInv'
  <1>1. /\ length' = length /\ source' = source /\ isHistory' = isHistory
        /\ counter' = counter /\ switches' = switches /\ crashes' = crashes
        /\ pc = "open" /\ name' = name /\ remaining' = remaining
        /\ offset' = offset /\ owed' = owed
        /\ \/ pc' = "taken" /\ versions' = versions
           \/ /\ pc' = "size" /\ name \notin DOMAIN versions
              /\ versions' = With(name, [from |-> offset, to |-> offset])
    BY DEF Create, job, environment
  <1>2. TypeOK
    BY DEF IInv
  <1>3. CASE pc' = "taken" /\ versions' = versions
    <2>1. TypeOK'
      BY <1>1, <1>2, <1>3 DEF TypeOK, Stage
    <2>2. Kept' = Kept
      BY <1>3 DEF Kept, Bytes
    <2>3. JobIsRight' /\ NothingIsSkipped' /\ StoredIsComplete'
      BY <1>1, <1>3, <2>2 DEF IInv, JobIsRight, NothingIsSkipped, StoredIsComplete
    <2>4. EndsInOrder' /\ NoByteTwice'
      BY <1>1, <1>3 DEF IInv, EndsInOrder, NoByteTwice, Bytes
    <2> QED
      BY <2>1, <2>3, <2>4 DEF IInv
  <1>4. CASE /\ pc' = "size" /\ name \notin DOMAIN versions
             /\ versions' = With(name, [from |-> offset, to |-> offset])
    <2>1. /\ DOMAIN versions' = DOMAIN versions \cup {name}
          /\ versions' \in [DOMAIN versions' -> [from : Nat, to : Nat]]
          /\ versions'[name] = [from |-> offset, to |-> offset]
          /\ \A v \in DOMAIN versions : versions'[v] = versions[v]
      <3>1. /\ DOMAIN versions' = DOMAIN versions \cup {name}
            /\ versions'[name] = [from |-> offset, to |-> offset]
            /\ \A v \in DOMAIN versions : versions'[v] = versions[v]
            /\ versions' = [v \in DOMAIN versions' |-> versions'[v]]
        BY <1>4 DEF With
      <3>2. \A v \in DOMAIN versions' : versions'[v] \in [from : Nat, to : Nat]
        BY <1>2, <3>1 DEF TypeOK
      <3> QED
        BY <3>1, <3>2
    <2>2. TypeOK'
      BY <1>1, <1>2, <1>4, <2>1 DEF TypeOK, Stage
    <2>3. Kept \subseteq Kept'
      <3>1. \A v \in DOMAIN versions : versions[v].to <= versions'[v].to
        BY <1>2, <2>1 DEF TypeOK
      <3> QED
        BY <1>2, <2>1, <2>2, <3>1, KeptGrows
    <2>4. /\ name' \in DOMAIN versions' /\ versions'[name'].from = offset
          /\ versions'[name'].to = offset /\ offset \in Nat
      BY <1>1, <1>2, <2>1 DEF TypeOK
    <2>5. JobIsRight'
      BY <1>1, <1>4, <2>3, <2>4 DEF IInv, JobIsRight, Position
    <2>6. NothingIsSkipped' /\ StoredIsComplete'
      BY <1>1, <1>4, <2>3 DEF IInv, NothingIsSkipped, StoredIsComplete
    <2>7. EndsInOrder'
      BY <1>1, <1>4, <2>1 DEF IInv, EndsInOrder
    <2>8. NoByteTwice'
      <3>1. \A v \in DOMAIN versions : Bytes(v)' = Bytes(v)
        BY <2>1 DEF Bytes
      <3>2. \A v : v = name => Bytes(v)' = {}
        BY <1>2, <2>1 DEF TypeOK, Bytes
      <3> QED
        BY <1>1, <2>1, <3>1, <3>2 DEF IInv, NoByteTwice
    <2> QED
      BY <2>2, <2>5, <2>6, <2>7, <2>8 DEF IInv
  <1> QED
    BY <1>1, <1>3, <1>4

\* The size is not less than the length at the call, for the file only grows.
LEMMA TakeSizeKeeps ==
  ASSUME IInv, TakeSize
  PROVE  IInv'
  <1>1. /\ length' = length /\ source' = source /\ isHistory' = isHistory
        /\ versions' = versions /\ counter' = counter /\ name' = name
        /\ switches' = switches /\ crashes' = crashes
        /\ offset' = offset /\ owed' = owed /\ pc = "size"
        /\ \/ source = "other" /\ pc' = "idle" /\ remaining' = remaining
           \/ pc' = "copy" /\ remaining' = length
    BY DEF TakeSize, environment
  <1>2. TypeOK /\ TypeOK'
    BY <1>1 DEF IInv, TypeOK, Stage
  <1>3. Kept' = Kept
    BY <1>1 DEF Kept, Bytes
  <1>4. JobIsRight'
    BY <1>1, <1>2, <1>3 DEF IInv, TypeOK, JobIsRight, Position
  <1>5. NothingIsSkipped' /\ StoredIsComplete'
    BY <1>1, <1>3 DEF IInv, NothingIsSkipped, StoredIsComplete
  <1>6. EndsInOrder' /\ NoByteTwice'
    BY <1>1 DEF IInv, EndsInOrder, NoByteTwice, Bytes
  <1> QED
    BY <1>2, <1>4, <1>5, <1>6 DEF IInv

\* Bytes after the end of the version join it: they are in no other.
LEMMA SendKeeps ==
  ASSUME IInv, NEW n \in Int, Send(n)
  PROVE  IInv'
  <1>1. /\ length' = length /\ source' = source /\ isHistory' = isHistory
        /\ counter' = counter /\ name' = name
        /\ switches' = switches /\ crashes' = crashes
        /\ offset' = offset /\ owed' = owed /\ pc = "copy" /\ pc' = "copy"
        /\ n \in 1..remaining /\ remaining' = remaining - n
        /\ versions' = [versions EXCEPT ![name].to = @ + n]
    BY DEF Send, environment
  <1>2. TypeOK /\ name \in DOMAIN versions
    BY <1>1 DEF IInv, JobIsRight
  <1>3. /\ versions[name].to \in Nat /\ versions[name].from \in Nat
        /\ remaining \in Nat /\ offset \in Nat /\ owed \in Nat
        /\ versions[name].from = offset /\ offset <= versions[name].to
        /\ owed <= remaining + versions[name].to - offset
    BY <1>1, <1>2 DEF IInv, TypeOK, JobIsRight, Position
  <1>4. /\ DOMAIN versions' = DOMAIN versions
        /\ versions' \in [DOMAIN versions -> [from : Nat, to : Nat]]
        /\ versions'[name].from = offset
        /\ versions'[name].to = versions[name].to + n
        /\ \A v \in DOMAIN versions : v # name => versions'[v] = versions[v]
    BY <1>1, <1>2, <1>3 DEF TypeOK
  <1>5. TypeOK'
    BY <1>1, <1>2, <1>3, <1>4 DEF TypeOK, Stage
  <1>6. Kept \subseteq Kept'
    <2>1. ASSUME NEW v \in DOMAIN versions
          PROVE  /\ v \in DOMAIN versions'
                 /\ versions'[v].from = versions[v].from
                 /\ versions[v].to <= versions'[v].to
      <3>1. CASE v = name
        BY <1>1, <1>3, <1>4, <3>1
      <3>2. CASE v # name
        BY <1>2, <1>4, <3>2 DEF TypeOK
      <3> QED
        BY <3>1, <3>2
    <2> QED
      BY <1>2, <1>5, <2>1, KeptGrows
  <1>7. JobIsRight'
    <2>1. 1..offset \subseteq Kept'
      BY <1>1, <1>6 DEF IInv, JobIsRight
    <2> QED
      BY <1>1, <1>2, <1>3, <1>4, <2>1 DEF IInv, JobIsRight, Position
  <1>8. NothingIsSkipped' /\ StoredIsComplete'
    BY <1>1, <1>6 DEF IInv, NothingIsSkipped, StoredIsComplete
  <1>9. EndsInOrder'
    BY <1>1, <1>4 DEF IInv, EndsInOrder
  <1>10. NoByteTwice'
    <2>1. ASSUME isHistory, switches = 0, crashes = 0,
                 NEW v \in DOMAIN versions, v # name
          PROVE  versions'[v] = versions[v] /\ versions[v].to <= offset
      BY <1>1, <1>4, <2>1 DEF IInv, EndsInOrder
    <2>2. ASSUME isHistory, switches = 0, crashes = 0,
                 NEW v \in DOMAIN versions, NEW w \in DOMAIN versions, v # w
          PROVE  ((versions'[v].from + 1)..versions'[v].to) \cap
                 ((versions'[w].from + 1)..versions'[w].to) = {}
      <3>1. \A u \in DOMAIN versions' : versions'[u].from \in Nat /\ versions'[u].to \in Nat
        BY <1>4
      <3>2. CASE v = name
        BY <1>3, <1>4, <2>1, <2>2, <3>1, <3>2
      <3>3. CASE w = name
        BY <1>3, <1>4, <2>1, <2>2, <3>1, <3>3
      <3>4. CASE v # name /\ w # name
        BY <2>1, <2>2, <3>4 DEF IInv, NoByteTwice, Bytes
      <3> QED
        BY <3>2, <3>3, <3>4
    <2> QED
      BY <1>1, <1>4, <2>2 DEF NoByteTwice, Bytes
  <1> QED
    BY <1>5, <1>7, <1>8, <1>9, <1>10 DEF IInv

\* What is owed was sent, or the end of the file was reached.
LEMMA CloseVersionKeeps ==
  ASSUME IInv, CloseVersion
  PROVE  IInv'
  <1>1. /\ length' = length /\ source' = source /\ isHistory' = isHistory
        /\ versions' = versions /\ counter' = counter /\ name' = name
        /\ switches' = switches /\ crashes' = crashes /\ remaining' = remaining
        /\ offset' = offset /\ owed' = owed /\ pc = "copy" /\ pc' = "counter"
        /\ remaining = 0 \/ Position >= length
    BY DEF CloseVersion, IsSent, job, environment
  <1>2. TypeOK /\ TypeOK'
    BY <1>1 DEF IInv, TypeOK, Stage
  <1>3. Kept' = Kept
    BY <1>1 DEF Kept, Bytes
  <1>4. /\ name \in DOMAIN versions /\ offset <= Position
        /\ 1..versions[name].from \subseteq Kept
        /\ owed <= remaining + Position - offset /\ owed <= length
    BY <1>1 DEF IInv, JobIsRight
  <1>5. (offset + 1)..owed \subseteq Bytes(name)
    <2>1. /\ Position \in Nat /\ owed \in Nat /\ owed <= Position
          /\ versions[name].from = offset /\ versions[name].to = Position
      BY <1>1, <1>2, <1>4 DEF IInv, JobIsRight, TypeOK, Position
    <2> QED
      BY <1>2, <2>1 DEF TypeOK, Bytes
  <1>6. JobIsRight' /\ StoredIsComplete'
    <2>1. StoredIsComplete'
      BY <1>1, <1>3, <1>5 DEF IInv, JobIsRight, StoredIsComplete, Bytes
    <2>2. JobIsRight'
      BY <1>1, <1>3 DEF IInv, JobIsRight, Position
    <2> QED
      BY <2>1, <2>2
  <1>7. NothingIsSkipped'
    BY <1>1, <1>3 DEF IInv, NothingIsSkipped
  <1>8. EndsInOrder' /\ NoByteTwice'
    BY <1>1 DEF IInv, EndsInOrder, NoByteTwice, Bytes
  <1> QED
    BY <1>2, <1>6, <1>7, <1>8 DEF IInv

\* The number of the offset file is at most where the version ends, and with
\* all its digits it is that.
LEMMA CounterKeeps ==
  ASSUME IInv, \/ RemoveCounter \/ TruncateCounter
               \/ \E power \in Power : WriteDigits(power)
  PROVE  IInv'
  <1>1. /\ length' = length /\ source' = source /\ isHistory' = isHistory
        /\ versions' = versions /\ name' = name
        /\ switches' = switches /\ crashes' = crashes /\ remaining' = remaining
        /\ offset' = offset /\ owed' = owed
        /\ pc \in {"counter", "digits"} /\ pc' \in {"digits", "link"}
    BY DEF RemoveCounter, TruncateCounter, WriteDigits, job, environment
  <1>2. TypeOK /\ name \in DOMAIN versions /\ offset <= Position
    BY <1>1 DEF IInv, JobIsRight
  <1>3. Position \in Nat /\ offset \in Nat /\ 1..Position \subseteq Kept
    <2>1. 1..versions[name].from \subseteq Kept
      BY <1>1 DEF IInv, JobIsRight
    <2> QED
      BY <1>2, <2>1, Continues DEF TypeOK, Position
  <1>4. /\ NewOffset \in Nat /\ (isHistory => NewOffset = Position)
        /\ 1..NewOffset \subseteq Kept
    BY <1>3 DEF NewOffset
  <1>5. /\ counter' \in Nat \cup {None}
        /\ counter' # None => 1..counter' \subseteq Kept
        /\ pc' = "link" /\ isHistory => ReadCounter' = Position
    <2>1. CASE RemoveCounter
      BY <1>4, <2>1 DEF RemoveCounter, ReadCounter
    <2>2. CASE TruncateCounter
      BY <2>2 DEF TruncateCounter
    <2>3. ASSUME NEW power \in Power, WriteDigits(power)
          PROVE  /\ counter' \in Nat /\ 1..counter' \subseteq Kept
                 /\ pc' = "link" => counter' = NewOffset
      <3>1. /\ counter' = NewOffset \div power
            /\ pc' = "link" => power = 1
        BY <1>1, <2>3 DEF WriteDigits
      <3>2. counter' \in Nat /\ counter' <= NewOffset
            /\ (power = 1 => counter' = NewOffset)
        BY <1>4, <3>1, Constants, FirstDigits
      <3> QED
        BY <1>4, <3>1, <3>2
    <2> QED
      BY <1>4, <2>1, <2>2, <2>3, Constants DEF ReadCounter
  <1>6. TypeOK'
    BY <1>1, <1>2, <1>5 DEF TypeOK, Stage
  <1>7. Kept' = Kept
    BY <1>1 DEF Kept, Bytes
  <1>8. JobIsRight' /\ StoredIsComplete'
    <2>1. StoredIsComplete'
      BY <1>1, <1>7 DEF IInv, StoredIsComplete, Bytes
    <2>2. JobIsRight'
      BY <1>1, <1>7 DEF IInv, JobIsRight, Position
    <2> QED
      BY <2>1, <2>2
  <1>9. NothingIsSkipped'
    BY <1>5, <1>7 DEF NothingIsSkipped
  <1>10. EndsInOrder'
    <2>1. ASSUME isHistory, switches = 0, crashes = 0, NEW v \in DOMAIN versions
          PROVE  versions[v].to <= Position
      <3>1. CASE v = name
        BY <1>3, <3>1 DEF Position
      <3>2. CASE v # name
        <4>1. versions[v].to <= offset /\ versions[v].to \in Nat
          BY <1>1, <1>2, <2>1, <3>2 DEF IInv, EndsInOrder, TypeOK
        <4> QED
          BY <1>2, <1>3, <4>1
      <3> QED
        BY <3>1, <3>2
    <2> QED
      BY <1>1, <1>5, <2>1 DEF IInv, EndsInOrder
  <1>11. NoByteTwice'
    BY <1>1 DEF IInv, NoByteTwice, Bytes
  <1> QED
    BY <1>6, <1>8, <1>9, <1>10, <1>11 DEF IInv

\* The link to the working copy is no version.
LEMMA LinkKeeps ==
  ASSUME IInv, LinkWorkingCopy \/ UNCHANGED vars
  PROVE  IInv'
  <1>1. /\ length' = length /\ source' = source /\ isHistory' = isHistory
        /\ versions' = versions /\ counter' = counter /\ name' = name
        /\ switches' = switches /\ crashes' = crashes
        /\ remaining' = remaining /\ offset' = offset /\ owed' = owed
        /\ pc' = pc \/ (pc = "link" /\ pc' = "idle")
    BY DEF LinkWorkingCopy, vars, job, environment
  <1>2. TypeOK /\ TypeOK'
    BY <1>1 DEF IInv, TypeOK, Stage
  <1>3. Kept' = Kept
    BY <1>1 DEF Kept, Bytes
  <1>4. JobIsRight' /\ NothingIsSkipped' /\ StoredIsComplete'
    BY <1>1, <1>3 DEF IInv, JobIsRight, NothingIsSkipped, StoredIsComplete,
                      Position, Bytes
  <1>5. EndsInOrder' /\ NoByteTwice'
    BY <1>1 DEF IInv, EndsInOrder, NoByteTwice, ReadCounter, Bytes
  <1> QED
    BY <1>2, <1>4, <1>5 DEF IInv

-----------------------------------------------------------------------------
\* All steps keep the invariant.
LEMMA NextIInv ==
  ASSUME IInv, [Next]_vars
  PROVE  IInv'
  <1>1. CASE \/ AppendByte
             \/ \E what \in {"regular", "other", "unreadable"} : Replace(what)
    BY <1>1, SourceKeeps
  <1>2. CASE Reconfigure \/ Crash \/ SourceIsUnreadable
    BY <1>2, LeaveKeeps
  <1>3. CASE \E stamp \in Stamp : Begin(stamp)
    BY <1>3, BeginKeeps
  <1>4. CASE Create
    BY <1>4, CreateKeeps
  <1>5. CASE TryAgain
    BY <1>5, TryAgainKeeps
  <1>6. CASE TakeSize
    BY <1>6, TakeSizeKeeps
  <1>7. CASE \E n \in 1..MaxLength : Send(n)
    BY <1>7, SendKeeps
  <1>8. CASE CloseVersion
    BY <1>8, CloseVersionKeeps
  <1>9. CASE \/ RemoveCounter \/ TruncateCounter
             \/ \E power \in Power : WriteDigits(power)
    BY <1>9, CounterKeeps
  <1>10. CASE LinkWorkingCopy \/ UNCHANGED vars
    BY <1>10, LinkKeeps
  <1> QED
    BY <1>1, <1>2, <1>3, <1>4, <1>5, <1>6, <1>7, <1>8, <1>9, <1>10
       DEF Next, StoreStep

\* The invariant holds, wherever store is left and whatever happens to the file.
THEOREM Invariance == Spec => []IInv
  <1>1. Init => IInv
    BY InitIInv
  <1>2. IInv /\ [Next]_vars => IInv'
    BY NextIInv
  <1> QED
    BY <1>1, <1>2, PTL DEF Spec

\* The next version of a history begins no later than the versions before it
\* end: what is left of an offset file after a crash is no more than that.
THEOREM NoByteIsSkipped == Spec => []NothingIsSkipped
  <1>1. IInv => NothingIsSkipped
    BY DEF IInv
  <1> QED
    BY <1>1, Invariance, PTL

\* Each call that stores the file makes one version that reaches from the offset
\* to the length that the file had when store was called (the two ends of the
\* loop in sync_file); nothing is missing before the offset, which is 0 for a
\* file that is no history.
THEOREM VersionsAreComplete == Spec => []StoredIsComplete
  <1>1. IInv => StoredIsComplete
    BY DEF IInv
  <1> QED
    BY <1>1, Invariance, PTL

\* Without a crash the versions of a history share no byte.
THEOREM VersionsAreDisjoint == Spec => []NoByteTwice
  <1>1. IInv => NoByteTwice
    BY DEF IInv
  <1> QED
    BY <1>1, Invariance, PTL

\* Only the version that is being copied changes (O_EXCL in sync_file).
THEOREM VersionsStay == Spec => ClosedVersionsStay
  <1>1. ASSUME IInv, [Next]_vars, NEW v \in DOMAIN versions
        PROVE  /\ v \in DOMAIN versions'
               /\ versions'[v] # versions[v] => pc = "copy" /\ v = name
    <2>1. CASE versions' = versions
      BY <2>1
    <2>2. CASE Create
      BY <2>2 DEF Create, With
    <2>3. CASE \E n \in 1..MaxLength : Send(n)
      BY <2>3 DEF IInv, TypeOK, Send
    <2>4. versions' = versions \/ Create \/ \E n \in 1..MaxLength : Send(n)
      BY <1>1 DEF Next, StoreStep, vars, AppendByte, Replace, Reconfigure, Crash,
                  Begin, SourceIsUnreadable, TryAgain, TakeSize, CloseVersion,
                  RemoveCounter, TruncateCounter, WriteDigits, LinkWorkingCopy
    <2> QED
      BY <2>1, <2>2, <2>3, <2>4
  <1>2. IInv /\ [Next]_vars =>
          [\A v \in DOMAIN versions :
             /\ v \in DOMAIN versions'
             /\ versions'[v] # versions[v] => pc = "copy" /\ v = name]_vars
    BY <1>1
  <1> QED
    BY <1>2, Invariance, PTL DEF Spec, ClosedVersionsStay

=============================================================================
