--------------------------- MODULE UtilityProofs ---------------------------
(***************************************************************************)
(* Proofs about the parts that the others are built from, for every value  *)
(* of their constants; three sections, each about a module of its own:     *)
(*                                                                         *)
(* Trace implements Exceptions.  The invariant that the proof needs        *)
(* besides the types is PostThrowMeansThrown: with it preThrowDepth is the *)
(* number of blocks that were open at the throw, also while nothing is     *)
(* thrown.                                                                 *)
(*                                                                         *)
(* HashSet finds what was added, and implements Multiset.  The invariant   *)
(* HInv says that no chain has two entries of a value, that emptyHeadCount *)
(* counts the empty chains, and that the hash that a buffer keeps is that  *)
(* of the part of its string it has seen.                                  *)
(*                                                                         *)
(* Sieve decides as it is documented, and the same both times a path is    *)
(* sieved.  The invariant SInv says which rules its ends are, at every     *)
(* step of the loop, and what is pushed and stored at what stage.          *)
(***************************************************************************)
EXTENDS Trace, HashSet, Sieve, SequenceTheorems, FiniteSetTheorems,
        WellFoundedInduction, TLAPS

-----------------------------------------------------------------------------
(* Traces.                                                                 *)

IInv == TypeOK /\ PostThrowMeansThrown

-----------------------------------------------------------------------------
(* A message that is put leaves a typed trace that is not ok, and the      *)
(* exception is known by that message or by none.                          *)
LEMMA FrameIsPut ==
  ASSUME TypeOK, NEW m \in Message \cup {Unnamed}, PutFrame(m)
  PROVE  /\ frames' \in Seq(Message \cup {Unnamed})
         /\ droppedFrameCount' \in Nat
         /\ ~Ok'
         /\ Thrown' \in {{m}, {Unnamed}}
<1>1. CASE frames' = <<m>> \o frames /\ UNCHANGED droppedFrameCount
  <2>1. /\ frames' \in Seq(Message \cup {Unnamed})
        /\ frames' # <<>>
        /\ Head(frames') = m
    BY <1>1 DEF TypeOK
  <2> QED BY <1>1, <2>1 DEF TypeOK, Ok, Thrown
<1>2. CASE droppedFrameCount' = droppedFrameCount + 1 /\ UNCHANGED frames
  <2>1. droppedFrameCount' \in Nat /\ droppedFrameCount' # 0
    BY <1>2 DEF TypeOK
  <2> QED BY <1>2, <2>1 DEF TypeOK, Ok, Thrown
<1> QED BY <1>1, <1>2 DEF PutFrame

(* decrement_depth takes one from the depth that is in use.                *)
LEMMA DepthDecrements ==
  ASSUME TypeOK, Depth > 0, DecrementDepth
  PROVE  /\ preThrowDepth' \in Nat
         /\ postThrowDepth' \in Nat
         /\ Depth' = Depth - 1
         /\ postThrowDepth = 0 => postThrowDepth' = 0
         /\ preThrowDepth' = IF preThrowDepth = Depth THEN preThrowDepth - 1
                             ELSE preThrowDepth
BY DEF TypeOK, Depth, DecrementDepth

LEMMA InitIsTyped == Init => IInv
BY DEF Init, IInv, TypeOK, PostThrowMeansThrown

LEMMA NextKeepsIInv == IInv /\ [Next]_vars => IInv'
<1> SUFFICES ASSUME IInv, [Next]_vars PROVE IInv'
  OBVIOUS
<1> USE DEF IInv
<1>1. CASE \E m \in Message \cup {Unnamed} : Throw(m)
  <2> PICK m \in Message \cup {Unnamed} : Throw(m)
    BY <1>1
  <2> QED BY FrameIsPut DEF Throw, TypeOK, PostThrowMeansThrown
<1>2. CASE Try
  BY <1>2 DEF Try, TypeOK, PostThrowMeansThrown, Ok
<1>3. CASE \E m \in Message : CatchStatic(m)
  BY <1>3 DEF CatchStatic, Catches, TypeOK, PostThrowMeansThrown
<1>4. CASE \E m \in Message : FinallyRethrowStatic(m)
  <2> PICK m \in Message : FinallyRethrowStatic(m)
    BY <1>4
  <2>1. CASE postThrowDepth = 0 /\ ~Ok
    BY <2>1, FrameIsPut, DepthDecrements
    DEF FinallyRethrowStatic, TypeOK, PostThrowMeansThrown
  <2>2. CASE ~(postThrowDepth = 0 /\ ~Ok)
    BY <2>2, DepthDecrements
    DEF FinallyRethrowStatic, TypeOK, PostThrowMeansThrown, Ok
  <2> QED BY <2>1, <2>2
<1>5. CASE FinallyCatchAll
  BY <1>5, DepthDecrements DEF FinallyCatchAll, TypeOK, PostThrowMeansThrown
<1>6. CASE Finally
  BY <1>6, DepthDecrements DEF Finally, TypeOK, PostThrowMeansThrown, Ok
<1>7. CASE RethrowContext
  BY <1>7, FrameIsPut DEF RethrowContext, TypeOK, PostThrowMeansThrown
<1>8. CASE UNCHANGED vars
  BY <1>8 DEF vars, TypeOK, PostThrowMeansThrown, Ok
<1> QED BY <1>1, <1>2, <1>3, <1>4, <1>5, <1>6, <1>7, <1>8 DEF Next

(* A trace is well-formed and has blocks of the second kind only while     *)
(* something is thrown, whatever its clients call and wherever memory runs *)
(* out.                                                                    *)
THEOREM Invariance == Spec => []IInv
BY InitIsTyped, NextKeepsIInv, PTL DEF Spec

THEOREM TypeCorrect == Spec => []TypeOK
BY Invariance, PTL DEF IInv

(* try counts a block as entered after a throw only while something is     *)
(* thrown: catch_static never declines an exception of its own block.      *)
THEOREM DepthsAreRight == Spec => []PostThrowMeansThrown
BY Invariance, PTL DEF IInv

-----------------------------------------------------------------------------
LEMMA InitRefines == Init => Exception!Init
BY DEF Init, Exception!Init, Thrown, Ok, Depth

LEMMA NextRefines ==
  IInv /\ IInv' /\ [Next]_vars => [Exception!Next]_(Exception!vars)
<1> SUFFICES ASSUME IInv, IInv', [Next]_vars
             PROVE  Exception!Next \/ UNCHANGED Exception!vars
  OBVIOUS
<1> USE DEF IInv
<1>0. (Ok <=> Thrown = {}) /\ (Ok => preThrowDepth = Depth)
  BY DEF Thrown, Ok, TypeOK, PostThrowMeansThrown, Depth
<1>1. CASE \E m \in Message \cup {Unnamed} : Throw(m)
  <2> PICK m \in Message \cup {Unnamed} : Throw(m)
    BY <1>1
  <2>1. \E k \in Message \cup {Unnamed} : Thrown' = {k}
    BY FrameIsPut DEF Throw
  <2>2. UNCHANGED <<Depth, preThrowDepth>>
    BY DEF Throw, Depth
  <2>3. Exception!Throw
    BY <2>1, <2>2 DEF Exception!Throw, Thrown
  <2> QED BY <2>3 DEF Exception!Next
<1>2. CASE Try
  <2>0. Depth' = Depth + 1
    <3>1. CASE Ok
      BY <1>2, <3>1 DEF Try, Depth, TypeOK
    <3>2. CASE ~Ok
      BY <1>2, <3>2 DEF Try, Depth, TypeOK
    <3> QED BY <3>1, <3>2
  <2>1. UNCHANGED Thrown
    BY <1>2 DEF Try, Thrown, Ok
  <2>2. preThrowDepth' = IF Ok THEN Depth + 1 ELSE preThrowDepth
    BY <1>2, <1>0 DEF Try, Depth
  <2>3. Exception!Try
    BY <2>0, <2>1, <2>2, <1>0 DEF Exception!Try, Exception!Success, Thrown
  <2> QED BY <2>3 DEF Exception!Next
<1>3. CASE \E m \in Message : CatchStatic(m)
  <2> PICK m \in Message : CatchStatic(m)
    BY <1>3
  <2>1. Thrown = {m} /\ Thrown' = {}
    BY DEF CatchStatic, Catches, Thrown, Ok
  <2>2. Depth > 0 /\ preThrowDepth = Depth /\ UNCHANGED <<Depth, preThrowDepth>>
    BY DEF CatchStatic, Catches, Depth, TypeOK
  <2>3. Exception!Catch(m)
    BY <2>1, <2>2 DEF Exception!Catch, Thrown
  <2> QED BY <2>3 DEF Exception!Next
<1>4. CASE \E m \in Message : FinallyRethrowStatic(m)
  <2> PICK m \in Message : FinallyRethrowStatic(m)
    BY <1>4
  <2>1. /\ Depth > 0
        /\ Depth' = Depth - 1
        /\ preThrowDepth' = IF preThrowDepth = Depth THEN preThrowDepth - 1
                            ELSE preThrowDepth
    BY DepthDecrements DEF FinallyRethrowStatic
  <2>2. CASE postThrowDepth = 0 /\ ~Ok
    <3>1. \E k \in Message \cup {Unnamed} : Thrown' = {k}
      BY <2>2, FrameIsPut DEF FinallyRethrowStatic
    <3>2. preThrowDepth = Depth /\ Thrown # {}
      BY <2>2, <1>0 DEF Depth, TypeOK
    <3>3. Exception!Finally
      BY <2>1, <3>1, <3>2 DEF Exception!Finally, Exception!Success, Thrown
    <3> QED BY <3>3 DEF Exception!Next
  <2>3. CASE ~(postThrowDepth = 0 /\ ~Ok)
    <3>1. UNCHANGED Thrown
      BY <2>3 DEF FinallyRethrowStatic, Thrown, Ok
    <3>2. Exception!Finally
      BY <2>1, <3>1 DEF Exception!Finally, Thrown
    <3> QED BY <3>2 DEF Exception!Next
  <2> QED BY <2>2, <2>3
<1>5. CASE FinallyCatchAll
  <2>1. /\ Depth > 0
        /\ Depth' = Depth - 1
        /\ preThrowDepth = Depth
        /\ preThrowDepth' = preThrowDepth - 1
    BY <1>5, DepthDecrements DEF FinallyCatchAll, TypeOK, Depth
  <2>2. Thrown' = {}
    BY <1>5 DEF FinallyCatchAll, Thrown, Ok
  <2>3. Exception!CatchAll
    BY <2>1, <2>2 DEF Exception!CatchAll, Thrown
  <2> QED BY <2>3 DEF Exception!Next
<1>6. CASE Finally
  <2>1. /\ Depth > 0
        /\ Depth' = Depth - 1
        /\ preThrowDepth' = IF preThrowDepth = Depth THEN preThrowDepth - 1
                            ELSE preThrowDepth
    BY <1>6, DepthDecrements DEF Finally
  <2>2. UNCHANGED Thrown
    BY <1>6 DEF Finally, Thrown, Ok
  <2>3. Exception!Finally
    BY <2>1, <2>2 DEF Exception!Finally, Thrown
  <2> QED BY <2>3 DEF Exception!Next
<1>7. CASE RethrowContext
  <2>1. \E k \in Message \cup {Unnamed} : Thrown' = {k}
    BY <1>7, FrameIsPut DEF RethrowContext
  <2>2. UNCHANGED <<Depth, preThrowDepth>>
    BY <1>7 DEF RethrowContext, Depth
  <2>3. Exception!Throw
    BY <2>1, <2>2 DEF Exception!Throw, Thrown
  <2> QED BY <2>3 DEF Exception!Next
<1>8. CASE UNCHANGED vars
  BY <1>8 DEF vars, Exception!vars, Depth, Thrown, Ok
<1> QED BY <1>1, <1>2, <1>3, <1>4, <1>5, <1>6, <1>7, <1>8 DEF Next

(* Two counters implement nested blocks: every exception is caught in its  *)
(* own block or not at all.                                                *)
THEOREM Refinement == Spec => ImplementsExceptions
<1>1. Init => Exception!Init
  BY InitRefines
<1>2. IInv /\ IInv' /\ [Next]_vars => [Exception!Next]_(Exception!vars)
  BY NextRefines
<1> QED BY <1>1, <1>2, Invariance, PTL DEF Spec, ImplementsExceptions, Exception!Spec

-----------------------------------------------------------------------------
(* Counted sets, and the buffers they are asked with.                      *)

(* Induction on the elements of an interval, for sets: what holds at the     *)
(* first and passes on to the next holds of all.                             *)
LEMMA IntervalInduction ==
  ASSUME NEW a \in Nat, NEW n \in Nat, NEW S, a \in S,
         \A i \in (a + 1)..n : i - 1 \in S => i \in S
  PROVE  a..n \subseteq S
<1> DEFINE Bad == {i \in a..n : i \notin S}
           R == OpToRel(<, Nat)
<1>1. SUFFICES ASSUME Bad # {} PROVE FALSE
  OBVIOUS
<1>2. Bad \subseteq Nat
  OBVIOUS
<1>3. PICK i \in Bad : \A k \in Bad : <<k, i>> \notin R
  <2>1. IsWellFoundedOn(R, Nat)
    BY NatLessThanWellFounded
  <2> HIDE DEF R, Bad
  <2> QED BY <1>1, <1>2, <2>1, WFMin
<1>4. i \in (a + 1)..n
  OBVIOUS
<1>5. i - 1 \notin S
  BY <1>4
<1>6. i - 1 \in Bad /\ i - 1 \in Nat /\ i \in Nat /\ i - 1 < i
  BY <1>4, <1>5
<1>7. <<i - 1, i>> \in R
  BY <1>6 DEF OpToRel
<1> QED BY <1>3, <1>6, <1>7

(* The loop of get_hash: a hash after every character.                       *)
LEMMA HashesAreSteps ==
  ASSUME NEW buffer, buffer.seen \in Nat, Len(buffer.string) \in Nat,
         buffer.seen <= Len(buffer.string)
  PROVE  Hashes(buffer) =
           [i \in buffer.seen..Len(buffer.string) |->
              IF i = buffer.seen THEN buffer.hash
              ELSE HashStep(Hashes(buffer)[i - 1], buffer.string[i])]
<1> DEFINE a == buffer.seen
           n == Len(buffer.string)
           Is(g, k) == g = [i \in a..k |-> IF i = a THEN buffer.hash
                                           ELSE HashStep(g[i - 1], buffer.string[i])]
           S == {k \in a..n : \E g : Is(g, k)}
<1>1. a \in S
  <2> PICK g : g = [i \in a..a |-> buffer.hash]
    OBVIOUS
  <2>1. Is(g, a)
    OBVIOUS
  <2>2. a \in a..n
    OBVIOUS
  <2> HIDE DEF Is
  <2> QED BY <2>1, <2>2
<1>2. ASSUME NEW k \in (a + 1)..n, k - 1 \in S PROVE k \in S
  <2>g. PICK g : Is(g, k - 1)
    BY <1>2
  <2>h. PICK h : h = [i \in a..k |-> IF i = a THEN buffer.hash
                                     ELSE HashStep(g[i - 1], buffer.string[i])]
    OBVIOUS
  <2>0. a \in Int /\ k \in Int
    OBVIOUS
  <2>1. \A i \in a..(k - 1) : h[i] = g[i]
    <3>1. \A i \in a..(k - 1) : i \in a..k
      BY <2>0
    <3>2. \A i \in a..(k - 1) :
            g[i] = IF i = a THEN buffer.hash
                   ELSE HashStep(g[i - 1], buffer.string[i])
      BY <2>g, Zenon
    <3> QED BY <2>h, <3>1, <3>2, Zenon
  <2>2. \A i \in a..k : i = a \/ h[i - 1] = g[i - 1]
    <3>1. \A i \in a..k : i = a \/ i - 1 \in a..(k - 1)
      BY <2>0
    <3> QED BY <2>1, <3>1, Zenon
  <2>3. \A i \in a..k :
          h[i] = IF i = a THEN buffer.hash ELSE HashStep(h[i - 1], buffer.string[i])
    <3>1. \A i \in a..k :
            h[i] = IF i = a THEN buffer.hash
                   ELSE HashStep(g[i - 1], buffer.string[i])
      BY <2>h, Zenon
    <3> HIDE DEF a
    <3> QED BY <2>2, <3>1, Zenon
  <2>4. Is(h, k)
    <3>1. h = [i \in a..k |-> h[i]]
      BY <2>h, Zenon
    <3> QED BY <2>3, <3>1, Zenon
  <2>5. \E f : Is(f, k)
    BY <2>4
  <2> HIDE DEF Is
  <2> QED BY <2>5
<1>3. n \in S
  <2> HIDE DEF S
  <2>1. a..n \subseteq S
    BY <1>1, <1>2, IntervalInduction
  <2> QED BY <2>1
<1>4. PICK g : Is(g, n)
  BY <1>3
<1> QED BY <1>4 DEF Hashes

(* The hash of a string of its own: from nothing, one step per character.    *)
LEMMA HashOfString ==
  ASSUME NEW s \in Seq(Character)
  PROVE  /\ View(s) = [string |-> s, hash |-> 0, seen |-> 0]
         /\ Hashes(View(s))[0] = 0
         /\ \A i \in 1..Len(s) :
              Hashes(View(s))[i] = HashStep(Hashes(View(s))[i - 1], s[i])
         /\ \A i \in 0..Len(s) : Hashes(View(s))[i] \in Nat
         /\ GetHash(View(s)) = Hashes(View(s))[Len(s)]
<1>1. View(s) = [string |-> s, hash |-> 0, seen |-> 0]
  <2>1. <<>> \o s = s
    BY ConcatEmptySeq
  <2> QED BY <2>1 DEF View, Concat, EmptyBuffer
<1> PICK b : b = View(s)
  OBVIOUS
<1>2. b.string = s /\ b.hash = 0 /\ b.seen = 0
  BY <1>1
<1> PICK g : g = Hashes(b)
  OBVIOUS
<1>3. g = [i \in 0..Len(s) |-> IF i = 0 THEN 0 ELSE HashStep(g[i - 1], s[i])]
  BY <1>2, HashesAreSteps
<1>4. g[0] = 0 /\ \A i \in 1..Len(s) : g[i] = HashStep(g[i - 1], s[i])
  BY <1>3
<1>5. \A i \in 0..Len(s) : g[i] \in Nat
  <2> DEFINE S == {i \in 0..Len(s) : g[i] \in Nat}
  <2>1. 0 \in S
    BY <1>4
  <2>2. ASSUME NEW i \in (0 + 1)..Len(s), i - 1 \in S PROVE i \in S
    <3>1. g[i] = (s[i] + g[i - 1] * 64 + g[i - 1] * 65536 - g[i - 1]) % HashLimit
      <4>1. i \in 1..Len(s)
        OBVIOUS
      <4> QED BY <1>4, <4>1 DEF HashStep
    <3>2. s[i] \in Int
      <4>1. s[i] \in Character
        OBVIOUS
      <4> QED BY <4>1, HashSetAssumption
    <3>3. s[i] + g[i - 1] * 64 + g[i - 1] * 65536 - g[i - 1] \in Int
      <4>1. g[i - 1] \in Int
        BY <2>2
      <4>2. \A x, y \in Int : x + y * 64 + y * 65536 - y \in Int
        OBVIOUS
      <4> QED BY <3>2, <4>1, <4>2
    <3>4. \A x \in Int : x % HashLimit \in Nat
      BY BufferAssumption
    <3>5. g[i] \in Nat
      BY <3>1, <3>3, <3>4
    <3>6. i \in 0..Len(s)
      OBVIOUS
    <3> QED BY <3>5, <3>6
  <2>3. 0..Len(s) \subseteq S
    <3>1. Len(s) \in Nat
      OBVIOUS
    <3> HIDE DEF S
    <3> QED BY <2>1, <2>2, <3>1, IntervalInduction
  <2> QED BY <2>3
<1>6. GetHash(b) = g[Len(s)]
  <2>1. CASE Len(s) > 0
    BY <1>1, <1>2, <2>1 DEF GetHash, Hashed
  <2>2. CASE ~(Len(s) > 0)
    <3>1. Len(s) = 0
      BY <2>2
    <3> QED BY <1>2, <1>4, <3>1 DEF GetHash, Hashed
  <2> QED BY <2>1, <2>2
<1> QED BY <1>1, <1>4, <1>5, <1>6

\* A buffer whose hash is that of the characters seen.
HashedSoFar(buffer) ==
  /\ buffer \in [string : Seq(Character), hash : Nat, seen : Nat]
  /\ buffer.seen <= Len(buffer.string)
  /\ buffer.hash = GetHash(View(SubSeq(buffer.string, 1, buffer.seen)))

(* The buffer that has seen nothing.                                         *)
LEMMA EmptyIsHashed ==
  ASSUME NEW s \in Seq(Character), NEW buffer,
         buffer = [string |-> s, hash |-> 0, seen |-> 0]
  PROVE  HashedSoFar(buffer)
<1>1. SubSeq(s, 1, 0) = <<>>
  BY SubSeqEmpty
<1>2. <<>> \in Seq(Character) /\ Len(<<>>) = 0
  OBVIOUS
<1>3. GetHash(View(<<>>)) = 0
  BY <1>2, HashOfString
<1>4. /\ buffer \in [string : Seq(Character), hash : Nat, seen : Nat]
      /\ buffer.string = s /\ buffer.hash = 0 /\ buffer.seen = 0
  OBVIOUS
<1>5. SubSeq(buffer.string, 1, buffer.seen) = <<>>
  BY <1>1, <1>4
<1>6. buffer.seen <= Len(buffer.string)
  BY <1>4
<1> QED BY <1>3, <1>4, <1>5, <1>6 DEF HashedSoFar

(* Hashing a string in parts is hashing it at once.                          *)
LEMMA HashContinues ==
  ASSUME NEW buffer, HashedSoFar(buffer)
  PROVE  GetHash(buffer) = GetHash(View(buffer.string))
<1> PICK s, k, n, t : /\ s = buffer.string /\ k = buffer.seen /\ n = Len(s)
                      /\ t = SubSeq(s, 1, k)
  OBVIOUS
<1>1. s \in Seq(Character) /\ k \in Nat /\ n \in Nat /\ k <= n
  BY DEF HashedSoFar
<1>2. t \in Seq(Character) /\ Len(t) = k /\ \A i \in 1..k : t[i] = s[i]
  BY <1>1
<1> PICK f, g : f = Hashes(View(t)) /\ g = Hashes(View(s))
  OBVIOUS
<1>3. /\ f[0] = 0 /\ \A i \in 1..k : f[i] = HashStep(f[i - 1], t[i])
      /\ GetHash(View(t)) = f[k]
  BY <1>2, HashOfString
<1>4. /\ g[0] = 0 /\ \A i \in 1..n : g[i] = HashStep(g[i - 1], s[i])
      /\ GetHash(View(s)) = g[n]
  BY <1>1, HashOfString
<1>5. f[k] = g[k]
  <2> DEFINE S == {i \in 0..k : f[i] = g[i]}
  <2>1. 0 \in S
    BY <1>1, <1>3, <1>4
  <2>2. ASSUME NEW i \in (0 + 1)..k, i - 1 \in S PROVE i \in S
    <3>1. f[i] = HashStep(f[i - 1], s[i])
      BY <1>2, <1>3
    <3>2. g[i] = HashStep(g[i - 1], s[i])
      BY <1>1, <1>4
    <3> QED BY <1>1, <2>2, <3>1, <3>2
  <2>3. 0..k \subseteq S
    <3> HIDE DEF S
    <3> QED BY <1>1, <2>1, <2>2, IntervalInduction
  <2> QED BY <1>1, <2>3
<1>6. buffer.hash = g[k]
  BY <1>3, <1>5 DEF HashedSoFar
<1>7. CASE k < n
  <2> PICK h : h = Hashes(buffer)
    OBVIOUS
  <2>1. h = [i \in k..n |-> IF i = k THEN buffer.hash ELSE HashStep(h[i - 1], s[i])]
    BY <1>1, HashesAreSteps
  <2>2. h[k] = g[k] /\ \A i \in (k + 1)..n : h[i] = HashStep(h[i - 1], s[i])
    <3>1. h[k] = g[k]
      BY <1>1, <1>6, <2>1
    <3>2. ASSUME NEW i \in (k + 1)..n PROVE h[i] = HashStep(h[i - 1], s[i])
      <4>1. i \in k..n /\ i # k
        BY <1>1
      <4> QED BY <2>1, <4>1
    <3> QED BY <3>1, <3>2
  <2> DEFINE S == {i \in k..n : h[i] = g[i]}
  <2>3. k \in S
    BY <1>1, <2>2
  <2>4. ASSUME NEW i \in (k + 1)..n, i - 1 \in S PROVE i \in S
    <3>1. g[i] = HashStep(g[i - 1], s[i])
      BY <1>1, <1>4
    <3> QED BY <1>1, <2>2, <2>4, <3>1
  <2>5. k..n \subseteq S
    <3> HIDE DEF S
    <3> QED BY <1>1, <2>3, <2>4, IntervalInduction
  <2>6. h[n] = g[n]
    BY <1>1, <2>5
  <2>7. GetHash(buffer) = h[n]
    BY <1>1, <1>7 DEF GetHash, Hashed, HashedSoFar
  <2> QED BY <1>4, <2>6, <2>7
<1>8. CASE ~(k < n)
  <2>1. k = n
    BY <1>1, <1>8
  <2>2. GetHash(buffer) = buffer.hash
    BY <1>8 DEF GetHash, Hashed
  <2> QED BY <1>4, <1>6, <2>1, <2>2
<1> QED BY <1>7, <1>8
-----------------------------------------------------------------------------
EntrySet == [value : Value, count : Nat \ {0}, metadata : Nat]

\* A chain has no two entries of a value.
IsChain(chain) ==
  /\ chain \in Seq(EntrySet)
  /\ \A i, j \in DOMAIN chain : chain[i].value = chain[j].value => i = j

Entries(chain) == {chain[i] : i \in DOMAIN chain}

EmptySlots == {s \in Slots : heads[s] = <<>>}

HInv ==
  /\ size \in Nat \ {0}
  /\ heads \in [Slots -> Seq(EntrySet)]
  /\ \A s \in Slots : IsChain(heads[s])
  /\ emptyHeadCount = Cardinality(EmptySlots)
  /\ HashedSoFar(key)

(* get_head answers a chain of the table.                                    *)
LEMMA HeadIsASlot ==
  ASSUME size \in Nat \ {0}
  PROVE  \A v \in Value : HashOf[v] \in Nat /\ HeadOf(v) \in Slots
<1> TAKE v \in Value
<1>1. v \in Seq(Character)
  BY HashSetAssumption
<1>2. HashOf[v] \in Nat
  <2>1. Len(v) \in 0..Len(v)
    BY <1>1
  <2>2. GetHash(View(v)) \in Nat
    BY <1>1, <2>1, HashOfString
  <2> QED BY <2>2 DEF HashOf
<1>3. \A x \in Nat : x % size \in 0..(size - 1)
  OBVIOUS
<1> QED BY <1>2, <1>3 DEF HeadOf, Slots

(* find_entry in a chain.                                                    *)
LEMMA EntryIsFound ==
  ASSUME NEW v \in Value, NEW c, IsChain(c)
  PROVE  /\ \A i \in DOMAIN c : c[i].value = v =>
              Found(v, c) = {i} /\ First(v, c) = i /\ Entry(v, c) = c[i]
         /\ Found(v, c) # {} =>
              First(v, c) \in DOMAIN c /\ c[First(v, c)].value = v
         /\ Found(v, c) = {} <=> \A i \in DOMAIN c : c[i].value # v
<1>1. Found(v, c) = {i \in DOMAIN c : c[i].value = v}
  BY DEF Found, Matching
<1>2. ASSUME NEW i \in DOMAIN c, c[i].value = v
      PROVE  Found(v, c) = {i} /\ First(v, c) = i
  <2>1. Found(v, c) = {i}
    BY <1>1, <1>2 DEF IsChain
  <2>2. DOMAIN c \subseteq Nat
    BY DEF IsChain
  <2>3. \A k \in Found(v, c) : i <= k
    BY <2>1, <2>2
  <2> QED BY <2>1, <2>3 DEF First
<1> QED BY <1>1, <1>2 DEF Entry

(* The shortcut of get_attribute: an empty set has empty chains only.        *)
LEMMA EmptyMeansEmpty ==
  ASSUME HInv, IsEmpty
  PROVE  \A s \in Slots : heads[s] = <<>>
<1>1. size \in Nat /\ 0 \in Int /\ size - 1 \in Int
  BY DEF HInv
<1>2. IsFiniteSet(Slots) /\ Cardinality(Slots) = size
  BY <1>1, FS_Interval DEF Slots, HInv
<1>3. EmptySlots \in SUBSET Slots
  BY DEF EmptySlots
<1>4. Cardinality(EmptySlots) = Cardinality(Slots)
  BY <1>2 DEF IsEmpty, HInv
<1>5. EmptySlots = Slots
  BY <1>2, <1>3, <1>4, FS_Subset
<1> QED BY <1>5 DEF EmptySlots

\* The answers are those of the only entry of the value.
LookupIsRight ==
  \A v \in Value :
    /\ \A e \in Entries(heads[HeadOf(v)]) : e.value = v =>
         GetCount(v) = e.count /\ GetLastMetadata(v) = e.metadata
    /\ (\A e \in Entries(heads[HeadOf(v)]) : e.value # v) =>
         GetCount(v) = 0 /\ GetLastMetadata(v) = 0

(* get_count and get_last_metadata answer from the only entry of the value.  *)
LEMMA LookupAnswers == HInv => LookupIsRight
<1> SUFFICES ASSUME HInv, NEW v \in Value
             PROVE  /\ \A e \in Entries(heads[HeadOf(v)]) : e.value = v =>
                         GetCount(v) = e.count /\ GetLastMetadata(v) = e.metadata
                    /\ (\A e \in Entries(heads[HeadOf(v)]) : e.value # v) =>
                         GetCount(v) = 0 /\ GetLastMetadata(v) = 0
  BY DEF LookupIsRight
<1> PICK c : c = heads[HeadOf(v)]
  OBVIOUS
<1>1. HeadOf(v) \in Slots /\ IsChain(c)
  BY HeadIsASlot DEF HInv
<1>2. ASSUME NEW e \in Entries(c), e.value = v
      PROVE  GetCount(v) = e.count /\ GetLastMetadata(v) = e.metadata
  <2> PICK i \in DOMAIN c : e = c[i]
    BY DEF Entries
  <2>1. Found(v, c) # {} /\ Entry(v, c) = e
    BY <1>1, <1>2, EntryIsFound
  <2>2. c # <<>>
    OBVIOUS
  <2>3. ~IsEmpty
    BY <1>1, <2>2, EmptyMeansEmpty
  <2> QED BY <2>1, <2>3 DEF GetCount, GetLastMetadata, IsKnown
<1>3. ASSUME \A e \in Entries(c) : e.value # v
      PROVE  GetCount(v) = 0 /\ GetLastMetadata(v) = 0
  <2>1. Found(v, c) = {}
    BY <1>1, <1>3, EntryIsFound DEF Entries
  <2> QED BY <2>1 DEF GetCount, GetLastMetadata, IsKnown
<1> QED BY <1>2, <1>3

(* The same after a step.                                                    *)
LEMMA LookupAnswersThen == HInv' => LookupIsRight'
BY LookupAnswers, PTL

-----------------------------------------------------------------------------
(* An entry is replaced by one of the same value.                            *)
LEMMA EntryIsReplaced ==
  ASSUME NEW c, IsChain(c), NEW i \in DOMAIN c, NEW e \in EntrySet,
         e.value = c[i].value, NEW d, d = [c EXCEPT ![i] = e]
  PROVE  /\ IsChain(d) /\ d # <<>> /\ c # <<>>
         /\ e \in Entries(d)
         /\ \A f : f.value # e.value => (f \in Entries(d) <=> f \in Entries(c))
<1>1. d \in Seq(EntrySet) /\ DOMAIN d = DOMAIN c
  BY DEF IsChain
<1>2. d[i] = e /\ \A k \in DOMAIN c : k # i => d[k] = c[k]
  BY DEF IsChain
<1>3. \A k \in DOMAIN c : d[k].value = c[k].value
  BY <1>2
<1>4. IsChain(d)
  BY <1>1, <1>3 DEF IsChain
<1>5. d # <<>> /\ c # <<>>
  BY <1>1
<1>6. e \in Entries(d)
  BY <1>1, <1>2 DEF Entries
<1>7. ASSUME NEW f, f.value # e.value
      PROVE  f \in Entries(d) <=> f \in Entries(c)
  <2>1. ASSUME f \in Entries(d) PROVE f \in Entries(c)
    BY <1>1, <1>2, <1>7, <2>1 DEF Entries
  <2>2. ASSUME f \in Entries(c) PROVE f \in Entries(d)
    BY <1>1, <1>2, <1>7, <2>2 DEF Entries
  <2> QED BY <2>1, <2>2
<1> QED BY <1>4, <1>5, <1>6, <1>7

(* A new first entry, of a value that is not in the chain.                   *)
LEMMA EntryIsPrepended ==
  ASSUME NEW c, IsChain(c), NEW e \in EntrySet,
         \A i \in DOMAIN c : c[i].value # e.value
  PROVE  /\ IsChain(<<e>> \o c)
         /\ <<e>> \o c # <<>>
         /\ e \in Entries(<<e>> \o c)
         /\ \A f : f.value # e.value =>
              (f \in Entries(<<e>> \o c) <=> f \in Entries(c))
<1> PICK d : d = <<e>> \o c
  OBVIOUS
<1>1. c \in Seq(EntrySet) /\ Len(c) \in Nat /\ DOMAIN c = 1..Len(c)
  BY DEF IsChain
<1>2. <<e>> \in Seq(EntrySet) /\ Len(<<e>>) = 1 /\ <<e>>[1] = e
  OBVIOUS
<1>3. /\ d \in Seq(EntrySet) /\ Len(d) = 1 + Len(c)
      /\ \A i \in 1..(1 + Len(c)) : d[i] = IF i <= 1 THEN <<e>>[i] ELSE c[i - 1]
  BY <1>1, <1>2, ConcatProperties
<1>4. DOMAIN d = 1..(1 + Len(c)) /\ d[1] = e
  BY <1>1, <1>2, <1>3
<1>5. \A i \in 2..(1 + Len(c)) : i - 1 \in DOMAIN c /\ d[i] = c[i - 1]
  BY <1>1, <1>3
<1>6. \A i \in DOMAIN c : i + 1 \in 2..(1 + Len(c)) /\ d[i + 1] = c[i]
  BY <1>1, <1>5
<1>7. ASSUME NEW i \in DOMAIN d, NEW j \in DOMAIN d, d[i].value = d[j].value
      PROVE  i = j
  <2>1. CASE i = 1 /\ j = 1
    BY <2>1
  <2>2. CASE i = 1 /\ j # 1
    BY <1>1, <1>4, <1>5, <1>7, <2>2
  <2>3. CASE i # 1 /\ j = 1
    BY <1>1, <1>4, <1>5, <1>7, <2>3
  <2>4. CASE i # 1 /\ j # 1
    <3>1. i \in 2..(1 + Len(c)) /\ j \in 2..(1 + Len(c))
      BY <1>1, <1>4, <2>4
    <3>2. i - 1 = j - 1
      BY <1>5, <1>7, <3>1 DEF IsChain
    <3> QED BY <1>1, <3>1, <3>2
  <2> QED BY <2>1, <2>2, <2>3, <2>4
<1>8. IsChain(d)
  BY <1>3, <1>7 DEF IsChain
<1>9. d # <<>> /\ e \in Entries(d)
  BY <1>1, <1>3, <1>4 DEF Entries
<1>10. ASSUME NEW f, f.value # e.value
       PROVE  f \in Entries(d) <=> f \in Entries(c)
  <2>1. ASSUME f \in Entries(d) PROVE f \in Entries(c)
    <3> PICK i \in DOMAIN d : f = d[i]
      BY <2>1 DEF Entries
    <3>1. i \in 2..(1 + Len(c))
      BY <1>1, <1>4, <1>10
    <3> QED BY <1>5, <3>1 DEF Entries
  <2>2. ASSUME f \in Entries(c) PROVE f \in Entries(d)
    <3> PICK i \in DOMAIN c : f = c[i]
      BY <2>2 DEF Entries
    <3>1. i + 1 \in DOMAIN d /\ d[i + 1] = f
      BY <1>1, <1>4, <1>6
    <3> QED BY <3>1 DEF Entries
  <2> QED BY <2>1, <2>2
<1> QED BY <1>8, <1>9, <1>10

(* An entry leaves its chain.                                                *)
LEMMA EntryIsRemoved ==
  ASSUME NEW c, IsChain(c), NEW i \in DOMAIN c
  PROVE  /\ IsChain(RemoveAt(c, i))
         /\ c # <<>>
         /\ \A f \in Entries(RemoveAt(c, i)) : f.value # c[i].value
         /\ \A f : f.value # c[i].value =>
              (f \in Entries(RemoveAt(c, i)) <=> f \in Entries(c))
<1> PICK n, d : n = Len(c) /\ d = RemoveAt(c, i)
  OBVIOUS
<1>1. c \in Seq(EntrySet) /\ n \in Nat /\ DOMAIN c = 1..n /\ i \in 1..n
  BY DEF IsChain
<1> PICK a, b : a = SubSeq(c, 1, i - 1) /\ b = SubSeq(c, i + 1, n)
  OBVIOUS
<1>2. /\ a \in Seq(EntrySet) /\ Len(a) = i - 1
      /\ \A k \in 1..(i - 1) : a[k] = c[k]
  <2>1. i - 1 \in Int /\ \A k \in 1..(i - 1) : c[k] \in EntrySet
    BY <1>1
  <2>2. /\ a \in Seq(EntrySet)
        /\ Len(a) = IF 1 <= i - 1 THEN (i - 1) - 1 + 1 ELSE 0
        /\ \A k \in 1..((i - 1) - 1 + 1) : a[k] = c[1 + k - 1]
    BY <2>1, SubSeqProperties
  <2> QED BY <1>1, <2>2
<1>3. /\ b \in Seq(EntrySet) /\ Len(b) = n - i
      /\ \A k \in 1..(n - i) : b[k] = c[k + i]
  <2>1. i + 1 \in Int /\ n \in Int /\ \A k \in (i + 1)..n : c[k] \in EntrySet
    BY <1>1
  <2>2. /\ b \in Seq(EntrySet)
        /\ Len(b) = IF i + 1 <= n THEN n - (i + 1) + 1 ELSE 0
        /\ \A k \in 1..(n - (i + 1) + 1) : b[k] = c[(i + 1) + k - 1]
    BY <2>1, SubSeqProperties
  <2>3. n - (i + 1) + 1 = n - i /\ \A k \in 1..(n - i) : (i + 1) + k - 1 = k + i
    BY <1>1
  <2>4. n - i = IF i + 1 <= n THEN n - (i + 1) + 1 ELSE 0
    BY <1>1
  <2> QED BY <2>2, <2>3, <2>4, Zenon
<1>4. d = a \o b
  BY Zenon DEF RemoveAt
<1>5. /\ d \in Seq(EntrySet) /\ Len(d) = (i - 1) + (n - i)
      /\ \A k \in 1..((i - 1) + (n - i)) :
           d[k] = IF k <= i - 1 THEN a[k] ELSE b[k - (i - 1)]
  <2>1. /\ a \o b \in Seq(EntrySet) /\ Len(a \o b) = Len(a) + Len(b)
        /\ \A k \in 1..(Len(a) + Len(b)) :
             (a \o b)[k] = IF k <= Len(a) THEN a[k] ELSE b[k - Len(a)]
    <3>1. a \in Seq(EntrySet) /\ b \in Seq(EntrySet)
      BY <1>2, <1>3, Zenon
    <3> QED BY <3>1, ConcatProperties, ZenonT(30)
  <2>2. Len(a) = i - 1 /\ Len(b) = n - i
    BY <1>2, <1>3
  <2> QED BY <1>4, <2>1, <2>2, Zenon
<1>6. DOMAIN d = 1..(n - 1)
  BY <1>1, <1>5
<1>7. ASSUME NEW k \in 1..(n - 1)
      PROVE  /\ k < i => d[k] = c[k]
             /\ ~(k < i) => d[k] = c[k + 1]
  <2>1. d[k] = IF k <= i - 1 THEN a[k] ELSE b[k - (i - 1)]
    <3>1. (i - 1) + (n - i) = n - 1
      <4>1. i \in Int /\ n \in Int
        BY <1>1
      <4>2. \A x, y \in Int : (x - 1) + (y - x) = y - 1
        OBVIOUS
      <4> QED BY <4>1, <4>2, Zenon
    <3>2. k \in 1..((i - 1) + (n - i))
      BY <3>1
    <3> QED BY <1>5, <3>2, Zenon
  <2>2. CASE k < i
    BY <1>1, <1>2, <2>1, <2>2
  <2>3. CASE ~(k < i)
    <3>1. k - (i - 1) \in 1..(n - i) /\ (k - (i - 1)) + i = k + 1
      BY <1>1, <2>3
    <3>2. d[k] = b[k - (i - 1)]
      BY <1>1, <2>1, <2>3
    <3> QED BY <1>3, <2>3, <3>1, <3>2
  <2> QED BY <2>2, <2>3
\* The place in c of what is at k in d.
<1> DEFINE Place(k) == IF k < i THEN k ELSE k + 1
<1>8. ASSUME NEW k \in DOMAIN d
      PROVE  Place(k) \in DOMAIN c /\ Place(k) # i /\ d[k] = c[Place(k)]
  BY <1>1, <1>6, <1>7
<1>9. ASSUME NEW k \in DOMAIN c, k # i
      PROVE  \E l \in DOMAIN d : Place(l) = k
  <2>1. CASE k < i
    BY <1>1, <1>6, <2>1
  <2>2. CASE ~(k < i)
    <3>1. k - 1 \in 1..(n - 1) /\ ~(k - 1 < i) /\ (k - 1) + 1 = k
      BY <1>1, <1>9, <2>2
    <3> QED BY <1>6, <3>1
  <2> QED BY <2>1, <2>2
<1>10. \A k, l \in DOMAIN d : Place(k) = Place(l) => k = l
  BY <1>1, <1>6
<1>11. IsChain(d)
  <2> HIDE DEF Place
  <2> QED BY <1>5, <1>8, <1>10 DEF IsChain
<1>12. \A f \in Entries(d) : f.value # c[i].value
  <2> HIDE DEF Place
  <2> QED BY <1>8 DEF IsChain, Entries
<1>13. ASSUME NEW f, f.value # c[i].value
       PROVE  f \in Entries(d) <=> f \in Entries(c)
  <2> HIDE DEF Place
  <2>1. ASSUME f \in Entries(d) PROVE f \in Entries(c)
    BY <1>8, <2>1 DEF Entries
  <2>2. ASSUME f \in Entries(c) PROVE f \in Entries(d)
    <3> PICK k \in DOMAIN c : f = c[k]
      BY <2>2 DEF Entries
    <3> PICK l \in DOMAIN d : Place(l) = k
      BY <1>9, <1>13
    <3> QED BY <1>8 DEF Entries
  <2> QED BY <2>1, <2>2
<1>14. c # <<>>
  BY <1>1
<1> QED BY <1>11, <1>12, <1>13, <1>14
-----------------------------------------------------------------------------
(* A step that changes one chain, and there no entry of another value,       *)
(* changes no other answer.                                                  *)
LEMMA OtherAnswersStay ==
  ASSUME HInv, HInv', size' = size, NEW v \in Value,
         \A s \in Slots : s # HeadOf(v) => heads'[s] = heads[s],
         \A f : f.value # v => (f \in Entries(heads'[HeadOf(v)])
                                <=> f \in Entries(heads[HeadOf(v)]))
  PROVE  \A w \in Value : w # v =>
           GetCount(w)' = GetCount(w) /\ GetLastMetadata(w)' = GetLastMetadata(w)
<1> SUFFICES ASSUME NEW w \in Value, w # v
             PROVE  /\ GetCount(w)' = GetCount(w)
                    /\ GetLastMetadata(w)' = GetLastMetadata(w)
  OBVIOUS
<1>1. HeadOf(w)' = HeadOf(w) /\ HeadOf(w) \in Slots
  BY HeadIsASlot DEF HeadOf, HInv
<1> PICK c, d : c = heads[HeadOf(w)] /\ d = heads'[HeadOf(w)]
  OBVIOUS
<1>2. /\ \A e \in Entries(c) : e.value = w =>
           GetCount(w) = e.count /\ GetLastMetadata(w) = e.metadata
      /\ (\A e \in Entries(c) : e.value # w) =>
           GetCount(w) = 0 /\ GetLastMetadata(w) = 0
  BY LookupAnswers DEF LookupIsRight
<1>3. /\ \A e \in Entries(d) : e.value = w =>
           GetCount(w)' = e.count /\ GetLastMetadata(w)' = e.metadata
      /\ (\A e \in Entries(d) : e.value # w) =>
           GetCount(w)' = 0 /\ GetLastMetadata(w)' = 0
  <2>1. LookupIsRight'
    BY LookupAnswersThen
  <2> QED BY <1>1, <2>1 DEF LookupIsRight
<1>4. \A f : f.value = w => (f \in Entries(d) <=> f \in Entries(c))
  <2>1. CASE HeadOf(w) = HeadOf(v)
    BY <2>1
  <2>2. CASE HeadOf(w) # HeadOf(v)
    BY <1>1, <2>2
  <2> QED BY <2>1, <2>2
<1>5. CASE \E e \in Entries(c) : e.value = w
  BY <1>2, <1>3, <1>4, <1>5
<1>6. CASE \A e \in Entries(c) : e.value # w
  BY <1>2, <1>3, <1>4, <1>6
<1> QED BY <1>5, <1>6

(* One chain is exchanged and the empty ones are counted.                    *)
LEMMA TableKeeps ==
  ASSUME HInv, NEW s \in Slots, NEW d, IsChain(d),
         heads' = [heads EXCEPT ![s] = d],
         size' = size, key' = key,
         \/ (heads[s] = <<>> <=> d = <<>>) /\ emptyHeadCount' = emptyHeadCount
         \/ heads[s] = <<>> /\ d # <<>> /\ emptyHeadCount' = emptyHeadCount - 1
         \/ heads[s] # <<>> /\ d = <<>> /\ emptyHeadCount' = emptyHeadCount + 1
  PROVE  HInv'
<1>1. Slots' = Slots /\ HashedSoFar(key)'
  BY DEF Slots, HInv, HashedSoFar
<1>2. heads' \in [Slots -> Seq(EntrySet)] /\ \A t \in Slots : IsChain(heads'[t])
  BY DEF HInv, IsChain
<1>3. \A t \in Slots : heads'[t] = IF t = s THEN d ELSE heads[t]
  BY DEF HInv
<1>4. EmptySlots' = {t \in Slots : heads'[t] = <<>>}
  BY <1>1 DEF EmptySlots
<1>5. IsFiniteSet(EmptySlots) /\ Cardinality(EmptySlots) = emptyHeadCount
  <2>1. IsFiniteSet(Slots)
    <3>1. 0 \in Int /\ size - 1 \in Int
      BY DEF HInv
    <3> QED BY <3>1, FS_Interval DEF Slots
  <2>2. EmptySlots \in SUBSET Slots
    BY DEF EmptySlots
  <2> QED BY <2>1, <2>2, FS_Subset DEF HInv
<1>6. emptyHeadCount' = Cardinality(EmptySlots')
  <2>1. CASE (heads[s] = <<>> <=> d = <<>>) /\ emptyHeadCount' = emptyHeadCount
    <3>1. EmptySlots' = EmptySlots
      BY <1>3, <1>4, <2>1 DEF EmptySlots
    <3> QED BY <1>5, <2>1, <3>1
  <2>2. CASE heads[s] = <<>> /\ d # <<>> /\ emptyHeadCount' = emptyHeadCount - 1
    <3>1. EmptySlots' = EmptySlots \ {s} /\ s \in EmptySlots
      BY <1>3, <1>4, <2>2 DEF EmptySlots
    <3> QED BY <1>5, <2>2, <3>1, FS_RemoveElement
  <2>3. CASE heads[s] # <<>> /\ d = <<>> /\ emptyHeadCount' = emptyHeadCount + 1
    <3>1. EmptySlots' = EmptySlots \cup {s} /\ s \notin EmptySlots
      BY <1>3, <1>4, <2>3 DEF EmptySlots
    <3> QED BY <1>5, <2>3, <3>1, FS_AddElement
  <2> QED BY <2>1, <2>2, <2>3
<1>7. size' \in Nat \ {0}
  BY DEF HInv
<1> QED BY <1>1, <1>2, <1>6, <1>7 DEF HInv

-----------------------------------------------------------------------------
(* What the multiset sees of a step on the value v.                          *)
LEMMA MultisetStep ==
  ASSUME NEW v \in Value, NEW n, NEW m,
         GetCount(v)' = n, GetLastMetadata(v)' = m,
         \A w \in Value : w # v =>
           GetCount(w)' = GetCount(w) /\ GetLastMetadata(w)' = GetLastMetadata(w)
  PROVE  /\ [w \in Value |-> GetCount(w)]' =
              [[w \in Value |-> GetCount(w)] EXCEPT ![v] = n]
         /\ [w \in Value |-> GetLastMetadata(w)]' =
              [[w \in Value |-> GetLastMetadata(w)] EXCEPT ![v] = m]
OBVIOUS

(* add_with_metadata of a value that is in.                                  *)
LEMMA AddAgainAdds ==
  ASSUME HInv, NEW v \in Value, NEW m \in Metadata, AddAgain(v, m)
  PROVE  HInv' /\ Contents!Add(v, m)
<1> PICK s, c, i : s = HeadOf(v) /\ c = heads[s] /\ i = First(v, c)
  OBVIOUS
<1>1. s \in Slots /\ IsChain(c)
  BY HeadIsASlot DEF HInv
<1>2. i \in DOMAIN c /\ c[i].value = v
  BY <1>1, EntryIsFound DEF AddAgain
<1>e. PICK e : e = [c[i] EXCEPT !.count = (@ + 1) % CountLimit, !.metadata = m]
  OBVIOUS
<1>3. c[i] \in EntrySet
  BY <1>1, <1>2 DEF IsChain
<1>4. GetCount(v) = c[i].count /\ c[i].count < MaxCount
  <2>1. c[i] \in Entries(c)
    BY <1>2 DEF Entries
  <2> QED BY <1>2, <2>1, LookupAnswers DEF LookupIsRight, AddAgain
<1>5. /\ e \in EntrySet /\ e.value = v /\ e.metadata = m
      /\ e.count = c[i].count + 1
  <2>1. c[i].count \in Nat \ {0} /\ MaxCount \in Nat /\ CountLimit \in Nat
        /\ MaxCount < CountLimit
    BY <1>3, HashSetAssumption DEF EntrySet
  <2>2. (c[i].count + 1) % CountLimit = c[i].count + 1
    BY <1>4, <2>1
  <2>3. m \in Nat
    BY HashSetAssumption
  <2>p. PICK x, n : x = c[i] /\ n = c[i].count + 1
    OBVIOUS
  <2>4. e = [x EXCEPT !.count = n, !.metadata = m]
    BY <1>e, <2>2, <2>p
  <2>5. x \in EntrySet /\ n \in Nat \ {0}
    BY <1>3, <2>1, <2>p
  <2>6. e \in EntrySet /\ e.value = x.value /\ e.metadata = m /\ e.count = n
    BY <2>3, <2>4, <2>5 DEF EntrySet
  <2> QED BY <1>2, <2>6, <2>p
<1>d. PICK d : d = [c EXCEPT ![i] = e]
  OBVIOUS
<1>6. heads' = [heads EXCEPT ![s] = d] /\ size' = size /\ key' = key
      /\ emptyHeadCount' = emptyHeadCount
  BY <1>d, <1>e DEF AddAgain, Entry
<1>7. /\ IsChain(d) /\ d # <<>> /\ c # <<>> /\ e \in Entries(d)
      /\ \A f : f.value # v => (f \in Entries(d) <=> f \in Entries(c))
  <2>1. e \in EntrySet /\ e.value = c[i].value
    BY <1>2, <1>5
  <2>2. i \in DOMAIN c
    BY <1>2
  <2>3. /\ IsChain(d) /\ d # <<>> /\ c # <<>> /\ e \in Entries(d)
        /\ \A f : f.value # e.value => (f \in Entries(d) <=> f \in Entries(c))
    BY <1>1, <1>d, <2>1, <2>2, EntryIsReplaced
  <2> QED BY <1>2, <2>1, <2>3
<1>8. HInv'
  BY <1>1, <1>6, <1>7, TableKeeps
<1>9. heads'[s] = d /\ \A t \in Slots : t # s => heads'[t] = heads[t]
  BY <1>1, <1>6 DEF HInv
<1>10. \A w \in Value : w # v =>
         GetCount(w)' = GetCount(w) /\ GetLastMetadata(w)' = GetLastMetadata(w)
  BY <1>6, <1>7, <1>8, <1>9, OtherAnswersStay
<1>11. GetCount(v)' = GetCount(v) + 1 /\ GetLastMetadata(v)' = m
  <2>1. LookupIsRight'
    BY <1>8, LookupAnswersThen
  <2>2. HeadOf(v)' = s
    BY <1>6 DEF HeadOf
  <2>3. e \in Entries(heads'[HeadOf(v)']) /\ e.value = v
    BY <1>4, <1>5, <1>7, <1>9, <2>2
  <2>4. GetCount(v)' = e.count /\ GetLastMetadata(v)' = e.metadata
    BY <2>1, <2>3 DEF LookupIsRight
  <2> QED BY <1>4, <1>5, <2>4
<1>12. /\ [w \in Value |-> GetCount(w)]' =
            [[w \in Value |-> GetCount(w)] EXCEPT ![v] = GetCount(v) + 1]
       /\ [w \in Value |-> GetLastMetadata(w)]' =
            [[w \in Value |-> GetLastMetadata(w)] EXCEPT ![v] = m]
  BY <1>10, <1>11, MultisetStep
<1> QED BY <1>8, <1>12 DEF Contents!Add

(* add_with_metadata of a new value.                                         *)
LEMMA AddFirstAdds ==
  ASSUME HInv, NEW v \in Value, NEW m \in Metadata, AddFirst(v, m)
  PROVE  HInv' /\ Contents!Add(v, m)
<1> PICK s, c : s = HeadOf(v) /\ c = heads[s]
  OBVIOUS
<1>1. s \in Slots /\ IsChain(c)
  BY HeadIsASlot DEF HInv
<1>2. \A i \in DOMAIN c : c[i].value # v
  BY <1>1, EntryIsFound DEF AddFirst
<1>e. PICK e : e = [value |-> v, count |-> 1, metadata |-> m]
  OBVIOUS
<1>3. e \in EntrySet /\ e.value = v /\ e.metadata = m /\ e.count = 1
  BY <1>e, HashSetAssumption DEF EntrySet
<1>d. PICK d : d = <<e>> \o c
  OBVIOUS
<1>4. /\ heads' = [heads EXCEPT ![s] = d] /\ size' = size /\ key' = key
      /\ emptyHeadCount' = IF c = <<>> THEN emptyHeadCount - 1 ELSE emptyHeadCount
  BY <1>d, <1>e DEF AddFirst
<1>5. /\ IsChain(d) /\ d # <<>> /\ e \in Entries(d)
      /\ \A f : f.value # v => (f \in Entries(d) <=> f \in Entries(c))
  BY <1>1, <1>2, <1>3, <1>d, EntryIsPrepended
<1>6. HInv'
  BY <1>1, <1>4, <1>5, TableKeeps
<1>7. heads'[s] = d /\ \A t \in Slots : t # s => heads'[t] = heads[t]
  BY <1>1, <1>4 DEF HInv
<1>8. \A w \in Value : w # v =>
        GetCount(w)' = GetCount(w) /\ GetLastMetadata(w)' = GetLastMetadata(w)
  BY <1>4, <1>5, <1>6, <1>7, OtherAnswersStay
<1>9. GetCount(v) = 0
  BY <1>2, LookupAnswers DEF LookupIsRight, Entries
<1>10. GetCount(v)' = GetCount(v) + 1 /\ GetLastMetadata(v)' = m
  <2>1. LookupIsRight'
    BY <1>6, LookupAnswersThen
  <2>2. HeadOf(v)' = s
    BY <1>4 DEF HeadOf
  <2>3. e \in Entries(heads'[HeadOf(v)']) /\ e.value = v
    BY <1>3, <1>5, <1>7, <2>2
  <2>4. GetCount(v)' = e.count /\ GetLastMetadata(v)' = e.metadata
    BY <2>1, <2>3 DEF LookupIsRight
  <2> QED BY <1>3, <1>9, <2>4
<1>11. /\ [w \in Value |-> GetCount(w)]' =
            [[w \in Value |-> GetCount(w)] EXCEPT ![v] = GetCount(v) + 1]
       /\ [w \in Value |-> GetLastMetadata(w)]' =
            [[w \in Value |-> GetLastMetadata(w)] EXCEPT ![v] = m]
  BY <1>8, <1>10, MultisetStep
<1> QED BY <1>6, <1>11 DEF Contents!Add

(* pop of one of several occurrences.                                        *)
LEMMA PopOnePops ==
  ASSUME HInv, NEW v \in Value, PopOne(v)
  PROVE  HInv' /\ Contents!Pop(v)
<1> PICK s, c, i : s = HeadOf(v) /\ c = heads[s] /\ i = First(v, c)
  OBVIOUS
<1>1. s \in Slots /\ IsChain(c)
  BY HeadIsASlot DEF HInv
<1>2. i \in DOMAIN c /\ c[i].value = v
  BY <1>1, EntryIsFound DEF PopOne
<1>e. PICK e : e = [c[i] EXCEPT !.count = @ - 1]
  OBVIOUS
<1>3. c[i] \in EntrySet /\ c[i].count > 1
  BY <1>1, <1>2 DEF IsChain, PopOne, Entry
<1>4. /\ e \in EntrySet /\ e.value = v /\ e.metadata = c[i].metadata
      /\ e.count = c[i].count - 1
  BY <1>2, <1>3, <1>e DEF EntrySet
<1>5. GetCount(v) = c[i].count /\ GetLastMetadata(v) = c[i].metadata
  <2>1. c[i] \in Entries(c)
    BY <1>2 DEF Entries
  <2> QED BY <1>2, <2>1, LookupAnswers DEF LookupIsRight
<1>d. PICK d : d = [c EXCEPT ![i] = e]
  OBVIOUS
<1>6. heads' = [heads EXCEPT ![s] = d] /\ size' = size /\ key' = key
      /\ emptyHeadCount' = emptyHeadCount
  BY <1>d, <1>e DEF PopOne
<1>7. /\ IsChain(d) /\ d # <<>> /\ c # <<>> /\ e \in Entries(d)
      /\ \A f : f.value # v => (f \in Entries(d) <=> f \in Entries(c))
  <2>1. e \in EntrySet /\ e.value = c[i].value
    BY <1>2, <1>4
  <2>2. i \in DOMAIN c
    BY <1>2
  <2>3. /\ IsChain(d) /\ d # <<>> /\ c # <<>> /\ e \in Entries(d)
        /\ \A f : f.value # e.value => (f \in Entries(d) <=> f \in Entries(c))
    BY <1>1, <1>d, <2>1, <2>2, EntryIsReplaced
  <2> QED BY <1>2, <2>1, <2>3
<1>8. HInv'
  BY <1>1, <1>6, <1>7, TableKeeps
<1>9. heads'[s] = d /\ \A t \in Slots : t # s => heads'[t] = heads[t]
  BY <1>1, <1>6 DEF HInv
<1>10. \A w \in Value : w # v =>
         GetCount(w)' = GetCount(w) /\ GetLastMetadata(w)' = GetLastMetadata(w)
  BY <1>6, <1>7, <1>8, <1>9, OtherAnswersStay
<1>11. GetCount(v)' = GetCount(v) - 1 /\ GetLastMetadata(v)' = GetLastMetadata(v)
  <2>1. LookupIsRight'
    BY <1>8, LookupAnswersThen
  <2>2. HeadOf(v)' = s
    BY <1>6 DEF HeadOf
  <2>3. e \in Entries(heads'[HeadOf(v)']) /\ e.value = v
    BY <1>4, <1>5, <1>7, <1>9, <2>2
  <2>4. GetCount(v)' = e.count /\ GetLastMetadata(v)' = e.metadata
    BY <2>1, <2>3 DEF LookupIsRight
  <2> QED BY <1>4, <1>5, <2>4
<1>12. /\ [w \in Value |-> GetCount(w)]' =
            [[w \in Value |-> GetCount(w)] EXCEPT ![v] = GetCount(v) - 1]
       /\ [w \in Value |-> GetLastMetadata(w)]' =
            [[w \in Value |-> GetLastMetadata(w)] EXCEPT ![v] = GetLastMetadata(v)]
  BY <1>10, <1>11, MultisetStep
<1>13. GetCount(v) \in Nat /\ GetCount(v) > 1
  BY <1>3, <1>5 DEF EntrySet
<1>14. [w \in Value |-> GetCount(w)][v] = GetCount(v)
       /\ [w \in Value |-> GetLastMetadata(w)][v] = GetLastMetadata(v)
  OBVIOUS
<1>15. GetCount(v) > 0 /\ GetCount(v) # 1
  BY <1>13
<1>16. /\ [w \in Value |-> GetCount(w)][v] > 0
       /\ [w \in Value |-> GetCount(w)]' =
            [[w \in Value |-> GetCount(w)] EXCEPT ![v] = @ - 1]
       /\ [w \in Value |-> GetLastMetadata(w)]' =
            [[w \in Value |-> GetLastMetadata(w)] EXCEPT
               ![v] = IF [w \in Value |-> GetCount(w)][v] = 1 THEN 0 ELSE @]
  BY <1>12, <1>14, <1>15
<1> QED BY <1>8, <1>16 DEF Contents!Pop

(* pop of the last occurrence.                                               *)
LEMMA PopLastPops ==
  ASSUME HInv, NEW v \in Value, PopLast(v)
  PROVE  HInv' /\ Contents!Pop(v)
<1> PICK s, c, i : s = HeadOf(v) /\ c = heads[s] /\ i = First(v, c)
  OBVIOUS
<1>1. s \in Slots /\ IsChain(c)
  BY HeadIsASlot DEF HInv
<1>2. i \in DOMAIN c /\ c[i].value = v /\ c[i].count = 1
  BY <1>1, EntryIsFound DEF PopLast, Entry
<1>3. GetCount(v) = 1
  <2>1. c[i] \in Entries(c)
    BY <1>2 DEF Entries
  <2> QED BY <1>2, <2>1, LookupAnswers DEF LookupIsRight
<1> PICK d : d = RemoveAt(c, i)
  OBVIOUS
<1>4. heads' = [heads EXCEPT ![s] = d] /\ size' = size /\ key' = key
  BY DEF PopLast
<1>5. heads'[s] = d /\ \A t \in Slots : t # s => heads'[t] = heads[t]
  BY <1>1, <1>4 DEF HInv
<1>6. emptyHeadCount' = IF d = <<>> THEN emptyHeadCount + 1 ELSE emptyHeadCount
  BY <1>5 DEF PopLast
<1>7. /\ IsChain(d) /\ c # <<>>
      /\ \A f \in Entries(d) : f.value # v
      /\ \A f : f.value # v => (f \in Entries(d) <=> f \in Entries(c))
  BY <1>1, <1>2, EntryIsRemoved
<1>8. HInv'
  BY <1>1, <1>4, <1>6, <1>7, TableKeeps
<1>9. \A w \in Value : w # v =>
        GetCount(w)' = GetCount(w) /\ GetLastMetadata(w)' = GetLastMetadata(w)
  BY <1>4, <1>5, <1>7, <1>8, OtherAnswersStay
<1>10. GetCount(v)' = GetCount(v) - 1 /\ GetLastMetadata(v)' = 0
  <2>1. LookupIsRight'
    BY <1>8, LookupAnswersThen
  <2>2. HeadOf(v)' = s
    BY <1>4 DEF HeadOf
  <2>3. \A f \in Entries(heads'[HeadOf(v)']) : f.value # v
    BY <1>5, <1>7, <2>2
  <2>4. GetCount(v)' = 0 /\ GetLastMetadata(v)' = 0
    BY <2>1, <2>3 DEF LookupIsRight
  <2> QED BY <1>3, <2>4
<1>11. /\ [w \in Value |-> GetCount(w)]' =
            [[w \in Value |-> GetCount(w)] EXCEPT ![v] = GetCount(v) - 1]
       /\ [w \in Value |-> GetLastMetadata(w)]' =
            [[w \in Value |-> GetLastMetadata(w)] EXCEPT ![v] = 0]
  BY <1>9, <1>10, MultisetStep
<1> QED BY <1>3, <1>8, <1>11 DEF Contents!Pop

-----------------------------------------------------------------------------
(* A new set is empty, and so is the buffer.                                 *)
LEMMA SetBegins == SetInit => HInv /\ Contents!Init
<1> SUFFICES ASSUME SetInit PROVE HInv /\ Contents!Init
  OBVIOUS
<1>1. size \in Nat \ {0}
  BY HashSetAssumption DEF SetInit
<1>2. heads = [s \in Slots |-> <<>>] /\ emptyHeadCount = size /\ key = EmptyBuffer
  BY DEF SetInit
<1>3. heads \in [Slots -> Seq(EntrySet)] /\ \A s \in Slots : IsChain(heads[s])
  BY <1>2 DEF IsChain
<1>4. emptyHeadCount = Cardinality(EmptySlots)
  <2>1. EmptySlots = 0..(size - 1)
    BY <1>2 DEF EmptySlots, Slots
  <2>2. 0 \in Int /\ size - 1 \in Int
    BY <1>1
  <2>3. Cardinality(0..(size - 1)) = size
    BY <1>1, <2>2, FS_Interval
  <2> QED BY <1>2, <2>1, <2>3
<1>5. HashedSoFar(key)
  <2>1. key = [string |-> <<>>, hash |-> 0, seen |-> 0]
    BY <1>2 DEF EmptyBuffer
  <2>2. <<>> \in Seq(Character)
    OBVIOUS
  <2> QED BY <2>1, <2>2, EmptyIsHashed
<1>6. HInv
  BY <1>1, <1>3, <1>4, <1>5 DEF HInv
<1>7. \A v \in Value : GetCount(v) = 0 /\ GetLastMetadata(v) = 0
  BY <1>2 DEF GetCount, GetLastMetadata, IsKnown, IsEmpty
<1> QED BY <1>6, <1>7 DEF Contents!Init

(* The string that is asked for changes, and its hash with it.               *)
LEMMA KeyKeeps ==
  ASSUME HInv
  PROVE  /\ \A c \in Character : ConcatChar(c) => HashedSoFar(key')
         /\ \A length \in 0..MaxLength : Cut(length) => HashedSoFar(key')
         /\ Ask => HashedSoFar(key')
<1> PICK s, k, n : s = key.string /\ k = key.seen /\ n = Len(s)
  OBVIOUS
<1>1. /\ key \in [string : Seq(Character), hash : Nat, seen : Nat]
      /\ s \in Seq(Character) /\ k \in Nat /\ n \in Nat /\ k <= n
      /\ key.hash = GetHash(View(SubSeq(s, 1, k)))
  BY DEF HInv, HashedSoFar
<1>2. ASSUME NEW c \in Character, ConcatChar(c) PROVE HashedSoFar(key')
  <2>1. key' = [key EXCEPT !.string = s \o <<c>>]
    BY <1>2 DEF ConcatChar, Concat
  <2>2. s \o <<c>> \in Seq(Character) /\ Len(s \o <<c>>) = n + 1
    BY <1>1
  <2>3. SubSeq(s \o <<c>>, 1, k) = SubSeq(s, 1, k)
    <3>1. <<c>> \in Seq(Character)
      OBVIOUS
    <3>2. CASE k = 0
      BY <3>2, SubSeqEmpty
    <3>3. CASE k # 0
      <4>1. 1 \in 1..Len(s) /\ k \in 1..Len(s)
        BY <1>1, <3>3
      <4> QED BY <1>1, <3>1, <4>1, SubSeqOfConcat1
    <3> QED BY <3>2, <3>3
  <2>4. /\ key' \in [string : Seq(Character), hash : Nat, seen : Nat]
        /\ key'.string = s \o <<c>> /\ key'.seen = k /\ key'.hash = key.hash
    BY <1>1, <2>1, <2>2
  <2>5. SubSeq(key'.string, 1, key'.seen) = SubSeq(s, 1, k)
    BY <2>3, <2>4
  <2>6. key'.seen <= Len(key'.string)
    BY <1>1, <2>2, <2>4
  <2> QED BY <1>1, <2>4, <2>5, <2>6 DEF HashedSoFar
<1>3. ASSUME NEW length \in 0..MaxLength, Cut(length) PROVE HashedSoFar(key')
  <2>1. key' = [string |-> SubSeq(s, 1, length), hash |-> 0, seen |-> 0]
    BY <1>3 DEF Cut, SetLength
  <2>2. SubSeq(s, 1, length) \in Seq(Character)
    <3>1. length \in Nat /\ length < n
      BY <1>3, HashSetAssumption DEF Cut
    <3> QED BY <1>1, <3>1
  <2> QED BY <2>1, <2>2, EmptyIsHashed
<1>4. ASSUME Ask PROVE HashedSoFar(key')
  <2>1. SubSeq(s, 1, n) = s
    BY <1>1
  <2>2. GetHash(key) = GetHash(View(s)) /\ GetHash(key) \in Nat
    <3>1. n \in 0..n
      BY <1>1
    <3>2. GetHash(View(s)) \in Nat
      BY <1>1, <3>1, HashOfString
    <3> QED BY <3>2, HashContinues DEF HInv
  <2>3. key' = Hashed(key)
    BY <1>4 DEF Ask
  <2>4. CASE k < n
    <3>1. key' = [key EXCEPT !.hash = Hashes(key)[n], !.seen = n]
      BY <2>3, <2>4 DEF Hashed
    <3>2. GetHash(key) = Hashes(key)[n]
      BY <1>1, <2>4 DEF GetHash, Hashed
    <3>3. /\ key' \in [string : Seq(Character), hash : Nat, seen : Nat]
          /\ key'.string = s /\ key'.hash = GetHash(View(s)) /\ key'.seen = n
      BY <1>1, <2>2, <3>1, <3>2
    <3>4. SubSeq(key'.string, 1, key'.seen) = s
      BY <2>1, <3>3
    <3>5. key'.seen <= Len(key'.string)
      BY <1>1, <3>3
    <3> QED BY <3>3, <3>4, <3>5 DEF HashedSoFar
  <2>5. CASE ~(k < n)
    BY <2>3, <2>5 DEF Hashed, HInv
  <2> QED BY <2>4, <2>5
<1> QED BY <1>2, <1>3, <1>4

(* The answers do not depend on the string that is asked for.                *)
LEMMA KeyChangesNoAnswer ==
  ASSUME HInv, UNCHANGED set, HashedSoFar(key')
  PROVE  /\ HInv'
         /\ UNCHANGED <<[v \in Value |-> GetCount(v)],
                        [v \in Value |-> GetLastMetadata(v)]>>
<1>1. size' = size /\ emptyHeadCount' = emptyHeadCount /\ heads' = heads
  BY DEF set
<1>2. HInv'
  BY <1>1 DEF HInv, EmptySlots, Slots
<1>3. ASSUME NEW v \in Value
      PROVE  GetCount(v)' = GetCount(v) /\ GetLastMetadata(v)' = GetLastMetadata(v)
  BY <1>1 DEF GetCount, GetLastMetadata, IsKnown, IsEmpty, HeadOf
<1> QED BY <1>2, <1>3

(* Every step keeps the invariant and is one of the multiset, or none.       *)
LEMMA StepOfMultiset ==
  HInv /\ [SetNext]_setVars =>
    HInv' /\ [Contents!Next]_(Contents!vars)
<1> SUFFICES ASSUME HInv, [SetNext]_setVars
             PROVE  HInv' /\ [Contents!Next]_(Contents!vars)
  OBVIOUS
<1>1. ASSUME NEW v \in Value, NEW m \in Metadata, AddAgain(v, m) \/ AddFirst(v, m)
      PROVE  HInv' /\ [Contents!Next]_(Contents!vars)
  BY <1>1, AddAgainAdds, AddFirstAdds DEF Contents!Next
<1>2. ASSUME NEW v \in Value, PopOne(v) \/ PopLast(v)
      PROVE  HInv' /\ [Contents!Next]_(Contents!vars)
  BY <1>2, PopOnePops, PopLastPops DEF Contents!Next
<1>3. ASSUME \/ \E c \in Character : ConcatChar(c)
             \/ \E length \in 0..MaxLength : Cut(length)
             \/ Ask
      PROVE  HInv' /\ [Contents!Next]_(Contents!vars)
  <2>1. UNCHANGED set /\ HashedSoFar(key')
    BY <1>3, KeyKeeps DEF ConcatChar, Cut, Ask
  <2> QED BY <2>1, KeyChangesNoAnswer DEF Contents!vars
<1>4. ASSUME UNCHANGED setVars
      PROVE  HInv' /\ [Contents!Next]_(Contents!vars)
  <2>1. UNCHANGED set /\ HashedSoFar(key')
    BY <1>4 DEF setVars, HInv
  <2> QED BY <2>1, KeyChangesNoAnswer DEF Contents!vars
<1> QED BY <1>1, <1>2, <1>3, <1>4 DEF SetNext

(* is_within of a buffer finds what get_count knows of its string.           *)
LEMMA BuffersFind == HInv => BuffersAreFound
<1> SUFFICES ASSUME HInv PROVE BuffersAreFound
  OBVIOUS
<1> PICK s, h : s = key.string /\ h = GetHash(key)
  OBVIOUS
<1>1. s \in Seq(Character) /\ h = GetHash(View(s)) /\ h \in Nat
  <2>1. s \in Seq(Character) /\ h = GetHash(View(s))
    BY HashContinues DEF HInv, HashedSoFar
  <2>2. Len(s) \in 0..Len(s)
    BY <2>1
  <2> QED BY <2>1, <2>2, HashOfString
<1>2. h % size \in Slots
  BY <1>1 DEF HInv, Slots
<1> PICK c : c = heads[h % size]
  OBVIOUS
<1>3. IsChain(c)
  BY <1>2 DEF HInv
<1>4. s \in Value => HashOf[s] = h /\ HeadOf(s) = h % size
  BY <1>1 DEF HashOf, HeadOf
<1>5. IsWithin(key) <=> ~IsEmpty /\ Matching(s, h, c) # {}
  BY DEF IsWithin
<1>6. ASSUME IsWithin(key) PROVE \E v \in Value : v = key.string /\ GetCount(v) > 0
  <2> PICK i \in DOMAIN c : c[i].value = s
    BY <1>5, <1>6 DEF Matching
  <2>1. c[i] \in EntrySet /\ c[i] \in Entries(c)
    BY <1>3 DEF IsChain, Entries
  <2>2. s \in Value /\ c[i].count > 0
    BY <2>1 DEF EntrySet
  <2>3. GetCount(s) = c[i].count
    BY <1>4, <2>1, <2>2, LookupAnswers DEF LookupIsRight
  <2> QED BY <2>2, <2>3
<1>7. ASSUME NEW v \in Value, v = key.string, GetCount(v) > 0 PROVE IsWithin(key)
  <2>1. v = s /\ c = heads[HeadOf(v)]
    BY <1>4, <1>7
  <2>2. GetCount(v) # 0
    BY <1>7
  <2> PICK e \in Entries(c) : e.value = s
    BY <2>1, <2>2, LookupAnswers DEF LookupIsRight
  <2> PICK i \in DOMAIN c : e = c[i]
    BY DEF Entries
  <2>3. i \in Matching(s, h, c)
    BY <1>4, <2>1 DEF Matching
  <2>4. ~IsEmpty
    <3>1. c # <<>>
      OBVIOUS
    <3> QED BY <1>2, <3>1, EmptyMeansEmpty
  <2> QED BY <1>5, <2>3, <2>4
<1> QED BY <1>6, <1>7 DEF BuffersAreFound

(* The invariant of the table, for any strings and any size.                 *)
THEOREM TableInvariance == SetSpec => []HInv
<1> QED BY SetBegins, StepOfMultiset, PTL DEF SetSpec

(* A string is found if and only if it was added, whatever the buffer it is   *)
(* in was used for before.                                                   *)
THEOREM BuffersAreAlwaysFound == SetSpec => []BuffersAreFound
<1> QED BY TableInvariance, BuffersFind, PTL

(* The hash table answers as the multiset with last metadata does.           *)
THEOREM TableIsAMultiset == SetSpec => ImplementsMultiset
<1>1. SetInit => Contents!Init
  BY SetBegins
<1>2. HInv /\ [SetNext]_setVars => [Contents!Next]_(Contents!vars)
  BY StepOfMultiset
<1> QED BY <1>1, <1>2, TableInvariance, PTL DEF ImplementsMultiset, SetSpec, Contents!Spec

-----------------------------------------------------------------------------
(* Rules about paths.                                                      *)

\* `e` is the end of the last rule of set `s` among the first `n` prefixes.
IsEndOf(s, n, e) ==
  \/ e = Nowhere /\ \A i \in RulesOf(s) : i >= n
  \/ \E i \in RulesOf(s) :
       i < n /\ e = End(i) /\ \A j \in RulesOf(s) : j < n => j <= i

\* `d` is the last leading dot among them that hides.
IsDotOf(n, d) ==
  \/ d = Nowhere /\ \A i \in hidden : i >= n
  \/ \E i \in hidden :
       i < n /\ d = Dot(i) /\ \A j \in hidden : j < n => j <= i

\* The root that goes with the path, from the last rules about projects.
RootOf(parent, project) ==
  IF parent > project /\ parent < End(Length)
  THEN IF parent + 2 < End(Length) THEN parent + 2 ELSE Nowhere
  ELSE IF project < End(Length) THEN project ELSE Nowhere

SieveTypes ==
  /\ rules \subseteq SetName \X (0..Length)
  /\ hidden \subseteq 1..Length
  /\ byEditor \in BOOLEAN
  /\ flush \in BOOLEAN
  /\ phase \in {"push", "store", "done"}
  /\ path \in 0..Length
  /\ this \in 0..(path + 1)
  /\ ends \in [SetName -> Int]
  /\ hidingDot \in Int
  /\ pushed \in Seq(0..Length)
  /\ stored \in Seq([kind : {"project", "history", "file"}, root : Int])

\* What sieve has found so far is what the rules say of the prefixes passed.
Sieved ==
  /\ \A s \in SetName : IsEndOf(s, this, ends[s])
  /\ IsDotOf(this, hidingDot)

\* The life of the write: when what is sieved, and what has been pushed by then.
Life ==
  /\ phase = "push" => path = Length /\ pushed = <<>> /\ stored = <<>> /\ ~flush
  /\ phase = "store" /\ stored = <<>> => path = Length
  /\ phase = "store" /\ stored = <<>> /\ ~flush => pushed # <<>>
  /\ phase = "store" /\ stored # <<>> =>
       Len(stored) = 1 /\ Len(pushed) = 2 /\ path = pushed[2]
  /\ stored # <<>> /\ ~flush => pushed # <<>>
  /\ flush => pushed = <<>>

\* What was pushed follows from the last rules about projects on the whole path.
RootPushed ==
  pushed # <<>> =>
    \E parent, project \in Int :
      /\ IsEndOf("project_parent", Length + 1, parent)
      /\ IsEndOf("project", Length + 1, project)
      /\ pushed = IF RootOf(parent, project) = Nowhere THEN <<Length>>
                  ELSE <<Length, RootOf(parent, project) \div 2>>

SInv ==
  /\ SieveTypes
  /\ Sieved
  /\ Life
  /\ RootPushed
  /\ PushedAsDocumented
  /\ PushAndStoreAgree
  /\ OnlyHistoryIsStoredInParts
-----------------------------------------------------------------------------
(* The sets of the configuration, and the order in which the loops ask them. *)
LEMMA SetsAreOrdered ==
  /\ SetName = {"cluded", "included", "excluded", "history", "project",
                "project_parent"}
  /\ Sets[1] = "cluded" /\ Sets[2] = "included" /\ Sets[3] = "excluded"
  /\ Sets[4] = "history" /\ Sets[5] = "project" /\ Sets[6] = "project_parent"
  /\ Position("cluded") = 1 /\ Position("included") = 2
  /\ Position("excluded") = 3 /\ Position("history") = 4
<1>1. DOMAIN Sets = 1..6
  BY DEF Sets
<1>2. /\ Sets[1] = "cluded" /\ Sets[2] = "included" /\ Sets[3] = "excluded"
      /\ Sets[4] = "history" /\ Sets[5] = "project" /\ Sets[6] = "project_parent"
  BY DEF Sets
<1>3. \A k \in 1..6 : k = 1 \/ k = 2 \/ k = 3 \/ k = 4 \/ k = 5 \/ k = 6
  OBVIOUS
<1>4. SetName = {Sets[k] : k \in 1..6}
  BY <1>1 DEF SetName, Range
<1>5. SetName = {"cluded", "included", "excluded", "history", "project",
                "project_parent"}
  BY <1>2, <1>3, <1>4
<1>6. ASSUME NEW s \in {"cluded", "included", "excluded", "history"}
      PROVE  Position(s) \in 1..6 /\ Sets[Position(s)] = s
  <2>1. \E k \in DOMAIN Sets : Sets[k] = s
    BY <1>1, <1>2
  <2> QED BY <2>1, <1>1 DEF Position
<1>7. /\ Position("cluded") = 1 /\ Position("included") = 2
      /\ Position("excluded") = 3 /\ Position("history") = 4
  BY <1>2, <1>3, <1>6
<1> QED BY <1>2, <1>5, <1>7

(* A set has one end among the first prefixes: push_to_linq and store, that  *)
(* sieve the path at different times, cannot see different ones.             *)
LEMMA EndIsUnique ==
  ASSUME SieveTypes, NEW s \in SetName, NEW n \in Nat, NEW e, NEW f,
         IsEndOf(s, n, e), IsEndOf(s, n, f)
  PROVE  e = f
<1>1. RulesOf(s) \subseteq 0..Length /\ Length \in Nat
  BY SieveAssumption DEF RulesOf
<1>2. CASE e = Nowhere /\ \A i \in RulesOf(s) : i >= n
  <2>1. ~ \E i \in RulesOf(s) : i < n
    BY <1>1, <1>2
  <2> QED BY <1>2, <2>1 DEF IsEndOf
<1>3. CASE \E i \in RulesOf(s) :
             i < n /\ e = End(i) /\ \A j \in RulesOf(s) : j < n => j <= i
  <2> PICK i \in RulesOf(s) :
             i < n /\ e = End(i) /\ \A j \in RulesOf(s) : j < n => j <= i
    BY <1>3
  <2>1. ~ \A k \in RulesOf(s) : k >= n
    BY <1>1
  <2> PICK k \in RulesOf(s) :
             k < n /\ f = End(k) /\ \A j \in RulesOf(s) : j < n => j <= k
    BY <2>1 DEF IsEndOf
  <2>2. i = k
    BY <1>1
  <2> QED BY <2>2
<1> QED BY <1>2, <1>3 DEF IsEndOf

(* The bounds of an end.                                                     *)
LEMMA EndIsBounded ==
  ASSUME SieveTypes, NEW s \in SetName, NEW n \in 0..(Length + 1), NEW e,
         IsEndOf(s, n, e)
  PROVE  /\ e \in Int
         /\ e = Nowhere \/ e \in 0..(End(n) - 2)
<1>1. RulesOf(s) \subseteq 0..Length /\ Length \in Nat
  BY SieveAssumption DEF RulesOf
<1> QED BY <1>1 DEF IsEndOf, End, Nowhere

(* One more prefix: Matched takes its rule, or keeps the end.                *)
LEMMA EndAdvances ==
  ASSUME SieveTypes, NEW s \in SetName, NEW n \in 0..Length,
         IsEndOf(s, n, ends[s])
  PROVE  IsEndOf(s, n + 1, Matched(s, n))
<1>1. RulesOf(s) \subseteq 0..Length /\ Length \in Nat
  BY SieveAssumption DEF RulesOf
<1>2. <<s, n>> \in rules <=> n \in RulesOf(s)
  BY DEF RulesOf
<1>3. CASE n \in RulesOf(s)
  <2>1. Matched(s, n) = End(n)
    BY <1>2, <1>3 DEF Matched
  <2>2. n < n + 1 /\ \A j \in RulesOf(s) : j < n + 1 => j <= n
    BY <1>1
  <2> QED BY <1>3, <2>1, <2>2 DEF IsEndOf
<1>4. CASE n \notin RulesOf(s)
  <2>1. Matched(s, n) = ends[s]
    BY <1>2, <1>4 DEF Matched
  <2>2. \A j \in RulesOf(s) : (j < n + 1 <=> j < n) /\ (j >= n <=> j >= n + 1)
    BY <1>1, <1>4
  <2> QED BY <1>1, <2>1, <2>2 DEF IsEndOf
<1> QED BY <1>3, <1>4

(* The same for the hiding dots.                                             *)
LEMMA DotAdvances ==
  ASSUME SieveTypes, NEW n \in 0..Length, IsDotOf(n, hidingDot)
  PROVE  IsDotOf(n + 1, IF n \in hidden THEN Dot(n) ELSE hidingDot)
<1>1. hidden \subseteq 1..Length /\ Length \in Nat
  BY SieveAssumption DEF SieveTypes
<1>2. CASE n \in hidden
  <2>1. n < n + 1 /\ \A j \in hidden : j < n + 1 => j <= n
    BY <1>1
  <2> QED BY <1>2, <2>1 DEF IsDotOf
<1>3. CASE n \notin hidden
  <2>1. \A j \in hidden : (j < n + 1 <=> j < n) /\ (j >= n <=> j >= n + 1)
    BY <1>1, <1>3
  <2> QED BY <1>1, <1>3, <2>1 DEF IsDotOf
<1> QED BY <1>2, <1>3

(* Nothing is found before the first prefix.                                 *)
LEMMA NothingIsFoundYet ==
  ASSUME SieveTypes
  PROVE  /\ \A s \in SetName : IsEndOf(s, 0, NoEnds[s])
         /\ IsDotOf(0, Nowhere)
<1>1. Length \in Nat /\ hidden \subseteq 1..Length
  BY SieveAssumption DEF SieveTypes
<1>2. \A s \in SetName : \A i \in RulesOf(s) : i >= 0
  BY <1>1 DEF RulesOf
<1>3. \A s \in SetName : NoEnds[s] = Nowhere
  BY DEF NoEnds
<1>4. \A i \in hidden : i >= 0
  BY <1>1
<1> QED BY <1>2, <1>3, <1>4 DEF IsEndOf, IsDotOf

-----------------------------------------------------------------------------
(* A set beats the other sets of rules about files, with ties to the first.  *)
Beats(s) == \A t \in FileSets :
  ends[t] < ends[s] \/ (ends[t] = ends[s] /\ Position(s) <= Position(t))

(* The last rule of such a set is the documented most specific one.          *)
LEMMA BeatsIsDecides ==
  ASSUME SieveTypes, Sieved, this = Length + 1, NEW s \in FileSets
  PROVE  Decides(s) <=> ends[s] # Nowhere /\ Beats(s)
<1>1. Length \in Nat /\ FileSets \subseteq SetName
  BY SieveAssumption, SetsAreOrdered DEF FileSets
<1>2. \A t \in SetName : RulesOf(t) \subseteq 0..Length
  BY DEF RulesOf
<1>3. ASSUME NEW t \in SetName, ends[t] = Nowhere
      PROVE  RulesOf(t) = {}
  <2>1. \A i \in RulesOf(t) : i \in 0..Length
    BY <1>2
  <2>2. IsEndOf(t, Length + 1, Nowhere)
    BY <1>3 DEF Sieved
  <2>3. \A i \in RulesOf(t) : End(i) # Nowhere
    BY <2>1, <1>1 DEF End, Nowhere
  <2>4. \A i \in RulesOf(t) : i >= Length + 1
    BY <2>2, <2>3 DEF IsEndOf
  <2> QED BY <2>1, <2>4, <1>1
<1>4. ASSUME NEW t \in SetName, ends[t] # Nowhere
      PROVE  \E i \in RulesOf(t) : ends[t] = End(i) /\ \A j \in RulesOf(t) : j <= i
  <2>1. \A i \in RulesOf(t) : i < Length + 1
    BY <1>1, <1>2
  <2> QED BY <1>4, <2>1 DEF Sieved, IsEndOf
<1>5. \A t \in FileSets : Position(t) \in Int
  BY SetsAreOrdered DEF FileSets
<1>6. ASSUME Decides(s) PROVE ends[s] # Nowhere /\ Beats(s)
  <2> PICK i \in RulesOf(s) : \A t \in FileSets : \A j \in RulesOf(t) :
             j < i \/ (j = i /\ Position(s) <= Position(t))
    BY <1>6 DEF Decides
  <2>1. ends[s] # Nowhere
    BY <1>1, <1>3
  <2> PICK k \in RulesOf(s) : ends[s] = End(k) /\ \A j \in RulesOf(s) : j <= k
    BY <1>1, <1>4, <2>1
  <2>2. i \in 0..Length /\ k = i
    BY <1>1, <1>2
  <2>3. ASSUME NEW t \in FileSets
        PROVE  ends[t] < ends[s] \/ (ends[t] = ends[s] /\ Position(s) <= Position(t))
    <3>1. CASE ends[t] = Nowhere
      BY <2>2, <3>1, <1>1 DEF End, Nowhere
    <3>2. CASE ends[t] # Nowhere
      <4> PICK j \in RulesOf(t) : ends[t] = End(j)
        BY <1>1, <1>4, <3>2
      <4>1. j < i \/ (j = i /\ Position(s) <= Position(t))
        OBVIOUS
      <4>2. j \in 0..Length
        BY <1>1, <1>2
      <4> QED BY <2>2, <4>1, <4>2, <1>1 DEF End
    <3> QED BY <3>1, <3>2
  <2> QED BY <2>1, <2>3 DEF Beats
<1>7. ASSUME ends[s] # Nowhere, Beats(s) PROVE Decides(s)
  <2> PICK i \in RulesOf(s) : ends[s] = End(i) /\ \A j \in RulesOf(s) : j <= i
    BY <1>1, <1>4, <1>7
  <2>1. ASSUME NEW t \in FileSets, NEW j \in RulesOf(t)
        PROVE  j < i \/ (j = i /\ Position(s) <= Position(t))
    <3>1. ends[t] # Nowhere
      BY <1>1, <1>3
    <3> PICK k \in RulesOf(t) : ends[t] = End(k) /\ \A l \in RulesOf(t) : l <= k
      BY <1>1, <1>4, <3>1
    <3>2. i \in 0..Length /\ j \in 0..Length /\ k \in 0..Length /\ j <= k
      BY <1>1, <1>2
    <3>3. End(k) < End(i) \/ (End(k) = End(i) /\ Position(s) <= Position(t))
      BY <1>7 DEF Beats
    <3> QED BY <3>2, <3>3, <1>1 DEF End
  <2> QED BY <2>1 DEF Decides
<1> QED BY <1>6, <1>7

(* Whether a dot hides the path from a set is the comparison of two ends.    *)
LEMMA HidesIsFarther ==
  ASSUME SieveTypes, Sieved, this = Length + 1, NEW s \in FileSets,
         ends[s] # Nowhere
  PROVE  IsHiddenFrom(s) <=> ~(ends[s] > hidingDot)
<1>1. Length \in Nat /\ s \in SetName /\ hidden \subseteq 1..Length
  BY SieveAssumption, SetsAreOrdered DEF FileSets, SieveTypes
<1>2. RulesOf(s) \subseteq 0..Length
  BY DEF RulesOf
<1> PICK i \in RulesOf(s) : ends[s] = End(i) /\ \A j \in RulesOf(s) : j <= i
  <2>1. \A j \in RulesOf(s) : j < Length + 1
    BY <1>1, <1>2
  <2> QED BY <1>1, <2>1 DEF Sieved, IsEndOf
<1>3. i \in 0..Length
  BY <1>2
<1>4. \A h \in hidden : (\A j \in RulesOf(s) : j < h) <=> i < h
  BY <1>1, <1>2, <1>3
<1>5. CASE hidingDot = Nowhere /\ \A h \in hidden : h >= Length + 1
  <2>1. hidden = {}
    BY <1>1, <1>5
  <2> QED BY <1>3, <1>5, <2>1, <1>1 DEF IsHiddenFrom, End, Nowhere
<1>6. CASE \E g \in hidden :
             g < Length + 1 /\ hidingDot = Dot(g)
             /\ \A j \in hidden : j < Length + 1 => j <= g
  <2> PICK g \in hidden : hidingDot = Dot(g) /\
                          \A j \in hidden : j < Length + 1 => j <= g
    BY <1>6
  <2>1. \A j \in hidden : j <= g
    BY <1>1
  <2>2. IsHiddenFrom(s) <=> i < g
    BY <1>1, <1>3, <1>4, <2>1 DEF IsHiddenFrom
  <2> QED BY <1>1, <1>3, <2>2 DEF End, Dot
<1> QED BY <1>5, <1>6 DEF Sieved, IsDotOf
-----------------------------------------------------------------------------
PushAnswer == [farthest : Int, isPushed : BOOLEAN]

(* One round of the loop of push_to_linq: what each set makes of the answer. *)
LEMMA PushRound ==
  ASSUME SieveTypes, NEW a \in PushAnswer, NEW s \in SetName
  PROVE  /\ PushStep(a, s) \in PushAnswer
         /\ PushStep(a, s).farthest =
              IF ends[s] > a.farthest THEN ends[s] ELSE a.farthest
         /\ ~(ends[s] > a.farthest) => PushStep(a, s) = a
         /\ ends[s] > a.farthest =>
              /\ s = "cluded" => PushStep(a, s).isPushed = byEditor
              /\ s \in {"included", "history"} => PushStep(a, s).isPushed
              /\ s = "excluded" => ~PushStep(a, s).isPushed
              /\ s \in {"project", "project_parent"} =>
                   PushStep(a, s).isPushed = a.isPushed
<1>1. ends[s] \in Int /\ byEditor \in BOOLEAN
  BY DEF SieveTypes
<1>2. a.farthest \in Int /\ a.isPushed \in BOOLEAN
  BY DEF PushAnswer
<1>3. CASE ~(ends[s] > a.farthest)
  <2>1. PushStep(a, s) = a
    BY <1>3 DEF PushStep
  <2> QED BY <1>1, <1>2, <1>3, <2>1
<1>4. CASE ends[s] > a.farthest
  <2>1. s \in {"cluded", "included", "excluded", "history", "project",
               "project_parent"}
    BY SetsAreOrdered
  <2>2. CASE s = "cluded"
    <3>1. PushStep(a, s) = [farthest |-> ends[s], isPushed |-> byEditor]
      BY <1>4, <2>2 DEF PushStep
    <3> QED BY <1>1, <1>4, <2>2, <3>1 DEF PushAnswer
  <2>3. CASE s \in {"included", "history"}
    <3>1. PushStep(a, s) = [farthest |-> ends[s], isPushed |-> TRUE]
      BY <1>4, <2>3 DEF PushStep
    <3>2. /\ PushStep(a, s).farthest = ends[s]
          /\ PushStep(a, s).isPushed = TRUE
          /\ PushStep(a, s) \in PushAnswer
      BY <1>1, <3>1 DEF PushAnswer
    <3> QED BY <1>4, <2>3, <3>2
  <2>4. CASE s = "excluded"
    <3>1. PushStep(a, s) = [farthest |-> ends[s], isPushed |-> FALSE]
      BY <1>4, <2>4 DEF PushStep
    <3>2. /\ PushStep(a, s).farthest = ends[s]
          /\ PushStep(a, s).isPushed = FALSE
          /\ PushStep(a, s) \in PushAnswer
      BY <1>1, <3>1 DEF PushAnswer
    <3> QED BY <1>4, <2>4, <3>2
  <2>5. CASE s \in {"project", "project_parent"}
    <3>1. PushStep(a, s) = [farthest |-> ends[s], isPushed |-> a.isPushed]
      BY <1>4, <2>5 DEF PushStep
    <3> QED BY <1>1, <1>2, <1>4, <2>5, <3>1 DEF PushAnswer
  <2> QED BY <2>1, <2>2, <2>3, <2>4, <2>5
<1> QED BY <1>3, <1>4

(* The whole loop: the set that beats the others and the dot decides, and     *)
(* without one it is the answer that the loop began with.                    *)
LEMMA LoopPushesByTheWinner ==
  ASSUME SieveTypes
  PROVE  IsPushed <=>
           \/ \E s \in {"included", "history"} : Beats(s) /\ ends[s] > hidingDot
           \/ Beats("cluded") /\ ends["cluded"] > hidingDot /\ byEditor
           \/ /\ \A s \in FileSets : ~(ends[s] > hidingDot)
              /\ hidingDot = Nowhere
              /\ byEditor
<1> DEFINE a0 == [farthest |-> hidingDot,
                  isPushed |-> hidingDot = Nowhere /\ byEditor]
           a1 == PushStep(a0, "cluded")
           a2 == PushStep(a1, "included")
           a3 == PushStep(a2, "excluded")
           a4 == PushStep(a3, "history")
           a5 == PushStep(a4, "project")
           a6 == PushStep(a5, "project_parent")
<1>1. /\ ends["cluded"] \in Int /\ ends["included"] \in Int
      /\ ends["excluded"] \in Int /\ ends["history"] \in Int
      /\ ends["project"] \in Int /\ ends["project_parent"] \in Int
      /\ hidingDot \in Int /\ byEditor \in BOOLEAN
  BY SetsAreOrdered DEF SieveTypes
<1>2. IsPushed = a6.isPushed
  BY SetsAreOrdered DEF IsPushed, OverSets
<1>3. a0 \in PushAnswer
  BY <1>1 DEF PushAnswer
<1>4. a1 \in PushAnswer
  BY <1>3, PushRound, SetsAreOrdered
<1>5. a2 \in PushAnswer
  BY <1>4, PushRound, SetsAreOrdered
<1>6. a3 \in PushAnswer
  BY <1>5, PushRound, SetsAreOrdered
<1>7. a4 \in PushAnswer
  BY <1>6, PushRound, SetsAreOrdered
<1>8. a5 \in PushAnswer
  BY <1>7, PushRound, SetsAreOrdered
<1>9. a4.isPushed = a6.isPushed
  <2>1. a5.isPushed = a4.isPushed
    BY <1>7, PushRound, SetsAreOrdered
  <2>2. a6.isPushed = a5.isPushed
    BY <1>8, PushRound, SetsAreOrdered
  <2> QED BY <2>1, <2>2
<1>10. /\ a1.farthest = IF ends["cluded"] > hidingDot THEN ends["cluded"] ELSE hidingDot
       /\ ends["cluded"] > hidingDot => a1.isPushed = byEditor
       /\ ~(ends["cluded"] > hidingDot) => (a1.isPushed <=> hidingDot = Nowhere /\ byEditor)
  <2>1. a0.farthest = hidingDot /\ (a0.isPushed <=> hidingDot = Nowhere /\ byEditor)
    OBVIOUS
  <2> HIDE DEF a0
  <2> QED BY <1>3, <2>1, PushRound, SetsAreOrdered
<1>11. /\ a2.farthest = IF ends["included"] > a1.farthest THEN ends["included"] ELSE a1.farthest
       /\ ends["included"] > a1.farthest => a2.isPushed
       /\ ~(ends["included"] > a1.farthest) => a2.isPushed = a1.isPushed
  <2> HIDE DEF a1
  <2> QED BY <1>4, PushRound, SetsAreOrdered
<1>12. /\ a3.farthest = IF ends["excluded"] > a2.farthest THEN ends["excluded"] ELSE a2.farthest
       /\ ends["excluded"] > a2.farthest => ~a3.isPushed
       /\ ~(ends["excluded"] > a2.farthest) => a3.isPushed = a2.isPushed
  <2> HIDE DEF a2
  <2> QED BY <1>5, PushRound, SetsAreOrdered
<1>13. /\ ends["history"] > a3.farthest => a4.isPushed
       /\ ~(ends["history"] > a3.farthest) => a4.isPushed = a3.isPushed
  <2> HIDE DEF a3
  <2> QED BY <1>6, PushRound, SetsAreOrdered
<1>14. /\ a1.isPushed \in BOOLEAN /\ a2.isPushed \in BOOLEAN
       /\ a3.isPushed \in BOOLEAN /\ a4.isPushed \in BOOLEAN
       /\ a1.farthest \in Int /\ a2.farthest \in Int /\ a3.farthest \in Int
  <2> HIDE DEF a1, a2, a3, a4
  <2> QED BY <1>4, <1>5, <1>6, <1>7 DEF PushAnswer
<1>15. /\ Beats("cluded") <=> /\ ends["included"] <= ends["cluded"]
                              /\ ends["excluded"] <= ends["cluded"]
                              /\ ends["history"] <= ends["cluded"]
       /\ Beats("included") <=> /\ ends["cluded"] < ends["included"]
                                /\ ends["excluded"] <= ends["included"]
                                /\ ends["history"] <= ends["included"]
       /\ Beats("history") <=> /\ ends["cluded"] < ends["history"]
                               /\ ends["included"] < ends["history"]
                               /\ ends["excluded"] < ends["history"]
  BY <1>1, SetsAreOrdered DEF Beats, FileSets
<1>16. (\A s \in FileSets : ~(ends[s] > hidingDot)) <=>
         /\ ends["cluded"] <= hidingDot /\ ends["included"] <= hidingDot
         /\ ends["excluded"] <= hidingDot /\ ends["history"] <= hidingDot
  BY <1>1 DEF FileSets
<1> HIDE DEF a0, a1, a2, a3, a4, a5, a6
<1>17. a4.isPushed <=>
           \/ Beats("included") /\ ends["included"] > hidingDot
           \/ Beats("history") /\ ends["history"] > hidingDot
           \/ Beats("cluded") /\ ends["cluded"] > hidingDot /\ byEditor
           \/ /\ \A s \in FileSets : ~(ends[s] > hidingDot)
              /\ hidingDot = Nowhere
              /\ byEditor
  <2>1. CASE ends["history"] > a3.farthest
    BY <1>1, <1>10, <1>11, <1>12, <1>13, <1>14, <1>15, <1>16, <2>1
  <2>2. CASE ~(ends["history"] > a3.farthest)
    <3>1. CASE ends["excluded"] > a2.farthest
      BY <1>1, <1>10, <1>11, <1>12, <1>13, <1>14, <1>15, <1>16, <2>2, <3>1
    <3>2. CASE ~(ends["excluded"] > a2.farthest)
      <4>1. CASE ends["included"] > a1.farthest
        BY <1>1, <1>10, <1>11, <1>12, <1>13, <1>14, <1>15, <1>16, <2>2, <3>2, <4>1
      <4>2. CASE ~(ends["included"] > a1.farthest)
        BY <1>1, <1>10, <1>11, <1>12, <1>13, <1>14, <1>15, <1>16, <2>2, <3>2, <4>2
      <4> QED BY <4>1, <4>2
    <3> QED BY <3>1, <3>2
  <2> QED BY <2>1, <2>2
<1> QED BY <1>2, <1>9, <1>17

(* On the whole path that is what the documentation of the settings says.    *)
LEMMA PushIsWanted ==
  ASSUME SieveTypes, Sieved, this = Length + 1
  PROVE  IsPushed <=> IsWanted
<1>1. Length \in Nat /\ FileSets \subseteq SetName
  BY SieveAssumption, SetsAreOrdered DEF FileSets
<1>2. hidingDot \in Int /\ \A s \in FileSets : ends[s] \in Int
  BY <1>1 DEF SieveTypes
<1>3. hidingDot >= Nowhere /\ (hidingDot = Nowhere <=> hidden = {})
  <2>1. hidden \subseteq 1..Length
    BY DEF SieveTypes
  <2> QED BY <1>1, <2>1 DEF Sieved, IsDotOf, Nowhere, Dot
<1>4. ASSUME NEW s \in FileSets
      PROVE  ends[s] >= Nowhere /\ (ends[s] = Nowhere <=> RulesOf(s) = {})
  <2>1. RulesOf(s) \subseteq 0..Length /\ s \in SetName
    BY <1>1 DEF RulesOf
  <2> QED BY <1>1, <2>1 DEF Sieved, IsEndOf, Nowhere, End
<1>5. ASSUME NEW s \in FileSets
      PROVE  Beats(s) /\ ends[s] > hidingDot <=> Decides(s) /\ ~IsHiddenFrom(s)
  <2>1. CASE ends[s] = Nowhere
    BY <1>2, <1>3, <2>1, BeatsIsDecides DEF Nowhere
  <2>2. CASE ends[s] # Nowhere
    BY <2>2, BeatsIsDecides, HidesIsFarther
  <2> QED BY <2>1, <2>2
<1>6. /\ \A s \in FileSets : ~(ends[s] > hidingDot)
      /\ hidingDot = Nowhere
      <=> /\ \A s \in FileSets : RulesOf(s) = {}
          /\ hidden = {}
  <2>1. ASSUME NEW s \in FileSets, hidingDot = Nowhere
        PROVE  ~(ends[s] > hidingDot) <=> RulesOf(s) = {}
    BY <1>2, <1>4, <2>1 DEF Nowhere
  <2> QED BY <1>3, <2>1
<1>7. {"included", "history"} \subseteq FileSets /\ "cluded" \in FileSets
  BY DEF FileSets
<1> QED BY <1>5, <1>6, <1>7, LoopPushesByTheWinner DEF IsWanted
-----------------------------------------------------------------------------
StoreAnswer == [farthest : Int, isHistory : BOOLEAN]

(* One round of the loop of store.                                           *)
LEMMA StoreRound ==
  ASSUME SieveTypes, NEW a \in StoreAnswer, NEW s \in SetName
  PROVE  /\ StoreStep(a, s) \in StoreAnswer
         /\ StoreStep(a, s).farthest =
              IF ends[s] > a.farthest THEN ends[s] ELSE a.farthest
         /\ ~(ends[s] > a.farthest) =>
              StoreStep(a, s).isHistory = a.isHistory
         /\ ends[s] > a.farthest =>
              (StoreStep(a, s).isHistory <=> s = "history")
<1>1. ends[s] \in Int
  BY DEF SieveTypes
<1>2. CASE ~(ends[s] > a.farthest)
  <2>1. StoreStep(a, s) = a
    BY <1>2 DEF StoreStep
  <2> QED BY <1>2, <2>1
<1>3. CASE ends[s] > a.farthest
  <2>1. StoreStep(a, s) = [farthest |-> ends[s], isHistory |-> s = "history"]
    BY <1>3 DEF StoreStep
  <2>2. /\ StoreStep(a, s).farthest = ends[s]
        /\ StoreStep(a, s).isHistory <=> s = "history"
    <3>1. CASE s = "history"
      <4>1. StoreStep(a, s) = [farthest |-> ends[s], isHistory |-> TRUE]
        BY <2>1, <3>1
      <4> QED BY <3>1, <4>1
    <3>2. CASE s # "history"
      <4>1. StoreStep(a, s) = [farthest |-> ends[s], isHistory |-> FALSE]
        BY <2>1, <3>2
      <4> QED BY <3>2, <4>1
    <3> QED BY <3>1, <3>2
  <2>3. StoreStep(a, s) \in StoreAnswer
    BY <1>1, <2>1 DEF StoreAnswer
  <2> QED BY <1>3, <2>2, <2>3
<1> QED BY <1>2, <1>3

(* A history is stored only if history_paths beats the other sets of rules   *)
(* about files.                                                              *)
LEMMA LoopStoresHistoryByTheWinner ==
  ASSUME SieveTypes, \A s \in SetName : ends[s] >= Nowhere, IsHistory
  PROVE  Beats("history") /\ ends["history"] # Nowhere
<1> DEFINE a0 == [farthest |-> Nowhere, isHistory |-> FALSE]
           a1 == StoreStep(a0, "cluded")
           a2 == StoreStep(a1, "included")
           a3 == StoreStep(a2, "excluded")
           a4 == StoreStep(a3, "history")
           a5 == StoreStep(a4, "project")
           a6 == StoreStep(a5, "project_parent")
<1>1. /\ ends["cluded"] \in Int /\ ends["included"] \in Int
      /\ ends["excluded"] \in Int /\ ends["history"] \in Int
      /\ Nowhere \in Int
  BY SetsAreOrdered DEF SieveTypes, Nowhere
<1>2. IsHistory = a6.isHistory
  BY SetsAreOrdered DEF IsHistory, OverSets
<1>3. a0 \in StoreAnswer /\ a0.farthest = Nowhere /\ ~a0.isHistory
  BY <1>1 DEF StoreAnswer
<1> HIDE DEF a0
<1>4. /\ a1 \in StoreAnswer
      /\ a1.farthest = IF ends["cluded"] > a0.farthest THEN ends["cluded"]
                       ELSE a0.farthest
      /\ ~a1.isHistory
  BY <1>3, StoreRound, SetsAreOrdered
<1> HIDE DEF a1
<1>5. /\ a2 \in StoreAnswer
      /\ a2.farthest = IF ends["included"] > a1.farthest THEN ends["included"]
                       ELSE a1.farthest
      /\ ~a2.isHistory
  BY <1>4, StoreRound, SetsAreOrdered
<1> HIDE DEF a2
<1>6. /\ a3 \in StoreAnswer
      /\ a3.farthest = IF ends["excluded"] > a2.farthest THEN ends["excluded"]
                       ELSE a2.farthest
      /\ ~a3.isHistory
  BY <1>5, StoreRound, SetsAreOrdered
<1> HIDE DEF a3
<1>7. /\ a4 \in StoreAnswer
      /\ a4.isHistory => ends["history"] > a3.farthest
  BY <1>6, StoreRound, SetsAreOrdered
<1> HIDE DEF a4
<1>8. /\ a5 \in StoreAnswer
      /\ a5.isHistory => a4.isHistory
  BY <1>7, StoreRound, SetsAreOrdered
<1> HIDE DEF a5
<1>9. a6.isHistory => a5.isHistory
  BY <1>8, StoreRound, SetsAreOrdered
<1>10. ends["history"] > a3.farthest
  BY <1>2, <1>7, <1>8, <1>9
<1>11. /\ a1.farthest \in Int /\ a2.farthest \in Int /\ a3.farthest \in Int
  BY <1>4, <1>5, <1>6 DEF StoreAnswer
<1>12. /\ ends["cluded"] < ends["history"]
       /\ ends["included"] < ends["history"]
       /\ ends["excluded"] < ends["history"]
       /\ ends["history"] > Nowhere
  BY <1>1, <1>3, <1>4, <1>5, <1>6, <1>10, <1>11
<1>13. Beats("history")
  BY <1>1, <1>12, SetsAreOrdered DEF Beats, FileSets
<1> QED BY <1>1, <1>12, <1>13

-----------------------------------------------------------------------------
(* Every write begins in the invariant.                                      *)
LEMMA SieveBegins == SieveInit => SInv
<1> SUFFICES ASSUME SieveInit PROVE SInv
  OBVIOUS
<1>1. Length \in Nat /\ rules \subseteq SetName \X (0..Length)
  BY SieveAssumption DEF SieveInit
<1>2. /\ path = Length /\ this = 0 /\ ends = NoEnds /\ hidingDot = Nowhere
      /\ pushed = <<>> /\ stored = <<>>
      /\ flush \in BOOLEAN
      /\ phase = IF flush THEN "store" ELSE "push"
  BY SieveAssumption DEF SieveInit
<1>3. SieveTypes
  <2>1. NoEnds \in [SetName -> Int]
    BY DEF NoEnds, Nowhere
  <2>2. hidden \subseteq 1..Length /\ byEditor \in BOOLEAN
    BY DEF SieveInit
  <2> QED BY <1>1, <1>2, <2>1, <2>2 DEF SieveTypes, Nowhere
<1>4. Sieved
  BY <1>2, <1>3, NothingIsFoundYet DEF Sieved
<1>5. Life /\ RootPushed
  BY <1>2 DEF Life, RootPushed
<1>6. PushedAsDocumented /\ PushAndStoreAgree /\ OnlyHistoryIsStoredInParts
  BY <1>2 DEF PushedAsDocumented, PushAndStoreAgree, OnlyHistoryIsStoredInParts
<1> QED BY <1>3, <1>4, <1>5, <1>6 DEF SInv

(* What depends on the configuration and on what was pushed and stored only. *)
LEMMA OutcomeStays ==
  ASSUME UNCHANGED <<rules, hidden, byEditor, flush, pushed, stored>>
  PROVE  /\ RootPushed' <=> RootPushed
         /\ PushAndStoreAgree' <=> PushAndStoreAgree
         /\ OnlyHistoryIsStoredInParts' <=> OnlyHistoryIsStoredInParts
         /\ IsWanted' <=> IsWanted
<1>1. /\ rules' = rules /\ hidden' = hidden /\ byEditor' = byEditor
      /\ flush' = flush /\ pushed' = pushed /\ stored' = stored
  OBVIOUS
<1>2. RootPushed' <=> RootPushed
  BY <1>1 DEF RootPushed, IsEndOf, RulesOf
<1>3. PushAndStoreAgree' <=> PushAndStoreAgree
  BY <1>1 DEF PushAndStoreAgree, Roots, RulesOf
<1>4. OnlyHistoryIsStoredInParts' <=> OnlyHistoryIsStoredInParts
  BY <1>1 DEF OnlyHistoryIsStoredInParts, Decides, RulesOf
<1>5. IsWanted' <=> IsWanted
  BY <1>1 DEF IsWanted, Decides, IsHiddenFrom, RulesOf
<1> QED BY <1>2, <1>3, <1>4, <1>5

(* One prefix is passed: the ends stay those of the prefixes passed.         *)
LEMMA ScanKeeps ==
  ASSUME SInv, Scan
  PROVE  SInv'
<1>1. /\ this' = this + 1
      /\ ends' = [s \in SetName |-> Matched(s, this)]
      /\ hidingDot' = IF this \in hidden THEN Dot(this) ELSE hidingDot
      /\ this <= path /\ phase' = phase /\ path' = path
      /\ rules' = rules /\ hidden' = hidden /\ byEditor' = byEditor
      /\ flush' = flush /\ pushed' = pushed /\ stored' = stored
  BY DEF Scan
<1> SieveTypes
  BY DEF SInv
<1>2. Length \in Nat /\ path \in 0..Length /\ this \in 0..Length
  BY <1>1, SieveAssumption DEF SieveTypes
<1>3. SieveTypes'
  <2>1. this' \in 0..(path' + 1)
    BY <1>1, <1>2
  <2>2. \A s \in SetName : Matched(s, this) \in Int
    BY <1>2 DEF Matched, End, SieveTypes
  <2>3. ends' \in [SetName -> Int]
    BY <1>1, <2>2
  <2>4. hidingDot' \in Int
    BY <1>1, <1>2 DEF Dot, SieveTypes
  <2> QED BY <1>1, <2>1, <2>3, <2>4 DEF SieveTypes
<1>4. Sieved'
  <2>1. ASSUME NEW s \in SetName
        PROVE  IsEndOf(s, this + 1, Matched(s, this))
    BY <1>2, EndAdvances DEF SInv, Sieved
  <2>2. IsDotOf(this + 1, hidingDot')
    BY <1>1, <1>2, DotAdvances DEF SInv, Sieved
  <2>3. \A s \in SetName : ends'[s] = Matched(s, this)
    BY <1>1
  <2> QED BY <1>1, <2>1, <2>2, <2>3 DEF Sieved, IsEndOf, IsDotOf, RulesOf
<1>5. Life'
  BY <1>1 DEF SInv, Life
<1>6. /\ RootPushed' /\ PushAndStoreAgree' /\ OnlyHistoryIsStoredInParts'
      /\ IsWanted' <=> IsWanted
  BY <1>1, OutcomeStays DEF SInv
<1>7. PushedAsDocumented'
  BY <1>1, <1>6 DEF SInv, PushedAsDocumented
<1> QED BY <1>3, <1>4, <1>5, <1>6, <1>7 DEF SInv
-----------------------------------------------------------------------------
(* The root of push_to_linq, in terms of the rules: none, or a prefix.       *)
LEMMA RootIsAPrefix ==
  ASSUME SInv, NEW parent, NEW project,
         IsEndOf("project_parent", Length + 1, parent),
         IsEndOf("project", Length + 1, project)
  PROVE  /\ parent \in Int /\ project \in Int
         /\ \/ RootOf(parent, project) = Nowhere
            \/ /\ RootOf(parent, project) \in 0..(End(Length) - 1)
               /\ RootOf(parent, project) \div 2 \in 0..Length
<1>1. Length \in Nat /\ SieveTypes
  BY SieveAssumption DEF SInv
<1>2. /\ parent \in Int /\ (parent = Nowhere \/ parent >= 0)
      /\ project \in Int /\ (project = Nowhere \/ project >= 0)
  <2>1. Length + 1 \in 0..(Length + 1)
    BY <1>1
  <2> QED BY <1>1, <2>1, EndIsBounded, SetsAreOrdered
<1>3. \/ RootOf(parent, project) = Nowhere
      \/ RootOf(parent, project) \in 0..(End(Length) - 1)
  BY <1>1, <1>2 DEF RootOf, End, Nowhere
<1>4. \A r \in 0..(End(Length) - 1) : r \div 2 \in 0..Length
  BY <1>1 DEF End
<1> QED BY <1>2, <1>3, <1>4

(* What was pushed is the path, alone or with a root of it.                  *)
LEMMA PushedIsPathAndRoot ==
  ASSUME SInv, pushed # <<>>
  PROVE  \/ pushed = <<Length>>
         \/ Len(pushed) = 2 /\ pushed[1] = Length /\ pushed[2] \in 0..Length
<1> PICK parent, project \in Int :
      /\ IsEndOf("project_parent", Length + 1, parent)
      /\ IsEndOf("project", Length + 1, project)
      /\ pushed = IF RootOf(parent, project) = Nowhere THEN <<Length>>
                  ELSE <<Length, RootOf(parent, project) \div 2>>
  BY DEF SInv, RootPushed
<1>1. \/ RootOf(parent, project) = Nowhere
      \/ RootOf(parent, project) \div 2 \in 0..Length
  BY RootIsAPrefix
<1>2. CASE RootOf(parent, project) = Nowhere
  BY <1>2
<1>3. CASE RootOf(parent, project) # Nowhere
  BY <1>1, <1>3
<1> QED BY <1>2, <1>3

(* The write is pushed, or it is over.                                       *)
LEMMA PushKeeps ==
  ASSUME SInv, PushToLinq
  PROVE  SInv'
<1> DEFINE root == PushedRootEnd
<1>1. /\ phase = "push" /\ path = Length /\ pushed = <<>> /\ stored = <<>> /\ ~flush
      /\ rules' = rules /\ hidden' = hidden /\ byEditor' = byEditor
      /\ flush' = flush /\ stored' = stored
      /\ Length \in Nat
  BY SieveAssumption DEF PushToLinq, IsSieved, SInv, Life
<1>2. this = Length + 1 /\ SieveTypes
  BY <1>1 DEF PushToLinq, IsSieved, SInv, SieveTypes
<1>3. /\ IsEndOf("project_parent", Length + 1, ends["project_parent"])
      /\ IsEndOf("project", Length + 1, ends["project"])
  BY <1>2, SetsAreOrdered DEF SInv, Sieved
<1>4. root = RootOf(ends["project_parent"], ends["project"])
  BY <1>1 DEF PushedRootEnd, RootOf, NextSegment
<1>5. IsPushed <=> IsWanted
  BY <1>2, PushIsWanted DEF SInv
<1>6. IsWanted' <=> IsWanted
  BY <1>1 DEF IsWanted, Decides, IsHiddenFrom, RulesOf
<1>7. PushAndStoreAgree' /\ OnlyHistoryIsStoredInParts'
  BY <1>1 DEF PushAndStoreAgree, OnlyHistoryIsStoredInParts
<1>8. CASE IsPushed
  <2>1. /\ pushed' = IF root = Nowhere THEN <<Length>> ELSE <<Length, root \div 2>>
        /\ phase' = "store" /\ path' = Length /\ this' = 0
        /\ ends' = NoEnds /\ hidingDot' = Nowhere
    BY <1>1, <1>8 DEF PushToLinq, SieveAgain
  <2> HIDE DEF root
  <2>2. root = Nowhere \/ root \div 2 \in 0..Length
    BY <1>3, <1>4, RootIsAPrefix
  <2>3. pushed' \in Seq(0..Length) /\ pushed' # <<>>
    <3>1. CASE root = Nowhere
      BY <1>1, <2>1, <3>1
    <3>2. CASE root # Nowhere
      BY <1>1, <2>1, <2>2, <3>2
    <3> QED BY <3>1, <3>2
  <2>4. SieveTypes'
    <3>1. NoEnds \in [SetName -> Int]
      BY DEF NoEnds, Nowhere
    <3> QED BY <1>1, <1>2, <2>1, <2>3, <3>1 DEF SieveTypes, Nowhere
  <2>5. Sieved'
    <3>1. /\ \A s \in SetName : IsEndOf(s, 0, NoEnds[s])
          /\ IsDotOf(0, Nowhere)
      BY <1>2, NothingIsFoundYet
    <3> QED BY <1>1, <2>1, <3>1 DEF Sieved, IsEndOf, IsDotOf, RulesOf
  <2>6. Life'
    BY <1>1, <2>1, <2>3 DEF Life
  <2>7. RootPushed'
    <3>1. ends["project_parent"] \in Int /\ ends["project"] \in Int
      BY <1>2, SetsAreOrdered DEF SieveTypes
    <3>2. \E parent, project \in Int :
            /\ IsEndOf("project_parent", Length + 1, parent)
            /\ IsEndOf("project", Length + 1, project)
            /\ pushed' = IF RootOf(parent, project) = Nowhere THEN <<Length>>
                         ELSE <<Length, RootOf(parent, project) \div 2>>
      BY <1>3, <1>4, <2>1, <3>1
    <3> QED BY <1>1, <3>2 DEF RootPushed, IsEndOf, RulesOf
  <2>8. PushedAsDocumented'
    BY <1>5, <1>6, <1>8, <2>3 DEF PushedAsDocumented
  <2> QED BY <1>7, <2>4, <2>5, <2>6, <2>7, <2>8 DEF SInv
<1>9. CASE ~IsPushed
  <2>1. /\ phase' = "done" /\ path' = path /\ this' = this /\ ends' = ends
        /\ hidingDot' = hidingDot /\ pushed' = pushed
    BY <1>9 DEF PushToLinq
  <2>2. SieveTypes'
    BY <1>1, <1>2, <2>1 DEF SieveTypes
  <2>3. Sieved'
    BY <1>1, <2>1 DEF SInv, Sieved, IsEndOf, IsDotOf, RulesOf
  <2>4. Life' /\ RootPushed'
    BY <1>1, <2>1 DEF Life, RootPushed
  <2>5. PushedAsDocumented'
    BY <1>1, <1>5, <1>6, <1>9, <2>1 DEF PushedAsDocumented
  <2> QED BY <1>7, <2>2, <2>3, <2>4, <2>5 DEF SInv
<1> QED BY <1>8, <1>9
-----------------------------------------------------------------------------
\* What Store appends.
Outcome ==
  IF IsProject
  THEN [kind |-> "project", root |-> path]
  ELSE [kind |-> IF IsHistory THEN "history" ELSE "file",
        root |-> IF StoredRootEnd = Nowhere THEN Nowhere ELSE StoredRootEnd \div 2]

(* The fields of an outcome.                                                 *)
LEMMA OutcomeFields ==
  ASSUME SieveTypes, StoredRootEnd \in Int
  PROVE  /\ Outcome \in [kind : {"project", "history", "file"}, root : Int]
         /\ Outcome.kind = "project" <=> IsProject
         /\ Outcome.kind = "history" => IsHistory
         /\ ~IsProject =>
              Outcome.root = IF StoredRootEnd = Nowhere THEN Nowhere
                             ELSE StoredRootEnd \div 2
<1>1. path \in Int /\ Nowhere \in Int /\ StoredRootEnd \div 2 \in Int
  BY SieveAssumption DEF SieveTypes, Nowhere
<1> DEFINE root == IF StoredRootEnd = Nowhere THEN Nowhere
                   ELSE StoredRootEnd \div 2
<1>2. root \in Int
  BY <1>1
<1> HIDE DEF root
<1>3. CASE IsProject
  <2>1. Outcome = [kind |-> "project", root |-> path]
    BY <1>3 DEF Outcome
  <2> QED BY <1>1, <1>3, <2>1
<1>4. CASE ~IsProject /\ IsHistory
  <2>1. Outcome = [kind |-> "history", root |-> root]
    BY <1>4 DEF Outcome, root
  <2>2. /\ Outcome.kind = "history" /\ Outcome.root = root
        /\ Outcome \in [kind : {"project", "history", "file"}, root : Int]
    BY <1>2, <2>1
  <2> QED BY <1>4, <2>2 DEF root
<1>5. CASE ~IsProject /\ ~IsHistory
  <2>1. Outcome = [kind |-> "file", root |-> root]
    BY <1>5 DEF Outcome, root
  <2>2. /\ Outcome.kind = "file" /\ Outcome.root = root
        /\ Outcome \in [kind : {"project", "history", "file"}, root : Int]
    BY <1>2, <2>1
  <2> QED BY <1>5, <2>2 DEF root
<1> QED BY <1>3, <1>4, <1>5

(* A root of project_roots is a project when it is sieved itself: no parent   *)
(* can be deeper than the path.                                              *)
LEMMA RootIsAProject ==
  ASSUME SInv, this = path + 1, path \in RulesOf("project")
  PROVE  IsProject
<1>1. Length \in Nat /\ SieveTypes /\ path \in 0..Length
  BY SieveAssumption DEF SInv, SieveTypes
<1>2. /\ IsEndOf("project_parent", path + 1, ends["project_parent"])
      /\ IsEndOf("project", path + 1, ends["project"])
  BY SetsAreOrdered DEF SInv, Sieved
<1>3. RulesOf("project") \subseteq 0..Length
  BY DEF RulesOf
<1>4. IsEndOf("project", path + 1, End(path))
  <2>1. path < path + 1 /\ \A j \in RulesOf("project") : j < path + 1 => j <= path
    BY <1>1, <1>3
  <2> QED BY <2>1 DEF IsEndOf
<1>5. path + 1 \in Nat /\ path + 1 \in 0..(Length + 1)
  BY <1>1
<1>6. ends["project"] = End(path)
  BY <1>1, <1>2, <1>4, <1>5, EndIsUnique, SetsAreOrdered
<1>7. /\ ends["project_parent"] \in Int
      /\ ends["project_parent"] = Nowhere \/ ends["project_parent"] <= End(path)
  <2>1. /\ ends["project_parent"] \in Int
        /\ \/ ends["project_parent"] = Nowhere
           \/ ends["project_parent"] \in 0..(End(path + 1) - 2)
    BY <1>1, <1>2, <1>5, EndIsBounded, SetsAreOrdered
  <2> QED BY <1>1, <2>1 DEF End
<1>8. ~(ends["project_parent"] > ends["project"])
  BY <1>1, <1>6, <1>7 DEF End, Nowhere
<1> QED BY <1>6, <1>8 DEF IsProject, StoredRootEnd

(* The root that store finds is an integer.                                  *)
LEMMA StoredRootIsInt == SieveTypes => StoredRootEnd \in Int
<1> SUFFICES ASSUME SieveTypes PROVE StoredRootEnd \in Int
  OBVIOUS
<1>1. ends["project_parent"] \in Int /\ ends["project"] \in Int /\ path \in Int
  BY SetsAreOrdered, SieveAssumption DEF SieveTypes
<1> QED BY <1>1 DEF StoredRootEnd, NextSegment, End, Nowhere

(* A path that is no project is stored with the root that was pushed with it *)
(* - or, for a flush, that would have been.                                  *)
LEMMA StoredRootIsRoot ==
  ASSUME SInv, path = Length, this = Length + 1, ~IsProject,
         NEW parent, NEW project,
         IsEndOf("project_parent", Length + 1, parent),
         IsEndOf("project", Length + 1, project)
  PROVE  StoredRootEnd = RootOf(parent, project)
<1>1. Length \in Nat /\ SieveTypes
  BY SieveAssumption DEF SInv
<1>2. /\ IsEndOf("project_parent", Length + 1, ends["project_parent"])
      /\ IsEndOf("project", Length + 1, ends["project"])
  BY SetsAreOrdered DEF SInv, Sieved
<1>3. Length + 1 \in Nat /\ Length + 1 \in 0..(Length + 1)
  BY <1>1
<1>4. parent = ends["project_parent"] /\ project = ends["project"]
  BY <1>1, <1>2, <1>3, EndIsUnique, SetsAreOrdered
<1>5. /\ project \in Int
      /\ project = Nowhere \/ project \in 0..(End(Length + 1) - 2)
  BY <1>1, <1>3, EndIsBounded, SetsAreOrdered
<1>6. project <= End(Length)
  BY <1>1, <1>5 DEF End, Nowhere
<1> QED BY <1>1, <1>4, <1>5, <1>6 DEF StoredRootEnd, RootOf, IsProject, NextSegment, End

(* What follows from a store that ends a round of the life of the write.     *)
LEMMA StoreKeeps ==
  ASSUME SInv, Store
  PROVE  SInv'
<1>1. /\ phase = "store"
      /\ stored' = Append(stored, Outcome)
      /\ rules' = rules /\ hidden' = hidden /\ byEditor' = byEditor
      /\ flush' = flush /\ pushed' = pushed
      /\ Length \in Nat /\ SieveTypes
  BY SieveAssumption DEF Store, IsSieved, SInv, Outcome
<1>2. this = path + 1
  BY <1>1 DEF Store, IsSieved, SieveTypes
<1>3. /\ Outcome \in [kind : {"project", "history", "file"}, root : Int]
      /\ Outcome.kind = "project" <=> IsProject
      /\ Outcome.kind = "history" => IsHistory
      /\ ~IsProject =>
           Outcome.root = IF StoredRootEnd = Nowhere THEN Nowhere
                          ELSE StoredRootEnd \div 2
  BY <1>1, OutcomeFields, StoredRootIsInt
<1>4. stored' \in Seq([kind : {"project", "history", "file"}, root : Int])
  BY <1>1, <1>3 DEF SieveTypes
<1>5. RootPushed'
  BY <1>1 DEF SInv, RootPushed, IsEndOf, RulesOf
<1>6. PushedAsDocumented'
  <2>1. IsWanted' <=> IsWanted
    BY <1>1 DEF IsWanted, Decides, IsHiddenFrom, RulesOf
  <2> QED BY <1>1, <2>1 DEF SInv, PushedAsDocumented
<1>7. (RulesOf("project"))' = RulesOf("project") /\ Roots' = Roots
      /\ (Decides("history") <=> Decides("history")')
  BY <1>1 DEF RulesOf, Roots, Decides
<1>8. CASE stored = <<>>
  <2>1. path = Length /\ (~flush => pushed # <<>>)
    BY <1>1, <1>8 DEF SInv, Life
  <2>2. stored' = <<Outcome>> /\ Len(stored') = 1 /\ stored'[1] = Outcome
    BY <1>1, <1>8
  <2>3. PushAndStoreAgree'
    <3>1. ASSUME pushed # <<>>, ~IsProject
          PROVE  pushed = IF Outcome.root = Nowhere THEN <<Length>>
                          ELSE <<Length, Outcome.root>>
      <4> PICK parent, project \in Int :
            /\ IsEndOf("project_parent", Length + 1, parent)
            /\ IsEndOf("project", Length + 1, project)
            /\ pushed = IF RootOf(parent, project) = Nowhere THEN <<Length>>
                        ELSE <<Length, RootOf(parent, project) \div 2>>
        BY <3>1 DEF SInv, RootPushed
      <4>1. StoredRootEnd = RootOf(parent, project)
        BY <1>2, <2>1, <3>1, StoredRootIsRoot
      <4>2. \/ RootOf(parent, project) = Nowhere
            \/ RootOf(parent, project) \div 2 \in 0..Length
        BY RootIsAPrefix
      <4>3. Outcome.root = IF RootOf(parent, project) = Nowhere THEN Nowhere
                           ELSE RootOf(parent, project) \div 2
        BY <1>3, <3>1, <4>1
      <4> QED BY <4>2, <4>3 DEF Nowhere
    <3> QED BY <1>1, <1>3, <2>2, <3>1 DEF PushAndStoreAgree
  <2>4. OnlyHistoryIsStoredInParts'
    <3>1. ASSUME IsHistory PROVE Decides("history")
      <4>1. "history" \in FileSets
        BY DEF FileSets
      <4>2. ASSUME NEW s \in SetName PROVE ends[s] >= Nowhere
        <5>1. IsEndOf(s, Length + 1, ends[s]) /\ Length + 1 \in 0..(Length + 1)
          BY <1>1, <1>2, <2>1 DEF SInv, Sieved
        <5> QED BY <1>1, <5>1, EndIsBounded DEF Nowhere
      <4>3. Beats("history") /\ ends["history"] # Nowhere
        BY <1>1, <3>1, <4>2, LoopStoresHistoryByTheWinner
      <4> QED BY <1>1, <1>2, <2>1, <4>1, <4>3, BeatsIsDecides DEF SInv
    <3> QED BY <1>3, <1>7, <2>2, <3>1 DEF OnlyHistoryIsStoredInParts
  <2>5. CASE 1 < Len(pushed)
    <3>1. /\ phase' = "store" /\ path' = pushed[2] /\ this' = 0
          /\ ends' = NoEnds /\ hidingDot' = Nowhere
      BY <1>8, <2>5 DEF Store, SieveAgain
    <3>2. Len(pushed) = 2 /\ pushed[2] \in 0..Length
      <4>1. pushed # <<>>
        BY <2>5
      <4> QED BY <2>5, <4>1, PushedIsPathAndRoot
    <3>3. SieveTypes'
      <4>1. NoEnds \in [SetName -> Int]
        BY DEF NoEnds, Nowhere
      <4> QED BY <1>1, <1>4, <3>1, <3>2, <4>1 DEF SieveTypes, Nowhere
    <3>4. Sieved'
      <4>1. /\ \A s \in SetName : IsEndOf(s, 0, NoEnds[s])
            /\ IsDotOf(0, Nowhere)
        BY <1>1, NothingIsFoundYet
      <4> QED BY <1>1, <3>1, <4>1 DEF Sieved, IsEndOf, IsDotOf, RulesOf
    <3>5. Life'
      <4>1. ~flush
        BY <3>2 DEF SInv, Life
      <4> QED BY <1>1, <2>2, <3>1, <3>2, <4>1 DEF Life
    <3> QED BY <1>5, <1>6, <2>3, <2>4, <3>3, <3>4, <3>5 DEF SInv
  <2>6. CASE ~(1 < Len(pushed))
    <3>1. /\ phase' = "done" /\ path' = path /\ this' = this
          /\ ends' = ends /\ hidingDot' = hidingDot
      BY <1>8, <2>6 DEF Store
    <3>2. SieveTypes' /\ Sieved'
      BY <1>1, <1>4, <3>1 DEF SInv, SieveTypes, Sieved, IsEndOf, IsDotOf, RulesOf
    <3>3. Life'
      BY <1>1, <2>1, <3>1 DEF SInv, Life
    <3> QED BY <1>5, <1>6, <2>3, <2>4, <3>2, <3>3 DEF SInv
  <2> QED BY <2>5, <2>6
<1>9. CASE stored # <<>>
  <2>1. Len(stored) = 1 /\ Len(pushed) = 2 /\ path = pushed[2] /\ pushed # <<>>
    BY <1>1, <1>9 DEF SInv, Life
  <2>2. /\ Len(stored') = 2 /\ stored' # <<>>
        /\ stored'[1] = stored[1] /\ stored'[2] = Outcome
    <3>1. stored \in Seq([kind : {"project", "history", "file"}, root : Int])
      BY <1>1 DEF SieveTypes
    <3> DEFINE longer == Append(stored, Outcome)
    <3>2. /\ longer # <<>> /\ Len(longer) = Len(stored) + 1
          /\ \A i \in 1..Len(stored) : longer[i] = stored[i]
          /\ longer[Len(stored) + 1] = Outcome
      BY <1>3, <3>1, AppendProperties
    <3> HIDE DEF longer
    <3>3. Len(longer) = 2 /\ longer[1] = stored[1] /\ longer[2] = Outcome
      BY <2>1, <3>2
    <3> QED BY <1>1, <3>2, <3>3 DEF longer
  <2>3. /\ phase' = "done" /\ path' = path /\ this' = this
        /\ ends' = ends /\ hidingDot' = hidingDot
    BY <2>1 DEF Store
  <2>4. SieveTypes' /\ Sieved'
    BY <1>1, <1>4, <2>3 DEF SInv, SieveTypes, Sieved, IsEndOf, IsDotOf, RulesOf
  <2>5. Life'
    BY <1>1, <2>1, <2>3 DEF SInv, Life
  <2>6. PushAndStoreAgree'
    <3>1. path \in Roots => IsProject
      BY <1>2, RootIsAProject DEF Roots
    <3> QED BY <1>1, <1>3, <1>7, <1>9, <2>1, <2>2, <3>1 DEF SInv, PushAndStoreAgree
  <2>7. OnlyHistoryIsStoredInParts'
    BY <1>7, <1>9, <2>2 DEF SInv, OnlyHistoryIsStoredInParts
  <2> QED BY <1>5, <1>6, <2>4, <2>5, <2>6, <2>7 DEF SInv
<1> QED BY <1>8, <1>9

(* A step that changes nothing.                                              *)
LEMMA SieveStutterKeeps == SInv /\ UNCHANGED sieveVars => SInv'
<1> SUFFICES ASSUME SInv, UNCHANGED sieveVars PROVE SInv'
  OBVIOUS
<1>1. /\ rules' = rules /\ hidden' = hidden /\ byEditor' = byEditor
      /\ flush' = flush /\ phase' = phase /\ path' = path /\ this' = this
      /\ ends' = ends /\ hidingDot' = hidingDot /\ pushed' = pushed
      /\ stored' = stored
  BY DEF sieveVars
<1>2. /\ RootPushed' /\ PushAndStoreAgree' /\ OnlyHistoryIsStoredInParts'
      /\ IsWanted' <=> IsWanted
  BY <1>1, OutcomeStays DEF SInv
<1>3. PushedAsDocumented'
  BY <1>1, <1>2 DEF SInv, PushedAsDocumented
<1>4. SieveTypes' /\ Sieved' /\ Life'
  BY <1>1 DEF SInv, SieveTypes, Sieved, Life, IsEndOf, IsDotOf, RulesOf
<1> QED BY <1>2, <1>3, <1>4 DEF SInv

(* The invariant of the rules about paths, for paths of any length and any    *)
(* configurations.                                                           *)
THEOREM SieveInvariance == SieveSpec => []SInv
<1>1. SieveInit => SInv
  BY SieveBegins
<1>2. SInv /\ [SieveNext]_sieveVars => SInv'
  BY ScanKeeps, PushKeeps, StoreKeeps, SieveStutterKeeps DEF SieveNext
<1> QED BY <1>1, <1>2, PTL DEF SieveSpec

(* push_to_linq decides as the documentation of the settings has it.         *)
THEOREM PushedAsTheDocumentationHasIt == SieveSpec => []PushedAsDocumented
<1>1. SInv => PushedAsDocumented
  BY DEF SInv
<1> QED BY <1>1, SieveInvariance, PTL

(* push_to_linq and store see the same project.                              *)
THEOREM PushAndStoreSeeTheSameProject == SieveSpec => []PushAndStoreAgree
<1>1. SInv => PushAndStoreAgree
  BY DEF SInv
<1> QED BY <1>1, SieveInvariance, PTL

(* Only what history_paths decides about is stored in parts.                 *)
THEOREM OnlyHistoriesAreStoredInParts == SieveSpec => []OnlyHistoryIsStoredInParts
<1>1. SInv => OnlyHistoryIsStoredInParts
  BY DEF SInv
<1> QED BY <1>1, SieveInvariance, PTL
=============================================================================
