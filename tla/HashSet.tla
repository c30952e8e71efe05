------------------------------ MODULE HashSet -------------------------------
(***************************************************************************)
(* src/src/set.c: a hash table of chained entries with counts and          *)
(* metadata, and a counter of the empty chains that makes is_empty cheap   *)
(* and lets get_count skip the table.                                      *)
(*                                                                         *)
(* Values are added from a buffer of their own.  The paths that sieve asks *)
(* for are in one buffer, which grows and is cut between the questions and *)
(* carries its hash along.  What find_entry compares (hash, length, bytes) *)
(* is the hash and the string.  The counts of the code are 32 bits wide.   *)
(***************************************************************************)
EXTENDS Buffer, SequencesExt

CONSTANTS
  Character,   \* of strings
  Value,       \* the strings that are added
  Metadata,
  Sizes,       \* numbers of chains a set is created with
  CountLimit,  \* 2^32
  MaxCount,    \* bound: no value is added more often
  MaxLength    \* bound: no string that is asked for is longer

ASSUME HashSetAssumption ==
  /\ Character \subseteq Int /\ MaxLength \in Nat
  /\ Value \subseteq Seq(Character)
  /\ Metadata \subseteq Nat
  /\ Sizes \subseteq Nat \ {0}
  /\ CountLimit \in Nat /\ MaxCount \in Nat /\ MaxCount < CountLimit

VARIABLES
  size,            \* set->size
  emptyHeadCount,  \* set->empty_head_count
  heads,           \* set->heads: each chain as the sequence of its entries
  key              \* the buffer of the string that is asked for

set == <<size, emptyHeadCount, heads>>
setVars == <<set, key>>

-----------------------------------------------------------------------------
Slots == 0..(size - 1)

\* create_set.
SetInit ==
  /\ size \in Sizes
  /\ emptyHeadCount = size
  /\ heads = [s \in Slots |-> <<>>]
  /\ key = EmptyBuffer

IsEmpty == emptyHeadCount = size

\* create_buffer_view, and the buffer of add.
View(v) == Concat(EmptyBuffer, v)

HashOf == [v \in Value |-> GetHash(View(v))]

HeadOf(v) == HashOf[v] % size

\* find_entry: the positions of the entries that match.
Matching(string, hash, chain) ==
  {i \in DOMAIN chain : HashOf[chain[i].value] = hash /\ chain[i].value = string}

Found(v, chain) == Matching(v, HashOf[v], chain)

First(v, chain) == CHOOSE i \in Found(v, chain) :
                     \A k \in Found(v, chain) : i <= k

Entry(v, chain) == chain[First(v, chain)]

\* get_attribute.
IsKnown(v) == ~IsEmpty /\ Found(v, heads[HeadOf(v)]) # {}

GetCount(v) == IF IsKnown(v) THEN Entry(v, heads[HeadOf(v)]).count ELSE 0

GetLastMetadata(v) ==
  IF IsKnown(v) THEN Entry(v, heads[HeadOf(v)]).metadata ELSE 0

\* is_within of the string in the buffer.
IsWithin(buffer) ==
  LET hash == GetHash(buffer) IN
  ~IsEmpty /\ Matching(buffer.string, hash, heads[hash % size]) # {}

\* add_with_metadata of a value that is in: the entry is updated in place.
AddAgain(v, m) ==
  LET head == HeadOf(v) IN
  /\ Found(v, heads[head]) # {}
  /\ GetCount(v) < MaxCount
  /\ heads' = [heads EXCEPT ![head][First(v, heads[head])] =
                 [Entry(v, heads[head]) EXCEPT !.count = (@ + 1) % CountLimit,
                                               !.metadata = m]]
  /\ UNCHANGED <<size, emptyHeadCount, key>>

\* add_with_metadata of a new value: a new first entry.
AddFirst(v, m) ==
  LET head == HeadOf(v) IN
  /\ Found(v, heads[head]) = {}
  /\ emptyHeadCount' = IF heads[head] = <<>> THEN emptyHeadCount - 1
                       ELSE emptyHeadCount
  /\ heads' = [heads EXCEPT
                 ![head] = <<[value |-> v, count |-> 1, metadata |-> m]>> \o @]
  /\ UNCHANGED <<size, key>>

\* pop of a value that is in more than once.
PopOne(v) ==
  LET head == HeadOf(v) IN
  /\ Found(v, heads[head]) # {}
  /\ Entry(v, heads[head]).count > 1
  /\ heads' = [heads EXCEPT ![head][First(v, heads[head])].count = @ - 1]
  /\ UNCHANGED <<size, emptyHeadCount, key>>

\* Mutant of PopLast: the chain is empty whenever an entry goes.
BuggyPopLast(v) ==
  LET head == HeadOf(v) IN
  /\ Found(v, heads[head]) # {}
  /\ Entry(v, heads[head]).count = 1
  /\ heads' = [heads EXCEPT ![head] = RemoveAt(@, First(v, heads[head]))]
  /\ emptyHeadCount' = emptyHeadCount + 1
  /\ UNCHANGED <<size, key>>

\* pop of the last occurrence: the entry leaves its chain.
PopLast(v) ==
  LET head == HeadOf(v) IN
  /\ Found(v, heads[head]) # {}
  /\ Entry(v, heads[head]).count = 1
  /\ heads' = [heads EXCEPT ![head] = RemoveAt(@, First(v, heads[head]))]
  /\ emptyHeadCount' = IF heads'[head] = <<>> THEN emptyHeadCount + 1
                       ELSE emptyHeadCount
  /\ UNCHANGED <<size, key>>

\* The string that is asked for grows,
ConcatChar(c) ==
  /\ Len(key.string) < MaxLength
  /\ key' = Concat(key, <<c>>)
  /\ UNCHANGED set

\* is cut,
Cut(length) ==
  /\ length < Len(key.string)
  /\ key' = SetLength(key, length)
  /\ UNCHANGED set

\* and is asked for.
Ask ==
  /\ key' = Hashed(key)
  /\ UNCHANGED set

SetNext ==
  \/ \E v \in Value :
       \/ \E m \in Metadata : AddAgain(v, m) \/ AddFirst(v, m)
       \/ PopOne(v)
       \/ PopLast(v)
  \/ \E c \in Character : ConcatChar(c)
  \/ \E length \in 0..MaxLength : Cut(length)
  \/ Ask

SetSpec == SetInit /\ [][SetNext]_setVars

-----------------------------------------------------------------------------
\* The lookups answer as the multiset does: neither a neighbour in a chain that
\* comes and goes, nor the shortcut of an empty set changes an answer.
Contents ==
  INSTANCE Multiset WITH
    count <- [v \in Value |-> GetCount(v)],
    metadata <- [v \in Value |-> GetLastMetadata(v)]

ImplementsMultiset == Contents!Spec

\* A string is found if and only if it was added, whatever was in its buffer and
\* was hashed there before it (sieve uses one buffer for all segments of a path).
BuffersAreFound ==
  IsWithin(key) <=> \E v \in Value : v = key.string /\ GetCount(v) > 0
=============================================================================
