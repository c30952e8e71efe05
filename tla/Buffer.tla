------------------------------- MODULE Buffer -------------------------------
(***************************************************************************)
(* src/src/buffer.c: a string that grows and is cut, with a hash that is   *)
(* taken up where it was left when the string was hashed last.             *)
(*                                                                         *)
(* Characters are numbers; hashes are narrowed to HashLimit.  The capacity *)
(* only decides when realloc is called and is left out.                    *)
(***************************************************************************)
EXTENDS Integers, Sequences

CONSTANT HashLimit \* 2^64

ASSUME BufferAssumption == HashLimit \in Nat \ {0}

\* create_buffer.
EmptyBuffer == [string |-> <<>>, hash |-> 0, seen |-> 0]

\* concat_char and concat_bytes: the hash waits.
Concat(buffer, string) == [buffer EXCEPT !.string = @ \o string]

\* Mutant of SetLength: the hash of the longer string stays.
BuggySetLength(buffer, length) ==
  [buffer EXCEPT !.string = SubSeq(@, 1, length)]

\* set_length forgets the hash.
SetLength(buffer, length) ==
  [string |-> SubSeq(buffer.string, 1, length), hash |-> 0, seen |-> 0]

HashStep(hash, character) ==
  (character + hash * 64 + hash * 65536 - hash) % HashLimit

\* The loop of get_hash: the hash after every character that was not seen.
Hashes(buffer) ==
  LET hash[i \in buffer.seen..Len(buffer.string)] ==
        IF i = buffer.seen THEN buffer.hash
        ELSE HashStep(hash[i - 1], buffer.string[i])
  IN  hash

\* get_hash: what has not been seen is added.
Hashed(buffer) ==
  IF buffer.seen < Len(buffer.string)
  THEN [buffer EXCEPT !.hash = Hashes(buffer)[Len(buffer.string)],
                      !.seen = Len(buffer.string)]
  ELSE buffer

GetHash(buffer) == Hashed(buffer).hash
=============================================================================
