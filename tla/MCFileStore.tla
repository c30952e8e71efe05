---------------------------- MODULE MCFileStore -----------------------------
(***************************************************************************)
(* FileStore for TLC: one or two timestamps for up to three versions, and   *)
(* offsets of up to two binary digits.                                     *)
(***************************************************************************)
EXTENDS FileStore
=============================================================================
