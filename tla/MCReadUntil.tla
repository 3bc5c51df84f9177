---------------------------- MODULE MCReadUntil -----------------------------
(***************************************************************************)
(* Instances of ReadUntil for TLC: the bytes are the two of a line end and *)
(* one other.                                                              *)
(***************************************************************************)
EXTENDS ReadUntil

CONSTANT X

MCByte == {CR, LF, X}
=============================================================================
