----------------------------- MODULE MCIrcWrite -----------------------------
(***************************************************************************)
(* Instances of IrcWrite for TLC.  Threads are interchangeable, and so are *)
(* the writes of each kind.                                                *)
(***************************************************************************)
EXTENDS IrcWrite, TLC

Symmetry ==
  Permutations(Threads) \cup Permutations(Async) \cup Permutations(Sync)
=============================================================================
