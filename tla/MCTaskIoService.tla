-------------------------- MODULE MCTaskIoService --------------------------
(***************************************************************************)
(* Instances of TaskIoService for TLC.  The threads in run() are           *)
(* interchangeable, and so are the operations.                             *)
(***************************************************************************)
EXTENDS TaskIoService, TLC

Symmetry == Permutations(Runners) \cup Permutations(Ops)
=============================================================================
