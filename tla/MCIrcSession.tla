---------------------------- MODULE MCIrcSession ----------------------------
(***************************************************************************)
(* Instances of IrcSession for TLC.  The cfg files choose the threads and  *)
(* the calls of the application.                                           *)
(***************************************************************************)
EXTENDS IrcSession, TLC

(* The threads are interchangeable unless some of them poll.               *)
ThreadSymmetry == Permutations(Threads)
=============================================================================
