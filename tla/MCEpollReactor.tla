--------------------------- MODULE MCEpollReactor ---------------------------
(***************************************************************************)
(* Instances of EpollReactor for TLC.  Operations are strings: the connect *)
(* and the read of the session have fixed names.                           *)
(***************************************************************************)
EXTENDS EpollReactor
=============================================================================
