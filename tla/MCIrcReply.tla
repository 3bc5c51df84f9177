----------------------------- MODULE MCIrcReply -----------------------------
(***************************************************************************)
(* Instances of IrcReply for TLC: the cfg file chooses the alphabet and    *)
(* the length of the lines.                                                *)
(***************************************************************************)
EXTENDS IrcReply
=============================================================================
