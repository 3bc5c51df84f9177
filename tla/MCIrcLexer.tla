----------------------------- MODULE MCIrcLexer -----------------------------
(***************************************************************************)
(* Instances of IrcLexer for TLC: the cfg files choose the alphabet and    *)
(* the length of the lines.                                                *)
(***************************************************************************)
EXTENDS IrcLexer, TLC
=============================================================================
