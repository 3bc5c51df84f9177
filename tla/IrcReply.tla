------------------------------ MODULE IrcReply ------------------------------
(***************************************************************************)
(* The scanner of IrcLexer with the callbacks of tests/test1.c, the        *)
(* helpers they call (cq_irc_session_pong, _privmsg and _quit) and the     *)
(* formatter behind these (fmt::Writer).                                   *)
(*                                                                         *)
(* A callback runs inside yylex, before the strings of the message are     *)
(* freed, with pointers to them; one that the line did not have is null.   *)
(* The helpers hand a line without its end to cq_irc_session_write, which  *)
(* IrcWrite models.  The piece "PING" stands for each command with a rule  *)
(* of its own, here and in the lines that are written.                     *)
(***************************************************************************)
EXTENDS IrcLexer

CONSTANT InlineSize   (* of a Writer's buffer: INLINE_BUFFER_SIZE          *)

(* Half of the buffer holds the longest literal after an argument, " :".   *)
ASSUME ReplyAssumption == InlineSize \in Nat /\ InlineSize >= 4

VARIABLES
  wire,   (* the lines given to cq_irc_session_write, see Sent             *)
  fate    (* "run"; "exception": one has left an extern "C" function;      *)
          (* "crash": a null pointer was dereferenced                      *)

-----------------------------------------------------------------------------
(***************************************************************************)
(* fmt::Writer.  A string argument is <<s>>, or <<>> for a null pointer.   *)
(***************************************************************************)

Lit(s) == [lit |-> TRUE, text |-> s, index |-> 0]
Arg(n) == [lit |-> FALSE, text |-> <<>>, index |-> n]

(* "PONG {0}", "PRIVMSG {0} :{1}" and "QUIT :{0}" or "QUIT".               *)
PongFormat == <<Lit(<<"NAME", " ">>), Arg(0)>>

(* Variant: the channel and the text are exchanged.                        *)
PrivmsgSwapped == <<Lit(<<"PING", " ">>), Arg(1), Lit(<<" ", ":">>), Arg(0)>>
PrivmsgFormat == <<Lit(<<"PING", " ">>), Arg(0), Lit(<<" ", ":">>), Arg(1)>>

QuitFormat(text) ==
  IF text = <<>> THEN <<Lit(<<"NAME">>)>>
  ELSE <<Lit(<<"NAME", " ", ":">>), Arg(0)>>

(* Array::Grow, when size elements have to fit.                            *)
Grown(capacity, size) ==
  IF size > capacity + capacity \div 2 THEN size ELSE capacity + capacity \div 2

Put(b, s, capacity) == [text |-> b.text \o s, capacity |-> capacity,
                        fits |-> b.fits /\ Len(b.text) + Len(s) <= capacity]

(* Array::append, which makes room for s alone.                            *)
AppendLiteral(b, s) ==
  Put(b, s, IF Len(b.text) + Len(s) > b.capacity
            THEN Grown(b.capacity, Len(s)) ELSE b.capacity)

(* FormatString: GrowBuffer makes room for what is there and for s.        *)
FormatString(b, s) ==
  Put(b, s, IF Len(b.text) + Len(s) > b.capacity
            THEN Grown(b.capacity, Len(b.text) + Len(s)) ELSE b.capacity)

(* FormatParser::Format throws for an argument that is not there or null.  *)
Throws(f, args) ==
  \E i \in 1..Len(f) :
    ~f[i].lit /\ (f[i].index >= Len(args) \/ args[f[i].index + 1] = <<>>)

(* A Writer that has been constructed, and one field of a format.          *)
Writer == [text |-> <<>>, capacity |-> InlineSize, fits |-> TRUE]

FormatField(b, x, args) ==
  IF x.lit THEN AppendLiteral(b, x.text)
  ELSE FormatString(b, args[x.index + 1][1])

(* The fields are formatted from left to right.                            *)
Format(f, args) ==
  LET w[n \in 0..Len(f)] ==
        IF n = 0 THEN Writer ELSE FormatField(w[n - 1], f[n], args)
  IN  w[Len(f)]

-----------------------------------------------------------------------------
(***************************************************************************)
(* The helpers, and the callbacks of the application.                      *)
(***************************************************************************)

(* A string of the message, and the first parameter.                       *)
Text(s) == IF s = Null THEN <<>> ELSE <<SubSeq(line, s[1], s[2])>>
Param0  == IF msg.params = <<>> THEN <<>> ELSE Text(msg.params[1])

Sent(how, f, args) == [how |-> how, args |-> args, out |-> Format(f, args)]

Pong(ping) == [how |-> "pong", f |-> PongFormat, args |-> <<ping>>]
Privmsg(channel, text) ==
  [how |-> "privmsg", f |-> PrivmsgFormat, args |-> <<channel, text>>]
Quit(text) == [how |-> "quit", f |-> QuitFormat(text), args |-> <<text>>]

(* A sentence of the application's own.                                    *)
Sentence == <<<<"!", "NAME", " ", "NAME">>>>

(* on_ping answers; on_welcome writes a line without a helper; on_privmsg  *)
(* compares the text with two sentences and answers to them.  An           *)
(* application may also quit without a text.                               *)
OnPing == <<Pong(Text(msg.trailing))>>
OnPrivmsgAnswers ==
  {<<>>, <<Privmsg(Param0, Sentence)>>,
   <<Privmsg(Param0, Sentence), Quit(Sentence)>>, <<Quit(<<>>)>>}

(* The callback's calls of helpers, those of OnPrivmsgAnswers with a text  *)
(* to compare.                                                             *)
Answers ==
  IF event = "unknown" THEN {<<>>}
  ELSE {<<>>, OnPing}
         \cup (IF msg.trailing = Null THEN {} ELSE OnPrivmsgAnswers)

Fails(a) == \E i \in 1..Len(a) : Throws(a[i].f, a[i].args)

(* {crlf} with a callback that returns.                                    *)
SignalAnswered ==
  /\ fate = "run"
  /\ \E a \in Answers :
       /\ ~Fails(a)
       /\ wire' = [i \in 1..Len(a) |-> Sent(a[i].how, a[i].f, a[i].args)]
  /\ Signal
  /\ UNCHANGED fate

(* {crlf} with a callback that does not: the formatter throws, or strcmp   *)
(* is given the null pointer.                                              *)
SignalFails ==
  /\ fate = "run"
  /\ At({"PARAMS"}) /\ Here = "eol"
  /\ signal' = <<event, msg>>
  /\ \/ (\E a \in Answers : Fails(a)) /\ fate' = "exception"
     \/ msg.trailing = Null /\ fate' = "crash"
  /\ UNCHANGED <<line, installed, phase, buffer, pos, stack, event, command,
                 msg, heap, result, wire>>

(* The rules of the scanner that call no callback.                         *)
Scanning ==
  \/ InitFails \/ BeginScan \/ EndParse
  \/ Prefix \/ KnownCommand \/ Command \/ Skip
  \/ Source \/ User \/ Host \/ PrefixEnd
  \/ ParamStart \/ TrailingStart \/ Middle \/ Overrun \/ Trailing
  \/ Echo \/ EndOfInput

ReplyInit == Init /\ wire = <<>> /\ fate = "run"

ReplyNext ==
  \/ fate = "run" /\ Scanning /\ UNCHANGED <<wire, fate>>
  \/ SignalAnswered
  \/ SignalFails

ReplySpec == ReplyInit /\ [][ReplyNext]_<<vars, wire, fate>>

-----------------------------------------------------------------------------
(* What a line that was written says to a reader of this grammar.          *)
Reads(r, params, text) ==
  LET l == r.out.text \o <<"eol">>
      p == ParamsAfter(l) IN
  /\ IsMessage(l, FALSE)
  /\ {SubSeq(l, q[1], q[2]) : q \in ParamsOf(l)} = params
  /\ (IF p = Len(l) THEN <<>> ELSE <<SubSeq(l, p + 2, Len(l) - 1)>>) = text

(* Whatever line the server has sent, what a helper writes from it is one  *)
(* line, in a buffer that was large enough for it; a privmsg and a quit    *)
(* read back as the channel and the text they were called with, a pong as  *)
(* the text of the ping as long as that has no space in it and does not    *)
(* begin with ":" (the helper puts no ":" before it, so the one it begins  *)
(* with is taken for the mark of a trailing text).  A callback fails only  *)
(* on a message without a trailing text, or without a parameter.           *)
RepliesReadBack ==
  /\ \A i \in 1..Len(wire) :
       LET r == wire[i] IN
       /\ r.out.fits
       /\ \A j \in 1..Len(r.out.text) : r.out.text[j] \notin {"eol", "nul"}
       /\ r.how = "privmsg" => Reads(r, {r.args[1][1]}, r.args[2])
       /\ r.how = "quit" => Reads(r, {}, r.args[1])
       /\ r.how = "pong" /\ " " \notin {r.args[1][1][j] :
                                          j \in 1..Len(r.args[1][1])}
            => \/ r.args[1][1][1] = ":"
               \/ Reads(r, {r.args[1][1]}, <<>>)
  /\ fate # "run" => signal[2].trailing = Null \/ signal[2].params = <<>>
=============================================================================
