------------------------------ MODULE IrcLexer ------------------------------
(***************************************************************************)
(* thread_parse (irc-client.cpp) and the scanner it runs over one line     *)
(* (irc-client.l).  A step of the scanner is one match of a flex rule: the *)
(* longest match at the current position under the current start           *)
(* condition, or the default rule that echoes a character.                 *)
(*                                                                         *)
(* A line is a sequence of pieces, the pieces being what the rules tell    *)
(* apart:                                                                  *)
(*   ":" " "                 the characters                                *)
(*   "eol"                   "\r\n", or "\n\r" inside the line             *)
(*   "nul"                   a zero byte, or a single "\r" or "\n"         *)
(*   "!"                     a character of no command and no name         *)
(*   "PING"                  a command with a rule and a signal of its own *)
(*   "NAME"                  any other word                                *)
(*   "!{user}" "@{host}"     these seven characters, as they stand         *)
(* A string is the interval <<first, last>> of the line it was copied      *)
(* from; no two strings the scanner allocates are the same interval.       *)
(***************************************************************************)
EXTENDS Integers, Sequences, FiniteSets

CONSTANTS
  Alphabet,    (* the pieces lines are made of                             *)
  MaxLength,   (* bound on the pieces of a line                            *)
  Oddities,    (* further pieces, of lines up to                           *)
  OddLength,   (* this length only                                         *)
  ParamSlots   (* length of cq_irc_params::param                           *)

Words    == {"PING", "NAME"}
Literals == {"!{user}", "@{host}"}
Pieces   == {":", " ", "eol", "nul", "!"} \cup Words \cup Literals
Null     == <<0, 0>>

ASSUME LexerAssumption ==
  /\ Alphabet \subseteq Pieces /\ Oddities \subseteq Pieces
  /\ MaxLength \in Nat /\ OddLength \in 0..MaxLength /\ ParamSlots \in Nat

VARIABLES
  line,     (* the buffer thread_parse was given                           *)
  installed,(* the callbacks of the session that are not null              *)
  phase,    (* thread_parse: "start", "scan", "end" or "returned"          *)
  buffer,   (* the buffer: "held", "freed" or "leaked"                     *)
  pos,      (* the next piece                                              *)
  stack,    (* start conditions, the current one last                      *)
  event,    (* event_signal or extra_event_signal: "none" or the callback  *)
  command,  (* the command given to signal_unknown                         *)
  msg,      (* struct cq_irc_message message                               *)
  heap,     (* the strings allocated and not freed                         *)
  signal,   (* the message the callback was given, <<>> before             *)
  result    (* what yylex returned: "none", "ok", "skipped", "short", or   *)
            (* "overrun" after a write past the end of param               *)

input == <<line, installed>>
vars  == <<line, installed, phase, buffer, pos, stack, event, command, msg,
           heap, signal, result>>

NoMessage == [source |-> Null, user |-> Null, host |-> Null,
              params |-> <<>>, trailing |-> Null]

(* The lines on_read can hand over.                                        *)
Texts(S, m) == UNION {[1..n -> S] : n \in 1..m}
Lines == {l \in Texts(Alphabet, MaxLength)
                  \cup Texts(Alphabet \cup Oddities, OddLength) :
            l[Len(l)] = "eol"}

Here   == line[pos]
Start  == stack[Len(stack)]
Scan   == phase = "scan" /\ pos <= Len(line)
At(s)  == Scan /\ Start \in s

(* The end of the longest match of characters of S from pos on.            *)
RunEnd(S) ==
  CHOOSE e \in pos..Len(line) :
    /\ \A i \in pos..e : line[i] \in S
    /\ e = Len(line) \/ line[e + 1] \notin S

NotLineEnd == Pieces \ {"nul", "eol"}
MiddleRest == NotLineEnd \ {" "}

(* What the rules of a start condition can begin with.                     *)
Begins ==
  [INITIAL        |-> {":"} \cup Words \cup Literals,
   PREFIX         |-> Words \cup Literals,
   PREFIX_OPT     |-> {" "} \cup Literals,
   PARAMS         |-> {" ", "eol"},
   GENERIC_PARAMS |-> {" ", "eol"},
   PARAM          |-> MiddleRest,
   TRAILING       |-> NotLineEnd]

Conditions == DOMAIN Begins

Push(s)     == stack' = Append(stack, s)
Pop(n)      == stack' = SubSeq(stack, 1, Len(stack) - n)
Strndup(e)  == heap' = heap \cup {<<pos, e>>}
Advance(e)  == /\ pos' = e + 1
               /\ UNCHANGED <<input, phase, buffer, signal, result>>

(* The strings destroy_message frees.                                      *)
Strings(m) ==
  {m.source, m.user, m.host, m.trailing}
    \cup {m.params[i] : i \in 1..Len(m.params)}

(* destroy_message(&message); return r;  also free(command) where the rule *)
(* has it.                                                                 *)
Finish(r, freed) ==
  /\ result' = r
  /\ heap' = heap \ (Strings(msg) \cup freed)
  /\ phase' = "end"
  /\ UNCHANGED <<input, buffer, pos, event, command, msg>>

-----------------------------------------------------------------------------
(***************************************************************************)
(* <INITIAL>                                                               *)
(***************************************************************************)

Prefix ==
  /\ At({"INITIAL"}) /\ Here = ":"
  /\ Push("PREFIX")
  /\ Advance(pos)
  /\ UNCHANGED <<event, command, msg, heap>>

(* The end of a {command}.  Of "!{user}" it is the word inside.            *)
CommandEnd == IF Here \in Literals THEN pos ELSE RunEnd(Words)

IsKnown == Here = "PING" /\ CommandEnd = pos

(* Variant: a rule without its IRC_EVENT_TEST.                             *)
KnownCommandUntested ==
  /\ At({"INITIAL"}) /\ Here \in Words \cup Literals /\ IsKnown
  /\ Push("PARAMS")
  /\ Advance(pos)
  /\ UNCHANGED <<event, command, msg, heap>>

(* "PING" and the other commands with a rule of their own.                 *)
KnownCommand ==
  /\ At({"INITIAL"}) /\ Here \in Words \cup Literals /\ IsKnown
  /\ Push("PARAMS")
  /\ "ping" \in installed
  /\ event' = "ping"
  /\ Advance(pos)
  /\ UNCHANGED <<command, msg, heap>>

(* Variant: no test for the callback.                                      *)
CommandUntested ==
  /\ At({"INITIAL"}) /\ Here \in Words \cup Literals /\ ~IsKnown
  /\ Push("GENERIC_PARAMS")
  /\ event' = "unknown"
  /\ command' = <<pos, CommandEnd>>
  /\ Strndup(CommandEnd)
  /\ Advance(CommandEnd)
  /\ UNCHANGED msg

(* Any other {command}.                                                    *)
Command ==
  /\ At({"INITIAL"}) /\ Here \in Words \cup Literals /\ ~IsKnown
  /\ Push("GENERIC_PARAMS")
  /\ "unknown" \in installed
  /\ event' = "unknown"
  /\ command' = <<pos, CommandEnd>>
  /\ Strndup(CommandEnd)
  /\ Advance(CommandEnd)
  /\ UNCHANGED msg

(* Variant: the message is not destroyed.                                  *)
SkipKeepsMessage ==
  /\ At({"INITIAL"}) /\ Here \in Words \cup Literals
  /\ (IF IsKnown THEN "ping" ELSE "unknown") \notin installed
  /\ Push(IF IsKnown THEN "PARAMS" ELSE "GENERIC_PARAMS")
  /\ result' = "skipped" /\ phase' = "end"
  /\ UNCHANGED <<input, buffer, pos, event, command, msg, heap, signal>>

(* IRC_EVENT_TEST finds no callback.                                       *)
Skip ==
  /\ At({"INITIAL"}) /\ Here \in Words \cup Literals
  /\ (IF IsKnown THEN "ping" ELSE "unknown") \notin installed
  /\ Push(IF IsKnown THEN "PARAMS" ELSE "GENERIC_PARAMS")
  /\ Finish("skipped", {})
  /\ UNCHANGED signal

(***************************************************************************)
(* <PREFIX> and <PREFIX_OPT>                                               *)
(***************************************************************************)

(* A nickname or server name; of "!{user}", "{user}" is a nickname.        *)
SourceEnd ==
  IF Here \in Words THEN RunEnd(Words)
  ELSE IF line[pos + 1] \in Words
  THEN CHOOSE e \in pos..Len(line) :
         /\ \A i \in (pos + 1)..e : line[i] \in Words
         /\ line[e + 1] \notin Words
  ELSE pos

Source ==
  /\ At({"PREFIX"}) /\ Here \in Words \cup Literals
  /\ Push("PREFIX_OPT")
  /\ msg' = [msg EXCEPT !.source = <<pos, SourceEnd>>]
  /\ Strndup(SourceEnd)
  /\ Advance(SourceEnd)
  /\ UNCHANGED <<event, command>>

(* Variant: the text is not copied.                                        *)
UserBorrowed ==
  /\ At({"PREFIX_OPT"}) /\ Here = "!{user}"
  /\ msg' = [msg EXCEPT !.user = <<pos, pos>>]
  /\ Advance(pos)
  /\ UNCHANGED <<stack, event, command, heap>>

(* The quotes make "!{user}" and "@{host}" match just these characters.    *)
User ==
  /\ At({"PREFIX_OPT"}) /\ Here = "!{user}"
  /\ msg' = [msg EXCEPT !.user = <<pos, pos>>]
  /\ Strndup(pos)
  /\ Advance(pos)
  /\ UNCHANGED <<stack, event, command>>

Host ==
  /\ At({"PREFIX_OPT"}) /\ Here = "@{host}"
  /\ msg' = [msg EXCEPT !.host = <<pos, pos>>]
  /\ Strndup(pos)
  /\ Advance(pos)
  /\ UNCHANGED <<stack, event, command>>

PrefixEnd ==
  /\ At({"PREFIX_OPT"}) /\ Here = " "
  /\ Pop(2)
  /\ Advance(pos)
  /\ UNCHANGED <<event, command, msg, heap>>

(***************************************************************************)
(* <PARAMS>, <GENERIC_PARAMS>, <PARAM> and <TRAILING>                      *)
(***************************************************************************)

ParamStart ==
  /\ At({"PARAMS", "GENERIC_PARAMS"}) /\ Here = " "
  /\ Push("PARAM")
  /\ Advance(pos)
  /\ UNCHANGED <<event, command, msg, heap>>

TrailingStart ==
  /\ At({"PARAM"}) /\ Here = ":"
  /\ Push("TRAILING")
  /\ Advance(pos)
  /\ UNCHANGED <<event, command, msg, heap>>

(* IRC_ADD_PARAM has no test of the length.                                *)
Middle ==
  /\ At({"PARAM"}) /\ Here \in MiddleRest \ {":"}
  /\ Len(msg.params) < ParamSlots
  /\ Pop(1)
  /\ msg' = [msg EXCEPT !.params = Append(@, <<pos, RunEnd(MiddleRest)>>)]
  /\ Strndup(RunEnd(MiddleRest))
  /\ Advance(RunEnd(MiddleRest))
  /\ UNCHANGED <<event, command>>

Overrun ==
  /\ At({"PARAM"}) /\ Here \in MiddleRest \ {":"}
  /\ Len(msg.params) >= ParamSlots
  /\ result' = "overrun"
  /\ phase' = "end"
  /\ UNCHANGED <<input, buffer, pos, stack, event, command, msg, heap, signal>>

(* Variant: the text ends at the first space.                              *)
TrailingToSpace ==
  /\ At({"TRAILING"}) /\ Here \in MiddleRest
  /\ Pop(2)
  /\ msg' = [msg EXCEPT !.trailing = <<pos, RunEnd(MiddleRest)>>]
  /\ Strndup(RunEnd(MiddleRest))
  /\ Advance(RunEnd(MiddleRest))
  /\ UNCHANGED <<event, command>>

(* [^\0\n\r]*; at a character it excludes, the default rule matches more.  *)
Trailing ==
  /\ At({"TRAILING"}) /\ Here \in NotLineEnd
  /\ Pop(2)
  /\ msg' = [msg EXCEPT !.trailing = <<pos, RunEnd(NotLineEnd)>>]
  /\ Strndup(RunEnd(NotLineEnd))
  /\ Advance(RunEnd(NotLineEnd))
  /\ UNCHANGED <<event, command>>

(* {crlf}: the callback is called with the message, which is destroyed     *)
(* when it returns.                                                        *)
Signal ==
  /\ At({"PARAMS", "GENERIC_PARAMS"}) /\ Here = "eol"
  /\ signal' = <<event, msg>>
  /\ Finish("ok", {command})
  /\ UNCHANGED stack

(* Variant: two characters are echoed.                                     *)
EchoTwo ==
  /\ Scan /\ Here \notin Begins[Start]
  /\ Advance(pos + 1)
  /\ UNCHANGED <<stack, event, command, msg, heap>>

(* The default rule.                                                       *)
Echo ==
  /\ Scan /\ Here \notin Begins[Start]
  /\ Advance(pos)
  /\ UNCHANGED <<stack, event, command, msg, heap>>

(* <<EOF>>                                                                 *)
EndOfInput ==
  /\ phase = "scan" /\ pos > Len(line)
  /\ Finish("short", {command})
  /\ UNCHANGED <<stack, signal>>

-----------------------------------------------------------------------------
(***************************************************************************)
(* thread_parse                                                            *)
(***************************************************************************)

(* yylex_init_extra fails: the buffer is not deleted.                      *)
InitFails ==
  /\ phase = "start"
  /\ phase' = "returned" /\ buffer' = "leaked"
  /\ UNCHANGED <<input, pos, stack, event, command, msg, heap, signal, result>>

(* yy_scan_buffer succeeds: on_read left two zero bytes at the end.        *)
BeginScan ==
  /\ phase = "start"
  /\ phase' = "scan"
  /\ UNCHANGED <<input, buffer, pos, stack, event, command, msg, heap, signal,
                 result>>

(* The result of yylex is logged and the buffer deleted.                   *)
EndParse ==
  /\ phase = "end" /\ result # "overrun"
  /\ phase' = "returned" /\ buffer' = "freed"
  /\ UNCHANGED <<input, pos, stack, event, command, msg, heap, signal, result>>

Init ==
  /\ line \in Lines /\ installed \in SUBSET {"ping", "unknown"}
  /\ phase = "start" /\ buffer = "held" /\ pos = 1
  /\ stack = <<"INITIAL">> /\ event = "none" /\ command = Null
  /\ msg = NoMessage /\ heap = {} /\ signal = <<>> /\ result = "none"

Rule ==
  \/ Prefix \/ KnownCommand \/ Command \/ Skip
  \/ Source \/ User \/ Host \/ PrefixEnd
  \/ ParamStart \/ TrailingStart \/ Middle \/ Overrun \/ Trailing \/ Signal
  \/ Echo \/ EndOfInput

Next == InitFails \/ BeginScan \/ Rule \/ EndParse

Spec == Init /\ [][Next]_vars

-----------------------------------------------------------------------------
(***************************************************************************)
(* The messages an IRC server sends, stated over the line as a whole.      *)
(***************************************************************************)

First(l, a, S) == CHOOSE i \in a..Len(l) :
                    l[i] \in S /\ \A j \in a..(i - 1) : l[j] \notin S

(* The first piece of the command and the piece after it.                  *)
CommandAt(l)    == IF l[1] = ":" THEN First(l, 1, {" "}) + 1 ELSE 1
CommandAfter(l) == First(l, CommandAt(l), {" ", "eol"})

(* The space before the ":" of the trailing text, or the line end.         *)
ParamsAfter(l) ==
  LET C == {i \in CommandAfter(l)..(Len(l) - 1) : l[i] = " " /\ l[i + 1] = ":"}
  IN  IF C = {} THEN Len(l) ELSE CHOOSE i \in C : \A j \in C : i <= j

(* The parameters: what lies between two spaces, or a space and the end.   *)
ParamsOf(l) ==
  {p \in (1..Len(l)) \X (1..Len(l)) :
     /\ CommandAfter(l) < p[1] /\ p[1] <= p[2] /\ p[2] < ParamsAfter(l)
     /\ l[p[1] - 1] = " " /\ l[p[2] + 1] \in {" ", "eol"}
     /\ \A i \in p[1]..p[2] : l[i] # " "}

(* One line end; a prefix is a name, its mask and a space; the command is  *)
(* a word; single spaces separate the parameters; the trailing text may be *)
(* empty where the caller allows it.                                       *)
IsMessage(l, emptyTrailing) ==
  /\ \A i \in 1..(Len(l) - 1) : l[i] \notin {"eol", "nul"}
  /\ l[1] = ":" =>
       /\ Len(l) > 3 /\ l[2] \in Words
       /\ \E i \in 3..(Len(l) - 1) : l[i] = " "
  /\ CommandAt(l) < Len(l)
  /\ CommandAt(l) < CommandAfter(l)
  /\ \A i \in CommandAt(l)..(CommandAfter(l) - 1) : l[i] \in Words
  /\ \A i \in CommandAfter(l)..(ParamsAfter(l) - 1) :
       l[i] = " " => l[i + 1] \notin {" ", "eol"}
  /\ ~emptyTrailing => ParamsAfter(l) + 2 # Len(l)

(* The signal a message is for, and its content; user and host apart.      *)
EventOf(l) ==
  IF l[CommandAt(l)] = "PING" /\ CommandAfter(l) = CommandAt(l) + 1
  THEN "ping" ELSE "unknown"

HasContent(m, l) ==
  /\ m.source = (IF l[1] = ":"
                 THEN <<2, First(l, 2, Pieces \ Words) - 1>> ELSE Null)
  /\ Strings([NoMessage EXCEPT !.params = m.params]) \ {Null} = ParamsOf(l)
  /\ \A i, j \in 1..Len(m.params) : i < j => m.params[i][2] < m.params[j][1]
  /\ m.trailing = (IF ParamsAfter(l) = Len(l) THEN Null
                   ELSE <<ParamsAfter(l) + 2, Len(l) - 1>>)

-----------------------------------------------------------------------------
(***************************************************************************)
(* Properties.                                                             *)
(***************************************************************************)

Intervals == (0..MaxLength) \X (0..MaxLength)
Messages  == [source : Intervals, user : Intervals, host : Intervals,
              params : Seq(Intervals), trailing : Intervals]

TypeOK ==
  /\ line \in Lines /\ installed \subseteq {"ping", "unknown"}
  /\ phase \in {"start", "scan", "end", "returned"}
  /\ buffer \in {"held", "freed", "leaked"}
  /\ pos \in 1..(MaxLength + 1)
  /\ stack \in Seq(Conditions)
  /\ event \in {"none", "ping", "unknown"}
  /\ command \in Intervals /\ heap \subseteq Intervals
  /\ msg \in Messages
  /\ result \in {"none", "ok", "skipped", "short", "overrun"}

(* The start conditions are pushed and popped in step: the stack never     *)
(* underflows, and a condition in which {crlf} calls a callback is entered *)
(* only with that callback set, whatever the line.                         *)
StackSound ==
  /\ Len(stack) \in 1..4 /\ stack[1] = "INITIAL"
  /\ Len(stack) > 1 => stack[2] \in {"PREFIX", "PARAMS", "GENERIC_PARAMS"}
  /\ Len(stack) > 2 =>
       stack[3] = IF stack[2] = "PREFIX" THEN "PREFIX_OPT" ELSE "PARAM"
  /\ Len(stack) > 3 => stack[2] # "PREFIX" /\ stack[4] = "TRAILING"
  /\ phase = "scan" /\ Len(stack) > 1 =>
       /\ stack[2] = "PARAMS" => event = "ping"
       /\ stack[2] = "GENERIC_PARAMS" => event = "unknown" /\ command # Null

(* No string is freed while the callback may use it: until the scanner     *)
(* returns, everything the message and the command point to is allocated.  *)
FieldsAllocated ==
  phase = "scan" => (Strings(msg) \cup {command}) \ {Null} \subseteq heap

(* A message is signalled with exactly the content of its line, unless it  *)
(* has no callback or more parameters than cq_irc_params has room for.     *)
MessageSignalled ==
  phase = "end" /\ IsMessage(line, FALSE) =>
    CASE result = "ok" -> /\ signal[1] = EventOf(line)
                          /\ EventOf(line) \in installed
                          /\ HasContent(signal[2], line)
      [] result = "skipped" -> EventOf(line) \notin installed
      [] result = "overrun" -> Cardinality(ParamsOf(line)) > ParamSlots
      [] OTHER -> FALSE

(* The literals of a prefix that come again in it: <PREFIX_OPT> stores the *)
(* second copy over the first.                                             *)
Overwritten(l) ==
  {<<i, i>> : i \in {k \in 3..(CommandAt(l) - 2) :
     l[k] \in Literals /\ \E j \in (k + 1)..(CommandAt(l) - 2) : l[j] = l[k]}}

(* Every string copied out of a message is freed again, by whichever way   *)
(* the scanner returns, except a user or host that a second one replaced.   *)
OnlyOverwrittenLeaked ==
  phase = "end" /\ result # "overrun" /\ IsMessage(line, TRUE)
    => heap \subseteq Overwritten(line)

(* <<EOF>> means "Not enough input": it is not the answer to a whole       *)
(* message, the empty trailing text of [^\0\n\r]* included.                *)
ShortOnlyWhenIncomplete == result = "short" => ~IsMessage(line, TRUE)

(* A prefix of the form name!user has its user in message.prefix.user, as  *)
(* the rule for "!{user}" intends.                                         *)
UserStored ==
  result = "ok" /\ IsMessage(line, FALSE) /\ line[1] = ":" /\ line[3] = "!"
    /\ line[4] \in Words
    => signal[2].user # Null
=============================================================================
