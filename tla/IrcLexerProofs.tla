--------------------------- MODULE IrcLexerProofs ---------------------------
(***************************************************************************)
(* Proofs about IrcLexer and IrcReply: for lines of any length and         *)
(* alphabet, any number of parameter slots and any choice of callbacks,    *)
(* the scanner stays inside the line and inside its stack of start         *)
(* conditions, frees no string that the message still uses, leaves none of *)
(* a message behind but what it overwrote itself, and signals each message *)
(* with its content; and what the helpers write from that message reads    *)
(* back.                                                                   *)
(***************************************************************************)
EXTENDS IrcReply, FiniteSetTheorems, SequenceTheorems, WellFoundedInduction,
        TLAPS

(* Nothing has been scanned before the scan begins.                        *)
Fresh == phase = "start" =>
           /\ Len(stack) = 1 /\ command = Null
           /\ Strings(msg) = {Null}

IndInv == TypeOK /\ StackSound /\ FieldsAllocated /\ Fresh

-----------------------------------------------------------------------------
(***************************************************************************)
(* Longest matches.                                                        *)
(***************************************************************************)

Below == {p \in Nat \X Nat : p[1] < p[2]}

(* A set of numbers that is not empty has a least element.                 *)
LEMMA LeastNumber ==
  ASSUME NEW T, T \subseteq Nat, T # {}
  PROVE  \E x \in T : \A y \in T : x <= y
<1>1. IsWellFoundedOn(Below, Nat)
  BY NatLessThanWellFounded DEF OpToRel, Below
<1>2. \A x, y \in Nat : y < x => <<y, x>> \in Below
  BY DEF Below
<1> HIDE DEF Below
<1>3. PICK x \in T : \A y \in T : ~(<<y, x>> \in Below)
  BY <1>1, WFMin
<1>4. ASSUME NEW y \in T PROVE x <= y
  <2>1. x \in Nat /\ y \in Nat
    OBVIOUS
  <2>2. ~(y < x)
    BY <1>2, <1>3, <2>1
  <2> QED
    BY <2>1, <2>2
<1> QED
  BY <1>3, <1>4

(* The lines on_read hands over end with the line end.                     *)
LEMMA LineFacts ==
  ASSUME line \in Lines
  PROVE  /\ line \in Seq(Alphabet \cup Oddities) /\ Len(line) \in 1..MaxLength
         /\ line[Len(line)] = "eol"
<1>1. PICK n \in 1..MaxLength : line \in [1..n -> Alphabet \cup Oddities]
  <2>1. CASE line \in Texts(Alphabet, MaxLength)
    BY <2>1 DEF Texts
  <2>2. CASE line \in Texts(Alphabet \cup Oddities, OddLength)
    BY <2>2, LexerAssumption DEF Texts
  <2> QED
    BY <2>1, <2>2 DEF Lines
<1>2. n \in Nat /\ n >= 1
  BY LexerAssumption
<1>3. line \in Seq(Alphabet \cup Oddities) /\ Len(line) = n
  BY <1>1, <1>2
<1>4. line[Len(line)] = "eol"
  BY DEF Lines
<1> QED
  BY <1>1, <1>3, <1>4

(* From a piece of S there is a longest run of pieces of S, and RunEnd is  *)
(* where it ends.                                                          *)
LEMMA RunEndFacts ==
  ASSUME NEW S, line \in Lines, pos \in 1..Len(line), line[pos] \in S
  PROVE  /\ RunEnd(S) \in pos..Len(line)
         /\ \A i \in pos..RunEnd(S) : line[i] \in S
         /\ RunEnd(S) = Len(line) \/ line[RunEnd(S) + 1] \notin S
<1> DEFINE T == {e \in pos..Len(line) : e = Len(line) \/ line[e + 1] \notin S}
           Q(e) == /\ \A i \in pos..e : line[i] \in S
                   /\ e = Len(line) \/ line[e + 1] \notin S
<1>1. Len(line) \in Nat /\ pos \in Nat /\ pos <= Len(line)
  BY LineFacts, LexerAssumption
<1>2. Len(line) \in T /\ T \subseteq Nat
  BY <1>1
<1>3. PICK e \in T : \A y \in T : e <= y
  BY <1>2, LeastNumber
<1>4. ASSUME NEW i \in pos..e PROVE line[i] \in S
  <2>1. CASE i = pos
    BY <2>1
  <2>2. CASE i # pos
    <3>1. i - 1 \in pos..Len(line) /\ i - 1 < e /\ i = (i - 1) + 1
      BY <1>1, <2>2
    <3>2. i - 1 \notin T
      <4>1. i - 1 \in Nat /\ e \in Nat
        BY <1>1
      <4> HIDE DEF T
      <4> QED
        BY <1>3, <3>1, <4>1
    <3>3. \A k \in pos..Len(line) : k \notin T => line[k + 1] \in S
      OBVIOUS
    <3> QED
      BY <3>1, <3>2, <3>3
  <2> QED
    BY <2>1, <2>2
<1>5. e \in pos..Len(line) /\ Q(e)
  BY <1>4
<1>6. RunEnd(S) = CHOOSE x \in pos..Len(line) : Q(x)
  BY DEF RunEnd
<1> HIDE DEF Q, T
<1>7. RunEnd(S) \in pos..Len(line) /\ Q(RunEnd(S))
  BY <1>5, <1>6
<1> QED
  BY <1>7 DEF Q

(* The end of a command and of a source lies inside the line.              *)
LEMMA NameEndFacts ==
  ASSUME line \in Lines, pos \in 1..Len(line), Here \in Words \cup Literals
  PROVE  CommandEnd \in pos..Len(line) /\ SourceEnd \in pos..Len(line)
<1>1. /\ Len(line) \in Nat /\ pos \in Nat /\ pos <= Len(line)
      /\ line[Len(line)] = "eol"
  BY LineFacts, LexerAssumption
<1>2. pos \in pos..Len(line)
  BY <1>1
<1>3. Here \in Words => RunEnd(Words) \in pos..Len(line)
  BY RunEndFacts DEF Here
<1>4. CommandEnd \in pos..Len(line)
  BY <1>2, <1>3 DEF CommandEnd
<1>5. CASE Here \in Words
  BY <1>3, <1>4, <1>5 DEF SourceEnd
<1>6. CASE Here \notin Words
  <2> DEFINE T == {e \in pos..Len(line) : line[e + 1] \notin Words}
             Q(e) == /\ \A i \in (pos + 1)..e : line[i] \in Words
                     /\ line[e + 1] \notin Words
  <2>1. pos # Len(line)
    BY <1>1 DEF Here, Words, Literals
  <2>2. Len(line) - 1 \in T /\ T \subseteq Nat
    BY <1>1, <2>1 DEF Words
  <2>3. PICK e \in T : \A y \in T : e <= y
    BY <2>2, LeastNumber
  <2>4. ASSUME NEW i \in (pos + 1)..e PROVE line[i] \in Words
    <3>1. i - 1 \in pos..Len(line) /\ i - 1 < e /\ i = (i - 1) + 1
      BY <1>1
    <3>2. i - 1 \notin T
      <4>1. i - 1 \in Nat /\ e \in Nat
        BY <1>1
      <4> HIDE DEF T
      <4> QED
        BY <2>3, <3>1, <4>1
    <3>3. \A k \in pos..Len(line) : k \notin T => line[k + 1] \in Words
      OBVIOUS
    <3> QED
      BY <3>1, <3>2, <3>3
  <2>5. e \in pos..Len(line) /\ Q(e)
    BY <2>4
  <2>6. SourceEnd = IF line[pos + 1] \in Words
                    THEN CHOOSE x \in pos..Len(line) : Q(x) ELSE pos
    BY <1>6 DEF SourceEnd
  <2> HIDE DEF Q, T
  <2>7. SourceEnd \in pos..Len(line)
    BY <1>2, <2>5, <2>6
  <2> QED
    BY <1>4, <2>7
<1> QED
  BY <1>5, <1>6

-----------------------------------------------------------------------------
(***************************************************************************)
(* The stack of start conditions.                                          *)
(***************************************************************************)

LEMMA ConditionsAre ==
  Conditions = {"INITIAL", "PREFIX", "PREFIX_OPT", "PARAMS", "GENERIC_PARAMS",
                "PARAM", "TRAILING"}
BY DEF Conditions, Begins

(* The current start condition tells how deep the stack is.                *)
LEMMA StartFacts ==
  ASSUME TypeOK, StackSound
  PROVE  /\ Start = "INITIAL" => Len(stack) = 1
         /\ Start \in {"PREFIX", "PARAMS", "GENERIC_PARAMS"} => Len(stack) = 2
         /\ Start \in {"PREFIX_OPT", "PARAM"} => Len(stack) = 3
         /\ Start = "PARAM" => stack[2] # "PREFIX"
         /\ Start = "TRAILING" => Len(stack) = 4
<1>1. Len(stack) \in {1, 2, 3, 4}
  BY DEF StackSound
<1>2. CASE Len(stack) = 1
  BY <1>2 DEF StackSound, Start
<1>3. CASE Len(stack) = 2
  BY <1>3 DEF StackSound, Start
<1>4. CASE Len(stack) = 3
  BY <1>4 DEF StackSound, Start
<1>5. CASE Len(stack) = 4
  BY <1>5 DEF StackSound, Start
<1> QED
  BY <1>1, <1>2, <1>3, <1>4, <1>5

LEMMA PushFacts ==
  ASSUME TypeOK, NEW s \in Conditions, Push(s)
  PROVE  /\ stack' \in Seq(Conditions) /\ Len(stack') = Len(stack) + 1
         /\ \A i \in 1..Len(stack) : stack'[i] = stack[i]
         /\ stack'[Len(stack) + 1] = s
BY DEF TypeOK, Push

LEMMA PopFacts ==
  ASSUME TypeOK, NEW n \in Nat, n < Len(stack),
         stack' = SubSeq(stack, 1, Len(stack) - n)
  PROVE  /\ stack' \in Seq(Conditions) /\ Len(stack') = Len(stack) - n
         /\ \A i \in 1..(Len(stack) - n) : stack'[i] = stack[i]
<1>1. stack \in Seq(Conditions) /\ Len(stack) \in Nat
  BY DEF TypeOK
<1>2. \A i \in 1..(Len(stack) - n) : stack[i] \in Conditions
  BY <1>1
<1> QED
  BY <1>1, <1>2, SubSeqProperties

-----------------------------------------------------------------------------
(***************************************************************************)
(* Steps of the scanner.                                                   *)
(***************************************************************************)

LEMMA ScanFacts ==
  ASSUME TypeOK, Scan
  PROVE  /\ pos \in 1..Len(line) /\ Len(line) \in Nat /\ Len(line) <= MaxLength
         /\ pos \in pos..Len(line)
         /\ \A e \in pos..Len(line) :
              /\ <<pos, e>> \in Intervals /\ <<pos, e>> # Null
              /\ e + 1 \in 1..(MaxLength + 1)
<1>1. Len(line) \in 1..MaxLength /\ MaxLength \in Nat
  BY LineFacts, LexerAssumption DEF TypeOK
<1>2. pos \in 1..Len(line)
  BY <1>1 DEF TypeOK, Scan
<1>3. ASSUME NEW e \in pos..Len(line)
      PROVE  /\ <<pos, e>> \in Intervals /\ <<pos, e>> # Null
             /\ e + 1 \in 1..(MaxLength + 1)
  BY <1>1, <1>2 DEF Intervals, Null
<1> QED
  BY <1>1, <1>2, <1>3

(* Rules that copy nothing.                                                *)
LEMMA QuietFacts ==
  ASSUME IndInv, Scan, Advance(pos), UNCHANGED <<command, msg, heap>>,
         stack' \in Seq(Conditions), event' \in {"none", "ping", "unknown"}
  PROVE  TypeOK' /\ FieldsAllocated' /\ Fresh'
<1>1. /\ pos' = pos + 1
      /\ UNCHANGED <<line, installed, phase, buffer, signal, result>>
      /\ phase = "scan"
  BY DEF Advance, Scan, input
<1>2. pos' \in 1..(MaxLength + 1)
  BY <1>1, ScanFacts DEF IndInv
<1>3. TypeOK'
  BY <1>1, <1>2 DEF IndInv, TypeOK
<1>4. FieldsAllocated'
  BY <1>1 DEF IndInv, FieldsAllocated
<1> QED
  BY <1>1, <1>3, <1>4 DEF Fresh

LEMMA QuietRules ==
  ASSUME IndInv,
         Prefix \/ KnownCommand \/ PrefixEnd \/ ParamStart \/ TrailingStart
         \/ Echo
  PROVE  IndInv'
<1>0. TypeOK /\ StackSound /\ stack \in Seq(Conditions)
      /\ event \in {"none", "ping", "unknown"}
  BY DEF IndInv, TypeOK
<1>1. /\ Scan /\ Advance(pos) /\ UNCHANGED <<command, msg, heap>>
      /\ event' \in {"none", "ping", "unknown"}
      /\ phase = "scan" /\ phase' = "scan"
  BY <1>0 DEF Prefix, KnownCommand, PrefixEnd, ParamStart, TrailingStart, Echo,
              At, Scan, Advance
<1>2. CASE Prefix
  <2>1. Len(stack) = 1 /\ Push("PREFIX")
    BY <1>0, <1>2, StartFacts DEF Prefix, At
  <2>2. /\ stack' \in Seq(Conditions)
        /\ Len(stack') = 2 /\ stack'[1] = "INITIAL" /\ stack'[2] = "PREFIX"
    BY <1>0, <2>1, PushFacts, ConditionsAre DEF StackSound
  <2>3. StackSound'
    BY <1>0, <1>1, <2>1, <2>2 DEF StackSound
  <2> QED
    BY <1>1, <2>2, <2>3, QuietFacts DEF IndInv
<1>3. CASE KnownCommand
  <2>1. Len(stack) = 1 /\ Push("PARAMS") /\ event' = "ping"
    BY <1>0, <1>3, StartFacts DEF KnownCommand, At
  <2>2. /\ stack' \in Seq(Conditions)
        /\ Len(stack') = 2 /\ stack'[1] = "INITIAL" /\ stack'[2] = "PARAMS"
    BY <1>0, <2>1, PushFacts, ConditionsAre DEF StackSound
  <2>3. StackSound'
    BY <1>0, <1>1, <2>1, <2>2 DEF StackSound
  <2> QED
    BY <1>1, <2>2, <2>3, QuietFacts DEF IndInv
<1>4. CASE PrefixEnd
  <2>1. Len(stack) = 3 /\ Pop(2)
    BY <1>0, <1>4, StartFacts DEF PrefixEnd, At
  <2>2. 2 < Len(stack) /\ stack' = SubSeq(stack, 1, Len(stack) - 2)
    BY <2>1 DEF Pop
  <2>3. /\ stack' \in Seq(Conditions) /\ Len(stack') = Len(stack) - 2
        /\ \A i \in 1..(Len(stack) - 2) : stack'[i] = stack[i]
    BY <1>0, <2>2, PopFacts
  <2>4. /\ stack' \in Seq(Conditions)
        /\ Len(stack') = 1 /\ stack'[1] = "INITIAL"
    BY <1>0, <2>1, <2>3 DEF StackSound
  <2>5. StackSound'
    BY <1>0, <1>1, <2>1, <2>4 DEF StackSound
  <2> QED
    BY <1>1, <2>4, <2>5, QuietFacts DEF IndInv
<1>5. CASE ParamStart
  <2>1. /\ Len(stack) = 2 /\ stack[2] # "PREFIX" /\ Push("PARAM")
        /\ event' = event
    BY <1>0, <1>5, StartFacts DEF ParamStart, At, Start
  <2>2. /\ stack' \in Seq(Conditions)
        /\ Len(stack') = 3 /\ stack'[1] = stack[1] /\ stack'[2] = stack[2]
        /\ stack'[3] = "PARAM"
    BY <1>0, <2>1, PushFacts, ConditionsAre DEF StackSound
  <2>3. StackSound'
    BY <1>0, <1>1, <2>1, <2>2 DEF StackSound
  <2> QED
    BY <1>1, <2>2, <2>3, QuietFacts DEF IndInv
<1>6. CASE TrailingStart
  <2>1. /\ Len(stack) = 3 /\ stack[2] # "PREFIX" /\ Push("TRAILING")
        /\ event' = event
    BY <1>0, <1>6, StartFacts DEF TrailingStart, At
  <2>2. /\ stack' \in Seq(Conditions)
        /\ Len(stack') = 4 /\ stack'[1] = stack[1] /\ stack'[2] = stack[2]
        /\ stack'[3] = stack[3] /\ stack'[4] = "TRAILING"
    BY <1>0, <2>1, PushFacts, ConditionsAre DEF StackSound
  <2>3. StackSound'
    BY <1>0, <1>1, <2>1, <2>2 DEF StackSound
  <2> QED
    BY <1>1, <2>2, <2>3, QuietFacts DEF IndInv
<1>7. CASE Echo
  <2>1. UNCHANGED <<stack, event>>
    BY <1>7 DEF Echo
  <2>2. stack' \in Seq(Conditions) /\ StackSound'
    BY <1>0, <1>1, <2>1 DEF StackSound
  <2> QED
    BY <1>1, <2>2, QuietFacts DEF IndInv
<1> QED
  BY <1>2, <1>3, <1>4, <1>5, <1>6, <1>7

(* Storing a string in a field of the message.                             *)
LEMMA FieldFacts ==
  ASSUME msg \in Messages, NEW s \in Intervals
  PROVE  \A m \in {[msg EXCEPT !.source = s], [msg EXCEPT !.user = s],
                   [msg EXCEPT !.host = s], [msg EXCEPT !.trailing = s],
                   [msg EXCEPT !.params = Append(@, s)]} :
           m \in Messages /\ Strings(m) \subseteq Strings(msg) \cup {s}
<1>1. \A m \in {[msg EXCEPT !.source = s], [msg EXCEPT !.user = s],
                [msg EXCEPT !.host = s], [msg EXCEPT !.trailing = s]} :
        m \in Messages /\ Strings(m) \subseteq Strings(msg) \cup {s}
  BY DEF Messages, Strings
<1>2. ASSUME NEW m, m = [msg EXCEPT !.params = Append(@, s)]
      PROVE  m \in Messages /\ Strings(m) \subseteq Strings(msg) \cup {s}
  <2>1. msg.params \in Seq(Intervals) /\ m.params = Append(msg.params, s)
    BY <1>2 DEF Messages
  <2>0. /\ m.params \in Seq(Intervals)
        /\ Len(m.params) = Len(msg.params) + 1 /\ Len(msg.params) \in Nat
        /\ \A i \in 1..Len(msg.params) : m.params[i] = msg.params[i]
        /\ m.params[Len(msg.params) + 1] = s
    BY <2>1, AppendProperties
  <2>2. \A i \in 1..Len(m.params) :
          m.params[i] = s \/ \E j \in 1..Len(msg.params) :
                               m.params[i] = msg.params[j]
    <3> TAKE i \in 1..Len(m.params)
    <3>1. CASE i = Len(msg.params) + 1
      BY <2>0, <3>1
    <3>2. CASE i # Len(msg.params) + 1
      <4>1. i \in 1..Len(msg.params)
        BY <2>0, <3>2
      <4> QED
        BY <2>0, <4>1
    <3> QED
      BY <3>1, <3>2
  <2>3. m \in Messages
    <3> DEFINE p == Append(msg.params, s)
    <3>1. p \in Seq(Intervals) /\ m = [msg EXCEPT !.params = p]
      BY <1>2, <2>0, <2>1
    <3> HIDE DEF p
    <3> QED
      BY <3>1 DEF Messages
  <2>4. /\ m.source = msg.source /\ m.user = msg.user /\ m.host = msg.host
        /\ m.trailing = msg.trailing
    BY <1>2 DEF Messages
  <2> QED
    BY <2>2, <2>3, <2>4 DEF Strings
<1> QED
  BY <1>1, <1>2

(* Rules that store the text they match in the message.                    *)
LEMMA StoreFacts ==
  ASSUME IndInv, Scan, NEW e \in pos..Len(line), Advance(e), Strndup(e),
         UNCHANGED <<event, command>>, stack' \in Seq(Conditions),
         msg' \in {[msg EXCEPT !.source = <<pos, e>>],
                   [msg EXCEPT !.user = <<pos, e>>],
                   [msg EXCEPT !.host = <<pos, e>>],
                   [msg EXCEPT !.trailing = <<pos, e>>],
                   [msg EXCEPT !.params = Append(@, <<pos, e>>)]}
  PROVE  TypeOK' /\ FieldsAllocated' /\ Fresh'
<1>1. <<pos, e>> \in Intervals /\ <<pos, e>> # Null
  BY ScanFacts DEF IndInv
<1>2. msg \in Messages
  BY DEF IndInv, TypeOK
<1>3. /\ msg' \in Messages
      /\ Strings(msg') \subseteq Strings(msg) \cup {<<pos, e>>}
  <2> DEFINE x == <<pos, e>>
  <2>1. x \in Intervals
    BY <1>1
  <2>2. msg' \in {[msg EXCEPT !.source = x], [msg EXCEPT !.user = x],
                  [msg EXCEPT !.host = x], [msg EXCEPT !.trailing = x],
                  [msg EXCEPT !.params = Append(@, x)]}
    OBVIOUS
  <2> HIDE DEF x
  <2> DEFINE M == {[msg EXCEPT !.source = x], [msg EXCEPT !.user = x],
                   [msg EXCEPT !.host = x], [msg EXCEPT !.trailing = x],
                   [msg EXCEPT !.params = Append(@, x)]}
             Kept(m) == /\ m \in Messages
                        /\ Strings(m) \subseteq Strings(msg) \cup {x}
  <2>4. \A m \in M : Kept(m)
    BY <1>2, <2>1, FieldFacts
  <2>5. msg' \in M
    BY <2>2
  <2> HIDE DEF M, Kept
  <2>6. Kept(msg')
    BY <2>4, <2>5
  <2>3. msg' \in Messages /\ Strings(msg') \subseteq Strings(msg) \cup {x}
    BY <2>6 DEF Kept
  <2> QED
    BY <2>3 DEF x
<1>4. heap' = heap \cup {<<pos, e>>}
  BY DEF Strndup
<1>5. /\ pos' = e + 1
      /\ UNCHANGED <<line, installed, phase, buffer, signal, result>>
      /\ phase = "scan"
  BY DEF Advance, Scan, input
<1>6. pos' \in 1..(MaxLength + 1)
  BY <1>5, ScanFacts DEF IndInv
<1>7. TypeOK'
  BY <1>1, <1>3, <1>4, <1>5, <1>6 DEF IndInv, TypeOK
<1>8. FieldsAllocated'
  BY <1>3, <1>4, <1>5 DEF IndInv, FieldsAllocated
<1> QED
  BY <1>5, <1>7, <1>8 DEF Fresh

LEMMA StoreRules ==
  ASSUME IndInv, Source \/ User \/ Host \/ Middle \/ Trailing
  PROVE  IndInv'
<1>0. TypeOK /\ StackSound /\ stack \in Seq(Conditions) /\ line \in Lines
  BY DEF IndInv, TypeOK
<1>1. /\ Scan /\ UNCHANGED <<event, command>>
      /\ phase = "scan" /\ phase' = "scan"
  BY DEF Source, User, Host, Middle, Trailing, At, Scan, Advance
<1>2. pos \in 1..Len(line) /\ pos \in pos..Len(line)
  BY <1>0, <1>1, ScanFacts
<1>3. CASE Source
  <2>1. Len(stack) = 2 /\ stack[2] = "PREFIX" /\ Push("PREFIX_OPT")
    BY <1>0, <1>3, StartFacts DEF Source, At, Start
  <2>2. /\ stack' \in Seq(Conditions)
        /\ Len(stack') = 3 /\ stack'[1] = "INITIAL" /\ stack'[2] = "PREFIX"
        /\ stack'[3] = "PREFIX_OPT"
    BY <1>0, <2>1, PushFacts, ConditionsAre DEF StackSound
  <2>3. StackSound'
    BY <1>0, <1>1, <2>1, <2>2 DEF StackSound
  <2>4. SourceEnd \in pos..Len(line)
    BY <1>0, <1>2, <1>3, NameEndFacts DEF Source
  <2> QED
    BY <1>1, <1>3, <2>2, <2>3, <2>4, StoreFacts DEF Source, IndInv
<1>4. CASE User \/ Host
  <2>1. stack' = stack
    BY <1>4 DEF User, Host
  <2>2. stack' \in Seq(Conditions) /\ StackSound'
    BY <1>0, <1>1, <2>1 DEF StackSound
  <2> QED
    BY <1>1, <1>2, <1>4, <2>2, StoreFacts DEF User, Host, IndInv
<1>5. CASE Middle
  <2>1. Len(stack) = 3 /\ Pop(1)
    BY <1>0, <1>5, StartFacts DEF Middle, At
  <2>2. 1 < Len(stack) /\ stack' = SubSeq(stack, 1, Len(stack) - 1)
    BY <2>1 DEF Pop
  <2>3. /\ stack' \in Seq(Conditions) /\ Len(stack') = Len(stack) - 1
        /\ \A i \in 1..(Len(stack) - 1) : stack'[i] = stack[i]
    BY <1>0, <2>2, PopFacts
  <2>4. /\ stack' \in Seq(Conditions)
        /\ Len(stack') = 2 /\ stack'[1] = stack[1] /\ stack'[2] = stack[2]
    BY <1>0, <2>1, <2>3 DEF StackSound
  <2>5. StackSound'
    BY <1>0, <1>1, <2>1, <2>4 DEF StackSound
  <2>6. RunEnd(MiddleRest) \in pos..Len(line)
    BY <1>0, <1>2, <1>5, RunEndFacts DEF Middle, Here
  <2> QED
    BY <1>1, <1>5, <2>4, <2>5, <2>6, StoreFacts DEF Middle, IndInv
<1>6. CASE Trailing
  <2>1. Len(stack) = 4 /\ Pop(2)
    BY <1>0, <1>6, StartFacts DEF Trailing, At
  <2>2. 2 < Len(stack) /\ stack' = SubSeq(stack, 1, Len(stack) - 2)
    BY <2>1 DEF Pop
  <2>3. /\ stack' \in Seq(Conditions) /\ Len(stack') = Len(stack) - 2
        /\ \A i \in 1..(Len(stack) - 2) : stack'[i] = stack[i]
    BY <1>0, <2>2, PopFacts
  <2>4. /\ stack' \in Seq(Conditions)
        /\ Len(stack') = 2 /\ stack'[1] = stack[1] /\ stack'[2] = stack[2]
    BY <1>0, <2>1, <2>3 DEF StackSound
  <2>5. StackSound'
    BY <1>0, <1>1, <2>1, <2>4 DEF StackSound
  <2>6. RunEnd(NotLineEnd) \in pos..Len(line)
    BY <1>0, <1>2, <1>6, RunEndFacts DEF Trailing, Here
  <2> QED
    BY <1>1, <1>6, <2>4, <2>5, <2>6, StoreFacts DEF Trailing, IndInv
<1> QED
  BY <1>3, <1>4, <1>5, <1>6

(* Any other command is copied out of the line.                            *)
LEMMA CommandRule ==
  ASSUME IndInv, Command PROVE IndInv'
<1>0. TypeOK /\ StackSound /\ line \in Lines /\ msg \in Messages
  BY DEF IndInv, TypeOK
<1>1. /\ Scan /\ Advance(CommandEnd) /\ Strndup(CommandEnd) /\ msg' = msg
      /\ event' = "unknown" /\ command' = <<pos, CommandEnd>>
      /\ Here \in Words \cup Literals /\ phase' = "scan"
  BY DEF Command, At, Scan, Advance
<1>2. pos \in 1..Len(line)
  BY <1>0, <1>1, ScanFacts
<1>3. CommandEnd \in pos..Len(line)
  BY <1>0, <1>1, <1>2, NameEndFacts
<1>4. command' \in Intervals /\ command' # Null
  BY <1>0, <1>1, <1>3, ScanFacts
<1>5. Len(stack) = 1 /\ Push("GENERIC_PARAMS")
  BY <1>0, StartFacts DEF Command, At
<1>6. /\ stack' \in Seq(Conditions) /\ Len(stack') = 2
      /\ stack'[1] = "INITIAL" /\ stack'[2] = "GENERIC_PARAMS"
  BY <1>0, <1>5, PushFacts, ConditionsAre DEF StackSound
<1>7. StackSound'
  BY <1>1, <1>4, <1>6 DEF StackSound
<1>8. heap' = heap \cup {<<pos, CommandEnd>>}
  BY <1>1 DEF Strndup
<1>9. /\ pos' = CommandEnd + 1
      /\ UNCHANGED <<line, installed, buffer, signal, result>>
  BY <1>1 DEF Advance, input
<1>10. pos' \in 1..(MaxLength + 1)
  BY <1>0, <1>1, <1>3, <1>9, ScanFacts
<1>11. TypeOK'
  BY <1>0, <1>1, <1>4, <1>6, <1>8, <1>9, <1>10 DEF TypeOK
<1>12. FieldsAllocated'
  BY <1>1, <1>8 DEF IndInv, FieldsAllocated, Scan
<1> QED
  BY <1>1, <1>7, <1>11, <1>12 DEF IndInv, Fresh

(* Rules that return from the scanner, and thread_parse around it.         *)
LEMMA LastRules ==
  ASSUME IndInv, Skip \/ Overrun \/ Signal \/ EndOfInput
  PROVE  IndInv'
<1>0. TypeOK /\ StackSound /\ stack \in Seq(Conditions)
  BY DEF IndInv, TypeOK
<1>1. /\ phase' = "end" /\ heap' \subseteq heap
      /\ result' \in {"ok", "skipped", "short", "overrun"}
      /\ UNCHANGED <<line, installed, buffer, pos, event, command, msg>>
  BY DEF Skip, Overrun, Signal, EndOfInput, Finish, input
<1>2. stack' \in Seq(Conditions) /\ StackSound'
  <2>1. CASE Skip
    <3>1. /\ Len(stack) = 1
          /\ Push("PARAMS") \/ Push("GENERIC_PARAMS")
      BY <1>0, <2>1, StartFacts DEF Skip, At
    <3> QED
      BY <1>0, <1>1, <3>1, PushFacts, ConditionsAre DEF StackSound
  <2>2. CASE stack' = stack
    BY <1>0, <1>1, <2>2 DEF StackSound
  <2> QED
    BY <2>1, <2>2 DEF Overrun, Signal, EndOfInput
<1>3. TypeOK'
  BY <1>0, <1>1, <1>2 DEF TypeOK
<1> QED
  BY <1>1, <1>2, <1>3 DEF IndInv, FieldsAllocated, Fresh

LEMMA ParseSteps ==
  ASSUME IndInv, InitFails \/ BeginScan \/ EndParse
  PROVE  IndInv'
<1>1. /\ UNCHANGED <<line, installed, pos, stack, event, command, msg, heap,
                     result>>
      /\ \/ phase' = "returned" /\ buffer' \in {"freed", "leaked"}
         \/ phase = "start" /\ phase' = "scan" /\ buffer' = buffer
  BY DEF InitFails, BeginScan, EndParse, input
<1>2. TypeOK'
  BY <1>1 DEF IndInv, TypeOK
<1>3. StackSound' /\ FieldsAllocated' /\ Fresh'
  BY <1>1 DEF IndInv, StackSound, FieldsAllocated, Fresh
<1> QED
  BY <1>2, <1>3 DEF IndInv

LEMMA InitInv == Init => IndInv
<1> SUFFICES ASSUME Init PROVE IndInv
  OBVIOUS
<1>1. stack \in Seq(Conditions) /\ Len(stack) = 1 /\ stack[1] = "INITIAL"
  BY ConditionsAre DEF Init
<1>2. Null \in Intervals
  BY LexerAssumption DEF Null, Intervals
<1>3. msg \in Messages /\ Strings(msg) = {Null}
  BY <1>2 DEF Init, NoMessage, Messages, Strings
<1>4. pos \in 1..(MaxLength + 1)
  BY LexerAssumption DEF Init
<1>5. TypeOK
  BY <1>1, <1>2, <1>3, <1>4 DEF Init, TypeOK
<1> QED
  BY <1>1, <1>3, <1>5 DEF Init, IndInv, StackSound, FieldsAllocated, Fresh

LEMMA StepInv == IndInv /\ [Next]_vars => IndInv'
<1>1. ASSUME IndInv, Next PROVE IndInv'
  BY <1>1, QuietRules, StoreRules, CommandRule, LastRules, ParseSteps
     DEF Next, Rule
<1>2. ASSUME IndInv, UNCHANGED vars PROVE IndInv'
  BY <1>2 DEF vars, IndInv, TypeOK, StackSound, FieldsAllocated, Fresh
<1> QED
  BY <1>1, <1>2

(* The inductive invariant holds in every reachable state.                 *)
THEOREM Inductive == Spec => []IndInv
BY InitInv, StepInv, PTL DEF Spec

(* On a line of any length the scanner reads no position outside the line, *)
(* and every string it stores is part of it.                               *)
THEOREM TypeCorrect == Spec => []TypeOK
<1>1. IndInv => TypeOK
  BY DEF IndInv
<1> QED
  BY <1>1, Inductive, PTL

(* Whatever the line, yy_pop_state never empties the stack of start        *)
(* conditions, and {crlf} finds a callback that was tested.                *)
THEOREM StackAlwaysSound == Spec => []StackSound
<1>1. IndInv => StackSound
  BY DEF IndInv
<1> QED
  BY <1>1, Inductive, PTL

(* Whatever the line, the message that is built refers to allocated        *)
(* strings only, until destroy_message frees them.                         *)
THEOREM FieldsAlwaysAllocated == Spec => []FieldsAllocated
<1>1. IndInv => FieldsAllocated
  BY DEF IndInv
<1> QED
  BY <1>1, Inductive, PTL

-----------------------------------------------------------------------------
(***************************************************************************)
(* What is allocated while a message is scanned.                           *)
(***************************************************************************)

(* What IsMessage says of the prefix and of the command.                   *)
Shaped ==
  /\ \A i \in 1..(Len(line) - 1) : line[i] \notin {"eol", "nul"}
  /\ CommandAt(line) \in Nat \ {0} /\ CommandAt(line) < Len(line)
  /\ line[CommandAt(line)] \in Words
  /\ line[1] = ":" =>
       /\ CommandAt(line) >= 4 /\ line[2] \in Words
       /\ line[CommandAt(line) - 1] = " "
       /\ \A i \in 3..(CommandAt(line) - 2) : line[i] # " "
  /\ line[1] # ":" => CommandAt(line) = 1

NoPrefix == msg.source = Null /\ msg.user = Null /\ msg.host = Null

(* A user or host is the literal s of the mask, somewhere before pos.      *)
Copied(f, s) == f # Null => \E k \in 3..(pos - 1) : f = <<k, k>> /\ line[k] = s

(* Where the scanner is in the prefix, and that no field but the user and  *)
(* the host of the mask is ever stored twice.                              *)
Placed ==
  /\ Start = "INITIAL" => pos = CommandAt(line) \/ (pos = 1 /\ NoPrefix)
  /\ Start = "PREFIX" => pos = 2 /\ line[1] = ":" /\ NoPrefix
  /\ Start = "PREFIX_OPT" =>
       /\ line[1] = ":" /\ pos \in 3..(CommandAt(line) - 1)
       /\ Copied(msg.user, "!{user}") /\ Copied(msg.host, "@{host}")
  /\ Start \in {"INITIAL", "PREFIX", "PREFIX_OPT"} => command = Null
  /\ msg.trailing # Null =>
       Start \in {"PARAMS", "GENERIC_PARAMS"} /\ line[pos] = "eol"

Reachable == Strings(msg) \cup {command} \cup Overwritten(line)

Owned == Null \notin heap /\ heap \subseteq Reachable

LeakInv ==
  IsMessage(line, TRUE) =>
    /\ phase \in {"start", "scan"} => Placed /\ Owned
    /\ phase = "end" /\ result # "overrun" => heap \subseteq Overwritten(line)

LEMMA FirstFacts ==
  ASSUME NEW l, NEW a \in Nat, NEW S, NEW k \in Nat, a <= k, l[k] \in S,
         Len(l) \in Nat, k <= Len(l)
  PROVE  /\ First(l, a, S) \in a..k /\ l[First(l, a, S)] \in S
         /\ \A j \in a..(First(l, a, S) - 1) : l[j] \notin S
<1> DEFINE T == {i \in a..k : l[i] \in S}
           Q(i) == l[i] \in S /\ \A j \in a..(i - 1) : l[j] \notin S
<1>1. T \subseteq Nat /\ k \in T
  OBVIOUS
<1>2. PICK i \in T : \A y \in T : i <= y
  BY <1>1, LeastNumber
<1>3. i \in a..k /\ i \in a..Len(l) /\ l[i] \in S
  OBVIOUS
<1>4. ASSUME NEW j \in a..(i - 1) PROVE l[j] \notin S
  <2>1. j \in a..k /\ j < i /\ j \in Nat /\ i \in Nat
    BY <1>3
  <2>2. j \in T => i <= j
    BY <1>2
  <2>3. j \in T <=> l[j] \in S
    BY <2>1
  <2> QED BY <2>1, <2>2, <2>3
<1>5. i \in a..Len(l) /\ Q(i)
  BY <1>3, <1>4
<1>6. First(l, a, S) = CHOOSE x \in a..Len(l) : Q(x)
  BY DEF First
<1>7. DEFINE f == First(l, a, S)
<1>8. f \in a..Len(l) /\ Q(f)
  <2> HIDE DEF Q
  <2> QED BY <1>5, <1>6
<1>9. f <= i
  <2>1. ~(i \in a..(f - 1))
    BY <1>3, <1>8
  <2> QED BY <1>3, <1>8, <2>1
<1> QED BY <1>3, <1>8, <1>9

LEMMA MessageShape ==
  ASSUME line \in Lines, IsMessage(line, TRUE)
  PROVE  Shaped
<1> DEFINE c == CommandAt(line)
           B == {" "}
           Ends == {" ", "eol"}
           Space(i) == line[i] = " "
           Prefixed == line[1] = ":"
<1>0. Len(line) \in Nat /\ Len(line) >= 1 /\ line[Len(line)] \in Ends
  <2>1. Len(line) \in Nat /\ Len(line) >= 1
    BY LineFacts, LexerAssumption
  <2>2. line[Len(line)] = "eol"
    BY LineFacts
  <2> QED BY <2>1, <2>2
<1>1. \A i \in 1..(Len(line) - 1) : line[i] \notin {"eol", "nul"}
  BY DEF IsMessage
<1>2. /\ Prefixed => /\ line[2] \in Words
                     /\ \E i \in 3..(Len(line) - 1) : Space(i)
      /\ c < Len(line) /\ c < CommandAfter(line)
      /\ \A i \in c..(CommandAfter(line) - 1) : line[i] \in Words
  BY DEF IsMessage
<1>3. /\ Prefixed => c = First(line, 1, B) + 1
      /\ ~Prefixed => c = 1
      /\ CommandAfter(line) = First(line, c, Ends)
  BY DEF CommandAt, CommandAfter
<1>4. Prefixed => ~Space(1)
  OBVIOUS
<1>5. \A i : line[i] \in Words => ~Space(i)
  BY DEF Words
<1>6. \A i : Space(i) <=> line[i] \in B
  OBVIOUS
<1> HIDE DEF c, B, Ends, Space, Prefixed
<1>7. ASSUME Prefixed
      PROVE  /\ c \in Nat /\ c >= 4 /\ Space(c - 1)
             /\ \A i \in 3..(c - 2) : ~Space(i)
  <2> DEFINE f == First(line, 1, B)
  <2>1. c = f + 1 /\ \A i : Space(i) <=> line[i] \in B
    BY <1>3, <1>6, <1>7
  <2>2. PICK i \in 3..(Len(line) - 1) : Space(i)
    BY <1>2, <1>7
  <2>3. i \in Nat /\ 1 <= i /\ i <= Len(line) /\ line[i] \in B /\ 1 \in Nat
    BY <1>0, <2>1, <2>2
  <2>4. f \in 1..i /\ line[f] \in B /\ \A j \in 1..(f - 1) : line[j] \notin B
    BY <1>0, <2>3, FirstFacts
  <2> HIDE DEF f
  <2>5. Space(f) /\ \A j \in 1..(f - 1) : ~Space(j)
    BY <2>1, <2>4
  <2>6. f # 1 /\ f # 2
    BY <1>2, <1>4, <1>5, <1>7, <2>5
  <2>7. f \in Nat /\ f >= 3
    BY <2>3, <2>4, <2>6
  <2>8. c \in Nat /\ c >= 4 /\ c - 1 = f
    BY <2>1, <2>7
  <2>9. \A j \in 3..(c - 2) : j \in 1..(f - 1)
    BY <2>1, <2>7
  <2> QED BY <2>5, <2>8, <2>9
<1>8. c \in Nat \ {0} /\ c < Len(line)
  BY <1>2, <1>3, <1>7
<1>9. line[c] \in Words
  <2>1. c \in Nat /\ c <= Len(line)
    BY <1>0, <1>8
  <2>2. First(line, c, Ends) \in c..Len(line)
    BY <1>0, <2>1, FirstFacts
  <2>3. c \in c..(CommandAfter(line) - 1)
    BY <1>2, <1>3, <1>0, <2>1, <2>2
  <2> QED BY <1>2, <2>3
<1> QED BY <1>1, <1>2, <1>3, <1>7, <1>8, <1>9 DEF Shaped, c, Space, Prefixed

(* Storing a string keeps all the others but the one that was in the field. *)
LEMMA FieldKeeps ==
  ASSUME msg \in Messages, NEW s \in Intervals, NEW m
  PROVE  /\ m = [msg EXCEPT !.source = s] =>
              /\ Strings(msg) \subseteq Strings(m) \cup {msg.source}
              /\ s \in Strings(m)
         /\ m = [msg EXCEPT !.user = s] =>
              /\ Strings(msg) \subseteq Strings(m) \cup {msg.user}
              /\ s \in Strings(m)
         /\ m = [msg EXCEPT !.host = s] =>
              /\ Strings(msg) \subseteq Strings(m) \cup {msg.host}
              /\ s \in Strings(m)
         /\ m = [msg EXCEPT !.trailing = s] =>
              /\ Strings(msg) \subseteq Strings(m) \cup {msg.trailing}
              /\ s \in Strings(m)
         /\ m = [msg EXCEPT !.params = Append(@, s)] =>
              Strings(msg) \subseteq Strings(m) /\ s \in Strings(m)
<1>1. m = [msg EXCEPT !.source = s] =>
        /\ Strings(msg) \subseteq Strings(m) \cup {msg.source}
        /\ s \in Strings(m)
  BY DEF Messages, Strings
<1>2. m = [msg EXCEPT !.user = s] =>
        /\ Strings(msg) \subseteq Strings(m) \cup {msg.user}
        /\ s \in Strings(m)
  BY DEF Messages, Strings
<1>3. m = [msg EXCEPT !.host = s] =>
        /\ Strings(msg) \subseteq Strings(m) \cup {msg.host}
        /\ s \in Strings(m)
  BY DEF Messages, Strings
<1>4. m = [msg EXCEPT !.trailing = s] =>
        /\ Strings(msg) \subseteq Strings(m) \cup {msg.trailing}
        /\ s \in Strings(m)
  BY DEF Messages, Strings
<1>5. ASSUME m = [msg EXCEPT !.params = Append(@, s)]
      PROVE  Strings(msg) \subseteq Strings(m) /\ s \in Strings(m)
  <2>1. /\ msg.params \in Seq(Intervals) /\ m.params = Append(msg.params, s)
        /\ m.source = msg.source /\ m.user = msg.user /\ m.host = msg.host
        /\ m.trailing = msg.trailing
    BY <1>5 DEF Messages
  <2>2. /\ Len(m.params) = Len(msg.params) + 1 /\ Len(msg.params) \in Nat
        /\ \A i \in 1..Len(msg.params) : m.params[i] = msg.params[i]
        /\ m.params[Len(msg.params) + 1] = s
    BY <2>1, AppendProperties
  <2>3. 1..Len(msg.params) \subseteq 1..Len(m.params)
        /\ Len(msg.params) + 1 \in 1..Len(m.params)
    BY <2>2
  <2>4. Strings(msg) \subseteq Strings(m)
    BY <2>1, <2>2, <2>3 DEF Strings
  <2>5. s \in Strings(m)
    BY <2>2, <2>3 DEF Strings
  <2> QED BY <2>4, <2>5
<1> QED BY <1>1, <1>2, <1>3, <1>4, <1>5

(* The current start condition after each rule.                            *)
LEMMA PushStart ==
  ASSUME TypeOK, NEW s \in Conditions, Push(s)
  PROVE  Start' = s
<1>1. Len(stack') = Len(stack) + 1 /\ stack'[Len(stack) + 1] = s
  BY PushFacts
<1> QED BY <1>1 DEF Start

LEMMA PopStart ==
  ASSUME TypeOK, NEW n \in Nat, n < Len(stack), Pop(n)
  PROVE  Start' = stack[Len(stack) - n]
<1>1. /\ Len(stack') = Len(stack) - n
      /\ \A i \in 1..(Len(stack) - n) : stack'[i] = stack[i]
  BY PopFacts DEF Pop
<1>2. Len(stack) \in Nat
  BY DEF TypeOK
<1> QED BY <1>1, <1>2 DEF Start

LEMMA StartIs ==
  ASSUME IndInv
  PROVE  /\ Start \in Conditions /\ TypeOK /\ StackSound /\ msg \in Messages
         /\ Start = "INITIAL" => Len(stack) = 1
         /\ Start \in {"PREFIX", "PARAMS", "GENERIC_PARAMS"} => Len(stack) = 2
         /\ Start \in {"PREFIX_OPT", "PARAM"} => Len(stack) = 3
         /\ Start = "TRAILING" => Len(stack) = 4
<1>1. TypeOK /\ StackSound /\ msg \in Messages
  BY DEF IndInv, TypeOK
<1>2. stack \in Seq(Conditions) /\ Len(stack) \in 1..Len(stack)
  BY <1>1 DEF TypeOK, StackSound
<1>3. Start \in Conditions
  BY <1>2 DEF Start
<1> QED BY <1>1, <1>3, StartFacts

LEMMA WordFacts ==
  /\ ":" \notin Words /\ " " \notin Words /\ "eol" \notin Words
  /\ Words \subseteq Begins["INITIAL"] /\ ":" \in Begins["INITIAL"]
  /\ Words \subseteq Begins["PREFIX"] /\ " " \in Begins["PREFIX_OPT"]
  /\ "eol" \in Begins["PARAMS"] /\ "eol" \in Begins["GENERIC_PARAMS"]
BY DEF Words, Begins

(* Rules that copy nothing: they move along the line as its shape says.    *)
LEMMA QuietPlaced ==
  ASSUME IndInv, Shaped, Placed,
         Prefix \/ KnownCommand \/ PrefixEnd \/ ParamStart \/ TrailingStart
         \/ Echo
  PROVE  Placed'
<1> DEFINE c == CommandAt(line)
<1>1. /\ Scan /\ line' = line /\ pos' = pos + 1 /\ msg' = msg
      /\ command' = command
  BY DEF Prefix, KnownCommand, PrefixEnd, ParamStart, TrailingStart, Echo,
         At, Advance, input
<1>2. pos \in 1..Len(line) /\ Len(line) \in Nat /\ c \in Nat
  <2>1. pos \in 1..Len(line) /\ Len(line) \in Nat
    BY <1>1, StartIs, ScanFacts
  <2>2. CommandAt(line) \in Nat
    BY DEF Shaped
  <2> QED BY <2>1, <2>2
<1>3. /\ Start = "INITIAL" => pos = c \/ (pos = 1 /\ NoPrefix)
      /\ Start = "PREFIX" => pos = 2 /\ line[1] = ":" /\ NoPrefix
      /\ Start = "PREFIX_OPT" =>
           /\ line[1] = ":" /\ pos \in 3..(c - 1)
           /\ Copied(msg.user, "!{user}") /\ Copied(msg.host, "@{host}")
      /\ Start \in {"INITIAL", "PREFIX", "PREFIX_OPT"} => command = Null
      /\ msg.trailing # Null =>
           Start \in {"PARAMS", "GENERIC_PARAMS"} /\ line[pos] = "eol"
  BY DEF Placed
<1>4. /\ line[c] \in Words
      /\ line[1] = ":" => /\ line[2] \in Words
                          /\ \A i \in 3..(c - 2) : line[i] # " "
      /\ line[1] # ":" => c = 1
  BY DEF Shaped
<1>5. c' = c
  BY <1>1
<1>6. CASE Prefix
  <2>1. Start = "INITIAL" /\ line[pos] = ":" /\ Push("PREFIX")
    BY <1>6 DEF Prefix, At, Here
  <2>2. Start' = "PREFIX"
    BY <2>1, PushStart, StartIs, ConditionsAre
  <2>3. pos = 1 /\ NoPrefix /\ msg.trailing = Null /\ command = Null
    BY <1>3, <1>4, <2>1, WordFacts
  <2> QED BY <1>1, <2>1, <2>2, <2>3 DEF Placed, NoPrefix
<1>7. CASE KnownCommand
  <2>1. Start = "INITIAL" /\ Push("PARAMS")
    BY <1>7 DEF KnownCommand, At
  <2>2. Start' = "PARAMS"
    BY <2>1, PushStart, StartIs, ConditionsAre
  <2>3. msg.trailing = Null
    BY <1>3, <2>1
  <2> QED BY <1>1, <2>2, <2>3 DEF Placed
<1>8. CASE PrefixEnd
  <2>1. Start = "PREFIX_OPT" /\ line[pos] = " " /\ Pop(2)
    BY <1>8 DEF PrefixEnd, At, Here
  <2>2. Start' = "INITIAL"
    <3>1. Len(stack) = 3 /\ stack[1] = "INITIAL"
      BY <2>1, StartIs DEF StackSound
    <3>2. 2 \in Nat /\ 2 < Len(stack) /\ TypeOK
      BY <3>1, StartIs
    <3>3. Start' = stack[Len(stack) - 2]
      BY <2>1, <3>2, PopStart
    <3> QED BY <3>1, <3>3
  <2>3. pos' = c
    <3>1. pos \in 3..(c - 1) /\ pos \notin 3..(c - 2)
      BY <1>3, <1>4, <2>1
    <3> HIDE DEF c
    <3> QED BY <1>1, <1>2, <3>1
  <2>4. msg.trailing = Null /\ command = Null
    BY <1>3, <2>1
  <2> QED BY <1>1, <2>2, <2>3, <2>4 DEF Placed
<1>9. CASE ParamStart
  <2>1. /\ Start \in {"PARAMS", "GENERIC_PARAMS"} /\ line[pos] = " "
        /\ Push("PARAM")
    BY <1>9 DEF ParamStart, At, Here
  <2>2. Start' = "PARAM"
    BY <2>1, PushStart, StartIs, ConditionsAre
  <2>3. msg.trailing = Null
    BY <1>3, <2>1
  <2> QED BY <1>1, <2>2, <2>3 DEF Placed
<1>10. CASE TrailingStart
  <2>1. Start = "PARAM" /\ Push("TRAILING")
    BY <1>10 DEF TrailingStart, At
  <2>2. Start' = "TRAILING"
    BY <2>1, PushStart, StartIs, ConditionsAre
  <2>3. msg.trailing = Null
    BY <1>3, <2>1
  <2> QED BY <1>1, <2>2, <2>3 DEF Placed
<1>11. CASE Echo
  <2>1. Start' = Start /\ line[pos] \notin Begins[Start]
    BY <1>11 DEF Echo, Start, Here
  <2>2. Start # "INITIAL"
    BY <1>3, <1>4, <2>1, WordFacts
  <2>3. Start # "PREFIX"
    BY <1>3, <1>4, <2>1, WordFacts
  <2>4. msg.trailing = Null
    BY <1>3, <2>1, WordFacts
  <2>5. ASSUME Start = "PREFIX_OPT"
        PROVE  /\ pos' \in 3..(c - 1) /\ Copied(msg.user, "!{user}")'
               /\ Copied(msg.host, "@{host}")'
    <3>1. line[1] = ":" /\ pos \in 3..(c - 1) /\ line[pos] # " "
      BY <1>3, <2>1, <2>5, WordFacts
    <3>2. line[c - 1] = " "
      BY <3>1 DEF Shaped
    <3>3. pos # c - 1
      BY <3>1, <3>2
    <3>4. /\ pos' \in 3..(c - 1)
          /\ \A k \in 3..(pos - 1) : k \in 3..(pos' - 1)
      <4>1. pos \in 3..(c - 1) /\ pos # c - 1 /\ c \in Nat /\ pos' = pos + 1
        BY <1>1, <1>2, <3>1, <3>3
      <4> HIDE DEF c
      <4>2. pos \in Nat /\ pos' \in Nat /\ pos < pos' /\ pos >= 3
            /\ pos' <= c - 1
        BY <4>1
      <4> QED BY <4>1, <4>2
    <3>5. Copied(msg.user, "!{user}") /\ Copied(msg.host, "@{host}")
      BY <1>3, <2>5
    <3> QED BY <1>1, <3>4, <3>5 DEF Copied
  <2> QED BY <1>1, <1>3, <1>5, <2>1, <2>2, <2>3, <2>4, <2>5 DEF Placed
<1> QED BY <1>6, <1>7, <1>8, <1>9, <1>10, <1>11

LEMMA QuietLeak ==
  ASSUME IndInv, Shaped, Placed, Owned,
         Prefix \/ KnownCommand \/ PrefixEnd \/ ParamStart \/ TrailingStart
         \/ Echo
  PROVE  Placed' /\ Owned'
<1>1. UNCHANGED <<line, msg, command, heap>>
  BY DEF Prefix, KnownCommand, PrefixEnd, ParamStart, TrailingStart, Echo,
         Advance, input
<1>2. Owned'
  BY <1>1 DEF Owned, Reachable
<1> QED BY <1>2, QuietPlaced

(* A copied string is stored where no other was, or over one of a literal  *)
(* that comes again.                                                       *)
LEMMA StoreOwned ==
  ASSUME IndInv, Owned, Scan, NEW e \in pos..Len(line), Strndup(e),
         command' = command, line' = line, NEW old,
         Strings(msg) \subseteq Strings(msg') \cup {old},
         <<pos, e>> \in Strings(msg'),
         old = Null \/ old \in Overwritten(line)
  PROVE  Owned'
<1>1. heap' = heap \cup {<<pos, e>>} /\ <<pos, e>> # Null
  BY ScanFacts DEF IndInv, Strndup
<1>2. /\ Null \notin heap
      /\ heap \subseteq Strings(msg) \cup {command} \cup Overwritten(line)
  BY DEF Owned, Reachable
<1>3. Null \notin heap'
  BY <1>1, <1>2
<1>4. heap' \subseteq Strings(msg') \cup {command} \cup Overwritten(line)
  BY <1>1, <1>2
<1> QED BY <1>3, <1>4 DEF Owned, Reachable

LEMMA SourceLeak ==
  ASSUME IndInv, Shaped, Placed, Owned, Source
  PROVE  Placed' /\ Owned'
<1> DEFINE c == CommandAt(line)  e == SourceEnd  x == <<pos, e>>
<1>1. /\ Scan /\ Start = "PREFIX" /\ Here \in Words \cup Literals
      /\ Push("PREFIX_OPT") /\ msg' = [msg EXCEPT !.source = x]
      /\ Strndup(e) /\ line' = line /\ pos' = e + 1 /\ command' = command
  BY DEF Source, At, Advance, input
<1>2. /\ pos = 2 /\ line[1] = ":" /\ msg.source = Null /\ msg.user = Null
      /\ msg.host = Null /\ command = Null /\ msg.trailing = Null
  BY <1>1 DEF Placed, NoPrefix
<1>3. TypeOK /\ line \in Lines /\ msg \in Messages /\ pos \in 1..Len(line)
      /\ Len(line) \in Nat
  BY <1>1, StartIs, ScanFacts DEF TypeOK
<1>4. e \in pos..Len(line)
  BY <1>1, <1>3, NameEndFacts
<1>5. x \in Intervals
  BY <1>1, <1>3, <1>4, ScanFacts
<1>6. Here \in Words /\ line[pos] \in Words
  BY <1>2 DEF Shaped, Here
<1>7. \A i \in 2..e : line[i] \in Words
  BY <1>2, <1>3, <1>6, RunEndFacts DEF SourceEnd
<1>8. c \in Nat /\ c >= 4 /\ line[c - 1] \notin Words
  BY <1>2, WordFacts DEF Shaped
<1>9. pos' \in 3..(c - 1)
  <2> HIDE DEF c, e
  <2>1. e \in Nat /\ e >= 2 /\ c \in Nat /\ c >= 4
    BY <1>2, <1>3, <1>4, <1>8
  <2>2. ~(c - 1 \in 2..e)
    BY <1>7, <1>8
  <2> QED BY <1>1, <2>1, <2>2
<1>10. Start' = "PREFIX_OPT"
  BY <1>1, <1>3, PushStart, ConditionsAre
<1>11. msg'.user = Null /\ msg'.host = Null /\ msg'.trailing = Null
  BY <1>1, <1>2, <1>3 DEF Messages
<1>12. Placed'
  BY <1>1, <1>2, <1>9, <1>10, <1>11 DEF Placed, Copied
<1>13. Strings(msg) \subseteq Strings(msg') \cup {msg.source}
       /\ x \in Strings(msg')
  <2> HIDE DEF x
  <2> QED BY <1>1, <1>3, <1>5, FieldKeeps
<1>14. Owned'
  BY <1>1, <1>2, <1>4, <1>13, StoreOwned
<1> QED BY <1>12, <1>14

(* A literal of the mask found again replaces the one before.              *)
LEMMA RepeatedMask ==
  ASSUME Shaped, NEW s \in Literals, pos \in 3..(CommandAt(line) - 2),
         line[pos] = s, NEW f, Copied(f, s)
  PROVE  f = Null \/ f \in Overwritten(line)
<1> SUFFICES ASSUME f # Null PROVE f \in Overwritten(line)
  OBVIOUS
<1> DEFINE c == CommandAt(line)
<1>1. c \in Nat
  BY DEF Shaped
<1>2. PICK k \in 3..(pos - 1) : f = <<k, k>> /\ line[k] = s
  BY DEF Copied
<1>3. k \in 3..(c - 2) /\ pos \in (k + 1)..(c - 2)
  <2>1. pos \in 3..(c - 2)
    OBVIOUS
  <2> HIDE DEF c
  <2> QED BY <1>1, <1>2, <2>1
<1> QED BY <1>2, <1>3 DEF Overwritten

LEMMA MaskLeak ==
  ASSUME IndInv, Shaped, Placed, Owned, User \/ Host
  PROVE  Placed' /\ Owned'
<1> DEFINE c == CommandAt(line)  x == <<pos, pos>>
<1>1. /\ Scan /\ Start = "PREFIX_OPT" /\ Start' = Start
      /\ Strndup(pos) /\ line' = line /\ pos' = pos + 1 /\ command' = command
  BY DEF User, Host, At, Advance, input, Start
<1>2. /\ \/ line[pos] = "!{user}" /\ msg' = [msg EXCEPT !.user = x]
         \/ line[pos] = "@{host}" /\ msg' = [msg EXCEPT !.host = x]
      /\ line[pos] # " "
  BY DEF User, Host, Here
<1>3. /\ line[1] = ":" /\ pos \in 3..(c - 1) /\ command = Null
      /\ Copied(msg.user, "!{user}") /\ Copied(msg.host, "@{host}")
      /\ msg.trailing = Null
  BY <1>1 DEF Placed
<1>4. TypeOK /\ msg \in Messages /\ pos \in pos..Len(line)
  BY <1>1, StartIs, ScanFacts
<1>5. x \in Intervals
  <2>1. pos \in pos..Len(line)
    BY <1>4
  <2> QED BY <1>1, <1>4, <2>1, ScanFacts
<1>6. c \in Nat
  BY DEF Shaped
<1>7. pos # c - 1
  BY <1>2, <1>3 DEF Shaped
<1>8. pos \in 3..(c - 1) /\ pos' = pos + 1
  BY <1>1, <1>3
<1>9. /\ pos \in 3..(c - 2) /\ pos' \in 3..(c - 1) /\ pos \in 3..(pos' - 1)
      /\ \A k \in 3..(pos - 1) : k \in 3..(pos' - 1)
  <2> HIDE DEF c
  <2>1. pos \in Nat /\ pos >= 3 /\ pos <= c - 2
    BY <1>6, <1>7, <1>8
  <2>2. pos' \in Nat /\ pos < pos' /\ pos' >= 3 /\ pos' <= c - 1
    BY <1>6, <1>8, <2>1
  <2>3. pos \in 3..(c - 2) /\ pos' \in 3..(c - 1)
    BY <1>6, <2>1, <2>2
  <2>4. ASSUME NEW k \in 3..(pos - 1) PROVE k \in 3..(pos' - 1)
    <3>1. k \in Int /\ 3 <= k /\ k <= pos - 1
      BY <2>1
    <3> QED BY <1>8, <2>1, <3>1, <1>6
  <2>5. pos \in 3..(pos' - 1)
    BY <1>6, <1>8, <2>1
  <2> QED BY <2>3, <2>4, <2>5
<1>10. CASE line[pos] = "!{user}" /\ msg' = [msg EXCEPT !.user = x]
  <2>1. msg.user = Null \/ msg.user \in Overwritten(line)
    BY <1>3, <1>9, <1>10, RepeatedMask DEF Literals
  <2>2. /\ msg'.user = x /\ msg'.host = msg.host /\ msg'.trailing = Null
    BY <1>3, <1>4, <1>10 DEF Messages
  <2>3. Copied(msg.user, "!{user}")' /\ Copied(msg.host, "@{host}")'
    BY <1>1, <1>3, <1>9, <1>10, <2>2 DEF Copied
  <2>4. Placed'
    BY <1>1, <1>3, <1>9, <2>2, <2>3 DEF Placed
  <2>5. Strings(msg) \subseteq Strings(msg') \cup {msg.user}
        /\ x \in Strings(msg')
    <3> HIDE DEF x
    <3> QED BY <1>4, <1>5, <1>10, FieldKeeps
  <2> QED BY <1>1, <1>4, <2>1, <2>4, <2>5, StoreOwned
<1>11. CASE line[pos] = "@{host}" /\ msg' = [msg EXCEPT !.host = x]
  <2>1. msg.host = Null \/ msg.host \in Overwritten(line)
    BY <1>3, <1>9, <1>11, RepeatedMask DEF Literals
  <2>2. /\ msg'.host = x /\ msg'.user = msg.user /\ msg'.trailing = Null
    BY <1>3, <1>4, <1>11 DEF Messages
  <2>3. Copied(msg.user, "!{user}")' /\ Copied(msg.host, "@{host}")'
    BY <1>1, <1>3, <1>9, <1>11, <2>2 DEF Copied
  <2>4. Placed'
    BY <1>1, <1>3, <1>9, <2>2, <2>3 DEF Placed
  <2>5. Strings(msg) \subseteq Strings(msg') \cup {msg.host}
        /\ x \in Strings(msg')
    <3> HIDE DEF x
    <3> QED BY <1>4, <1>5, <1>11, FieldKeeps
  <2> QED BY <1>1, <1>4, <2>1, <2>4, <2>5, StoreOwned
<1> QED BY <1>2, <1>10, <1>11

(* The start condition a parameter or the trailing text was read from.     *)
LEMMA AfterParam ==
  ASSUME IndInv, Middle \/ Trailing
  PROVE  Start' \in {"PARAMS", "GENERIC_PARAMS"}
<1>1. TypeOK /\ StackSound
  BY StartIs
<1>2. CASE Middle
  <2>1. Start = "PARAM" /\ Pop(1)
    BY <1>2 DEF Middle, At
  <2>2. Len(stack) = 3 /\ 1 \in Nat /\ 1 < Len(stack)
    BY <2>1, StartIs
  <2>3. Start' = stack[2]
    BY <1>1, <2>1, <2>2, PopStart
  <2>4. /\ stack[2] \in {"PREFIX", "PARAMS", "GENERIC_PARAMS"}
        /\ stack[2] # "PREFIX"
    BY <1>1, <2>1, <2>2, StartFacts DEF StackSound
  <2> QED BY <2>3, <2>4
<1>3. CASE Trailing
  <2>1. Start = "TRAILING" /\ Pop(2)
    BY <1>3 DEF Trailing, At
  <2>5. Len(stack) = 4
    BY <2>1, StartIs
  <2>2. Len(stack) = 4 /\ 2 \in Nat /\ 2 < Len(stack)
    BY <2>5
  <2>3. Start' = stack[2]
    BY <1>1, <2>1, <2>2, PopStart
  <2>4. /\ stack[2] \in {"PREFIX", "PARAMS", "GENERIC_PARAMS"}
        /\ stack[2] # "PREFIX"
    BY <1>1, <2>2 DEF StackSound
  <2> QED BY <2>3, <2>4
<1> QED BY <1>2, <1>3

LEMMA TextLeak ==
  ASSUME IndInv, Shaped, Placed, Owned, Middle \/ Trailing
  PROVE  Placed' /\ Owned'
<1>0. /\ Scan /\ line' = line /\ command' = command
      /\ Start' \in {"PARAMS", "GENERIC_PARAMS"}
  BY AfterParam DEF Middle, Trailing, At, Advance, input
<1>1. TypeOK /\ msg \in Messages /\ line \in Lines /\ pos \in 1..Len(line)
  BY <1>0, StartIs, ScanFacts DEF TypeOK
<1>2. msg.trailing = Null
  <2>1. Start \in {"PARAM", "TRAILING"}
    BY DEF Middle, Trailing, At
  <2> QED BY <2>1 DEF Placed
<1>3. CASE Middle
  <2> DEFINE e == RunEnd(MiddleRest)  x == <<pos, e>>
  <2>1. /\ msg' = [msg EXCEPT !.params = Append(@, x)] /\ Strndup(e)
        /\ line[pos] \in MiddleRest
    BY <1>3 DEF Middle, Here
  <2>2. e \in pos..Len(line)
    BY <1>1, <2>1, RunEndFacts
  <2>3. x \in Intervals
    BY <1>0, <1>1, <2>2, ScanFacts
  <2>4. msg'.trailing = Null
    BY <1>1, <1>2, <2>1 DEF Messages
  <2>5. Placed'
    BY <1>0, <2>4 DEF Placed
  <2>6. Strings(msg) \subseteq Strings(msg') \cup {Null} /\ x \in Strings(msg')
    <3> HIDE DEF x
    <3> QED BY <1>1, <2>1, <2>3, FieldKeeps
  <2> QED BY <1>0, <2>1, <2>2, <2>5, <2>6, StoreOwned
<1>4. CASE Trailing
  <2> DEFINE e == RunEnd(NotLineEnd)  x == <<pos, e>>
  <2>1. /\ msg' = [msg EXCEPT !.trailing = x] /\ Strndup(e)
        /\ line[pos] \in NotLineEnd /\ pos' = e + 1
    BY <1>4 DEF Trailing, Here, Advance
  <2>2. /\ e \in pos..Len(line) /\ \A i \in pos..e : line[i] \in NotLineEnd
        /\ e = Len(line) \/ line[e + 1] \notin NotLineEnd
    BY <1>1, <2>1, RunEndFacts
  <2>3. x \in Intervals
    BY <1>0, <1>1, <2>2, ScanFacts
  <2>4. line[pos'] = "eol"
    <3> DEFINE n == Len(line)
    <3>1. n \in Nat /\ line[n] = "eol" /\ \A i \in 1..n : line[i] \in Pieces
      <4>1. n \in Nat /\ n >= 1
        BY <1>1, LineFacts, LexerAssumption
      <4>2. line[n] = "eol" /\ line \in Seq(Alphabet \cup Oddities)
        BY <1>1, LineFacts
      <4>3. \A i \in 1..n : line[i] \in Alphabet \cup Oddities
        BY <4>2
      <4> QED BY <4>1, <4>2, <4>3, LexerAssumption
    <3>2. /\ "eol" \notin NotLineEnd
          /\ \A p \in Pieces \ NotLineEnd : p \in {"eol", "nul"}
      BY DEF NotLineEnd
    <3>3. \A i \in 1..(n - 1) : line[i] \notin {"eol", "nul"}
      BY DEF Shaped
    <3>4. pos \in Nat /\ pos >= 1
      BY <1>1
    <3> DEFINE Stops(i) == line[i] \in {"eol", "nul"}
    <3>5. \A i \in 1..(n - 1) : ~Stops(i)
      BY <3>3
    <3> HIDE DEF e, n, Stops
    <3>6. e \in Nat /\ e >= pos /\ e <= n
      BY <2>2, <3>1, <3>4 DEF n
    <3>7. line[e] \in NotLineEnd
      BY <2>2, <3>4, <3>6
    <3>8. e # n
      BY <3>1, <3>2, <3>7
    <3>9. e + 1 \in 1..n /\ line[e + 1] \notin NotLineEnd
      BY <2>2, <3>1, <3>4, <3>6, <3>8 DEF n
    <3>10. Stops(e + 1)
      BY <3>1, <3>2, <3>9 DEF Stops
    <3>11. e + 1 = n
      BY <3>1, <3>5, <3>9, <3>10
    <3> QED BY <2>1, <3>1, <3>11
  <2>5. Placed'
    BY <1>0, <2>4 DEF Placed
  <2>6. Strings(msg) \subseteq Strings(msg') \cup {msg.trailing}
        /\ x \in Strings(msg')
    <3> HIDE DEF x
    <3> QED BY <1>1, <2>1, <2>3, FieldKeeps
  <2> QED BY <1>0, <1>2, <2>1, <2>2, <2>5, <2>6, StoreOwned
<1> QED BY <1>3, <1>4

LEMMA CommandLeak ==
  ASSUME IndInv, Shaped, Placed, Owned, Command
  PROVE  Placed' /\ Owned'
<1>1. /\ Scan /\ Start = "INITIAL" /\ Push("GENERIC_PARAMS")
      /\ Strndup(CommandEnd) /\ line' = line /\ msg' = msg
      /\ command' = <<pos, CommandEnd>> /\ Here \in Words \cup Literals
  BY DEF Command, At, Advance, input
<1>2. command = Null /\ msg.trailing = Null
  BY <1>1 DEF Placed
<1>3. TypeOK /\ line \in Lines /\ pos \in 1..Len(line)
  BY <1>1, StartIs, ScanFacts DEF TypeOK
<1>4. CommandEnd \in pos..Len(line)
  BY <1>1, <1>3, NameEndFacts
<1>5. command' # Null
  BY <1>1, <1>3, <1>4, ScanFacts
<1>6. Start' = "GENERIC_PARAMS"
  BY <1>1, <1>3, PushStart, ConditionsAre
<1>7. heap' = heap \cup {command'}
  BY <1>1 DEF Strndup
<1>8. Owned'
  BY <1>1, <1>2, <1>5, <1>7 DEF Owned, Reachable
<1> QED BY <1>1, <1>2, <1>6, <1>8 DEF Placed

(* By each way out the strings of the message are freed, and the command's *)
(* where there is one.                                                     *)
LEMMA LastLeak ==
  ASSUME Placed, Owned, Skip \/ Signal \/ EndOfInput
  PROVE  heap' \subseteq Overwritten(line)
<1>1. CASE Skip
  <2>1. Start = "INITIAL" /\ heap' = heap \ Strings(msg)
    BY <1>1 DEF Skip, At, Finish
  <2>2. command = Null
    BY <2>1 DEF Placed
  <2> QED BY <2>1, <2>2 DEF Owned, Reachable
<1>2. CASE Signal \/ EndOfInput
  <2>1. heap' = heap \ (Strings(msg) \cup {command})
    BY <1>2 DEF Signal, EndOfInput, Finish
  <2> QED BY <2>1 DEF Owned, Reachable
<1> QED BY <1>1, <1>2

LEMMA InitLeak == Init => LeakInv
<1> SUFFICES ASSUME Init PROVE LeakInv
  OBVIOUS
<1>1. /\ Start = "INITIAL" /\ pos = 1 /\ command = Null /\ NoPrefix
      /\ msg.trailing = Null /\ heap = {} /\ phase = "start"
  BY DEF Init, Start, NoMessage, NoPrefix
<1> QED BY <1>1 DEF LeakInv, Placed, Owned

LEMMA StepLeak == IndInv /\ LeakInv /\ [Next]_vars => LeakInv'
<1> SUFFICES ASSUME IndInv, LeakInv, [Next]_vars, IsMessage(line, TRUE),
                    line' = line
             PROVE  /\ phase' \in {"start", "scan"} => Placed' /\ Owned'
                    /\ phase' = "end" /\ result' # "overrun"
                         => heap' \subseteq Overwritten(line)
  <2>1. [Next]_vars => line' = line
    BY DEF Next, Rule, vars, input, InitFails, BeginScan, EndParse, Prefix,
           KnownCommand, Command, Skip, Source, User, Host, PrefixEnd,
           ParamStart, TrailingStart, Middle, Overrun, Trailing, Signal, Echo,
           EndOfInput, Advance, Finish
  <2> QED BY <2>1 DEF LeakInv
<1>1. line \in Lines
  BY DEF IndInv, TypeOK
<1>2. Shaped
  BY <1>1, MessageShape
<1>3. /\ phase \in {"start", "scan"} => Placed /\ Owned
      /\ phase = "end" /\ result # "overrun"
           => heap \subseteq Overwritten(line)
  BY DEF LeakInv
<1>4. CASE Prefix \/ KnownCommand \/ PrefixEnd \/ ParamStart \/ TrailingStart
           \/ Echo
  <2>1. phase = "scan" /\ phase' = "scan"
    BY <1>4 DEF Prefix, KnownCommand, PrefixEnd, ParamStart, TrailingStart,
                Echo, At, Scan, Advance
  <2> QED BY <1>2, <1>3, <1>4, <2>1, QuietLeak
<1>5. CASE Source \/ User \/ Host \/ Middle \/ Trailing \/ Command
  <2>1. phase = "scan" /\ phase' = "scan"
    BY <1>5 DEF Source, User, Host, Middle, Trailing, Command, At, Scan,
                Advance
  <2> QED
    BY <1>2, <1>3, <1>5, <2>1, SourceLeak, MaskLeak, TextLeak, CommandLeak
<1>6. CASE Skip \/ Signal \/ EndOfInput
  <2>1. phase = "scan" /\ phase' = "end"
    BY <1>6 DEF Skip, Signal, EndOfInput, At, Scan, Finish
  <2> QED BY <1>3, <1>6, <2>1, LastLeak
<1>7. CASE Overrun
  BY <1>7 DEF Overrun
<1>8. CASE BeginScan
  <2>1. /\ UNCHANGED <<line, pos, stack, command, msg, heap>>
        /\ phase = "start" /\ phase' = "scan"
    BY <1>8 DEF BeginScan, input
  <2> QED
    BY <1>3, <2>1 DEF Placed, Owned, Reachable, NoPrefix, Copied, Start
<1>9. CASE InitFails \/ EndParse
  BY <1>9 DEF InitFails, EndParse
<1>10. CASE UNCHANGED vars
  <2>1. UNCHANGED <<line, pos, stack, command, msg, heap, phase, result>>
    BY <1>10 DEF vars
  <2> QED
    BY <1>3, <2>1 DEF Placed, Owned, Reachable, NoPrefix, Copied, Start
<1> QED
  BY <1>4, <1>5, <1>6, <1>7, <1>8, <1>9, <1>10 DEF Next, Rule

(* By whichever way the scanner returns from a message, destroy_message    *)
(* and free have given back every string it copied, but the user or host   *)
(* that a second one in the mask replaced.                                 *)
THEOREM LeakedOnlyOverwritten == Spec => []OnlyOverwrittenLeaked
<1>1. LeakInv => OnlyOverwrittenLeaked
  BY DEF LeakInv, OnlyOverwrittenLeaked
<1>2. IndInv /\ LeakInv /\ [Next]_vars => LeakInv'
  BY StepLeak
<1> QED
  BY <1>1, <1>2, Inductive, InitLeak, PTL DEF Spec

-----------------------------------------------------------------------------
(***************************************************************************)
(* The content of a message.                                               *)
(***************************************************************************)

Space(i)   == line[i] = " "
Colon(i)   == line[i] = ":"
LineEnd(i) == line[i] \in {"eol", "nul"}
Word(i)    == line[i] \in Words

(* The parts of a message in the order they come in.                       *)
Layout ==
  LET n == Len(line)            c == CommandAt(line)
      d == CommandAfter(line)   q == ParamsAfter(line)
  IN  /\ n \in Nat /\ c \in Nat /\ d \in Nat /\ q \in Nat
      /\ 1 <= c /\ c < d /\ d <= q /\ q <= n
      /\ \A i \in c..(d - 1) : Word(i)
      /\ Space(d) \/ d = n
      /\ \A i \in d..(q - 1) :
           Space(i) => ~Space(i + 1) /\ ~LineEnd(i + 1) /\ ~Colon(i + 1)
      /\ q = n \/ (Space(q) /\ Colon(q + 1) /\ q + 2 < n)
      /\ line[n] = "eol" /\ \A i \in 1..(n - 1) : ~LineEnd(i)

SourceAfter == First(line, 2, Pieces \ Words)

SourceOf == IF line[1] = ":" THEN <<2, SourceAfter - 1>> ELSE Null

SourceLayout ==
  Colon(1) => /\ SourceAfter \in 3..(CommandAt(line) - 1)
              /\ \A i \in 2..(SourceAfter - 1) : Word(i)
              /\ ~Word(SourceAfter)

TrailingOf == IF ParamsAfter(line) = Len(line) THEN Null
              ELSE <<ParamsAfter(line) + 2, Len(line) - 1>>

(* The parameters stored are those of the line that end before x.          *)
ParamsUpTo(x) ==
  /\ \A i \in 1..Len(msg.params) :
       msg.params[i] \in ParamsOf(line) /\ msg.params[i][2] < x
  /\ \A p \in ParamsOf(line) :
       p[2] < x => \E i \in 1..Len(msg.params) : msg.params[i] = p
  /\ \A i, j \in 1..Len(msg.params) :
       i < j => msg.params[i][2] < msg.params[j][1]

(* What has been read when the scanner is at pos.                          *)
Progress ==
  LET n == Len(line)            c == CommandAt(line)
      d == CommandAfter(line)   q == ParamsAfter(line)
  IN  /\ Start = "INITIAL" =>
           \/ pos = c /\ msg.source = SourceOf
           \/ pos = 1 /\ Colon(1)
      /\ Start = "PREFIX_OPT" => msg.source = SourceOf
      /\ Start \in {"INITIAL", "PREFIX", "PREFIX_OPT"} => msg.params = <<>>
      /\ Start \in {"PARAMS", "GENERIC_PARAMS", "PARAM", "TRAILING"} =>
           /\ event = EventOf(line) /\ EventOf(line) \in installed
           /\ msg.source = SourceOf
      /\ Start \in {"PARAMS", "GENERIC_PARAMS"} =>
           /\ pos \in d..n /\ ParamsUpTo(pos)
           /\ \/ msg.trailing = Null /\ pos <= q /\ (Space(pos) \/ pos = n)
              \/ msg.trailing = TrailingOf /\ pos = n /\ q < n
      /\ Start = "PARAM" =>
           /\ pos - 1 \in d..q /\ pos <= n /\ Space(pos - 1)
           /\ ParamsUpTo(pos - 1)
      /\ Start = "TRAILING" => q < n /\ pos = q + 2 /\ ParamsUpTo(q)

Judged ==
  CASE result = "ok" -> /\ signal[1] = EventOf(line)
                        /\ EventOf(line) \in installed
                        /\ HasContent(signal[2], line)
    [] result = "skipped" -> EventOf(line) \notin installed
    [] result = "overrun" -> Cardinality(ParamsOf(line)) > ParamSlots
    [] OTHER -> FALSE

ReadInv ==
  IsMessage(line, FALSE) =>
    /\ phase \in {"start", "scan"} => Progress
    /\ phase = "end" => Judged

(* The kinds of pieces the rules of a start condition end at.              *)
LEMMA PieceKinds ==
  /\ \A i : Word(i) => ~Space(i) /\ ~LineEnd(i) /\ ~Colon(i)
  /\ \A i : Space(i) => ~LineEnd(i) /\ ~Colon(i)
  /\ \A i : Colon(i) => ~LineEnd(i)
BY DEF Word, Space, LineEnd, Colon, Words

(* A message of a server is laid out in these parts.                       *)
LEMMA MessageLayout ==
  ASSUME line \in Lines, IsMessage(line, FALSE)
  PROVE  Shaped /\ Layout /\ SourceLayout
<1> DEFINE n == Len(line)            c == CommandAt(line)
           d == CommandAfter(line)   q == ParamsAfter(line)
           Ends == {" ", "eol"}
           C == {i \in d..(n - 1) : Space(i) /\ Colon(i + 1)}
<1>1. IsMessage(line, TRUE)
  BY DEF IsMessage
<1>2. Shaped
  BY <1>1, MessageShape
<1>3. c \in Nat /\ 1 <= c /\ c < n
  <2>1. CommandAt(line) \in Nat \ {0} /\ CommandAt(line) < Len(line)
    BY <1>2 DEF Shaped
  <2> QED BY <2>1
<1>4. n \in Nat /\ line[n] = "eol"
  <2>1. n \in Nat
    BY LineFacts, LexerAssumption
  <2> QED BY <2>1, LineFacts
<1>5. /\ \A i \in 1..(n - 1) : ~LineEnd(i)
      /\ \A i \in c..(d - 1) : Word(i)
      /\ \A i \in d..(q - 1) : Space(i) => line[i + 1] \notin Ends
      /\ c < d /\ q + 2 # n
  BY DEF IsMessage, LineEnd, Word, Space
<1>6. d = First(line, c, Ends) /\ line[n] \in Ends
  BY <1>4 DEF CommandAfter
<1>7. q = IF C = {} THEN n ELSE CHOOSE i \in C : \A j \in C : i <= j
  BY DEF ParamsAfter, Space, Colon
<1>8. \A i : line[i] \in Ends <=> Space(i) \/ line[i] = "eol"
  BY DEF Space
<1>9. \A i : line[i] = "eol" => LineEnd(i)
  BY DEF LineEnd
<1>10. n = Len(line)
  OBVIOUS
<1>11. line[1] = ":" => Colon(1) /\ line[2] \in Words /\ c >= 4 /\ Space(c - 1)
  BY <1>2 DEF Shaped, Colon, Space
<1>12. Colon(1) <=> line[1] = ":"
  BY DEF Colon
<1> HIDE DEF Ends, c, d, q, n
<1>13. d \in c..n /\ line[d] \in Ends
  <2>1. c \in Nat /\ n \in Nat /\ c <= n /\ Len(line) \in Nat /\ n <= Len(line)
    BY <1>3, <1>4, <1>10
  <2>2. First(line, c, Ends) \in c..n /\ line[First(line, c, Ends)] \in Ends
    BY <1>6, <2>1, FirstFacts
  <2> QED BY <1>6, <2>2
<1>14. /\ q \in d..n
       /\ q = n \/ (Space(q) /\ Colon(q + 1) /\ q \in d..(n - 1))
       /\ \A i \in d..(q - 1) : ~(Space(i) /\ Colon(i + 1))
  <2>1. CASE C = {}
    BY <1>4, <1>13, <1>7, <2>1
  <2>2. CASE C # {}
    <3>1. C \subseteq Nat
      BY <1>3, <1>4, <1>13
    <3>2. q \in C /\ \A j \in C : q <= j
      <4>1. \E i \in C : \A j \in C : i <= j
        BY <2>2, <3>1, LeastNumber
      <4> HIDE DEF C
      <4> QED BY <1>7, <2>2, <4>1
    <3>3. q \in Nat /\ d \in Nat /\ q \in d..(n - 1) /\ q \in d..n
      BY <1>3, <1>4, <1>13, <3>2
    <3>4. ASSUME NEW i \in d..(q - 1) PROVE ~(Space(i) /\ Colon(i + 1))
      <4>1. i \in d..(n - 1) /\ ~(q <= i)
        BY <1>4, <3>3
      <4> QED BY <3>2, <4>1
    <3> QED BY <3>2, <3>3, <3>4
  <2> QED BY <2>1, <2>2
<1>15. d \in Nat /\ q \in Nat /\ d <= q /\ q <= n
  BY <1>3, <1>4, <1>13, <1>14
<1>16. Space(d) \/ d = n
  BY <1>3, <1>4, <1>5, <1>8, <1>9, <1>13, <1>15
<1>17. ASSUME NEW i \in d..(q - 1), Space(i)
       PROVE  ~Space(i + 1) /\ ~LineEnd(i + 1) /\ ~Colon(i + 1)
  <2>1. ~Space(i + 1) /\ line[i + 1] # "eol" /\ ~Colon(i + 1)
    BY <1>5, <1>8, <1>14, <1>17
  <2>2. i + 1 \in 1..n
    BY <1>3, <1>4, <1>13, <1>15
  <2>3. i + 1 # n
    BY <1>4, <2>1
  <2>4. i + 1 \in 1..(n - 1)
    BY <1>4, <2>2, <2>3
  <2> QED BY <1>5, <2>1, <2>4
<1>18. q = n \/ (Space(q) /\ Colon(q + 1) /\ q + 2 < n)
  <2>1. SUFFICES ASSUME q # n PROVE Space(q) /\ Colon(q + 1) /\ q + 2 < n
    OBVIOUS
  <2>2. Space(q) /\ Colon(q + 1) /\ q <= n - 1
    BY <1>4, <1>14, <1>15, <2>1
  <2>3. q + 1 # n
    BY <1>4, <1>9, <2>2, PieceKinds
  <2> QED BY <1>4, <1>5, <1>15, <2>2, <2>3
<1>19. SourceLayout
  <2> DEFINE S == Pieces \ Words  f == First(line, 2, S)
  <2>1. SUFFICES ASSUME Colon(1)
                 PROVE  /\ f \in 3..(c - 1)
                        /\ \A i \in 2..(f - 1) : Word(i)
                        /\ ~Word(f)
    BY DEF SourceLayout, SourceAfter, c
  <2>2. c >= 4 /\ Space(c - 1) /\ line[2] \in Words
    BY <1>11, <1>12, <2>1
  <2>3. \A i \in 1..n : line[i] \in Pieces
    <3>1. line \in Seq(Alphabet \cup Oddities)
      BY LineFacts
    <3> QED BY <1>10, <3>1, LexerAssumption
  <2>4. c - 1 \in 1..n /\ c - 1 \in Nat /\ 2 <= c - 1 /\ c - 1 <= n
    BY <1>3, <1>4, <2>2
  <2>5. line[c - 1] \in S
    BY <2>2, <2>3, <2>4, PieceKinds DEF Word
  <2> HIDE DEF S
  <2>6. /\ f \in 2..(c - 1) /\ line[f] \in S
        /\ \A j \in 2..(f - 1) : line[j] \notin S
    <3>1. 2 \in Nat /\ Len(line) \in Nat /\ c - 1 <= Len(line)
      BY <1>4, <1>10, <2>4
    <3> QED BY <2>4, <2>5, <3>1, FirstFacts
  <2> HIDE DEF f
  <2>7. ~Word(f) /\ Word(2)
    BY <2>2, <2>6 DEF S, Word
  <2>8. f # 2
    BY <2>7
  <2>9. f \in 3..(c - 1)
    BY <1>3, <2>6, <2>8
  <2>10. ASSUME NEW i \in 2..(f - 1) PROVE Word(i)
    <3>1. i \in 1..n
      BY <1>3, <1>4, <2>4, <2>9
    <3> QED BY <2>3, <2>6, <3>1 DEF S, Word
  <2> QED BY <2>7, <2>9, <2>10
<1>20. Layout
  BY <1>3, <1>4, <1>5, <1>15, <1>16, <1>17, <1>18 DEF Layout, c, d, q, n
<1> QED BY <1>2, <1>19, <1>20

(* The layout in the form in which arithmetic can use it.                  *)
LEMMA LayoutFacts ==
  ASSUME Layout
  PROVE  /\ Len(line) \in Nat /\ CommandAt(line) \in Nat
         /\ CommandAfter(line) \in Nat /\ ParamsAfter(line) \in Nat
         /\ 1 <= CommandAt(line) /\ CommandAt(line) < CommandAfter(line)
         /\ CommandAfter(line) <= ParamsAfter(line)
         /\ ParamsAfter(line) <= Len(line)
         /\ LineEnd(Len(line)) /\ line[Len(line)] = "eol"
         /\ \A i \in 1..(Len(line) - 1) : ~LineEnd(i)
BY DEF Layout, LineEnd

(* The longest match of characters of S that ends before k.                *)
LEMMA RunIs ==
  ASSUME line \in Lines, pos \in 1..Len(line), NEW S, NEW k \in Nat,
         pos < k, k <= Len(line), \A i \in pos..(k - 1) : line[i] \in S,
         line[k] \notin S
  PROVE  RunEnd(S) = k - 1
<1>1. Len(line) \in Nat /\ pos \in Nat
  BY LineFacts, LexerAssumption
<1>2. pos \in pos..(k - 1)
  BY <1>1
<1>3. line[pos] \in S
  BY <1>2
<1> DEFINE e == RunEnd(S)
<1>4. /\ e \in pos..Len(line) /\ \A i \in pos..e : line[i] \in S
      /\ e = Len(line) \/ line[e + 1] \notin S
  BY <1>3, RunEndFacts
<1> HIDE DEF e
<1>5. ~(k \in pos..e)
  BY <1>4
<1>6. e < k
  BY <1>1, <1>4, <1>5
<1>7. ~(e + 1 \in pos..(k - 1))
  BY <1>1, <1>4, <1>6
<1>8. e = k - 1
  BY <1>1, <1>4, <1>6, <1>7
<1> QED BY <1>8 DEF e

(* Where the command of a message ends the scanner's match of it ends.     *)
LEMMA CommandFacts ==
  ASSUME line \in Lines, Layout, pos = CommandAt(line)
  PROVE  /\ Here \in Words /\ CommandEnd = CommandAfter(line) - 1
         /\ IsKnown => EventOf(line) = "ping"
         /\ ~IsKnown => EventOf(line) = "unknown"
<1> DEFINE c == CommandAt(line)  d == CommandAfter(line)
<1>1. /\ c \in Nat /\ d \in Nat /\ 1 <= c /\ c < d /\ d <= Len(line)
      /\ Len(line) \in Nat
  BY LayoutFacts
<1>2. \A i \in c..(d - 1) : line[i] \in Words
  BY DEF Layout, Word
<1>3. line[d] \notin Words
  <2>1. Space(d) \/ d = Len(line)
    BY DEF Layout
  <2>2. Space(d) => ~Word(d)
    BY PieceKinds
  <2>3. d = Len(line) => line[d] = "eol"
    BY LayoutFacts
  <2> QED BY <2>1, <2>2, <2>3 DEF Word, Words
<1> HIDE DEF c, d
<1>4. pos \in 1..Len(line) /\ c \in c..(d - 1) /\ pos = c
  BY <1>1 DEF c
<1>5. Here \in Words
  BY <1>2, <1>4 DEF Here
<1>6. RunEnd(Words) = d - 1
  BY <1>1, <1>2, <1>3, <1>4, RunIs
<1>7. CommandEnd = d - 1
  BY <1>5, <1>6 DEF CommandEnd, Words, Literals
<1>8. CommandEnd = pos <=> d = c + 1
  BY <1>1, <1>4, <1>7
<1>9. IsKnown <=> EventOf(line) = "ping"
  BY <1>4, <1>8 DEF IsKnown, EventOf, Here, c, d
<1> QED BY <1>5, <1>7, <1>9 DEF EventOf, d

(* The source is the match of the rule for a name.                         *)
LEMMA SourceFacts ==
  ASSUME line \in Lines, Layout, SourceLayout, Colon(1), pos = 2
  PROVE  <<pos, SourceEnd>> = SourceOf
<1> DEFINE f == SourceAfter
<1>1. f \in 3..(CommandAt(line) - 1) /\ \A i \in 2..(f - 1) : Word(i)
      /\ ~Word(f)
  BY DEF SourceLayout
<1>2. CommandAt(line) \in Nat /\ CommandAt(line) <= Len(line)
      /\ Len(line) \in Nat
  BY LayoutFacts
<1> HIDE DEF f
<1>3. f \in Nat /\ f >= 3 /\ f <= Len(line) /\ 2 \in 2..(f - 1)
      /\ pos \in 1..Len(line)
  BY <1>1, <1>2
<1>4. Here \in Words
  BY <1>1, <1>3 DEF Here, Word
<1>5. /\ \A i \in pos..(f - 1) : line[i] \in Words
      /\ line[f] \notin Words /\ pos < f
  BY <1>1, <1>3 DEF Word
<1>6. RunEnd(Words) = f - 1
  BY <1>3, <1>5, RunIs
<1>7. SourceEnd = f - 1
  BY <1>4, <1>6 DEF SourceEnd
<1> QED BY <1>7 DEF SourceOf, Colon, f

-----------------------------------------------------------------------------
(***************************************************************************)
(* The parameters of a line.                                               *)
(***************************************************************************)

(* What a parameter of the line is.                                        *)
LEMMA ParamsOfIs ==
  ASSUME NEW p, p \in ParamsOf(line)
  PROVE  /\ p \in (1..Len(line)) \X (1..Len(line))
         /\ CommandAfter(line) < p[1] /\ p[1] <= p[2]
         /\ p[2] < ParamsAfter(line)
         /\ Space(p[1] - 1)
         /\ Space(p[2] + 1) \/ line[p[2] + 1] = "eol"
         /\ \A i \in p[1]..p[2] : ~Space(i)
BY DEF ParamsOf, Space

(* What a match of the parameter rule has to be to be one.                 *)
LEMMA ParamsOfHas ==
  ASSUME NEW a \in 1..Len(line), NEW b \in 1..Len(line),
         CommandAfter(line) < a, a <= b, b < ParamsAfter(line), Space(a - 1),
         Space(b + 1) \/ line[b + 1] = "eol", \A i \in a..b : ~Space(i)
  PROVE  <<a, b>> \in ParamsOf(line)
BY DEF ParamsOf, Space

(* The text from behind a space to the next space or the line end is one   *)
(* parameter, and the only one that ends there.                            *)
LEMMA NextParam ==
  ASSUME Layout, NEW x \in Nat, NEW e \in Nat, x <= e, e < Len(line),
         x - 1 \in CommandAfter(line)..(ParamsAfter(line) - 1), Space(x - 1),
         \A i \in x..e : ~Space(i), Space(e + 1) \/ LineEnd(e + 1)
  PROVE  /\ e + 1 <= ParamsAfter(line)
         /\ Space(e + 1) \/ e + 1 = Len(line)
         /\ <<x, e>> \in ParamsOf(line)
         /\ \A p \in ParamsOf(line) :
              p[2] < e + 1 => p[2] < x - 1 \/ p = <<x, e>>
<1> DEFINE n == Len(line)  d == CommandAfter(line)  q == ParamsAfter(line)
<1>1. /\ n \in Nat /\ d \in Nat /\ q \in Nat /\ 1 <= d /\ d <= q /\ q <= n
      /\ \A i \in 1..(n - 1) : ~LineEnd(i)
  BY LayoutFacts
<1>2. q = n \/ Space(q)
  BY DEF Layout
<1>3. line[n] = "eol"
  BY LayoutFacts
<1>4. x - 1 \in d..(q - 1) /\ e < n
  OBVIOUS
<1> HIDE DEF n, d, q
<1>5. x >= 2 /\ x - 1 >= d /\ x <= q /\ e + 1 <= n /\ e + 1 >= 1
  BY <1>1, <1>4
<1>6. Space(e + 1) \/ e + 1 = n
  <2>1. CASE LineEnd(e + 1)
    <3>1. ~(e + 1 \in 1..(n - 1))
      BY <1>1, <2>1
    <3> QED BY <1>1, <1>5, <3>1
  <2> QED BY <2>1
<1>7. e + 1 <= q
  <2>1. CASE q = n
    BY <1>5, <2>1
  <2>2. CASE Space(q)
    <3>1. ~(q \in x..e)
      BY <2>2
    <3> QED BY <1>1, <1>5, <3>1
  <2> QED BY <1>2, <2>1, <2>2
<1>8. <<x, e>> \in ParamsOf(line)
  <2>1. x \in 1..n /\ e \in 1..n /\ d < x /\ e < q
    BY <1>1, <1>5, <1>7
  <2>2. Space(e + 1) \/ line[e + 1] = "eol"
    BY <1>3, <1>6
  <2> QED BY <2>1, <2>2, ParamsOfHas DEF n, d, q
<1>9. ASSUME NEW p \in ParamsOf(line), p[2] < e + 1, ~(p[2] < x - 1)
      PROVE  p = <<x, e>>
  <2> DEFINE a == p[1]  b == p[2]
  <2>1. /\ a \in 1..n /\ b \in 1..n /\ p = <<a, b>> /\ a <= b
        /\ Space(a - 1) /\ (Space(b + 1) \/ line[b + 1] = "eol")
        /\ \A i \in a..b : ~Space(i)
    BY ParamsOfIs DEF n
  <2>2. b < e + 1 /\ ~(b < x - 1)
    BY <1>9
  <2> HIDE DEF a, b
  <2>3. a \in Nat /\ b \in Nat /\ a >= 1
    BY <1>1, <2>1
  <2>4. ~(x - 1 \in a..b)
    BY <2>1
  <2>5. a >= x
    BY <2>2, <2>3, <2>4
  <2>6. ~(a - 1 \in x..e)
    BY <2>1
  <2>7. a = x
    BY <2>1, <2>2, <2>3, <2>5, <2>6
  <2>8. b = e
    <3>1. SUFFICES ASSUME b < e PROVE FALSE
      BY <2>2, <2>3
    <3>2. b + 1 \in x..e /\ b + 1 \in 1..(n - 1)
      BY <1>1, <1>4, <2>1, <2>3, <2>7, <3>1
    <3>3. ~Space(b + 1) /\ ~LineEnd(b + 1)
      BY <1>1, <3>2
    <3> QED BY <2>1, <3>3 DEF LineEnd
  <2> QED BY <2>1, <2>7, <2>8
<1> QED BY <1>6, <1>7, <1>8, <1>9 DEF n, d, q

(* A parameter found is appended after those that end before it.           *)
LEMMA ParamsAdded ==
  ASSUME Layout, msg \in Messages, NEW x \in Nat, NEW e \in Nat, x <= e,
         ParamsUpTo(x - 1), <<x, e>> \in ParamsOf(line),
         \A p \in ParamsOf(line) :
           p[2] < e + 1 => p[2] < x - 1 \/ p = <<x, e>>,
         line' = line, msg'.params = Append(msg.params, <<x, e>>)
  PROVE  ParamsUpTo(e + 1)'
<1> DEFINE ps == msg.params  k == Len(ps)  qs == msg'.params
<1>1. ps \in Seq(Intervals)
  BY DEF Messages
<1>2. /\ k \in Nat /\ Len(qs) = k + 1 /\ qs[k + 1] = <<x, e>>
      /\ \A i \in 1..k : qs[i] = ps[i]
  BY <1>1
<1>3. /\ \A i \in 1..k : ps[i] \in ParamsOf(line) /\ ps[i][2] < x - 1
      /\ \A p \in ParamsOf(line) : p[2] < x - 1 => \E i \in 1..k : ps[i] = p
      /\ \A i, j \in 1..k : i < j => ps[i][2] < ps[j][1]
  BY DEF ParamsUpTo
<1>4. \A i \in 1..k : ps[i][2] \in Nat
  <2>1. Len(line) \in Nat
    BY LayoutFacts
  <2>2. \A p \in ParamsOf(line) : p[2] \in 1..Len(line)
    BY ParamsOfIs
  <2> QED BY <1>3, <2>1, <2>2
<1> HIDE DEF ps, k, qs
<1>5. ASSUME NEW i \in 1..(k + 1)
      PROVE  qs[i] \in ParamsOf(line) /\ qs[i][2] < e + 1
  <2>1. CASE i = k + 1
    <3>1. qs[i] = <<x, e>>
      BY <1>2, <2>1
    <3>2. <<x, e>>[2] < e + 1
      OBVIOUS
    <3> QED BY <3>1, <3>2
  <2>2. CASE i # k + 1
    <3>1. i \in 1..k
      BY <1>2, <2>2
    <3>2. qs[i] = ps[i] /\ ps[i] \in ParamsOf(line) /\ ps[i][2] < x - 1
          /\ ps[i][2] \in Nat
      BY <1>2, <1>3, <1>4, <3>1
    <3> QED BY <3>2
  <2> QED BY <2>1, <2>2
<1>6. ASSUME NEW p \in ParamsOf(line), p[2] < e + 1
      PROVE  \E i \in 1..(k + 1) : qs[i] = p
  <2>1. CASE p = <<x, e>>
    <3>1. k + 1 \in 1..(k + 1)
      BY <1>2
    <3> QED BY <1>2, <2>1, <3>1
  <2>2. CASE p[2] < x - 1
    <3>1. PICK i \in 1..k : ps[i] = p
      BY <1>3, <2>2
    <3>2. i \in 1..(k + 1) /\ qs[i] = p
      BY <1>2, <3>1
    <3> QED BY <3>2
  <2> QED BY <1>6, <2>1, <2>2
<1>7. ASSUME NEW i \in 1..(k + 1), NEW j \in 1..(k + 1), i < j
      PROVE  qs[i][2] < qs[j][1]
  <2>1. i \in 1..k
    BY <1>2, <1>7
  <2>2. CASE j = k + 1
    <3>1. qs[i][2] = ps[i][2] /\ ps[i][2] < x - 1 /\ ps[i][2] \in Nat
          /\ qs[j] = <<x, e>>
      BY <1>2, <1>3, <1>4, <2>1, <2>2
    <3> QED BY <3>1
  <2>3. CASE j # k + 1
    <3>1. j \in 1..k
      BY <1>2, <2>3
    <3> QED BY <1>2, <1>3, <1>7, <2>1, <3>1
  <2> QED BY <2>2, <2>3
<1> QED BY <1>2, <1>5, <1>6, <1>7 DEF ParamsUpTo, ps, k, qs

(* No parameter ends between the trailing text and the end of the line.    *)
LEMMA ParamsComplete ==
  ASSUME Layout, NEW x \in Nat, x >= ParamsAfter(line), ParamsUpTo(x),
         NEW y \in Nat, y >= ParamsAfter(line)
  PROVE  ParamsUpTo(y)
<1>1. ParamsAfter(line) \in Nat /\ Len(line) \in Nat
  BY LayoutFacts
<1>2. \A p \in ParamsOf(line) : p[2] \in Nat /\ p[2] < ParamsAfter(line)
  BY <1>1, ParamsOfIs
<1>3. \A p \in ParamsOf(line) : p[2] < x /\ p[2] < y
  BY <1>1, <1>2
<1> QED BY <1>3 DEF ParamsUpTo

(* All parameters and the source and text make up the content.             *)
LEMMA ContentComplete ==
  ASSUME Layout, NEW x \in Nat, x >= ParamsAfter(line), ParamsUpTo(x),
         msg \in Messages, msg.source = SourceOf, msg.trailing = TrailingOf
  PROVE  HasContent(msg, line)
<1> DEFINE ps == msg.params  m == [NoMessage EXCEPT !.params = ps]
<1>1. Strings(m) = {Null} \cup {ps[i] : i \in 1..Len(ps)}
  BY DEF NoMessage, Strings
<1>2. Null \notin ParamsOf(line)
  <2>1. \A p \in ParamsOf(line) : p[1] \in 1..Len(line)
    BY ParamsOfIs
  <2> QED BY <2>1, LayoutFacts DEF Null
<1>3. \A p \in ParamsOf(line) : p[2] < x
  <2>1. ParamsAfter(line) \in Nat /\ Len(line) \in Nat
    BY LayoutFacts
  <2> QED BY <2>1, ParamsOfIs
<1>4. /\ \A i \in 1..Len(ps) : ps[i] \in ParamsOf(line)
      /\ \A p \in ParamsOf(line) : \E i \in 1..Len(ps) : ps[i] = p
      /\ \A i, j \in 1..Len(ps) : i < j => ps[i][2] < ps[j][1]
  BY <1>3 DEF ParamsUpTo
<1>5. Strings(m) \ {Null} = ParamsOf(line)
  <2> HIDE DEF m, ps
  <2> QED BY <1>1, <1>2, <1>4
<1> QED BY <1>4, <1>5 DEF HasContent, SourceOf, SourceAfter, TrailingOf

-----------------------------------------------------------------------------
(***************************************************************************)
(* The rules follow the layout of a message.                               *)
(***************************************************************************)

(* What the hypotheses on a step of the scanner give.                      *)
Reading == /\ IndInv /\ line \in Lines /\ Shaped /\ Layout /\ SourceLayout
           /\ Placed /\ Progress

(* A piece is being read, and the message has its type.                    *)
LEMMA ReadingFacts ==
  ASSUME Reading, Scan
  PROVE  /\ pos \in 1..Len(line) /\ Len(line) \in Nat /\ pos \in Nat
         /\ msg \in Messages /\ TypeOK
BY StartIs, ScanFacts DEF Reading

(* The prefix.                                                             *)
LEMMA PrefixProgress ==
  ASSUME Reading, Placed', Prefix \/ Source \/ User \/ Host \/ PrefixEnd
  PROVE  Progress'
<1>0. IndInv /\ TypeOK /\ msg \in Messages /\ line' = line
      /\ CommandAt(line) \in Nat /\ CommandAt(line) >= 1
  BY StartIs, LayoutFacts
     DEF Reading, Prefix, Source, User, Host, PrefixEnd, Advance, input
<1>1. CASE Prefix
  <2>1. Start = "INITIAL" /\ line[pos] = ":" /\ Push("PREFIX") /\ msg' = msg
    BY <1>1 DEF Prefix, At, Here
  <2>2. Start' = "PREFIX"
    BY <1>0, <2>1, PushStart, ConditionsAre
  <2>3. msg.params = <<>>
    BY <2>1 DEF Reading, Progress
  <2> QED BY <2>1, <2>2, <2>3 DEF Progress
<1>2. CASE Source
  <2>1. /\ Start = "PREFIX" /\ Push("PREFIX_OPT")
        /\ msg' = [msg EXCEPT !.source = <<pos, SourceEnd>>]
    BY <1>2 DEF Source, At
  <2>2. Start' = "PREFIX_OPT"
    BY <1>0, <2>1, PushStart, ConditionsAre
  <2>3. msg.params = <<>> /\ pos = 2 /\ Colon(1)
    BY <2>1 DEF Reading, Progress, Placed, Colon
  <2>4. <<pos, SourceEnd>> = SourceOf
    BY <2>3, SourceFacts DEF Reading
  <2>5. msg'.source = SourceOf /\ msg'.params = <<>>
    BY <1>0, <2>1, <2>3, <2>4 DEF Messages
  <2>6. SourceOf' = SourceOf
    BY <1>0 DEF SourceOf, SourceAfter
  <2> QED BY <2>2, <2>5, <2>6 DEF Progress
<1>3. CASE User \/ Host
  <2>1. /\ Start = "PREFIX_OPT" /\ Start' = Start
        /\ \/ msg' = [msg EXCEPT !.user = <<pos, pos>>]
           \/ msg' = [msg EXCEPT !.host = <<pos, pos>>]
    BY <1>3 DEF User, Host, At, Start
  <2>2. msg.params = <<>> /\ msg.source = SourceOf
    BY <2>1 DEF Reading, Progress
  <2>3. msg'.source = SourceOf /\ msg'.params = <<>>
    BY <1>0, <2>1, <2>2 DEF Messages
  <2>4. SourceOf' = SourceOf
    BY <1>0 DEF SourceOf, SourceAfter
  <2> QED BY <2>1, <2>3, <2>4 DEF Progress
<1>4. CASE PrefixEnd
  <2>1. /\ Start = "PREFIX_OPT" /\ Pop(2) /\ msg' = msg /\ pos' = pos + 1
    BY <1>4 DEF PrefixEnd, At, Advance
  <2>2. Start' = "INITIAL"
    <3>1. Len(stack) = 3 /\ stack[1] = "INITIAL"
      BY <1>0, <2>1, StartIs DEF StackSound
    <3>2. 2 \in Nat /\ 2 < Len(stack)
      BY <3>1
    <3>3. Start' = stack[Len(stack) - 2]
      BY <1>0, <2>1, <3>2, PopStart
    <3> QED BY <3>1, <3>3
  <2>3. msg.params = <<>> /\ msg.source = SourceOf
    BY <2>1 DEF Reading, Progress
  <2>4. pos' = CommandAt(line)
    <3>1. pos' = CommandAt(line) \/ pos' = 1
      BY <1>0, <2>2 DEF Placed
    <3>2. pos \in 3..(CommandAt(line) - 1)
      BY <2>1 DEF Reading, Placed
    <3>3. pos \in Nat /\ pos >= 3
      BY <1>0, <3>2
    <3> QED BY <2>1, <3>1, <3>3
  <2>5. SourceOf' = SourceOf
    BY <1>0 DEF SourceOf, SourceAfter
  <2> QED BY <1>0, <2>1, <2>2, <2>3, <2>4, <2>5 DEF Progress
<1> QED BY <1>1, <1>2, <1>3, <1>4

(* The scanner stands at the command when it reads one.                    *)
LEMMA AtCommand ==
  ASSUME Reading, At({"INITIAL"}), Here \in Words \cup Literals
  PROVE  /\ pos = CommandAt(line) /\ msg.source = SourceOf
         /\ msg.params = <<>> /\ msg.trailing = Null /\ command = Null
         /\ CommandEnd = CommandAfter(line) - 1
         /\ IsKnown => EventOf(line) = "ping"
         /\ ~IsKnown => EventOf(line) = "unknown"
<1>1. Start = "INITIAL"
  BY DEF At
<1>2. ~(pos = 1 /\ Colon(1))
  BY DEF Colon, Here, Words, Literals
<1>3. pos = CommandAt(line) /\ msg.source = SourceOf /\ msg.params = <<>>
  BY <1>1, <1>2 DEF Reading, Progress
<1>4. msg.trailing = Null /\ command = Null
  BY <1>1 DEF Reading, Placed
<1>5. /\ CommandEnd = CommandAfter(line) - 1
      /\ IsKnown => EventOf(line) = "ping"
      /\ ~IsKnown => EventOf(line) = "unknown"
  BY <1>3, CommandFacts DEF Reading
<1> QED BY <1>3, <1>4, <1>5

(* The command is matched whole and its callback is chosen.                *)
LEMMA CommandProgress ==
  ASSUME Reading, KnownCommand \/ Command
  PROVE  Progress'
<1> DEFINE d == CommandAfter(line)  q == ParamsAfter(line)  n == Len(line)
<1>1. /\ At({"INITIAL"}) /\ Here \in Words \cup Literals
      /\ UNCHANGED <<line, installed, msg>>
  BY DEF KnownCommand, Command, Advance, input
<1>2. /\ msg.source = SourceOf /\ msg.params = <<>> /\ msg.trailing = Null
      /\ CommandEnd = d - 1
      /\ IsKnown => EventOf(line) = "ping"
      /\ ~IsKnown => EventOf(line) = "unknown"
  BY <1>1, AtCommand
<1>3. TypeOK /\ d \in Nat /\ q \in Nat /\ n \in Nat /\ d <= q /\ q <= n
      /\ (Space(d) \/ d = n) /\ 1 <= d
  BY StartIs, LayoutFacts DEF Reading, Layout
<1>4. event' = EventOf(line) /\ EventOf(line) \in installed
      /\ Start' \in {"PARAMS", "GENERIC_PARAMS"} /\ pos' = d
  <2>1. CASE KnownCommand
    <3>1. IsKnown /\ event' = "ping" /\ "ping" \in installed
          /\ Push("PARAMS") /\ pos' = pos + 1
      BY <2>1 DEF KnownCommand, Advance
    <3>2. Start' = "PARAMS"
      BY <1>3, <3>1, PushStart, ConditionsAre
    <3>3. CommandEnd = pos
      BY <3>1 DEF IsKnown
    <3>4. pos' = d
      BY <1>2, <1>3, <3>1, <3>3
    <3> QED BY <1>2, <3>1, <3>2, <3>4
  <2>2. CASE Command
    <3>1. ~IsKnown /\ event' = "unknown" /\ "unknown" \in installed
          /\ Push("GENERIC_PARAMS") /\ pos' = CommandEnd + 1
      BY <2>2 DEF Command, Advance
    <3>2. Start' = "GENERIC_PARAMS"
      BY <1>3, <3>1, PushStart, ConditionsAre
    <3>3. pos' = d
      BY <1>2, <1>3, <3>1
    <3> QED BY <1>2, <3>1, <3>2, <3>3
  <2> QED BY <2>1, <2>2
<1>5. ParamsUpTo(d)
  <2>1. \A p \in ParamsOf(line) : ~(p[2] < d)
    <3>1. TAKE p \in ParamsOf(line)
    <3>2. p[1] \in 1..n /\ p[2] \in 1..n /\ d < p[1] /\ p[1] <= p[2]
      BY ParamsOfIs
    <3> QED BY <1>3, <3>2
  <2>2. Len(msg.params) = 0
    BY <1>2
  <2>3. 1..Len(msg.params) = {}
    BY <2>2
  <2> QED BY <2>1, <2>3 DEF ParamsUpTo
<1>6. ParamsUpTo(pos)' /\ SourceOf' = SourceOf
  BY <1>1, <1>4, <1>5 DEF ParamsUpTo, SourceOf, SourceAfter
<1>7. pos' \in d..n /\ pos' <= q /\ (Space(pos') \/ pos' = n)
  BY <1>3, <1>4
<1>8. Space(pos)' <=> Space(pos')
  BY <1>1 DEF Space
<1> QED BY <1>1, <1>2, <1>4, <1>6, <1>7, <1>8 DEF Progress

(* What Progress says after the command.                                   *)
LEMMA ParamsProgress ==
  ASSUME Reading
  PROVE  /\ Start \in {"PARAMS", "GENERIC_PARAMS"} =>
              /\ pos \in CommandAfter(line)..Len(line) /\ ParamsUpTo(pos)
              /\ \/ /\ msg.trailing = Null /\ pos <= ParamsAfter(line)
                    /\ Space(pos) \/ pos = Len(line)
                 \/ /\ msg.trailing = TrailingOf /\ pos = Len(line)
                    /\ ParamsAfter(line) < Len(line)
         /\ Start = "PARAM" =>
              /\ pos - 1 \in CommandAfter(line)..ParamsAfter(line)
              /\ pos <= Len(line) /\ Space(pos - 1) /\ ParamsUpTo(pos - 1)
         /\ Start = "TRAILING" =>
              /\ ParamsAfter(line) < Len(line) /\ pos = ParamsAfter(line) + 2
              /\ ParamsUpTo(ParamsAfter(line))
         /\ Start \in {"PARAMS", "GENERIC_PARAMS", "PARAM", "TRAILING"} =>
              /\ event = EventOf(line) /\ EventOf(line) \in installed
              /\ msg.source = SourceOf
BY DEF Reading, Progress

(* What is defined from the line alone stays.                              *)
LEMMA SameLine ==
  ASSUME line' = line
  PROVE  /\ SourceOf' = SourceOf /\ TrailingOf' = TrailingOf
         /\ \A i : Space(i)' <=> Space(i)
         /\ \A x : ParamsUpTo(x) /\ msg'.params = msg.params => ParamsUpTo(x)'
BY DEF SourceOf, SourceAfter, TrailingOf, Space, ParamsUpTo

(* Before a parameter there is exactly one space, and a ":" only before    *)
(* the trailing text.                                                      *)
LEMMA AtParam ==
  ASSUME Reading, Scan, Start = "PARAM"
  PROVE  \/ pos - 1 = ParamsAfter(line) /\ Colon(pos) /\ pos + 1 < Len(line)
         \/ /\ pos - 1 \in CommandAfter(line)..(ParamsAfter(line) - 1)
            /\ ~Space(pos) /\ ~LineEnd(pos) /\ ~Colon(pos)
<1> DEFINE d == CommandAfter(line)  q == ParamsAfter(line)  n == Len(line)
<1>1. /\ d \in Nat /\ q \in Nat /\ n \in Nat /\ pos \in Nat /\ q <= n
      /\ pos - 1 \in d..q /\ pos <= n /\ Space(pos - 1)
  BY LayoutFacts, ReadingFacts, ParamsProgress DEF Reading
<1>2. /\ q = n \/ (Space(q) /\ Colon(q + 1) /\ q + 2 < n)
      /\ \A i \in d..(q - 1) :
           Space(i) => ~Space(i + 1) /\ ~LineEnd(i + 1) /\ ~Colon(i + 1)
  BY DEF Reading, Layout
<1> HIDE DEF d, q, n
<1>3. CASE pos - 1 = q
  <2>1. q # n
    BY <1>1, <1>3
  <2>2. pos = q + 1
    BY <1>1, <1>3
  <2>3. Colon(pos) /\ pos + 1 < n
    BY <1>1, <1>2, <2>1, <2>2
  <2> QED BY <1>3, <2>3 DEF q, n
<1>4. CASE pos - 1 # q
  <2>1. pos - 1 \in d..(q - 1) /\ pos = (pos - 1) + 1
    BY <1>1, <1>4
  <2>2. ~Space(pos) /\ ~LineEnd(pos) /\ ~Colon(pos)
    BY <1>1, <1>2, <2>1
  <2> QED BY <2>1, <2>2 DEF d, q
<1> QED BY <1>3, <1>4

(* The space before a parameter ends no parameter.                         *)
LEMMA StartProgress ==
  ASSUME Reading, ParamStart \/ TrailingStart
  PROVE  Progress'
<1> DEFINE d == CommandAfter(line)  q == ParamsAfter(line)  n == Len(line)
<1>1. /\ Scan /\ UNCHANGED <<line, installed, event, msg>> /\ pos' = pos + 1
  BY DEF ParamStart, TrailingStart, At, Advance, input
<1>2. /\ TypeOK /\ d \in Nat /\ q \in Nat /\ n \in Nat /\ d <= q /\ q <= n
      /\ pos \in Nat /\ line[n] = "eol"
  BY <1>1, ReadingFacts, LayoutFacts DEF Reading
<1>3. CASE ParamStart
  <2>1. /\ Start \in {"PARAMS", "GENERIC_PARAMS"} /\ Push("PARAM")
        /\ Space(pos) /\ line[pos] # "eol"
    BY <1>3 DEF ParamStart, At, Here, Space
  <2>2. Start' = "PARAM"
    BY <1>2, <2>1, PushStart, ConditionsAre
  <2>3. pos # n
    BY <1>2, <2>1
  <2>4. pos \in d..n /\ ParamsUpTo(pos) /\ (pos <= q \/ pos = n)
    BY <2>1, ParamsProgress
  <2>5. /\ pos' - 1 = pos /\ pos' - 1 \in d..q /\ pos' <= n
    BY <1>1, <1>2, <2>3, <2>4
  <2>6. Space(pos - 1)' /\ ParamsUpTo(pos - 1)'
    BY <1>1, <2>1, <2>4, <2>5 DEF Space, ParamsUpTo
  <2>7. msg'.source = SourceOf /\ event' = EventOf(line)
        /\ EventOf(line) \in installed
    BY <1>1, <2>1, ParamsProgress
  <2> QED BY <1>1, <2>2, <2>5, <2>6, <2>7, SameLine DEF Progress
<1>4. CASE TrailingStart
  <2>1. /\ Start = "PARAM" /\ Push("TRAILING") /\ Colon(pos)
    BY <1>4 DEF TrailingStart, At, Here, Colon
  <2>2. Start' = "TRAILING"
    BY <1>2, <2>1, PushStart, ConditionsAre
  <2>3. pos - 1 = q /\ pos + 1 < n
    BY <1>1, <2>1, AtParam
  <2>4. q < n /\ pos' = q + 2
    BY <1>1, <1>2, <2>3
  <2>5. ParamsUpTo(q)
    BY <2>1, <2>3, ParamsProgress
  <2>6. ParamsUpTo(ParamsAfter(line))'
    BY <1>1, <2>5 DEF ParamsUpTo
  <2>7. msg'.source = SourceOf /\ event' = EventOf(line)
        /\ EventOf(line) \in installed
    BY <1>1, <2>1, ParamsProgress
  <2> QED BY <1>1, <2>2, <2>4, <2>6, <2>7, SameLine DEF Progress
<1> QED BY <1>3, <1>4

(* A parameter that is found is the next one of the line.                  *)
LEMMA ParamHere ==
  ASSUME Reading, Scan, Start = "PARAM", Here \in MiddleRest \ {":"}
  PROVE  LET e == RunEnd(MiddleRest)
         IN  /\ e \in Nat /\ pos <= e /\ e < Len(line)
             /\ CommandAfter(line) <= e /\ e + 1 <= ParamsAfter(line)
             /\ Space(e + 1) \/ e + 1 = Len(line)
             /\ <<pos, e>> \in ParamsOf(line) /\ ParamsUpTo(pos - 1)
             /\ \A p \in ParamsOf(line) :
                  p[2] < e + 1 => p[2] < pos - 1 \/ p = <<pos, e>>
<1> DEFINE d == CommandAfter(line)  q == ParamsAfter(line)  n == Len(line)
           e == RunEnd(MiddleRest)
<1>1. line[pos] \in MiddleRest /\ ~Colon(pos)
  BY DEF Here, Colon
<1>2. /\ d \in Nat /\ q \in Nat /\ n \in Nat /\ 1 <= d
      /\ d <= q /\ q <= n /\ pos \in Nat /\ pos \in 1..n /\ line \in Lines
  BY ReadingFacts, LayoutFacts DEF Reading
<1>3. /\ e \in pos..n /\ \A i \in pos..e : line[i] \in MiddleRest
      /\ e = n \/ line[e + 1] \notin MiddleRest
  BY <1>1, <1>2, RunEndFacts
<1>4. pos - 1 \in d..(q - 1) /\ Space(pos - 1) /\ ParamsUpTo(pos - 1)
  BY <1>1, AtParam, ParamsProgress
<1>5. \A i \in 1..n : /\ line[i] \in MiddleRest => ~Space(i) /\ ~LineEnd(i)
                      /\ line[i] \notin MiddleRest => Space(i) \/ LineEnd(i)
  <2>1. \A i \in 1..n : line[i] \in Pieces
    <3>1. line \in Seq(Alphabet \cup Oddities)
      BY <1>2, LineFacts
    <3> QED BY <3>1, LexerAssumption
  <2>2. \A p \in Pieces :
          p \in MiddleRest <=> p # " " /\ p \notin {"nul", "eol"}
    BY DEF MiddleRest, NotLineEnd
  <2> QED BY <2>1, <2>2 DEF Space, LineEnd
<1>6. LineEnd(n)
  BY LayoutFacts DEF Reading
<1> HIDE DEF d, q, n, e
<1>7. e \in Nat /\ pos <= e /\ e < n
  <2>1. e \in Nat /\ pos <= e /\ e <= n /\ e \in 1..n /\ e \in pos..e
    BY <1>2, <1>3
  <2>2. e # n
    BY <1>3, <1>5, <1>6, <2>1
  <2> QED BY <1>2, <2>1, <2>2
<1>8. \A i \in pos..e : ~Space(i)
  <2>1. \A i \in pos..e : i \in 1..n
    BY <1>2, <1>7
  <2> QED BY <1>3, <1>5, <2>1
<1>9. Space(e + 1) \/ LineEnd(e + 1)
  <2>1. e + 1 \in 1..n /\ e # n
    BY <1>2, <1>7
  <2> QED BY <1>3, <1>5, <2>1
<1>10. /\ e + 1 <= q /\ (Space(e + 1) \/ e + 1 = n)
       /\ <<pos, e>> \in ParamsOf(line)
       /\ \A p \in ParamsOf(line) :
            p[2] < e + 1 => p[2] < pos - 1 \/ p = <<pos, e>>
  <2>1. Layout /\ e < Len(line)
        /\ pos - 1 \in CommandAfter(line)..(ParamsAfter(line) - 1)
    BY <1>4, <1>7 DEF Reading, d, q, n
  <2> QED BY <1>2, <1>4, <1>7, <1>8, <1>9, <2>1, NextParam DEF q, n
<1>11. d <= e
  BY <1>2, <1>4, <1>7
<1> QED BY <1>4, <1>7, <1>10, <1>11 DEF d, q, n, e

(* A parameter is stored whole, after those before it.                     *)
LEMMA MiddleProgress ==
  ASSUME Reading, Placed', Middle
  PROVE  Progress'
<1> DEFINE d == CommandAfter(line)  q == ParamsAfter(line)  n == Len(line)
           e == RunEnd(MiddleRest)
<1>1. /\ Scan /\ Start = "PARAM" /\ UNCHANGED <<line, installed, event>>
      /\ pos' = e + 1 /\ Here \in MiddleRest \ {":"}
      /\ msg' = [msg EXCEPT !.params = Append(@, <<pos, e>>)]
  BY DEF Middle, At, Advance, input
<1>2. /\ msg \in Messages /\ d \in Nat /\ q \in Nat /\ n \in Nat /\ 1 <= d
      /\ d <= q /\ q <= n /\ pos \in Nat
  BY <1>1, ReadingFacts, LayoutFacts DEF Reading
<1>3. /\ e \in Nat /\ pos <= e /\ e < n /\ d <= e /\ e + 1 <= q
      /\ Space(e + 1) \/ e + 1 = n
      /\ <<pos, e>> \in ParamsOf(line) /\ ParamsUpTo(pos - 1)
      /\ \A p \in ParamsOf(line) :
           p[2] < e + 1 => p[2] < pos - 1 \/ p = <<pos, e>>
  BY <1>1, ParamHere
<1> HIDE DEF d, q, n, e
<1>4. /\ msg'.params = Append(msg.params, <<pos, e>>)
       /\ msg'.source = msg.source /\ msg'.trailing = msg.trailing
  BY <1>1, <1>2 DEF Messages
<1>5. ParamsUpTo(pos)'
  <2>1. PICK x \in Nat, k \in Nat : x = pos /\ k = e
    BY <1>2, <1>3
  <2>2. /\ Layout /\ x <= k /\ ParamsUpTo(x - 1) /\ <<x, k>> \in ParamsOf(line)
        /\ \A p \in ParamsOf(line) :
             p[2] < k + 1 => p[2] < x - 1 \/ p = <<x, k>>
        /\ line' = line /\ msg'.params = Append(msg.params, <<x, k>>)
    BY <1>1, <1>3, <1>4, <2>1 DEF Reading
  <2>3. ParamsUpTo(k + 1)'
    BY <1>2, <2>1, <2>2, ParamsAdded
  <2>4. pos' = k + 1
    BY <1>1, <2>1
  <2> QED BY <2>3, <2>4 DEF ParamsUpTo
<1>6. Start' \in {"PARAMS", "GENERIC_PARAMS"}
  BY AfterParam DEF Reading
<1>7. msg'.trailing = Null /\ msg'.source = SourceOf
       /\ event' = EventOf(line) /\ EventOf(line) \in installed
  <2>1. msg.trailing = Null
    BY <1>1 DEF Reading, Placed
  <2> QED BY <1>1, <1>4, <2>1, ParamsProgress
<1>8. /\ pos' \in d..n /\ pos' <= q /\ (Space(pos)' \/ pos' = n)
  <2>1. pos' \in Nat /\ pos' >= d /\ pos' <= q /\ pos' <= n
    BY <1>1, <1>2, <1>3
  <2>2. Space(pos)' \/ pos' = n
    BY <1>1, <1>3 DEF Space
  <2>3. pos' \in d..n
    BY <1>2, <2>1
  <2> QED BY <2>1, <2>2, <2>3
<1> QED
  BY <1>1, <1>5, <1>6, <1>7, <1>8, SameLine DEF Progress, d, q, n

(* The trailing text is stored whole, up to the line end.                  *)
LEMMA TrailingProgress ==
  ASSUME Reading, Placed', Trailing
  PROVE  Progress'
<1> DEFINE d == CommandAfter(line)  q == ParamsAfter(line)  n == Len(line)
           e == RunEnd(NotLineEnd)
<1>1. /\ Scan /\ Start = "TRAILING" /\ UNCHANGED <<line, installed, event>>
      /\ pos' = e + 1 /\ line[pos] \in NotLineEnd
      /\ msg' = [msg EXCEPT !.trailing = <<pos, e>>]
  BY DEF Trailing, At, Advance, input, Here
<1>2. /\ msg \in Messages /\ d \in Nat /\ q \in Nat /\ n \in Nat
      /\ d <= q /\ q <= n /\ pos \in Nat /\ pos \in 1..n /\ line \in Lines
      /\ \A i \in 1..(n - 1) : ~LineEnd(i)
  BY <1>1, ReadingFacts, LayoutFacts DEF Reading
<1>3. /\ q < n /\ pos = q + 2 /\ ParamsUpTo(q) /\ msg.source = SourceOf
      /\ event = EventOf(line) /\ EventOf(line) \in installed
  BY <1>1, ParamsProgress
<1>4. /\ e \in pos..n /\ \A i \in pos..e : line[i] \in NotLineEnd
      /\ e = n \/ line[e + 1] \notin NotLineEnd
  BY <1>1, <1>2, RunEndFacts
<1>5. \A i \in 1..n : line[i] \in NotLineEnd <=> ~LineEnd(i)
  <2>1. \A i \in 1..n : line[i] \in Pieces
    <3>1. line \in Seq(Alphabet \cup Oddities)
      BY <1>2, LineFacts
    <3> QED BY <3>1, LexerAssumption
  <2> QED BY <2>1 DEF NotLineEnd, LineEnd
<1>6. LineEnd(n)
  BY LayoutFacts DEF Reading
<1>7. /\ msg'.params = msg.params /\ msg'.source = msg.source
      /\ msg'.trailing = <<pos, e>>
  BY <1>1, <1>2 DEF Messages
<1> HIDE DEF d, q, n, e
<1>8. e + 1 = n
  <2>1. e \in Nat /\ pos <= e /\ e <= n /\ e \in 1..n /\ e \in pos..e
    BY <1>2, <1>4
  <2>2. e # n
    BY <1>4, <1>5, <1>6, <2>1
  <2>3. e + 1 \in 1..n
    BY <1>2, <2>1, <2>2
  <2>4. LineEnd(e + 1)
    BY <1>4, <1>5, <2>2, <2>3
  <2>5. ~(e + 1 \in 1..(n - 1))
    BY <1>2, <2>4
  <2> QED BY <1>2, <2>3, <2>5
<1>9. e = n - 1 /\ pos' = n
  BY <1>1, <1>2, <1>4, <1>8
<1>10. msg'.trailing = TrailingOf
  <2>1. TrailingOf = <<q + 2, n - 1>>
    BY <1>2, <1>3 DEF TrailingOf, q, n
  <2> QED BY <1>3, <1>7, <1>9, <2>1
<1>11. ParamsUpTo(pos)'
  <2>1. ParamsUpTo(n)
    BY <1>2, <1>3, ParamsComplete DEF Reading, q, n
  <2> QED BY <1>1, <1>7, <1>9, <2>1 DEF ParamsUpTo
<1>12. Start' \in {"PARAMS", "GENERIC_PARAMS"}
  BY AfterParam DEF Reading
<1>13. pos' \in d..n
  BY <1>2, <1>9
<1> QED
  BY <1>1, <1>3, <1>7, <1>9, <1>10, <1>11, <1>12, <1>13, SameLine
     DEF Progress, d, q, n

(* Only in the mask of a prefix is anything of a message echoed.           *)
LEMMA EchoProgress ==
  ASSUME Reading, Echo
  PROVE  Progress'
<1>1. /\ Scan /\ Start' = Start /\ line[pos] \notin Begins[Start]
      /\ UNCHANGED <<line, msg>>
  BY DEF Echo, Advance, input, Start, Here
<1>2. /\ pos \in 1..Len(line) /\ Len(line) \in Nat /\ pos \in Nat
      /\ Start \in Conditions /\ IndInv
  BY <1>1, ReadingFacts, StartIs DEF Reading
<1>3. line[pos] \in Pieces
  <2>1. line \in Seq(Alphabet \cup Oddities)
    BY LineFacts DEF Reading
  <2> QED BY <1>2, <2>1, LexerAssumption
<1>4. Start # "INITIAL"
  <2>1. SUFFICES ASSUME Start = "INITIAL" PROVE FALSE
    OBVIOUS
  <2>2. pos = CommandAt(line) \/ (pos = 1 /\ Colon(1))
    BY <2>1 DEF Reading, Progress
  <2>3. line[CommandAt(line)] \in Words
    BY DEF Reading, Shaped
  <2> QED BY <1>1, <2>1, <2>2, <2>3, WordFacts DEF Colon
<1>5. Start # "PREFIX"
  <2>1. SUFFICES ASSUME Start = "PREFIX" PROVE FALSE
    OBVIOUS
  <2>2. pos = 2 /\ line[1] = ":"
    BY <2>1 DEF Reading, Placed
  <2>3. line[2] \in Words
    BY <2>2 DEF Reading, Shaped
  <2> QED BY <1>1, <2>1, <2>2, <2>3, WordFacts
<1>6. Start \notin {"PARAMS", "GENERIC_PARAMS"}
  <2>1. SUFFICES ASSUME Start \in {"PARAMS", "GENERIC_PARAMS"} PROVE FALSE
    OBVIOUS
  <2>2. Space(pos) \/ pos = Len(line)
    BY <2>1, ParamsProgress
  <2>3. line[Len(line)] = "eol"
    BY LayoutFacts DEF Reading
  <2>4. CASE Start = "PARAMS"
    <3>1. {" ", "eol"} = Begins["PARAMS"]
      BY DEF Begins
    <3> QED BY <1>1, <2>2, <2>3, <2>4, <3>1 DEF Space
  <2>5. CASE Start = "GENERIC_PARAMS"
    <3>1. {" ", "eol"} = Begins["GENERIC_PARAMS"]
      BY DEF Begins
    <3> QED BY <1>1, <2>2, <2>3, <2>5, <3>1 DEF Space
  <2> QED BY <2>1, <2>4, <2>5
<1>7. Start # "PARAM"
  <2>1. SUFFICES ASSUME Start = "PARAM" PROVE FALSE
    OBVIOUS
  <2>2. Colon(pos) \/ (~Space(pos) /\ ~LineEnd(pos))
    BY <1>1, <2>1, AtParam
  <2>3. ":" \in MiddleRest /\ Begins["PARAM"] = MiddleRest
    BY DEF Begins, MiddleRest, NotLineEnd, Pieces
  <2>4. ~Space(pos) /\ ~LineEnd(pos) => line[pos] \in MiddleRest
    BY <1>3 DEF MiddleRest, NotLineEnd, Space, LineEnd
  <2> QED BY <1>1, <2>1, <2>2, <2>3, <2>4 DEF Colon
<1>8. Start # "TRAILING"
  <2>1. SUFFICES ASSUME Start = "TRAILING" PROVE FALSE
    OBVIOUS
  <2>2. ~LineEnd(pos)
    <3>1. /\ ParamsAfter(line) # Len(line) /\ pos = ParamsAfter(line) + 2
          /\ ParamsAfter(line) \in Nat
      BY <2>1, ParamsProgress, LayoutFacts DEF Reading
    <3>2. ParamsAfter(line) + 2 < Len(line)
      BY <3>1 DEF Reading, Layout
    <3>3. pos \in 1..(Len(line) - 1)
      BY <1>2, <3>1, <3>2
    <3> QED BY <3>3, LayoutFacts DEF Reading
  <2> QED BY <1>1, <1>3, <2>1, <2>2 DEF Begins, NotLineEnd, LineEnd
<1>9. Start = "PREFIX_OPT"
  BY <1>2, <1>4, <1>5, <1>6, <1>7, <1>8, ConditionsAre
<1>10. msg.source = SourceOf /\ msg.params = <<>>
  BY <1>9 DEF Reading, Progress
<1> QED BY <1>1, <1>9, <1>10, SameLine DEF Progress

(* The scanner returns from a message before the end of the buffer.        *)
LEMMA EndNotReached ==
  ASSUME Reading
  PROVE  ~EndOfInput
<1> DEFINE n == Len(line)
<1>1. SUFFICES ASSUME pos > n PROVE FALSE
  BY DEF EndOfInput
<1>2. /\ n \in Nat /\ CommandAt(line) \in Nat /\ CommandAt(line) < n
      /\ CommandAfter(line) \in Nat /\ ParamsAfter(line) \in Nat
      /\ ParamsAfter(line) <= n /\ 1 <= CommandAt(line)
  <2>1. Shaped
    BY DEF Reading
  <2>2. CommandAt(line) < n
    BY <2>1 DEF Shaped
  <2> QED BY <2>2, LayoutFacts DEF Reading
<1> HIDE DEF n
<1>3. Start # "INITIAL"
  <2>1. Start = "INITIAL" => pos = CommandAt(line) \/ pos = 1
    BY DEF Reading, Progress
  <2> QED BY <1>1, <1>2, <2>1
<1>4. Start # "PREFIX"
  <2>1. Start = "PREFIX" => pos = 2 /\ line[1] = ":"
    BY DEF Reading, Placed
  <2>2. line[1] = ":" => CommandAt(line) >= 4
    BY DEF Reading, Shaped
  <2>3. Start = "PREFIX" => pos = 2 /\ CommandAt(line) >= 4
    BY <2>1, <2>2
  <2> QED BY <1>1, <1>2, <2>3
<1>5. Start # "PREFIX_OPT"
  <2>1. Start = "PREFIX_OPT" => pos \in 3..(CommandAt(line) - 1)
    BY DEF Reading, Placed
  <2> QED BY <1>1, <1>2, <2>1
<1>6. Start \notin {"PARAMS", "GENERIC_PARAMS"}
  <2>1. Start \in {"PARAMS", "GENERIC_PARAMS"} => pos \in CommandAfter(line)..n
    BY ParamsProgress DEF n
  <2> QED BY <1>1, <1>2, <2>1
<1>7. Start # "PARAM"
  <2>1. Start = "PARAM" =>
          pos <= n /\ pos - 1 \in CommandAfter(line)..ParamsAfter(line)
    BY ParamsProgress DEF n
  <2>2. pos \in Nat
    BY StartIs, LexerAssumption DEF Reading, TypeOK
  <2> QED BY <1>1, <1>2, <2>1, <2>2
<1>8. Start # "TRAILING"
  <2>1. Start = "TRAILING" =>
          pos = ParamsAfter(line) + 2 /\ ParamsAfter(line) < n
    BY ParamsProgress DEF n
  <2>2. ParamsAfter(line) = n \/ ParamsAfter(line) + 2 < n
    BY DEF Reading, Layout, n
  <2> QED BY <1>1, <1>2, <2>1, <2>2
<1> QED
  BY <1>3, <1>4, <1>5, <1>6, <1>7, <1>8, StartIs, ConditionsAre DEF Reading

(* A message is skipped only if its callback is null.                      *)
LEMMA SkipJudged ==
  ASSUME Reading, Skip
  PROVE  result' = "skipped" /\ EventOf(line) \notin installed
<1>1. /\ At({"INITIAL"}) /\ Here \in Words \cup Literals /\ result' = "skipped"
      /\ (IF IsKnown THEN "ping" ELSE "unknown") \notin installed
  BY DEF Skip, Finish
<1> QED BY <1>1, AtCommand

(* The callback is given the content of the line.                          *)
LEMMA SignalJudged ==
  ASSUME Reading, Signal
  PROVE  /\ result' = "ok" /\ signal'[1] = EventOf(line)
         /\ EventOf(line) \in installed /\ HasContent(signal'[2], line)
<1>1. /\ Scan /\ Start \in {"PARAMS", "GENERIC_PARAMS"} /\ line[pos] = "eol"
      /\ signal' = <<event, msg>> /\ result' = "ok"
  BY DEF Signal, At, Here, Finish
<1>2. /\ pos \in 1..Len(line) /\ Len(line) \in Nat /\ msg \in Messages
      /\ pos \in Nat /\ ParamsAfter(line) \in Nat
      /\ ParamsAfter(line) <= Len(line)
  BY <1>1, ReadingFacts, LayoutFacts DEF Reading
<1>3. pos = Len(line)
  <2>1. LineEnd(pos)
    BY <1>1 DEF LineEnd
  <2>2. ~(pos \in 1..(Len(line) - 1))
    BY <2>1, LayoutFacts DEF Reading
  <2> QED BY <1>2, <2>2
<1>4. /\ event = EventOf(line) /\ EventOf(line) \in installed
      /\ msg.source = SourceOf /\ ParamsUpTo(pos)
      /\ \/ msg.trailing = Null /\ pos <= ParamsAfter(line)
         \/ msg.trailing = TrailingOf
  BY <1>1, ParamsProgress
<1>5. msg.trailing = TrailingOf
  <2>1. CASE msg.trailing = Null /\ pos <= ParamsAfter(line)
    <3>1. ParamsAfter(line) = Len(line)
      BY <1>2, <1>3, <2>1
    <3> QED BY <2>1, <3>1 DEF TrailingOf
  <2> QED BY <1>4, <2>1
<1>6. HasContent(msg, line)
  <2>1. pos >= ParamsAfter(line)
    BY <1>2, <1>3
  <2> QED BY <1>2, <1>4, <1>5, <2>1, ContentComplete DEF Reading
<1> QED BY <1>1, <1>4, <1>6

(* The parameters stored and the one found are as many different ones.     *)
LEMMA OverrunJudged ==
  ASSUME Reading, Overrun
  PROVE  result' = "overrun" /\ Cardinality(ParamsOf(line)) > ParamSlots
<1> DEFINE ps == msg.params  k == Len(ps)  T == ParamsOf(line)
           e == RunEnd(MiddleRest)
<1>1. /\ Scan /\ Start = "PARAM" /\ Here \in MiddleRest \ {":"}
      /\ k >= ParamSlots /\ result' = "overrun"
  BY DEF Overrun, At
<1>2. /\ pos \in Nat /\ msg \in Messages /\ Len(line) \in Nat
  BY <1>1, ReadingFacts
<1>3. k \in Nat /\ ParamSlots \in Nat
  BY <1>2, LexerAssumption DEF Messages
<1>4. /\ e \in Nat /\ pos <= e /\ <<pos, e>> \in T /\ ParamsUpTo(pos - 1)
  BY <1>1, ParamHere
<1>5. /\ \A i \in 1..k : ps[i] \in T /\ ps[i][2] < pos - 1
      /\ \A i, j \in 1..k : i < j => ps[i][2] < ps[j][1]
  BY <1>4 DEF ParamsUpTo
<1>6. \A p \in T : p[1] \in Nat /\ p[2] \in Nat /\ p[1] <= p[2]
  BY <1>2, ParamsOfIs
<1>7. IsFiniteSet(T) /\ Cardinality(T) \in Nat
  <2> DEFINE I == 1..Len(line)
  <2>1. IsFiniteSet(I)
    BY <1>2, FS_Interval
  <2> HIDE DEF I
  <2>2. IsFiniteSet(I \X I)
    BY <2>1, FS_Product
  <2>3. T \in SUBSET (I \X I)
    BY DEF ParamsOf, I
  <2>4. IsFiniteSet(T)
    BY <2>2, <2>3, FS_Subset
  <2> QED BY <2>4, FS_CardinalityType
<1> HIDE DEF ps, k, T, e
<1> DEFINE S == 1..(k + 1)
           f == [i \in S |-> IF i = k + 1 THEN <<pos, e>> ELSE ps[i]]
<1>8. IsFiniteSet(S) /\ Cardinality(S) = k + 1
  <2>1. 1 \in Int /\ k + 1 \in Int /\ ~(1 > k + 1)
    BY <1>3
  <2> QED BY <1>3, <2>1, FS_Interval
<1>9. f \in [S -> T]
  <2>1. \A i \in S : i # k + 1 => i \in 1..k
    BY <1>3
  <2> QED BY <1>4, <1>5, <2>1
<1>10. ASSUME NEW i \in S, NEW j \in S, i < j PROVE f[i] # f[j]
  <2>1. i \in 1..k
    BY <1>3, <1>10
  <2>2. f[i] = ps[i] /\ ps[i] \in T /\ ps[i][2] < pos - 1
    BY <1>3, <1>5, <2>1
  <2>3. CASE j = k + 1
    <3>1. f[j] = <<pos, e>>
      BY <2>3
    <3>2. ps[i][2] \in Nat /\ ps[i][2] < e
      BY <1>2, <1>4, <1>6, <2>2
    <3>3. <<pos, e>>[2] = e
      OBVIOUS
    <3> HIDE DEF f
    <3>4. f[i][2] # f[j][2]
      BY <1>4, <2>2, <3>1, <3>2, <3>3
    <3> QED BY <3>4
  <2>4. CASE j # k + 1
    <3>1. j \in 1..k
      BY <1>3, <2>4
    <3>2. f[j] = ps[j] /\ ps[j] \in T /\ ps[i][2] < ps[j][1]
      BY <1>5, <1>10, <2>1, <2>4, <3>1
    <3> HIDE DEF f
    <3>3. ps[i][2] < ps[j][2] /\ ps[i][2] \in Nat /\ ps[j][2] \in Nat
      BY <1>6, <2>2, <3>2
    <3>4. f[i][2] # f[j][2]
      BY <2>2, <3>2, <3>3
    <3> QED BY <3>4
  <2> QED BY <2>3, <2>4
<1>11. ~(Cardinality(T) < Cardinality(S))
  <2>1. SUFFICES ASSUME Cardinality(T) < Cardinality(S) PROVE FALSE
    OBVIOUS
  <2> HIDE DEF f, S
  <2>2. \E i, j \in S : i # j /\ f[i] = f[j]
    BY <1>7, <1>8, <1>9, <2>1, FS_PigeonHole
  <2>3. PICK i \in S, j \in S : i # j /\ f[i] = f[j]
    BY <2>2
  <2>4. i < j \/ j < i
    BY <1>3, <2>3 DEF S
  <2> QED BY <1>10, <2>3, <2>4
<1>12. Cardinality(T) > ParamSlots
  BY <1>1, <1>3, <1>7, <1>8, <1>11
<1> QED BY <1>1, <1>12 DEF T

(* Before the scan nothing has been read.                                  *)
LEMMA InitRead == Init => ReadInv
<1> SUFFICES ASSUME Init, IsMessage(line, FALSE)
             PROVE  Progress /\ phase # "end"
  BY DEF ReadInv
<1>1. /\ Start = "INITIAL" /\ pos = 1 /\ msg.params = <<>>
      /\ msg.source = Null /\ line \in Lines /\ phase = "start"
  BY DEF Init, Start, NoMessage
<1>2. CASE line[1] = ":"
  BY <1>1, <1>2 DEF Progress, Colon
<1>3. CASE line[1] # ":"
  <2>1. CommandAt(line) = 1 /\ SourceOf = Null
    BY <1>3 DEF CommandAt, SourceOf
  <2> QED BY <1>1, <2>1 DEF Progress
<1> QED BY <1>1, <1>2, <1>3

(* What is read is a matter of the line, the position and the message.     *)
LEMMA SameProgress ==
  ASSUME Progress, UNCHANGED <<line, installed, pos, stack, event, msg>>
  PROVE  Progress'
<1>1. Start' = Start
  BY DEF Start
<1>2. /\ Space(pos)' <=> Space(pos)
      /\ Space(pos - 1)' <=> Space(pos - 1)
  BY DEF Space
<1>3. Colon(1)' <=> Colon(1)
  BY DEF Colon
<1>4. SourceOf' = SourceOf /\ TrailingOf' = TrailingOf
  BY SameLine
<1>5. ParamsUpTo(pos) => ParamsUpTo(pos)'
  BY DEF ParamsUpTo
<1>6. ParamsUpTo(pos - 1) => ParamsUpTo(pos - 1)'
  BY DEF ParamsUpTo
<1>7. ParamsUpTo(ParamsAfter(line)) => ParamsUpTo(ParamsAfter(line))'
  BY DEF ParamsUpTo
<1> QED
  BY <1>1, <1>2, <1>3, <1>4, <1>5, <1>6, <1>7 DEF Progress

(* Every step keeps what is read in step with the line.                    *)
LEMMA StepRead ==
  IndInv /\ LeakInv /\ LeakInv' /\ ReadInv /\ [Next]_vars => ReadInv'
<1> SUFFICES ASSUME IndInv, LeakInv, LeakInv', ReadInv, [Next]_vars,
                    IsMessage(line, FALSE), line' = line,
                    installed' = installed
             PROVE  /\ phase' \in {"start", "scan"} => Progress'
                    /\ phase' = "end" => Judged'
  <2>1. [Next]_vars => line' = line /\ installed' = installed
    BY DEF Next, Rule, vars, input, InitFails, BeginScan, EndParse, Prefix,
           KnownCommand, Command, Skip, Source, User, Host, PrefixEnd,
           ParamStart, TrailingStart, Middle, Overrun, Trailing, Signal, Echo,
           EndOfInput, Advance, Finish
  <2> QED BY <2>1 DEF ReadInv
<1>1. line \in Lines /\ IsMessage(line, TRUE)
  BY DEF IndInv, TypeOK, IsMessage
<1>2. /\ phase \in {"start", "scan"} => Reading
      /\ phase' \in {"start", "scan"} => Placed'
      /\ phase = "end" => Judged
  <2>1. phase \in {"start", "scan"} => Placed /\ Progress
    BY <1>1 DEF LeakInv, ReadInv
  <2>2. phase' \in {"start", "scan"} => Placed'
    BY <1>1 DEF LeakInv
  <2>3. phase = "end" => Judged
    BY DEF ReadInv
  <2> QED BY <1>1, <2>1, <2>2, <2>3, MessageLayout DEF Reading
<1>3. CASE Prefix \/ Source \/ User \/ Host \/ PrefixEnd \/ KnownCommand
           \/ Command \/ ParamStart \/ TrailingStart \/ Middle \/ Trailing
           \/ Echo
  <2>1. phase = "scan" /\ phase' = "scan"
    BY <1>3 DEF Prefix, Source, User, Host, PrefixEnd, KnownCommand, Command,
                ParamStart, TrailingStart, Middle, Trailing, Echo, At, Scan,
                Advance
  <2>2. Reading /\ Placed'
    BY <1>2, <2>1
  <2>3. Progress'
    BY <1>3, <2>2, PrefixProgress, CommandProgress, StartProgress,
       MiddleProgress, TrailingProgress, EchoProgress
  <2> QED BY <2>1, <2>3
<1>4. CASE Skip \/ Signal \/ Overrun \/ EndOfInput
  <2>1. phase = "scan" /\ phase' = "end"
    BY <1>4 DEF Skip, Signal, Overrun, EndOfInput, At, Scan, Finish
  <2>2. Reading
    BY <1>2, <2>1
  <2>3. ASSUME Skip PROVE Judged'
    <3>1. result' = "skipped" /\ EventOf(line) \notin installed
      BY <2>2, <2>3, SkipJudged
    <3> QED BY <3>1 DEF Judged
  <2>4. ASSUME Signal PROVE Judged'
    <3>1. /\ result' = "ok" /\ signal'[1] = EventOf(line)
          /\ EventOf(line) \in installed /\ HasContent(signal'[2], line)
      BY <2>2, <2>4, SignalJudged
    <3> QED BY <3>1 DEF Judged
  <2>5. ASSUME Overrun PROVE Judged'
    <3>1. result' = "overrun" /\ Cardinality(ParamsOf(line)) > ParamSlots
      BY <2>2, <2>5, OverrunJudged
    <3> QED BY <3>1 DEF Judged
  <2>6. ~EndOfInput
    BY <2>2, EndNotReached
  <2>7. Judged'
    BY <1>4, <2>3, <2>4, <2>5, <2>6
  <2> QED BY <2>1, <2>7
<1>5. CASE BeginScan
  <2>1. /\ UNCHANGED <<line, installed, pos, stack, event, msg>>
        /\ phase = "start" /\ phase' = "scan"
    BY <1>5 DEF BeginScan, input
  <2>2. Progress
    BY <1>2, <2>1 DEF Reading
  <2>3. Progress'
    BY <2>1, <2>2, SameProgress
  <2> QED BY <2>1, <2>3
<1>6. CASE InitFails \/ EndParse
  BY <1>6 DEF InitFails, EndParse
<1>7. CASE UNCHANGED vars
  <2>1. UNCHANGED <<line, installed, pos, stack, event, msg, phase, result,
                    signal>>
    BY <1>7 DEF vars
  <2>2. phase = "end" => Judged'
    BY <1>2, <2>1 DEF Judged
  <2>4. Progress => Progress'
    BY <2>1, SameProgress
  <2>5. phase \in {"start", "scan"} => Progress
    BY <1>2 DEF Reading
  <2> QED BY <2>1, <2>2, <2>4, <2>5
<1> QED
  BY <1>3, <1>4, <1>5, <1>6, <1>7 DEF Next, Rule

(* A whole message of any length, with any number of parameters, calls the *)
(* callback of its command with its source, its parameters in their order  *)
(* and its trailing text; it is dropped only when that callback is null,   *)
(* and what does not fit into param is more than its slots.                *)
THEOREM MessageDelivered == Spec => []MessageSignalled
<1>1. ReadInv => MessageSignalled
  BY DEF ReadInv, Judged, MessageSignalled
<1>2. IndInv /\ LeakInv /\ [Next]_vars => LeakInv'
  BY StepLeak
<1>3. IndInv /\ LeakInv /\ LeakInv' /\ ReadInv /\ [Next]_vars => ReadInv'
  BY StepRead
<1> QED
  BY <1>1, <1>2, <1>3, Inductive, InitLeak, InitRead, PTL DEF Spec

-----------------------------------------------------------------------------
(***************************************************************************)
(* What a helper writes, read by the grammar of the scanner.               *)
(***************************************************************************)

Blank(x) == x = " "
Mark(x)  == x = ":"
Stop(x)  == x \in {"eol", "nul"}

LEMMA PieceNames ==
  /\ \A x \in Words : ~Blank(x) /\ ~Mark(x) /\ ~Stop(x)
  /\ \A x : Blank(x) => ~Mark(x) /\ ~Stop(x)
  /\ \A x : Mark(x) => ~Stop(x)
  /\ Stop("eol") /\ ~Blank("eol") /\ ~Mark("eol") /\ "eol" \notin Words
BY DEF Blank, Mark, Stop, Words

(* A word, a parameter up to q if there is one, and a text behind " :" if  *)
(* there is one.                                                           *)
HelperLine(l, q) ==
  /\ l \in Seq(Pieces) /\ q \in 2..Len(l)
  /\ l[1] \in Words /\ l[Len(l)] = "eol"
  /\ \A i \in 1..(Len(l) - 1) : ~Stop(l[i])
  /\ \/ q = 2
     \/ /\ q > 3 /\ Blank(l[2]) /\ ~Mark(l[3])
        /\ \A i \in 3..(q - 1) : ~Blank(l[i])
  /\ \/ q = Len(l)
     \/ q + 2 < Len(l) /\ Blank(l[q]) /\ Mark(l[q + 1])

(* The parts of such a line, as the grammar finds them.                    *)
LEMMA HelperParts ==
  ASSUME NEW l, NEW q, HelperLine(l, q)
  PROVE  /\ CommandAt(l) = 1 /\ CommandAfter(l) = 2 /\ ParamsAfter(l) = q
         /\ Len(l) \in Nat /\ q \in Nat /\ 2 <= q /\ q <= Len(l)
<1> DEFINE n == Len(l)  S == {" ", "eol"}
           C == {i \in 2..(n - 1) : Blank(l[i]) /\ Mark(l[i + 1])}
<1>1. /\ n \in Nat /\ q \in Nat /\ 2 <= q /\ q <= n
      /\ l[1] \in Words /\ l[n] = "eol" /\ \A i \in 1..(n - 1) : ~Stop(l[i])
  BY DEF HelperLine
<1>2. /\ q = 2 \/ (/\ q > 3 /\ Blank(l[2]) /\ ~Mark(l[3])
                   /\ \A i \in 3..(q - 1) : ~Blank(l[i]))
      /\ q = n \/ (q + 2 < n /\ Blank(l[q]) /\ Mark(l[q + 1]))
  BY DEF HelperLine
<1>3. CommandAt(l) = 1
  BY <1>1 DEF CommandAt, Words
<1>4. \A x : Blank(x) \/ x = "eol" <=> x \in S
  BY DEF Blank
<1>5. l[1] \notin S
  BY <1>1, <1>4, PieceNames
<1>6. l[2] \in S
  BY <1>1, <1>2, <1>4
<1>7. CommandAfter(l) = 2
  <2>1. CommandAfter(l) = First(l, 1, S)
    BY <1>3 DEF CommandAfter
  <2> HIDE DEF S
  <2>2. First(l, 1, S) \in 1..2 /\ l[First(l, 1, S)] \in S
    BY <1>1, <1>6, FirstFacts
  <2>3. First(l, 1, S) = 1 \/ First(l, 1, S) = 2
    BY <2>2
  <2> QED BY <1>5, <2>1, <2>2, <2>3
<1>8. ParamsAfter(l) = IF C = {} THEN n
                       ELSE CHOOSE i \in C : \A j \in C : i <= j
  BY <1>7 DEF ParamsAfter, Blank, Mark
<1> HIDE DEF n, S
<1>9. ASSUME NEW i \in C PROVE q <= i
  <2>1. /\ i \in 2..(n - 1) /\ Blank(l[i]) /\ Mark(l[i + 1])
    OBVIOUS
  <2> HIDE DEF C
  <2>2. SUFFICES ASSUME i < q PROVE FALSE
    BY <1>1, <2>1
  <2>3. q > 3 /\ ~Mark(l[3]) /\ \A j \in 3..(q - 1) : ~Blank(l[j])
    BY <1>1, <1>2, <2>1, <2>2
  <2>4. i = 2 \/ i \in 3..(q - 1)
    BY <1>1, <2>1, <2>2
  <2>5. 2 + 1 = 3
    OBVIOUS
  <2> QED BY <2>1, <2>3, <2>4, <2>5
<1>10. CASE q = n
  <2>1. C = {}
    BY <1>1, <1>9, <1>10
  <2> QED BY <1>1, <1>3, <1>7, <1>8, <1>10, <2>1 DEF n
<1>11. CASE q # n
  <2>1. q \in 2..(n - 1) /\ Blank(l[q]) /\ Mark(l[q + 1])
    BY <1>1, <1>2, <1>11
  <2>2. q \in C
    BY <2>1
  <2>3. \A i \in C : i \in Nat
    BY <1>1
  <2> HIDE DEF C
  <2>4. \E i \in C : \A j \in C : i <= j
    BY <1>9, <2>2
  <2> DEFINE m == CHOOSE i \in C : \A j \in C : i <= j
  <2>5. m \in C /\ \A j \in C : m <= j
    BY <2>4
  <2>6. ParamsAfter(l) = m
    BY <1>8, <2>2
  <2> HIDE DEF m
  <2>7. m = q
    BY <1>1, <1>9, <2>2, <2>3, <2>5
  <2> QED BY <1>1, <1>3, <1>7, <2>6, <2>7 DEF n
<1> QED BY <1>10, <1>11

(* It is a message with at most the one parameter.                         *)
LEMMA HelperReads ==
  ASSUME NEW l, NEW q, HelperLine(l, q)
  PROVE  /\ IsMessage(l, FALSE)
         /\ \A p : p \in ParamsOf(l) <=> q # 2 /\ p = <<3, q - 1>>
<1> DEFINE n == Len(l)
<1>1. /\ CommandAt(l) = 1 /\ CommandAfter(l) = 2 /\ ParamsAfter(l) = q
      /\ n \in Nat /\ q \in Nat /\ 2 <= q /\ q <= n
  BY HelperParts
<1>2. /\ l[1] \in Words /\ l[n] = "eol" /\ \A i \in 1..(n - 1) : ~Stop(l[i])
      /\ q = 2 \/ (/\ q > 3 /\ Blank(l[2]) /\ ~Mark(l[3])
                   /\ \A i \in 3..(q - 1) : ~Blank(l[i]))
      /\ q = n \/ (q + 2 < n /\ Blank(l[q]) /\ Mark(l[q + 1]))
  BY DEF HelperLine
<1> HIDE DEF n
<1>3. IsMessage(l, FALSE)
  <2>1. \A i \in 1..(n - 1) : l[i] \notin {"eol", "nul"}
    BY <1>2 DEF Stop
  <2>2. l[1] # ":"
    BY <1>2 DEF Words
  <2>3. 1 < n /\ 1 < 2 /\ q + 2 # n
    BY <1>1, <1>2
  <2>4. \A i \in 1..(2 - 1) : l[i] \in Words
    BY <1>2
  <2>5. ASSUME NEW i \in 2..(q - 1), Blank(l[i])
        PROVE  ~Blank(l[i + 1]) /\ l[i + 1] # "eol"
    <3>1. q # 2 /\ ~(i \in 3..(q - 1))
      BY <1>1, <1>2, <2>5
    <3>2. i = 2 /\ 3 \in 3..(q - 1) /\ 3 \in 1..(n - 1)
      BY <1>1, <1>2, <3>1
    <3>3. ~Blank(l[3]) /\ ~Stop(l[3])
      BY <1>2, <3>1, <3>2
    <3>4. i + 1 = 3
      BY <3>2
    <3> QED BY <3>3, <3>4, PieceNames
  <2>6. \A i \in 2..(q - 1) : l[i] = " " => l[i + 1] \notin {" ", "eol"}
    BY <2>5 DEF Blank
  <2> QED BY <1>1, <2>1, <2>2, <2>3, <2>4, <2>6 DEF IsMessage, n
<1>4. \A p : p \in ParamsOf(l) <=>
        /\ p \in (1..n) \X (1..n) /\ 2 < p[1] /\ p[1] <= p[2] /\ p[2] < q
        /\ Blank(l[p[1] - 1]) /\ (Blank(l[p[2] + 1]) \/ l[p[2] + 1] = "eol")
        /\ \A i \in p[1]..p[2] : ~Blank(l[i])
  BY <1>1 DEF ParamsOf, Blank, n
<1>5. ASSUME NEW p, p \in ParamsOf(l) PROVE q # 2 /\ p = <<3, q - 1>>
  <2>1. PICK a \in 1..n, b \in 1..n : p = <<a, b>>
    BY <1>4, <1>5
  <2>2. /\ 2 < a /\ a <= b /\ b < q /\ Blank(l[a - 1])
        /\ Blank(l[b + 1]) \/ l[b + 1] = "eol"
    BY <1>4, <1>5, <2>1
  <2>3. a \in Nat /\ b \in Nat
    BY <1>1
  <2>4. q # 2 /\ \A i \in 3..(q - 1) : ~Blank(l[i])
    BY <1>1, <1>2, <2>2, <2>3
  <2>5. ~(a - 1 \in 3..(q - 1)) /\ ~(b + 1 \in 3..(q - 1))
    <3>1. b + 1 \in 3..(q - 1) => b + 1 \in 1..(n - 1)
      BY <1>1, <2>3
    <3>2. l[b + 1] = "eol" => Stop(l[b + 1])
      BY DEF Stop
    <3> QED BY <1>2, <2>2, <2>4, <3>1, <3>2
  <2>6. a = 3 /\ b = q - 1
    BY <1>1, <2>2, <2>3, <2>5
  <2> QED BY <2>1, <2>4, <2>6
<1>6. ASSUME q # 2 PROVE <<3, q - 1>> \in ParamsOf(l)
  <2>1. /\ q > 3 /\ Blank(l[2]) /\ \A i \in 3..(q - 1) : ~Blank(l[i])
    BY <1>2, <1>6
  <2>2. Blank(l[q]) \/ l[q] = "eol"
    BY <1>2
  <2> DEFINE p == <<3, q - 1>>
  <2>3. p[1] = 3 /\ p[2] = q - 1
    OBVIOUS
  <2>4. p \in (1..n) \X (1..n)
    BY <1>1, <2>1
  <2> HIDE DEF p
  <2>5. 3 - 1 = 2 /\ q - 1 + 1 = q /\ 2 < 3 /\ 3 <= q - 1 /\ q - 1 < q
    BY <1>1, <2>1
  <2>6. p \in ParamsOf(l)
    BY <1>4, <2>1, <2>2, <2>3, <2>4, <2>5
  <2> QED BY <2>6 DEF p
<1> QED BY <1>3, <1>5, <1>6

(* What Reads compares.                                                    *)
LEMMA HelperText ==
  ASSUME NEW r, NEW l, l = r.out.text \o <<"eol">>, NEW q, HelperLine(l, q),
         NEW P, NEW t,
         (q = 2 /\ P = {}) \/ (q # 2 /\ P = {SubSeq(l, 3, q - 1)}),
         \/ q = Len(l) /\ t = <<>>
         \/ q # Len(l) /\ t = <<SubSeq(l, q + 2, Len(l) - 1)>>
  PROVE  Reads(r, P, t)
<1>1. /\ IsMessage(l, FALSE) /\ ParamsAfter(l) = q
      /\ \A p : p \in ParamsOf(l) <=> q # 2 /\ p = <<3, q - 1>>
  BY HelperParts, HelperReads
<1>2. {SubSeq(l, p[1], p[2]) : p \in ParamsOf(l)} = P
  <2>1. CASE q = 2 /\ P = {}
    <3>1. ParamsOf(l) = {}
      BY <1>1, <2>1
    <3> QED BY <2>1, <3>1
  <2>2. CASE q # 2 /\ P = {SubSeq(l, 3, q - 1)}
    <3>1. ParamsOf(l) = {<<3, q - 1>>}
      BY <1>1, <2>2
    <3>2. \A x : x \in {SubSeq(l, p[1], p[2]) : p \in ParamsOf(l)}
                  <=> x = SubSeq(l, 3, q - 1)
      <4> DEFINE p0 == <<3, q - 1>>
      <4>1. p0[1] = 3 /\ p0[2] = q - 1
        OBVIOUS
      <4> HIDE DEF p0
      <4>2. ParamsOf(l) = {p0}
        BY <3>1 DEF p0
      <4> QED BY <4>1, <4>2
    <3> QED BY <2>2, <3>2
  <2> QED BY <2>1, <2>2
<1>3. (IF q = Len(l) THEN <<>> ELSE <<SubSeq(l, q + 2, Len(l) - 1)>>) = t
  OBVIOUS
<1> QED BY <1>1, <1>2, <1>3 DEF Reads

(* A string that can be a parameter, and one that is part of a line.       *)
Unbroken(t) == t \in Seq(Pieces) /\ \A i \in 1..Len(t) : ~Stop(t[i])
IsParam(c)  == /\ Unbroken(c) /\ Len(c) > 0 /\ ~Mark(c[1])
               /\ \A i \in 1..Len(c) : ~Blank(c[i])

LEMMA PartOf ==
  ASSUME NEW l \in Seq(Pieces), NEW c \in Seq(Pieces), NEW a \in Nat,
         a + Len(c) <= Len(l), \A i \in 1..Len(c) : l[a + i] = c[i]
  PROVE  SubSeq(l, a + 1, a + Len(c)) = c
<1> DEFINE k == Len(c)  s == SubSeq(l, a + 1, a + k)
<1>1. k \in Nat /\ Len(l) \in Nat /\ a + k <= Len(l)
  OBVIOUS
<1> DEFINE u == a + 1  v == a + k
<1> HIDE DEF k
<1>2. u \in Int /\ v \in Int /\ \A i \in u..v : l[i] \in Pieces
  BY <1>1
<1>7. s = SubSeq(l, u, v)
  OBVIOUS
<1> HIDE DEF s, u, v
<1>8. /\ SubSeq(l, u, v) \in Seq(Pieces)
      /\ Len(SubSeq(l, u, v)) = IF u <= v THEN v - u + 1 ELSE 0
      /\ \A i \in 1..v - u + 1 : SubSeq(l, u, v)[i] = l[u + i - 1]
  BY <1>2, SubSeqProperties
<1>9. /\ s \in Seq(Pieces) /\ Len(s) = IF u <= v THEN v - u + 1 ELSE 0
      /\ \A i \in 1..v - u + 1 : s[i] = l[u + i - 1]
  BY <1>7, <1>8
<1>3. /\ u = a + 1 /\ v = a + k
  BY DEF u, v
<1>4. Len(s) = k
  BY <1>1, <1>3, <1>9
<1>5. ASSUME NEW i \in 1..k PROVE s[i] = c[i]
  <2>1. i \in 1..v - u + 1 /\ u + i - 1 = a + i
    BY <1>1, <1>3
  <2>2. s[i] = l[a + i]
    BY <1>9, <2>1
  <2> QED BY <2>2 DEF k
<1>6. s = c
  BY <1>9, <1>4, <1>5, SeqEqual DEF k
<1> QED BY <1>6 DEF s, k, u, v

(* s is y, of length m, behind x, of length n.                            *)
Joined(s, x, n, y, m) ==
  /\ s \in Seq(Pieces) /\ n \in Nat /\ m \in Nat /\ Len(s) = n + m
  /\ \A i \in 1..n : s[i] = x[i]
  /\ \A i \in 1..m : s[n + i] = y[i]

LEMMA JoinFacts ==
  ASSUME NEW x \in Seq(Pieces), NEW y \in Seq(Pieces)
  PROVE  Joined(x \o y, x, Len(x), y, Len(y))
<1> DEFINE S == Pieces
<1>1. x \in Seq(S) /\ y \in Seq(S)
  OBVIOUS
<1> HIDE DEF S
<1>2. /\ x \o y \in Seq(S) /\ Len(x \o y) = Len(x) + Len(y)
      /\ \A i \in 1..Len(x) + Len(y) :
           (x \o y)[i] = IF i <= Len(x) THEN x[i] ELSE y[i - Len(x)]
  BY <1>1, ConcatProperties
<1>3. Len(x) \in Nat /\ Len(y) \in Nat
  BY <1>1
<1> DEFINE s == x \o y  n == Len(x)  m == Len(y)
<1>6. /\ s \in Seq(S) /\ Len(s) = n + m /\ n \in Nat /\ m \in Nat
      /\ \A i \in 1..n + m : s[i] = IF i <= n THEN x[i] ELSE y[i - n]
  BY <1>2, <1>3
<1> HIDE DEF s, n, m
<1>4. ASSUME NEW i \in 1..n PROVE s[i] = x[i]
  BY <1>6
<1>5. ASSUME NEW i \in 1..m PROVE s[n + i] = y[i]
  <2>1. n + i \in 1..n + m /\ ~(n + i <= n) /\ n + i - n = i
    BY <1>6
  <2> QED BY <1>6, <2>1
<1>7. Joined(s, x, n, y, m)
  BY <1>6, <1>4, <1>5 DEF Joined, S
<1> QED BY <1>7 DEF s, n, m

(* "W c": a word and a parameter, from c's length k.                       *)
LEMMA ParamLine ==
  ASSUME NEW H, H[1] \in Words, Blank(H[2]), NEW c, IsParam(c),
         NEW k, Len(c) = k, NEW E, E[1] = "eol",
         NEW s, Joined(s, H, 2, c, k), NEW l, Joined(l, s, Len(s), E, 1)
  PROVE  /\ Unbroken(s) /\ k + 3 = Len(l)
         /\ HelperLine(l, k + 3) /\ SubSeq(l, 3, k + 2) = c
<1>1. /\ c \in Seq(Pieces) /\ Len(c) = k /\ k \in Nat /\ k > 0
      /\ ~Mark(c[1]) /\ \A i \in 1..k : ~Blank(c[i]) /\ ~Stop(c[i])
  BY DEF IsParam, Unbroken
<1>2. /\ s \in Seq(Pieces) /\ Len(s) = 2 + k
      /\ \A i \in 1..2 : s[i] = H[i]
      /\ \A i \in 1..k : s[2 + i] = c[i]
  BY DEF Joined
<1>3. /\ l \in Seq(Pieces) /\ Len(l) = 2 + k + 1
      /\ \A i \in 1..(2 + k) : l[i] = s[i]
      /\ \A i \in 1..1 : l[2 + k + i] = E[i]
  BY <1>2 DEF Joined
<1>4. l[1] = H[1] /\ l[2] = H[2] /\ s[1] = H[1] /\ s[2] = H[2]
  <2>1. 1 \in 1..2 /\ 2 \in 1..2 /\ 1 \in 1..(2 + k) /\ 2 \in 1..(2 + k)
    BY <1>1
  <2> QED BY <1>2, <1>3, <2>1
<1>5. ASSUME NEW i \in 1..k PROVE l[2 + i] = c[i] /\ s[2 + i] = c[i]
  <2>1. 2 + i \in 1..(2 + k)
    BY <1>1
  <2> QED BY <1>2, <1>3, <2>1
<1>6. \A i \in 1..(2 + k) : i = 1 \/ i = 2
                              \/ (i - 2 \in 1..k /\ 2 + (i - 2) = i)
  BY <1>1
<1>7. ASSUME NEW i \in 1..(2 + k) PROVE ~Stop(l[i]) /\ ~Stop(s[i])
  <2>1. ~Stop(H[1]) /\ ~Stop(H[2])
    BY PieceNames
  <2>2. CASE i = 1 \/ i = 2
    BY <1>4, <2>1, <2>2
  <2>3. CASE i - 2 \in 1..k /\ 2 + (i - 2) = i
    <3>1. l[2 + (i - 2)] = c[i - 2] /\ s[2 + (i - 2)] = c[i - 2]
      BY <1>5, <2>3
    <3> QED BY <1>1, <2>3, <3>1
  <2> QED BY <1>6, <2>2, <2>3
<1>8. \A i \in 3..(2 + k) : ~Blank(l[i])
  <2>1. \A i \in 3..(2 + k) : i - 2 \in 1..k /\ 2 + (i - 2) = i
    BY <1>1
  <2> QED BY <1>1, <1>5, <2>1
<1>9. ~Mark(l[3])
  <2>1. 1 \in 1..k /\ 2 + 1 = 3
    BY <1>1
  <2> QED BY <1>1, <1>5, <2>1
<1>10. Unbroken(s)
  <2>1. \A i \in 1..Len(s) : ~Stop(s[i])
    BY <1>2, <1>7
  <2> QED BY <1>2, <2>1 DEF Unbroken
<1> DEFINE q == k + 3
<1>11. HelperLine(l, q)
  <2>1. /\ q \in 2..Len(l) /\ q > 3 /\ q = Len(l)
        /\ Len(l) - 1 = 2 + k /\ q - 1 = 2 + k /\ 2 + k + 1 = q
    BY <1>1, <1>3
  <2> HIDE DEF q
  <2>2. l[Len(l)] = "eol"
    <3>1. 1 \in 1..1
      OBVIOUS
    <3> QED BY <1>3, <2>1, <3>1
  <2>3. \A i \in 1..(Len(l) - 1) : ~Stop(l[i])
    BY <1>7, <2>1
  <2>4. \A i \in 3..(q - 1) : ~Blank(l[i])
    BY <1>8, <2>1
  <2>5. l[1] \in Words /\ Blank(l[2])
    BY <1>4
  <2> QED BY <1>3, <1>9, <2>1, <2>2, <2>3, <2>4, <2>5, Zenon DEF HelperLine
<1>12. SubSeq(l, 3, k + 2) = c
  <2>1. 2 + Len(c) <= Len(l) /\ \A i \in 1..Len(c) : l[2 + i] = c[i]
    BY <1>1, <1>3, <1>5
  <2>2. SubSeq(l, 2 + 1, 2 + Len(c)) = c
    <3>1. 2 \in Nat
      OBVIOUS
    <3> QED BY <1>1, <1>3, <2>1, <3>1, PartOf, Zenon
  <2>3. 2 + 1 = 3 /\ 2 + Len(c) = k + 2
    BY <1>1
  <2> QED BY <2>2, <2>3
<1>14. k + 3 = Len(l)
  BY <1>1, <1>3
<1> QED BY <1>14, <1>10, <1>11, <1>12

(* "W :t": a word and a text, of length k.                                 *)
LEMMA TextLine ==
  ASSUME NEW H, H[1] \in Words, Blank(H[2]), Mark(H[3]),
         NEW t, Unbroken(t), NEW k, Len(t) = k, k > 0, NEW E, E[1] = "eol",
         NEW s, Joined(s, H, 3, t, k), NEW l, Joined(l, s, Len(s), E, 1)
  PROVE  /\ Unbroken(s) /\ 2 # Len(l)
         /\ HelperLine(l, 2) /\ SubSeq(l, 4, Len(l) - 1) = t
<1>1. /\ t \in Seq(Pieces) /\ Len(t) = k /\ k \in Nat /\ k > 0
      /\ \A i \in 1..k : ~Stop(t[i])
  BY DEF Unbroken
<1>2. /\ s \in Seq(Pieces) /\ Len(s) = 3 + k
      /\ \A i \in 1..3 : s[i] = H[i]
      /\ \A i \in 1..k : s[3 + i] = t[i]
  BY DEF Joined
<1>3. /\ l \in Seq(Pieces) /\ Len(l) = 3 + k + 1
      /\ \A i \in 1..(3 + k) : l[i] = s[i]
      /\ \A i \in 1..1 : l[3 + k + i] = E[i]
  BY <1>2 DEF Joined
<1>4. /\ l[1] = H[1] /\ l[2] = H[2] /\ l[3] = H[3]
      /\ s[1] = H[1] /\ s[2] = H[2] /\ s[3] = H[3]
  <2>1. /\ 1 \in 1..3 /\ 2 \in 1..3 /\ 3 \in 1..3
        /\ 1 \in 1..(3 + k) /\ 2 \in 1..(3 + k) /\ 3 \in 1..(3 + k)
    BY <1>1
  <2> QED BY <1>2, <1>3, <2>1
<1>5. ASSUME NEW i \in 1..k PROVE l[3 + i] = t[i] /\ s[3 + i] = t[i]
  <2>1. 3 + i \in 1..(3 + k)
    BY <1>1
  <2> QED BY <1>2, <1>3, <2>1
<1>6. \A i \in 1..(3 + k) : i = 1 \/ i = 2 \/ i = 3
                              \/ (i - 3 \in 1..k /\ 3 + (i - 3) = i)
  BY <1>1
<1>7. ASSUME NEW i \in 1..(3 + k) PROVE ~Stop(l[i]) /\ ~Stop(s[i])
  <2>1. ~Stop(H[1]) /\ ~Stop(H[2]) /\ ~Stop(H[3])
    BY PieceNames
  <2>2. CASE i = 1 \/ i = 2 \/ i = 3
    BY <1>4, <2>1, <2>2
  <2>3. CASE i - 3 \in 1..k /\ 3 + (i - 3) = i
    <3>1. l[3 + (i - 3)] = t[i - 3] /\ s[3 + (i - 3)] = t[i - 3]
      BY <1>5, <2>3
    <3> QED BY <1>1, <2>3, <3>1
  <2> QED BY <1>6, <2>2, <2>3
<1>8. Unbroken(s)
  <2>1. \A i \in 1..Len(s) : ~Stop(s[i])
    BY <1>2, <1>7
  <2> QED BY <1>2, <2>1 DEF Unbroken
<1>9. HelperLine(l, 2)
  <2>1. /\ 2 \in 2..Len(l) /\ 2 + 2 < Len(l) /\ 2 + 1 = 3
        /\ Len(l) - 1 = 3 + k /\ 3 + k + 1 = Len(l)
    BY <1>1, <1>3
  <2>2. l[Len(l)] = "eol"
    <3>1. 1 \in 1..1
      OBVIOUS
    <3> QED BY <1>3, <2>1, <3>1
  <2>3. \A i \in 1..(Len(l) - 1) : ~Stop(l[i])
    BY <1>7, <2>1
  <2>4. l[1] \in Words /\ Blank(l[2]) /\ Mark(l[2 + 1])
    BY <1>4, <2>1
  <2> QED BY <1>3, <2>1, <2>2, <2>3, <2>4, Zenon DEF HelperLine
<1>10. SubSeq(l, 4, Len(l) - 1) = t
  <2>1. 3 + Len(t) <= Len(l) /\ \A i \in 1..Len(t) : l[3 + i] = t[i]
    BY <1>1, <1>3, <1>5
  <2>2. SubSeq(l, 3 + 1, 3 + Len(t)) = t
    <3>1. 3 \in Nat
      OBVIOUS
    <3> QED BY <1>1, <1>3, <2>1, <3>1, PartOf, Zenon
  <2>3. 3 + 1 = 4 /\ 3 + Len(t) = Len(l) - 1
    BY <1>1, <1>3
  <2> QED BY <2>2, <2>3
<1>11. 2 # Len(l)
  BY <1>1, <1>3
<1> QED BY <1>8, <1>9, <1>10, <1>11

(* "W c :t": a word, a parameter of length k and a text of length j.       *)
ParamTextParts(H, c, k, M, t, j, E, r, u, s, l) ==
  /\ H[1] \in Words /\ Blank(H[2]) /\ Blank(M[1]) /\ Mark(M[2])
  /\ E[1] = "eol" /\ IsParam(c) /\ Len(c) = k
  /\ Unbroken(t) /\ Len(t) = j /\ j > 0
  /\ Joined(r, H, 2, c, k) /\ Joined(u, r, Len(r), M, 2)
  /\ Joined(s, u, Len(u), t, j) /\ Joined(l, s, Len(s), E, 1)

LEMMA ParamTextLine ==
  ASSUME NEW H, NEW c, NEW k, NEW M, NEW t, NEW j, NEW E,
         NEW r, NEW u, NEW s, NEW l,
         ParamTextParts(H, c, k, M, t, j, E, r, u, s, l)
  PROVE  /\ Unbroken(s) /\ k + 3 # Len(l) /\ HelperLine(l, k + 3)
         /\ SubSeq(l, 3, k + 2) = c /\ SubSeq(l, k + 5, Len(l) - 1) = t
<1>20. /\ H[1] \in Words /\ Blank(H[2]) /\ Blank(M[1]) /\ Mark(M[2])
       /\ E[1] = "eol" /\ IsParam(c) /\ Len(c) = k
       /\ Unbroken(t) /\ Len(t) = j /\ j > 0
       /\ Joined(r, H, 2, c, k) /\ Joined(u, r, Len(r), M, 2)
       /\ Joined(s, u, Len(u), t, j) /\ Joined(l, s, Len(s), E, 1)
  BY DEF ParamTextParts
<1>1. /\ c \in Seq(Pieces) /\ Len(c) = k /\ k \in Nat /\ k > 0
      /\ ~Mark(c[1]) /\ \A i \in 1..k : ~Blank(c[i]) /\ ~Stop(c[i])
  BY <1>20 DEF IsParam, Unbroken
<1>2. /\ t \in Seq(Pieces) /\ Len(t) = j /\ j \in Nat /\ j > 0
      /\ \A i \in 1..j : ~Stop(t[i])
  BY <1>20 DEF Unbroken
<1>3. /\ Len(r) = 2 + k /\ \A i \in 1..2 : r[i] = H[i]
      /\ \A i \in 1..k : r[2 + i] = c[i]
  BY <1>20 DEF Joined
<1>4. /\ Len(u) = k + 4 /\ \A i \in 1..(2 + k) : u[i] = r[i]
      /\ \A i \in 1..2 : u[2 + k + i] = M[i]
  BY <1>1, <1>3, <1>20 DEF Joined
<1>5. /\ s \in Seq(Pieces) /\ Len(s) = k + 4 + j
      /\ \A i \in 1..(k + 4) : s[i] = u[i]
      /\ \A i \in 1..j : s[k + 4 + i] = t[i]
  BY <1>1, <1>2, <1>4, <1>20 DEF Joined
<1>6. /\ l \in Seq(Pieces) /\ Len(l) = k + 4 + j + 1
      /\ \A i \in 1..(k + 4 + j) : l[i] = s[i]
      /\ \A i \in 1..1 : l[k + 4 + j + i] = E[i]
  BY <1>1, <1>2, <1>5, <1>20 DEF Joined
<1>7. ASSUME NEW i \in 1..(2 + k) PROVE s[i] = r[i]
  <2>1. i \in 1..(k + 4)
    BY <1>1
  <2> QED BY <1>4, <1>5, <2>1
<1>8. s[1] = H[1] /\ s[2] = H[2]
  <2>1. 1 \in 1..2 /\ 2 \in 1..2 /\ 1 \in 1..(2 + k) /\ 2 \in 1..(2 + k)
    BY <1>1
  <2> QED BY <1>3, <1>7, <2>1
<1>9. ASSUME NEW i \in 1..k PROVE s[2 + i] = c[i]
  <2>1. 2 + i \in 1..(2 + k)
    BY <1>1
  <2> QED BY <1>3, <1>7, <2>1
<1>10. s[k + 3] = M[1] /\ s[k + 4] = M[2]
  <2>1. /\ 1 \in 1..2 /\ 2 \in 1..2 /\ 2 + k + 1 = k + 3 /\ 2 + k + 2 = k + 4
        /\ k + 3 \in 1..(k + 4) /\ k + 4 \in 1..(k + 4)
    BY <1>1
  <2> QED BY <1>4, <1>5, <2>1
<1>11. ASSUME NEW i \in 1..(k + 4 + j) PROVE ~Stop(s[i])
  <2>1. \/ i = 1 \/ i = 2 \/ (i - 2 \in 1..k /\ 2 + (i - 2) = i)
        \/ i = k + 3 \/ i = k + 4
        \/ (i - (k + 4) \in 1..j /\ k + 4 + (i - (k + 4)) = i)
    BY <1>1, <1>2
  <2>2. CASE i = 1 \/ i = 2
    BY <1>8, <1>20, <2>2, PieceNames
  <2>3. CASE i - 2 \in 1..k /\ 2 + (i - 2) = i
    BY <1>1, <1>9, <2>3
  <2>4. CASE i = k + 3 \/ i = k + 4
    BY <1>10, <1>20, <2>4, PieceNames
  <2>5. CASE i - (k + 4) \in 1..j /\ k + 4 + (i - (k + 4)) = i
    <3>1. s[k + 4 + (i - (k + 4))] = t[i - (k + 4)]
      BY <1>5, <2>5
    <3>2. ~Stop(t[i - (k + 4)])
      BY <1>2, <2>5
    <3> QED BY <2>5, <3>1, <3>2
  <2> QED BY <2>1, <2>2, <2>3, <2>4, <2>5
<1>12. Unbroken(s)
  <2>1. \A i \in 1..Len(s) : ~Stop(s[i])
    BY <1>5, <1>11
  <2> QED BY <1>5, <2>1 DEF Unbroken
<1>13. ASSUME NEW i \in 1..k PROVE l[2 + i] = c[i]
  <2>1. 2 + i \in 1..(k + 4 + j)
    BY <1>1, <1>2
  <2> QED BY <1>6, <1>9, <2>1
<1>14. ASSUME NEW i \in 1..j PROVE l[k + 4 + i] = t[i]
  <2>1. k + 4 + i \in 1..(k + 4 + j)
    BY <1>1, <1>2
  <2> QED BY <1>5, <1>6, <2>1
<1> DEFINE q == k + 3
<1>15. /\ q \in 2..Len(l) /\ q > 3 /\ q + 2 < Len(l) /\ q # Len(l)
       /\ Len(l) - 1 = k + 4 + j /\ q - 1 = 2 + k /\ q + 1 = k + 4
       /\ q \in 1..(k + 4 + j) /\ q + 1 \in 1..(k + 4 + j)
       /\ 1 \in 1..(k + 4 + j) /\ 2 \in 1..(k + 4 + j)
       /\ k + 4 + j + 1 = Len(l)
  BY <1>1, <1>2, <1>6
<1>16. HelperLine(l, q)
  <2>1. q = k + 3
    OBVIOUS
  <2> HIDE DEF q
  <2>2. l[Len(l)] = "eol"
    <3>1. 1 \in 1..1
      OBVIOUS
    <3> QED BY <1>6, <1>15, <1>20, <3>1
  <2>3. \A i \in 1..(Len(l) - 1) : ~Stop(l[i])
    BY <1>6, <1>11, <1>15
  <2>4. l[1] \in Words /\ Blank(l[2])
    BY <1>6, <1>8, <1>15, <1>20
  <2>5. Blank(l[q]) /\ Mark(l[q + 1])
    BY <1>6, <1>10, <1>15, <1>20, <2>1
  <2>6. \A i \in 3..(q - 1) : ~Blank(l[i])
    <3>1. \A i \in 3..(2 + k) : i - 2 \in 1..k /\ 2 + (i - 2) = i
      BY <1>1
    <3> QED BY <1>1, <1>13, <1>15, <3>1
  <2>7. ~Mark(l[3])
    <3>1. 1 \in 1..k /\ 2 + 1 = 3
      BY <1>1
    <3> QED BY <1>1, <1>13, <3>1
  <2> QED BY <1>6, <1>15, <2>2, <2>3, <2>4, <2>5, <2>6, <2>7, Zenon
          DEF HelperLine
<1>17. SubSeq(l, 3, k + 2) = c
  <2>1. 2 + Len(c) <= Len(l) /\ \A i \in 1..Len(c) : l[2 + i] = c[i]
    BY <1>1, <1>2, <1>6, <1>13
  <2>2. SubSeq(l, 2 + 1, 2 + Len(c)) = c
    <3>1. 2 \in Nat
      OBVIOUS
    <3> QED BY <1>1, <1>6, <2>1, <3>1, PartOf, Zenon
  <2>3. 2 + 1 = 3 /\ 2 + Len(c) = k + 2
    BY <1>1
  <2> QED BY <2>2, <2>3
<1>18. SubSeq(l, k + 5, Len(l) - 1) = t
  <2>1. k + 4 + Len(t) <= Len(l) /\ \A i \in 1..Len(t) : l[k + 4 + i] = t[i]
    BY <1>1, <1>2, <1>6, <1>14
  <2>2. SubSeq(l, k + 4 + 1, k + 4 + Len(t)) = t
    <3>1. k + 4 \in Nat
      BY <1>1
    <3> QED BY <1>2, <1>6, <2>1, <3>1, PartOf, Zenon
  <2>3. k + 4 + 1 = k + 5 /\ k + 4 + Len(t) = Len(l) - 1
    BY <1>1, <1>2, <1>6
  <2> QED BY <2>2, <2>3
<1>19. k + 3 # Len(l)
  BY <1>15
<1> QED BY <1>12, <1>16, <1>17, <1>18, <1>19

(* "W": a word alone.                                                      *)
LEMMA WordLine ==
  ASSUME NEW s, s \in Seq(Pieces), Len(s) = 1, s[1] \in Words,
         NEW E, E[1] = "eol", NEW l, Joined(l, s, 1, E, 1)
  PROVE  Unbroken(s) /\ Len(l) = 2 /\ HelperLine(l, 2)
<1>1. /\ l \in Seq(Pieces) /\ Len(l) = 2
      /\ \A i \in 1..1 : l[i] = s[i] /\ l[1 + i] = E[i]
  BY DEF Joined
<1>2. l[1] = s[1] /\ l[2] = "eol"
  <2>1. 1 \in 1..1 /\ 1 + 1 = 2
    OBVIOUS
  <2> QED BY <1>1, <2>1
<1>3. \A i \in 1..1 : i = 1
  OBVIOUS
<1>4. Unbroken(s)
  BY <1>3, PieceNames DEF Unbroken
<1>5. HelperLine(l, 2)
  <2>1. 2 \in 2..Len(l) /\ 2 = Len(l) /\ Len(l) - 1 = 1
    BY <1>1
  <2>2. \A i \in 1..(Len(l) - 1) : ~Stop(l[i])
    BY <1>2, <1>3, <2>1, PieceNames
  <2>3. l[1] \in Words /\ l[Len(l)] = "eol"
    BY <1>2, <2>1
  <2> QED BY <1>1, <2>1, <2>2, <2>3, Zenon DEF HelperLine
<1> QED BY <1>1, <1>4, <1>5

-----------------------------------------------------------------------------
(***************************************************************************)
(* The Writer.                                                             *)
(***************************************************************************)

(* A format of a few fields: the results of the fields, one by one.        *)
LEMMA FormatFacts ==
  ASSUME NEW f, NEW args, Len(f) \in 0..4
  PROVE  \E w : /\ w[0] = Writer /\ Format(f, args) = w[Len(f)]
                /\ \A n \in 1..Len(f) :
                     w[n] = FormatField(w[n - 1], f[n], args)
<1> DEFINE D(w) == [n \in 0..Len(f) |->
                      IF n = 0 THEN Writer
                      ELSE FormatField(w[n - 1], f[n], args)]
           W == CHOOSE w : w = D(w)
<1>1. Format(f, args) = W[Len(f)]
  BY DEF Format
<1> DEFINE w1 == FormatField(Writer, f[1], args)
           w2 == FormatField(w1, f[2], args)
           w3 == FormatField(w2, f[3], args)
           w4 == FormatField(w3, f[4], args)
           g == [n \in 0..Len(f) |->
                  IF n = 0 THEN Writer ELSE IF n = 1 THEN w1
                  ELSE IF n = 2 THEN w2 ELSE IF n = 3 THEN w3 ELSE w4]
<1>2. \A n \in 1..Len(f) : g[n] = FormatField(g[n - 1], f[n], args)
  <2> HIDE DEF w1, w2, w3, w4
  <2>1. ASSUME NEW n \in 1..Len(f)
        PROVE  /\ g[n] = IF n = 1 THEN w1 ELSE IF n = 2 THEN w2
                         ELSE IF n = 3 THEN w3 ELSE w4
               /\ g[n - 1] = IF n = 1 THEN Writer ELSE IF n = 2 THEN w1
                             ELSE IF n = 3 THEN w2 ELSE w3
               /\ n = 1 \/ n = 2 \/ n = 3 \/ n = 4
    <3>1. \A i \in 0..Len(f) :
            g[i] = IF i = 0 THEN Writer ELSE IF i = 1 THEN w1
                   ELSE IF i = 2 THEN w2 ELSE IF i = 3 THEN w3 ELSE w4
      OBVIOUS
    <3> HIDE DEF g
    <3>2. /\ n \in 0..Len(f) /\ n - 1 \in 0..Len(f) /\ n # 0
          /\ n = 1 \/ n = 2 \/ n = 3 \/ n = 4
      <4>1. \A N \in 0..4 : \A i \in 1..N :
              /\ i \in 0..N /\ i - 1 \in 0..N /\ i # 0
              /\ i = 1 \/ i = 2 \/ i = 3 \/ i = 4
        OBVIOUS
      <4> QED BY <4>1, Zenon
    <3>3. /\ n - 1 = 0 <=> n = 1
          /\ n - 1 = 1 <=> n = 2
          /\ n - 1 = 2 <=> n = 3
      BY <3>2
    <3> QED BY <3>1, <3>2, <3>3
  <2> HIDE DEF g
  <2> QED BY <2>1 DEF w1, w2, w3, w4
<1>3. g = D(g)
  <2> HIDE DEF w1, w2, w3, w4
  <2>1. \A n \in 0..Len(f) :
          g[n] = IF n = 0 THEN Writer ELSE FormatField(g[n - 1], f[n], args)
    <3>1. \A n \in 0..Len(f) : n = 0 \/ n \in 1..Len(f)
      OBVIOUS
    <3>2. g[0] = Writer
      OBVIOUS
    <3> HIDE DEF g
    <3> QED BY <1>2, <3>1, <3>2
  <2>2. g = [n \in 0..Len(f) |-> g[n]]
    BY Zenon
  <2> HIDE DEF g
  <2> QED BY <2>1, <2>2
<1> HIDE DEF g
<1>4. W = D(W)
  BY <1>3
<1> HIDE DEF W
<1>5. W[0] = Writer
  BY <1>4
<1>6. ASSUME NEW n \in 1..Len(f)
      PROVE  W[n] = FormatField(W[n - 1], f[n], args)
  BY <1>4
<1> QED BY <1>1, <1>5, <1>6

LEMMA FormatOne ==
  ASSUME NEW x, NEW args
  PROVE  Format(<<x>>, args) = FormatField(Writer, x, args)
<1> DEFINE f == <<x>>
<1>1. Len(f) = 1 /\ f[1] = x
  OBVIOUS
<1> HIDE DEF f
<1>4. Len(f) \in 0..4
  BY <1>1
<1>2. PICK w : /\ w[0] = Writer /\ Format(f, args) = w[Len(f)]
               /\ \A n \in 1..Len(f) : w[n] = FormatField(w[n - 1], f[n], args)
  BY <1>4, FormatFacts, Zenon
<1>3. w[1] = FormatField(w[0], x, args)
  <2>1. 1 \in 1..Len(f) /\ 1 - 1 = 0
    BY <1>1
  <2> QED BY <1>1, <1>2, <2>1
<1> QED BY <1>1, <1>2, <1>3 DEF f

LEMMA FormatTwo ==
  ASSUME NEW x, NEW y, NEW args
  PROVE  Format(<<x, y>>, args)
           = FormatField(FormatField(Writer, x, args), y, args)
<1> DEFINE f == <<x, y>>
<1>1. Len(f) = 2 /\ f[1] = x /\ f[2] = y
  OBVIOUS
<1> HIDE DEF f
<1>4. Len(f) \in 0..4
  BY <1>1
<1>2. PICK w : /\ w[0] = Writer /\ Format(f, args) = w[Len(f)]
               /\ \A n \in 1..Len(f) : w[n] = FormatField(w[n - 1], f[n], args)
  BY <1>4, FormatFacts, Zenon
<1>3. w[1] = FormatField(w[0], x, args) /\ w[2] = FormatField(w[1], y, args)
  <2>1. 1 \in 1..Len(f) /\ 1 - 1 = 0 /\ 2 \in 1..Len(f) /\ 2 - 1 = 1
    BY <1>1
  <2> QED BY <1>1, <1>2, <2>1
<1> QED BY <1>1, <1>2, <1>3 DEF f

LEMMA FormatFour ==
  ASSUME NEW x, NEW y, NEW z, NEW v, NEW args
  PROVE  Format(<<x, y, z, v>>, args)
           = FormatField(FormatField(FormatField(FormatField(
               Writer, x, args), y, args), z, args), v, args)
<1> DEFINE f == <<x, y, z, v>>
<1>1. Len(f) = 4 /\ f[1] = x /\ f[2] = y /\ f[3] = z /\ f[4] = v
  OBVIOUS
<1> HIDE DEF f
<1>4. Len(f) \in 0..4
  BY <1>1
<1>2. PICK w : /\ w[0] = Writer /\ Format(f, args) = w[Len(f)]
               /\ \A n \in 1..Len(f) : w[n] = FormatField(w[n - 1], f[n], args)
  BY <1>4, FormatFacts, Zenon
<1>3. /\ w[1] = FormatField(w[0], x, args) /\ w[2] = FormatField(w[1], y, args)
      /\ w[3] = FormatField(w[2], z, args) /\ w[4] = FormatField(w[3], v, args)
  <2>1. /\ 1 \in 1..Len(f) /\ 1 - 1 = 0 /\ 2 \in 1..Len(f) /\ 2 - 1 = 1
        /\ 3 \in 1..Len(f) /\ 3 - 1 = 2 /\ 4 \in 1..Len(f) /\ 4 - 1 = 3
    BY <1>1
  <2> QED BY <1>1, <1>2, <2>1
<1> QED BY <1>1, <1>2, <1>3 DEF f

(* A buffer in which everything put so far has had room.                   *)
Roomy(b) ==
  /\ b.text \in Seq(Pieces) /\ b.fits = TRUE
  /\ b.capacity \in Nat /\ InlineSize <= b.capacity
  /\ Len(b.text) <= b.capacity

LEMMA WriterRoomy == Roomy(Writer) /\ Writer.text = <<>>
BY ReplyAssumption DEF Roomy, Writer

LEMMA PutRoomy ==
  ASSUME NEW b, Roomy(b), NEW s \in Seq(Pieces), NEW m \in Nat,
         InlineSize <= m, Len(b.text) + Len(s) <= m
  PROVE  Roomy(Put(b, s, m)) /\ Put(b, s, m).text = b.text \o s
<1> DEFINE S == Pieces  u == b.text
<1>1. u \in Seq(S) /\ s \in Seq(S) /\ b.fits = TRUE
  BY DEF Roomy
<1>2. /\ Put(b, s, m).text = u \o s /\ Put(b, s, m).capacity = m
      /\ Put(b, s, m).fits = TRUE
  BY <1>1 DEF Put
<1> HIDE DEF S, u
<1>3. u \o s \in Seq(S) /\ Len(u \o s) = Len(u) + Len(s)
  BY <1>1, ConcatProperties
<1>4. Len(u) + Len(s) <= m
  BY DEF u
<1>5. Roomy(Put(b, s, m))
  BY <1>2, <1>3, <1>4 DEF Roomy, S
<1> QED BY <1>2, <1>5 DEF u

(* Growing for the literal alone is enough behind an argument when half    *)
(* of the buffer holds it, and when nothing stands before it.              *)
LEMMA LiteralRoomy ==
  ASSUME NEW b, Roomy(b), NEW s \in Seq(Pieces), Len(s) <= 2 \/ b.text = <<>>
  PROVE  /\ Roomy(AppendLiteral(b, s))
         /\ AppendLiteral(b, s).text = b.text \o s
<1> DEFINE n == Len(b.text)  k == Len(s)  c == b.capacity
           m == IF n + k > c THEN Grown(c, k) ELSE c
<1>1. /\ n \in Nat /\ k \in Nat /\ c \in Nat /\ InlineSize \in Nat
      /\ InlineSize >= 4 /\ InlineSize <= c /\ n <= c
  BY ReplyAssumption DEF Roomy
<1>2. k <= 2 \/ n = 0
  OBVIOUS
<1>3. AppendLiteral(b, s) = Put(b, s, m)
  BY DEF AppendLiteral
<1> HIDE DEF n, k, c
<1>4. Grown(c, k) \in Nat /\ Grown(c, k) >= c + c \div 2 /\ Grown(c, k) >= k
      /\ c \div 2 >= 2
  BY <1>1 DEF Grown
<1>5. m \in Nat /\ InlineSize <= m /\ n + k <= m
  BY <1>1, <1>2, <1>4
<1> HIDE DEF m
<1> QED BY <1>3, <1>5, PutRoomy DEF n, k

LEMMA StringRoomy ==
  ASSUME NEW b, Roomy(b), NEW s \in Seq(Pieces)
  PROVE  /\ Roomy(FormatString(b, s))
         /\ FormatString(b, s).text = b.text \o s
<1> DEFINE n == Len(b.text)  k == Len(s)  c == b.capacity
           m == IF n + k > c THEN Grown(c, n + k) ELSE c
<1>1. /\ n \in Nat /\ k \in Nat /\ c \in Nat /\ InlineSize \in Nat
      /\ InlineSize <= c
  BY ReplyAssumption DEF Roomy
<1>2. FormatString(b, s) = Put(b, s, m)
  BY DEF FormatString
<1> HIDE DEF n, k, c
<1>3. m \in Nat /\ InlineSize <= m /\ n + k <= m
  BY <1>1 DEF Grown
<1> HIDE DEF m
<1> QED BY <1>2, <1>3, PutRoomy DEF n, k

(* The two kinds of fields.                                                *)
LEMMA FieldIs ==
  ASSUME NEW b, NEW args
  PROVE  /\ \A s : FormatField(b, Lit(s), args) = AppendLiteral(b, s)
         /\ FormatField(b, Arg(0), args) = FormatString(b, args[1][1])
         /\ FormatField(b, Arg(1), args) = FormatString(b, args[2][1])
<1>1. \A s : Lit(s).lit = TRUE /\ Lit(s).text = s
  BY DEF Lit
<1>2. /\ Arg(0).lit = FALSE /\ Arg(0).index + 1 = 1
      /\ Arg(1).lit = FALSE /\ Arg(1).index + 1 = 2
  BY DEF Arg
<1> QED BY <1>1, <1>2 DEF FormatField

-----------------------------------------------------------------------------
(***************************************************************************)
(* The lines of the helpers.                                               *)
(***************************************************************************)

PongHead    == <<"NAME", " ">>
PrivmsgHead == <<"PING", " ">>
Separator   == <<" ", ":">>
QuitHead    == <<"NAME", " ", ":">>
QuitWord    == <<"NAME">>
EndOfLine   == <<"eol">>

LEMMA TupleFacts ==
  /\ \A x \in Pieces : <<x>> \in Seq(Pieces) /\ Len(<<x>>) = 1 /\ <<x>>[1] = x
  /\ \A x, y \in Pieces :
       /\ <<x, y>> \in Seq(Pieces) /\ Len(<<x, y>>) = 2
       /\ <<x, y>>[1] = x /\ <<x, y>>[2] = y
  /\ \A x, y, z \in Pieces :
       /\ <<x, y, z>> \in Seq(Pieces) /\ Len(<<x, y, z>>) = 3
       /\ <<x, y, z>>[1] = x /\ <<x, y, z>>[2] = y /\ <<x, y, z>>[3] = z
OBVIOUS

LEMMA LiteralFacts ==
  /\ PongHead \in Seq(Pieces) /\ Len(PongHead) = 2
  /\ PongHead[1] \in Words /\ Blank(PongHead[2])
  /\ PrivmsgHead \in Seq(Pieces) /\ Len(PrivmsgHead) = 2
  /\ PrivmsgHead[1] \in Words /\ Blank(PrivmsgHead[2])
  /\ Separator \in Seq(Pieces) /\ Len(Separator) = 2
  /\ Blank(Separator[1]) /\ Mark(Separator[2])
  /\ QuitHead \in Seq(Pieces) /\ Len(QuitHead) = 3
  /\ QuitHead[1] \in Words /\ Blank(QuitHead[2]) /\ Mark(QuitHead[3])
  /\ QuitWord \in Seq(Pieces) /\ Len(QuitWord) = 1 /\ QuitWord[1] \in Words
  /\ EndOfLine \in Seq(Pieces) /\ Len(EndOfLine) = 1 /\ EndOfLine[1] = "eol"
<1>1. /\ "NAME" \in Pieces /\ "PING" \in Pieces /\ " " \in Pieces
      /\ ":" \in Pieces /\ "eol" \in Pieces /\ "NAME" \in Words
      /\ "PING" \in Words /\ Blank(" ") /\ Mark(":")
  BY Zenon DEF Pieces, Words, Blank, Mark
<1>2. /\ PongHead \in Seq(Pieces) /\ Len(PongHead) = 2
      /\ PongHead[1] \in Words /\ Blank(PongHead[2])
  BY <1>1, TupleFacts, Zenon DEF PongHead
<1>3. /\ PrivmsgHead \in Seq(Pieces) /\ Len(PrivmsgHead) = 2
      /\ PrivmsgHead[1] \in Words /\ Blank(PrivmsgHead[2])
  BY <1>1, TupleFacts, Zenon DEF PrivmsgHead
<1>4. /\ Separator \in Seq(Pieces) /\ Len(Separator) = 2
      /\ Blank(Separator[1]) /\ Mark(Separator[2])
  BY <1>1, TupleFacts, Zenon DEF Separator
<1>5. /\ QuitHead \in Seq(Pieces) /\ Len(QuitHead) = 3
      /\ QuitHead[1] \in Words /\ Blank(QuitHead[2]) /\ Mark(QuitHead[3])
  BY <1>1, TupleFacts, Zenon DEF QuitHead
<1>6. QuitWord \in Seq(Pieces) /\ Len(QuitWord) = 1 /\ QuitWord[1] \in Words
  BY <1>1, TupleFacts, Zenon DEF QuitWord
<1>7. /\ EndOfLine \in Seq(Pieces) /\ Len(EndOfLine) = 1
      /\ EndOfLine[1] = "eol"
  BY <1>1, TupleFacts, Zenon DEF EndOfLine
<1> QED BY <1>2, <1>3, <1>4, <1>5, <1>6, <1>7

(* The first literal is put into an empty buffer.                          *)
LEMMA FirstLiteral ==
  ASSUME NEW s \in Seq(Pieces)
  PROVE  Roomy(AppendLiteral(Writer, s)) /\ AppendLiteral(Writer, s).text = s
<1>1. Roomy(Writer) /\ Writer.text = <<>>
  BY WriterRoomy
<1>2. /\ Roomy(AppendLiteral(Writer, s))
      /\ AppendLiteral(Writer, s).text = <<>> \o s
  BY <1>1, LiteralRoomy
<1>3. <<>> \o s = s
  <2> DEFINE S == Pieces
  <2>1. s \in Seq(S)
    OBVIOUS
  <2> HIDE DEF S
  <2> QED BY <2>1, ConcatEmptySeq
<1> QED BY <1>2, <1>3

(* What the formatter makes of the formats.                                *)
LEMMA PongOut ==
  ASSUME NEW t \in Seq(Pieces)
  PROVE  /\ Roomy(Format(PongFormat, <<<<t>>>>))
         /\ Format(PongFormat, <<<<t>>>>).text = PongHead \o t
<1> DEFINE a == <<<<t>>>>  b == AppendLiteral(Writer, PongHead)
           o == Format(PongFormat, a)
<1>1. a[1][1] = t
  OBVIOUS
<1> HIDE DEF a
<1>2. PongFormat = <<Lit(PongHead), Arg(0)>>
  BY DEF PongFormat, PongHead
<1>3. o = FormatField(FormatField(Writer, Lit(PongHead), a), Arg(0), a)
  BY <1>2, FormatTwo, Zenon
<1>4. o = FormatString(b, t)
  <2>1. FormatField(Writer, Lit(PongHead), a) = b
    BY FieldIs, Zenon
  <2>2. FormatField(b, Arg(0), a) = FormatString(b, a[1][1])
    BY FieldIs, Zenon
  <2> HIDE DEF b, o
  <2> QED BY <1>1, <1>3, <2>1, <2>2, Zenon
<1>5. Roomy(b) /\ b.text = PongHead
  BY LiteralFacts, FirstLiteral, Zenon
<1> HIDE DEF b
<1>6. Roomy(o) /\ o.text = PongHead \o t
  BY <1>4, <1>5, StringRoomy, Zenon
<1> QED BY <1>6 DEF a

LEMMA PrivmsgOut ==
  ASSUME NEW c \in Seq(Pieces), NEW t \in Seq(Pieces)
  PROVE  /\ Roomy(Format(PrivmsgFormat, <<<<c>>, <<t>>>>))
         /\ Format(PrivmsgFormat, <<<<c>>, <<t>>>>).text
              = ((PrivmsgHead \o c) \o Separator) \o t
<1> DEFINE a == <<<<c>>, <<t>>>>  b1 == AppendLiteral(Writer, PrivmsgHead)
           b2 == FormatString(b1, c)  b3 == AppendLiteral(b2, Separator)
           o == Format(PrivmsgFormat, a)
<1>1. a[1][1] = c /\ a[2][1] = t
  OBVIOUS
<1> HIDE DEF a
<1>2. PrivmsgFormat = <<Lit(PrivmsgHead), Arg(0), Lit(Separator), Arg(1)>>
  BY Zenon DEF PrivmsgFormat, PrivmsgHead, Separator
<1>3. o = FormatField(FormatField(FormatField(FormatField(
            Writer, Lit(PrivmsgHead), a), Arg(0), a), Lit(Separator), a),
            Arg(1), a)
  BY <1>2, FormatFour, Zenon
<1>4. o = FormatString(b3, t)
  <2>1. FormatField(Writer, Lit(PrivmsgHead), a) = b1
    BY FieldIs, Zenon
  <2> HIDE DEF b1, o
  <2>2. FormatField(b1, Arg(0), a) = b2
    BY <1>1, FieldIs, Zenon
  <2> HIDE DEF b2
  <2>3. FormatField(b2, Lit(Separator), a) = b3
    BY FieldIs, Zenon
  <2> HIDE DEF b3
  <2>4. FormatField(b3, Arg(1), a) = FormatString(b3, t)
    BY <1>1, FieldIs, Zenon
  <2> QED BY <1>3, <2>1, <2>2, <2>3, <2>4, Zenon
<1>5. Roomy(b1) /\ b1.text = PrivmsgHead
  BY LiteralFacts, FirstLiteral, Zenon
<1> HIDE DEF b1
<1>6. Roomy(b2) /\ b2.text = PrivmsgHead \o c
  BY <1>5, StringRoomy, Zenon
<1> HIDE DEF b2
<1>7. Separator \in Seq(Pieces) /\ Len(Separator) <= 2
  BY LiteralFacts
<1>8. Roomy(b3) /\ b3.text = (PrivmsgHead \o c) \o Separator
  BY <1>6, <1>7, LiteralRoomy, Zenon
<1> HIDE DEF b3
<1>9. Roomy(o) /\ o.text = ((PrivmsgHead \o c) \o Separator) \o t
  BY <1>4, <1>8, StringRoomy, Zenon
<1> QED BY <1>9 DEF a

LEMMA QuitOut ==
  ASSUME NEW t \in Seq(Pieces)
  PROVE  /\ Roomy(Format(QuitFormat(<<t>>), <<<<t>>>>))
         /\ Format(QuitFormat(<<t>>), <<<<t>>>>).text = QuitHead \o t
<1> DEFINE a == <<<<t>>>>  b == AppendLiteral(Writer, QuitHead)
           o == Format(QuitFormat(<<t>>), a)
<1>1. a[1][1] = t
  OBVIOUS
<1> HIDE DEF a
<1>2. <<t>> # <<>>
  OBVIOUS
<1>3. QuitFormat(<<t>>) = <<Lit(QuitHead), Arg(0)>>
  BY <1>2, Zenon DEF QuitFormat, QuitHead
<1>4. o = FormatField(FormatField(Writer, Lit(QuitHead), a), Arg(0), a)
  BY <1>3, FormatTwo, Zenon
<1>5. o = FormatString(b, t)
  <2>1. FormatField(Writer, Lit(QuitHead), a) = b
    BY FieldIs, Zenon
  <2>2. FormatField(b, Arg(0), a) = FormatString(b, a[1][1])
    BY FieldIs, Zenon
  <2> HIDE DEF b, o
  <2> QED BY <1>1, <1>4, <2>1, <2>2, Zenon
<1>6. Roomy(b) /\ b.text = QuitHead
  BY LiteralFacts, FirstLiteral, Zenon
<1> HIDE DEF b
<1>7. Roomy(o) /\ o.text = QuitHead \o t
  BY <1>5, <1>6, StringRoomy, Zenon
<1> QED BY <1>7 DEF a

LEMMA QuitPlainOut ==
  /\ Roomy(Format(QuitFormat(<<>>), <<<<>>>>))
  /\ Format(QuitFormat(<<>>), <<<<>>>>).text = QuitWord
<1>1. QuitFormat(<<>>) = <<Lit(QuitWord)>>
  BY Zenon DEF QuitFormat, QuitWord
<1> DEFINE a == <<<<>>>>  o == Format(QuitFormat(<<>>), a)
<1> HIDE DEF a
<1>2. o = FormatField(Writer, Lit(QuitWord), a)
  BY <1>1, FormatOne, Zenon
<1>3. o = AppendLiteral(Writer, QuitWord)
  BY <1>2, FieldIs, Zenon
<1>4. QuitWord \in Seq(Pieces)
  BY LiteralFacts, Zenon
<1> HIDE DEF o
<1>5. Roomy(o) /\ o.text = QuitWord
  BY <1>3, <1>4, FirstLiteral, Zenon
<1> QED BY <1>5 DEF a, o

-----------------------------------------------------------------------------
(* What RepliesReadBack says of one reply.                                 *)
Faithful(r) ==
  /\ r.out.fits
  /\ \A j \in 1..Len(r.out.text) : r.out.text[j] \notin {"eol", "nul"}
  /\ r.how = "privmsg" => Reads(r, {r.args[1][1]}, r.args[2])
  /\ r.how = "quit" => Reads(r, {}, r.args[1])
  /\ r.how = "pong" /\ " " \notin {r.args[1][1][j] :
                                     j \in 1..Len(r.args[1][1])}
       => \/ r.args[1][1][1] = ":"
          \/ Reads(r, {r.args[1][1]}, <<>>)

LEMMA SentIs ==
  ASSUME NEW how, NEW f, NEW args
  PROVE  /\ Sent(how, f, args).how = how /\ Sent(how, f, args).args = args
         /\ Sent(how, f, args).out = Format(f, args)
BY DEF Sent

(* A line that has room and no end in it.                                  *)
LEMMA OneLine ==
  ASSUME NEW o, Roomy(o), Unbroken(o.text)
  PROVE  o.fits /\ \A j \in 1..Len(o.text) : o.text[j] \notin {"eol", "nul"}
<1>1. o.fits
  BY DEF Roomy
<1>2. \A j \in 1..Len(o.text) : o.text[j] \notin {"eol", "nul"}
  BY DEF Unbroken, Stop
<1> QED BY <1>1, <1>2

LEMMA UnbrokenJoin ==
  ASSUME NEW x, Unbroken(x), NEW y, Unbroken(y), NEW n, n = Len(x),
         NEW m, m = Len(y), NEW s, Joined(s, x, n, y, m)
  PROVE  Unbroken(s)
<1>1. /\ s \in Seq(Pieces) /\ n \in Nat /\ m \in Nat /\ Len(s) = n + m
      /\ \A i \in 1..n : s[i] = x[i]
      /\ \A i \in 1..m : s[n + i] = y[i]
  BY DEF Joined
<1>2. /\ \A i \in 1..n : ~Stop(x[i])
      /\ \A i \in 1..m : ~Stop(y[i])
  BY DEF Unbroken
<1>3. ASSUME NEW i \in 1..(n + m) PROVE ~Stop(s[i])
  <2>1. i \in 1..n \/ (i - n \in 1..m /\ n + (i - n) = i)
    BY <1>1
  <2>2. CASE i \in 1..n
    BY <1>1, <1>2, <2>2
  <2>3. CASE i - n \in 1..m /\ n + (i - n) = i
    <3>1. s[n + (i - n)] = y[i - n] /\ ~Stop(y[i - n])
      BY <1>1, <1>2, <2>3
    <3> QED BY <2>3, <3>1
  <2> QED BY <2>1, <2>2, <2>3
<1>4. \A i \in 1..Len(s) : ~Stop(s[i])
  BY <1>1, <1>3
<1> QED BY <1>1, <1>4 DEF Unbroken

LEMMA PongFaithful ==
  ASSUME NEW t, Unbroken(t), Len(t) > 0
  PROVE  Faithful(Sent("pong", PongFormat, <<<<t>>>>))
<1> DEFINE a == <<<<t>>>>  r == Sent("pong", PongFormat, a)  o == r.out
           s == PongHead \o t  l == s \o EndOfLine  k == Len(t)
<1>1. a[1][1] = t
  OBVIOUS
<1>2. t \in Seq(Pieces) /\ k \in Nat
  BY DEF Unbroken
<1>3. Roomy(o) /\ o.text = s
  <2>1. o = Format(PongFormat, a)
    BY SentIs
  <2> QED BY <1>2, <2>1, PongOut
<1>4. r.how = "pong" /\ r.args = a
  BY SentIs
<1> HIDE DEF a, r
<1>5. Joined(s, PongHead, 2, t, k)
  <2>1. Len(PongHead) = 2
    BY LiteralFacts
  <2>2. Joined(s, PongHead, Len(PongHead), t, k)
    BY <1>2, LiteralFacts, JoinFacts, Zenon
  <2> QED BY <2>1, <2>2
<1>6. Joined(l, s, Len(s), EndOfLine, 1)
  <2>1. Len(EndOfLine) = 1
    BY LiteralFacts
  <2>2. s \in Seq(Pieces)
    BY <1>5 DEF Joined
  <2> HIDE DEF s
  <2>3. Joined(l, s, Len(s), EndOfLine, Len(EndOfLine))
    BY <2>2, LiteralFacts, JoinFacts, Zenon
  <2> QED BY <2>1, <2>3
<1>7. l = r.out.text \o <<"eol">>
  BY <1>3 DEF EndOfLine
<1> HIDE DEF s, l, o
<1>8. Unbroken(s)
  <2>1. Unbroken(PongHead)
    <3>1. \A i \in 1..2 : i = 1 \/ i = 2
      OBVIOUS
    <3>2. \A i \in 1..2 : ~Stop(PongHead[i])
      BY <3>1, LiteralFacts, PieceNames
    <3> QED BY <3>2, LiteralFacts DEF Unbroken
  <2>2. 2 = Len(PongHead) /\ k = Len(t)
    BY LiteralFacts
  <2> HIDE DEF k
  <2> QED BY <1>5, <2>1, <2>2, UnbrokenJoin, Zenon
<1>9. ASSUME " " \notin {t[j] : j \in 1..Len(t)}, t[1] # ":"
      PROVE  Reads(r, {t}, <<>>)
  <2>1. IsParam(t)
    <3>1. ~Mark(t[1]) /\ \A i \in 1..Len(t) : ~Blank(t[i])
      BY <1>9, Zenon DEF Mark, Blank
    <3> QED BY <3>1 DEF IsParam
  <2>2. /\ PongHead[1] \in Words /\ Blank(PongHead[2])
        /\ EndOfLine[1] = "eol" /\ Len(t) = k
    BY LiteralFacts
  <2> HIDE DEF k
  <2>3. /\ k + 3 = Len(l) /\ HelperLine(l, k + 3) /\ SubSeq(l, 3, k + 2) = t
    BY <1>5, <1>6, <2>1, <2>2, ParamLine
  <2> DEFINE q == k + 3
  <2>4. q # 2 /\ q - 1 = k + 2 /\ q = Len(l)
    BY <1>2, <2>3 DEF k
  <2>5. HelperLine(l, q)
    BY <2>3
  <2> HIDE DEF q
  <2>6. {t} = {SubSeq(l, 3, q - 1)}
    BY <2>3, <2>4
  <2> QED BY <1>7, <2>4, <2>5, <2>6, HelperText, Zenon
<1>10. o.fits /\ \A j \in 1..Len(o.text) : o.text[j] \notin {"eol", "nul"}
  BY <1>3, <1>8, OneLine
<1>11. r.how # "privmsg" /\ r.how # "quit"
  BY <1>4
<1>12. r.args[1][1] = t
  BY <1>1, <1>4
<1>13. Faithful(r)
  BY <1>9, <1>10, <1>11, <1>12, Zenon DEF Faithful, o
<1> QED BY <1>13 DEF r, a

LEMMA PrivmsgFaithful ==
  ASSUME NEW c, IsParam(c), NEW t, Unbroken(t), Len(t) > 0
  PROVE  Faithful(Sent("privmsg", PrivmsgFormat, <<<<c>>, <<t>>>>))
<1> DEFINE a == <<<<c>>, <<t>>>>  r == Sent("privmsg", PrivmsgFormat, a)
           o == r.out  p == PrivmsgHead \o c  u == p \o Separator
           s == u \o t  l == s \o EndOfLine  k == Len(c)  j == Len(t)
<1>1. a[1][1] = c /\ a[2] = <<t>>
  OBVIOUS
<1>2. /\ t \in Seq(Pieces) /\ j \in Nat /\ j > 0
      /\ c \in Seq(Pieces) /\ k \in Nat
  BY DEF Unbroken, IsParam
<1>3. Roomy(o) /\ o.text = s
  <2>1. o = Format(PrivmsgFormat, a)
    BY SentIs
  <2> QED BY <1>2, <2>1, PrivmsgOut
<1>4. r.how = "privmsg" /\ r.args = a
  BY SentIs
<1> HIDE DEF a, r
<1>5. Joined(p, PrivmsgHead, 2, c, k)
  <2>1. Len(PrivmsgHead) = 2
    BY LiteralFacts
  <2>2. Joined(p, PrivmsgHead, Len(PrivmsgHead), c, k)
    BY <1>2, LiteralFacts, JoinFacts, Zenon
  <2> QED BY <2>1, <2>2
<1>6. Joined(u, p, Len(p), Separator, 2)
  <2>1. Len(Separator) = 2
    BY LiteralFacts
  <2>2. p \in Seq(Pieces)
    BY <1>5 DEF Joined
  <2> HIDE DEF p
  <2>3. Joined(u, p, Len(p), Separator, Len(Separator))
    BY <2>2, LiteralFacts, JoinFacts, Zenon
  <2> QED BY <2>1, <2>3
<1>7. Joined(s, u, Len(u), t, j)
  <2>1. u \in Seq(Pieces)
    BY <1>6 DEF Joined
  <2> HIDE DEF u
  <2> QED BY <1>2, <2>1, JoinFacts, Zenon
<1>8. Joined(l, s, Len(s), EndOfLine, 1)
  <2>1. Len(EndOfLine) = 1
    BY LiteralFacts
  <2>2. s \in Seq(Pieces)
    BY <1>7 DEF Joined
  <2> HIDE DEF s
  <2>3. Joined(l, s, Len(s), EndOfLine, Len(EndOfLine))
    BY <2>2, LiteralFacts, JoinFacts, Zenon
  <2> QED BY <2>1, <2>3
<1>9. l = r.out.text \o <<"eol">>
  BY <1>3 DEF EndOfLine
<1> HIDE DEF p, u, s, l, o
<1>10. /\ PrivmsgHead[1] \in Words /\ Blank(PrivmsgHead[2])
       /\ Blank(Separator[1]) /\ Mark(Separator[2])
       /\ EndOfLine[1] = "eol" /\ Len(c) = k /\ Len(t) = j
  BY LiteralFacts
<1> HIDE DEF k, j
<1>11. /\ Unbroken(s) /\ k + 3 # Len(l) /\ HelperLine(l, k + 3)
       /\ SubSeq(l, 3, k + 2) = c /\ SubSeq(l, k + 5, Len(l) - 1) = t
  <2>1. ParamTextParts(PrivmsgHead, c, k, Separator, t, j, EndOfLine,
                       p, u, s, l)
    BY <1>2, <1>5, <1>6, <1>7, <1>8, <1>10, Zenon DEF ParamTextParts
  <2> QED BY <2>1, ParamTextLine
<1>12. Reads(r, {c}, <<t>>)
  <2> DEFINE q == k + 3
  <2>1. q # 2 /\ q - 1 = k + 2 /\ q + 2 = k + 5
    BY <1>2
  <2>2. HelperLine(l, q) /\ q # Len(l)
    BY <1>11
  <2> HIDE DEF q
  <2>3. {c} = {SubSeq(l, 3, q - 1)} /\ <<t>> = <<SubSeq(l, q + 2, Len(l) - 1)>>
    BY <1>11, <2>1
  <2> QED BY <1>9, <2>1, <2>2, <2>3, HelperText, Zenon
<1>13. o.fits /\ \A i \in 1..Len(o.text) : o.text[i] \notin {"eol", "nul"}
  BY <1>3, <1>11, OneLine
<1>14. r.how # "pong" /\ r.how # "quit"
  BY <1>4
<1>15. r.args[1][1] = c /\ r.args[2] = <<t>>
  BY <1>1, <1>4
<1>16. Faithful(r)
  BY <1>12, <1>13, <1>14, <1>15, Zenon DEF Faithful, o
<1> QED BY <1>16 DEF r, a

LEMMA QuitFaithful ==
  ASSUME NEW t, Unbroken(t), Len(t) > 0
  PROVE  Faithful(Sent("quit", QuitFormat(<<t>>), <<<<t>>>>))
<1> DEFINE a == <<<<t>>>>  r == Sent("quit", QuitFormat(<<t>>), a)
           o == r.out  s == QuitHead \o t  l == s \o EndOfLine  k == Len(t)
<1>1. a[1] = <<t>>
  OBVIOUS
<1>2. t \in Seq(Pieces) /\ k \in Nat /\ k > 0
  BY DEF Unbroken
<1>3. Roomy(o) /\ o.text = s
  <2>1. o = Format(QuitFormat(<<t>>), a)
    BY SentIs
  <2> QED BY <1>2, <2>1, QuitOut
<1>4. r.how = "quit" /\ r.args = a
  BY SentIs
<1> HIDE DEF a, r
<1>5. Joined(s, QuitHead, 3, t, k)
  <2>1. Len(QuitHead) = 3
    BY LiteralFacts
  <2>2. Joined(s, QuitHead, Len(QuitHead), t, k)
    BY <1>2, LiteralFacts, JoinFacts, Zenon
  <2> QED BY <2>1, <2>2
<1>6. Joined(l, s, Len(s), EndOfLine, 1)
  <2>1. Len(EndOfLine) = 1
    BY LiteralFacts
  <2>2. s \in Seq(Pieces)
    BY <1>5 DEF Joined
  <2> HIDE DEF s
  <2>3. Joined(l, s, Len(s), EndOfLine, Len(EndOfLine))
    BY <2>2, LiteralFacts, JoinFacts, Zenon
  <2> QED BY <2>1, <2>3
<1>7. l = r.out.text \o <<"eol">>
  BY <1>3 DEF EndOfLine
<1> HIDE DEF s, l, o
<1>8. /\ QuitHead[1] \in Words /\ Blank(QuitHead[2]) /\ Mark(QuitHead[3])
      /\ EndOfLine[1] = "eol" /\ Len(t) = k
  BY LiteralFacts
<1> HIDE DEF k
<1>9. /\ Unbroken(s) /\ 2 # Len(l) /\ HelperLine(l, 2)
      /\ SubSeq(l, 4, Len(l) - 1) = t
  BY <1>2, <1>5, <1>6, <1>8, TextLine
<1>10. Reads(r, {}, <<t>>)
  <2> DEFINE q == 2
  <2>1. q = 2 /\ q + 2 = 4
    OBVIOUS
  <2>2. HelperLine(l, q) /\ q # Len(l)
    BY <1>9
  <2> HIDE DEF q
  <2>3. <<t>> = <<SubSeq(l, q + 2, Len(l) - 1)>>
    BY <1>9, <2>1
  <2> QED BY <1>7, <2>1, <2>2, <2>3, HelperText, Zenon
<1>11. o.fits /\ \A i \in 1..Len(o.text) : o.text[i] \notin {"eol", "nul"}
  BY <1>3, <1>9, OneLine
<1>12. r.how # "pong" /\ r.how # "privmsg"
  BY <1>4
<1>13. r.args[1] = <<t>>
  BY <1>1, <1>4
<1>14. Faithful(r)
  BY <1>10, <1>11, <1>12, <1>13, Zenon DEF Faithful, o
<1> QED BY <1>14 DEF r, a

LEMMA QuitPlainFaithful == Faithful(Sent("quit", QuitFormat(<<>>), <<<<>>>>))
<1> DEFINE a == <<<<>>>>  r == Sent("quit", QuitFormat(<<>>), a)
           o == r.out  l == QuitWord \o EndOfLine
<1>1. a[1] = <<>>
  OBVIOUS
<1>2. Roomy(o) /\ o.text = QuitWord
  <2>1. o = Format(QuitFormat(<<>>), a)
    BY SentIs
  <2> QED BY <2>1, QuitPlainOut
<1>3. r.how = "quit" /\ r.args = a
  BY SentIs
<1> HIDE DEF a, r
<1>4. Joined(l, QuitWord, 1, EndOfLine, 1)
  <2>1. Len(QuitWord) = 1 /\ Len(EndOfLine) = 1
    BY LiteralFacts
  <2>2. Joined(l, QuitWord, Len(QuitWord), EndOfLine, Len(EndOfLine))
    BY LiteralFacts, JoinFacts, Zenon
  <2> QED BY <2>1, <2>2
<1>5. l = r.out.text \o <<"eol">>
  BY <1>2 DEF EndOfLine
<1> HIDE DEF l, o
<1>6. Unbroken(QuitWord) /\ Len(l) = 2 /\ HelperLine(l, 2)
  BY <1>4, LiteralFacts, WordLine, Zenon
<1>7. Reads(r, {}, <<>>)
  <2> DEFINE q == 2
  <2>1. q = 2 /\ HelperLine(l, q) /\ q = Len(l)
    BY <1>6
  <2> HIDE DEF q
  <2> QED BY <1>5, <2>1, HelperText, Zenon
<1>8. o.fits /\ \A i \in 1..Len(o.text) : o.text[i] \notin {"eol", "nul"}
  BY <1>2, <1>6, OneLine
<1>9. r.how # "pong" /\ r.how # "privmsg"
  BY <1>3
<1>10. r.args[1] = <<>>
  BY <1>1, <1>3
<1>11. Faithful(r)
  BY <1>7, <1>8, <1>9, <1>10, Zenon DEF Faithful, o
<1> QED BY <1>11 DEF r, a

-----------------------------------------------------------------------------
(***************************************************************************)
(* What the callbacks are given.                                           *)
(***************************************************************************)

Cut(l, p)        == SubSeq(l, p[1], p[2])
WholeText(l, p)  == p # Null /\ Unbroken(Cut(l, p)) /\ Len(Cut(l, p)) > 0
WholeParam(l, p) == p # Null /\ IsParam(Cut(l, p))

(* The strings a helper may be called with have neither a line end nor a   *)
(* zero byte in them, and a parameter could be one again.                  *)
Clean ==
  phase \in {"start", "scan"} =>
    /\ msg.trailing # Null => WholeText(line, msg.trailing)
    /\ Len(msg.params) > 0 => WholeParam(line, msg.params[1])

LEMMA RestNames ==
  /\ \A x \in NotLineEnd : ~Stop(x)
  /\ \A x \in MiddleRest : ~Stop(x) /\ ~Blank(x)
  /\ \A x \in MiddleRest \ {":"} : ~Mark(x)
<1>1. \A x \in NotLineEnd : ~Stop(x)
  BY Zenon DEF NotLineEnd, Stop
<1>2. \A x \in MiddleRest : x \in NotLineEnd /\ ~Blank(x)
  BY Zenon DEF MiddleRest, Blank
<1>3. \A x \in MiddleRest \ {":"} : ~Mark(x)
  BY Zenon DEF Mark
<1> QED BY <1>1, <1>2, <1>3

LEMMA CutFacts ==
  ASSUME TypeOK, Scan, NEW e \in pos..Len(line), NEW s,
         s = Cut(line, <<pos, e>>)
  PROVE  /\ s \in Seq(Pieces) /\ Len(s) = e - pos + 1 /\ Len(s) > 0
         /\ \A i \in 1..Len(s) :
              pos + i - 1 \in pos..e /\ s[i] = line[pos + i - 1]
         /\ s[1] = line[pos] /\ <<pos, e>> # Null
<1> DEFINE S == Pieces
<1>1. /\ pos \in Nat /\ e \in Nat /\ pos <= e /\ pos >= 1 /\ e <= Len(line)
      /\ Len(line) \in Nat /\ <<pos, e>> # Null
  BY ScanFacts
<1>2. \A i \in 1..Len(line) : line[i] \in S
  BY LineFacts, LexerAssumption DEF TypeOK
<1>3. s = SubSeq(line, pos, e)
  BY DEF Cut
<1> HIDE DEF S
<1>4. \A i \in pos..e : line[i] \in S
  BY <1>1, <1>2
<1>5. /\ SubSeq(line, pos, e) \in Seq(S)
      /\ Len(SubSeq(line, pos, e)) = IF pos <= e THEN e - pos + 1 ELSE 0
      /\ \A i \in 1..e - pos + 1 : SubSeq(line, pos, e)[i] = line[pos + i - 1]
  BY <1>1, <1>4, SubSeqProperties
<1>6. /\ s \in Seq(S) /\ Len(s) = e - pos + 1
      /\ \A i \in 1..e - pos + 1 : s[i] = line[pos + i - 1]
  BY <1>1, <1>3, <1>5
<1>7. /\ Len(s) > 0 /\ 1 \in 1..e - pos + 1 /\ pos + 1 - 1 = pos
      /\ \A i \in 1..Len(s) : pos + i - 1 \in pos..e
  <2> DEFINE k == Len(s)
  <2>1. k = e - pos + 1
    BY <1>6
  <2> HIDE DEF k
  <2>2. /\ k > 0 /\ 1 \in 1..e - pos + 1 /\ pos + 1 - 1 = pos
        /\ \A i \in 1..k : pos + i - 1 \in pos..e
    BY <1>1, <2>1
  <2> QED BY <2>2 DEF k
<1> QED BY <1>1, <1>6, <1>7 DEF S

LEMMA TrailingClean ==
  ASSUME IndInv, Clean, Trailing
  PROVE  Clean'
<1> DEFINE e == RunEnd(NotLineEnd)  s == Cut(line, <<pos, e>>)
<1>1. /\ Scan /\ line[pos] \in NotLineEnd /\ TypeOK /\ line' = line
      /\ msg' = [msg EXCEPT !.trailing = <<pos, e>>]
  BY DEF Trailing, At, Here, Advance, input, IndInv
<1>2. e \in pos..Len(line) /\ \A i \in pos..e : line[i] \in NotLineEnd
  <2>1. line \in Lines /\ pos \in 1..Len(line)
    BY <1>1, ScanFacts DEF TypeOK
  <2> QED BY <1>1, <2>1, RunEndFacts
<1> HIDE DEF e
<1>3. WholeText(line, <<pos, e>>)
  <2>1. /\ s \in Seq(Pieces) /\ Len(s) > 0 /\ <<pos, e>> # Null
        /\ \A i \in 1..Len(s) :
             pos + i - 1 \in pos..e /\ s[i] = line[pos + i - 1]
    BY <1>1, <1>2, CutFacts
  <2>2. \A i \in 1..Len(s) : ~Stop(s[i])
    BY <1>2, <2>1, RestNames
  <2> QED BY <2>1, <2>2 DEF WholeText, Unbroken
<1>4. msg'.trailing = <<pos, e>> /\ msg'.params = msg.params
  BY <1>1 DEF TypeOK, Messages
<1>5. phase = "scan"
  BY <1>1 DEF Scan
<1> QED BY <1>1, <1>3, <1>4, <1>5 DEF Clean

LEMMA MiddleClean ==
  ASSUME IndInv, Clean, Middle
  PROVE  Clean'
<1> DEFINE e == RunEnd(MiddleRest)  s == Cut(line, <<pos, e>>)
<1>1. /\ Scan /\ line[pos] \in MiddleRest \ {":"} /\ TypeOK /\ line' = line
      /\ msg' = [msg EXCEPT !.params = Append(msg.params, <<pos, e>>)]
  BY DEF Middle, At, Here, Advance, input, IndInv
<1>2. e \in pos..Len(line) /\ \A i \in pos..e : line[i] \in MiddleRest
  <2>1. line \in Lines /\ pos \in 1..Len(line)
    BY <1>1, ScanFacts DEF TypeOK
  <2> QED BY <1>1, <2>1, RunEndFacts
<1> HIDE DEF e
<1>3. WholeParam(line, <<pos, e>>)
  <2>1. /\ s \in Seq(Pieces) /\ Len(s) > 0 /\ <<pos, e>> # Null
        /\ s[1] = line[pos]
        /\ \A i \in 1..Len(s) :
             pos + i - 1 \in pos..e /\ s[i] = line[pos + i - 1]
    BY <1>1, <1>2, CutFacts
  <2>2. \A i \in 1..Len(s) : ~Stop(s[i]) /\ ~Blank(s[i])
    BY <1>2, <2>1, RestNames
  <2>3. ~Mark(s[1])
    BY <1>1, <2>1, RestNames
  <2> QED BY <2>1, <2>2, <2>3 DEF WholeParam, IsParam, Unbroken
<1>4. /\ msg'.trailing = msg.trailing /\ msg.params \in Seq(Intervals)
      /\ msg'.params = Append(msg.params, <<pos, e>>)
  BY <1>1 DEF TypeOK, Messages
<1>5. phase = "scan"
  BY <1>1 DEF Scan
<1>6. msg'.params[1] = IF Len(msg.params) > 0 THEN msg.params[1]
                       ELSE <<pos, e>>
  <2> DEFINE u == msg.params  p == <<pos, e>>
  <2>1. u \in Seq(Intervals) /\ p \in Intervals
    BY <1>1, <1>2, <1>4, ScanFacts
  <2> HIDE DEF u, p
  <2>2. Append(u, p)[1] = IF Len(u) > 0 THEN u[1] ELSE p
    BY <2>1
  <2> QED BY <1>4, <2>2 DEF u, p
<1> QED BY <1>1, <1>3, <1>4, <1>5, <1>6 DEF Clean

LEMMA InitClean == Init => Clean
BY DEF Init, NoMessage, Clean

LEMMA StepClean == IndInv /\ Clean /\ [Next]_vars => Clean'
<1> SUFFICES ASSUME IndInv, Clean, [Next]_vars PROVE Clean'
  OBVIOUS
<1>1. CASE Prefix \/ KnownCommand \/ Command \/ PrefixEnd \/ ParamStart
           \/ TrailingStart \/ Echo \/ BeginScan \/ UNCHANGED vars
  <2>1. /\ line' = line /\ msg' = msg
        /\ phase' \in {"start", "scan"} => phase \in {"start", "scan"}
    BY <1>1 DEF Prefix, KnownCommand, Command, PrefixEnd, ParamStart,
                TrailingStart, Echo, BeginScan, vars, Advance, input
  <2> QED BY <2>1 DEF Clean
<1>2. CASE Source \/ User \/ Host
  <2>1. /\ line' = line /\ phase' = phase
        /\ \E p : msg' \in {[msg EXCEPT !.source = p], [msg EXCEPT !.user = p],
                            [msg EXCEPT !.host = p]}
    BY <1>2 DEF Source, User, Host, Advance, input
  <2>2. msg \in Messages
    BY DEF IndInv, TypeOK
  <2>3. msg'.trailing = msg.trailing /\ msg'.params = msg.params
    BY <2>1, <2>2 DEF Messages
  <2> QED BY <2>1, <2>3 DEF Clean
<1>3. CASE Middle \/ Trailing
  BY <1>3, MiddleClean, TrailingClean
<1>4. CASE Skip \/ Overrun \/ Signal \/ EndOfInput \/ InitFails \/ EndParse
  <2>1. phase' \in {"end", "returned"}
    BY <1>4 DEF Skip, Overrun, Signal, EndOfInput, InitFails, EndParse, Finish
  <2> QED BY <2>1 DEF Clean
<1> QED BY <1>1, <1>2, <1>3, <1>4 DEF Next, Rule

(* A null pointer makes the formatter throw, a string does not.            *)
LEMMA FieldsAre ==
  /\ \A s : Lit(s).lit = TRUE
  /\ \A n : Arg(n).lit = FALSE /\ Arg(n).index = n
BY DEF Lit, Arg

SentenceText == <<"!", "NAME", " ", "NAME">>

LEMMA SentenceFacts ==
  /\ Sentence = <<SentenceText>> /\ Unbroken(SentenceText)
  /\ Len(SentenceText) > 0
<1>1. \A x, y, z, v \in Pieces :
        /\ <<x, y, z, v>> \in Seq(Pieces) /\ Len(<<x, y, z, v>>) = 4
        /\ \A i \in 1..4 : <<x, y, z, v>>[i] \in {x, y, z, v}
  OBVIOUS
<1>2. /\ "!" \in Pieces /\ "NAME" \in Pieces /\ " " \in Pieces
      /\ \A x \in {"!", "NAME", " ", "NAME"} : ~Stop(x)
  BY Zenon DEF Pieces, Words, Stop
<1>3. /\ SentenceText \in Seq(Pieces) /\ Len(SentenceText) = 4
      /\ \A i \in 1..4 : ~Stop(SentenceText[i])
  <2>1. /\ SentenceText \in Seq(Pieces) /\ Len(SentenceText) = 4
        /\ \A i \in 1..4 : SentenceText[i] \in {"!", "NAME", " ", "NAME"}
    BY <1>1, <1>2, Zenon DEF SentenceText
  <2> QED BY <1>2, <2>1, Zenon
<1>4. Sentence = <<SentenceText>>
  BY DEF Sentence, SentenceText
<1> QED BY <1>3, <1>4 DEF Unbroken

LEMMA ThrowsIs ==
  /\ \A x : Throws(PongFormat, <<x>>) <=> x = <<>>
  /\ \A x : Throws(PrivmsgFormat, <<x, Sentence>>) <=> x = <<>>
  /\ ~Throws(QuitFormat(Sentence), <<Sentence>>)
  /\ ~Throws(QuitFormat(<<>>), <<<<>>>>)
<1>1. ASSUME NEW f, NEW h, f = <<Lit(h), Arg(0)>>, NEW x
      PROVE  Throws(f, <<x>>) <=> x = <<>>
  <2>1. Len(f) = 2 /\ f[1].lit = TRUE /\ f[2].lit = FALSE /\ f[2].index = 0
    BY <1>1, FieldsAre
  <2> DEFINE a == <<x>>
  <2>2. Len(a) = 1 /\ a[0 + 1] = x
    OBVIOUS
  <2> HIDE DEF a
  <2>3. /\ \A i \in 1..2 : i = 1 \/ i = 2
        /\ 1 \in 1..2 /\ 2 \in 1..2 /\ ~(0 >= 1)
    OBVIOUS
  <2>4. Throws(f, a) <=> x = <<>>
    BY <2>1, <2>2, <2>3 DEF Throws
  <2> QED BY <2>4 DEF a
<1>2. ASSUME NEW f, NEW h, NEW g, f = <<Lit(h), Arg(0), Lit(g), Arg(1)>>,
             NEW x
      PROVE  Throws(f, <<x, Sentence>>) <=> x = <<>>
  <2>1. /\ Len(f) = 4 /\ f[1].lit = TRUE /\ f[2].lit = FALSE /\ f[2].index = 0
        /\ f[3].lit = TRUE /\ f[4].lit = FALSE /\ f[4].index = 1
    BY <1>2, FieldsAre
  <2> DEFINE a == <<x, Sentence>>
  <2>2. Len(a) = 2 /\ a[0 + 1] = x /\ a[1 + 1] # <<>>
    <3>1. Sentence # <<>>
      BY SentenceFacts
    <3> QED BY <3>1
  <2> HIDE DEF a
  <2>3. /\ \A i \in 1..4 : i = 1 \/ i = 2 \/ i = 3 \/ i = 4
        /\ 2 \in 1..4 /\ ~(0 >= 2) /\ ~(1 >= 2)
    OBVIOUS
  <2>4. Throws(f, a) <=> x = <<>>
    BY <2>1, <2>2, <2>3 DEF Throws
  <2> QED BY <2>4 DEF a
<1>3. PongFormat = <<Lit(PongHead), Arg(0)>>
  BY DEF PongFormat, PongHead
<1>4. PrivmsgFormat = <<Lit(PrivmsgHead), Arg(0), Lit(Separator), Arg(1)>>
  BY Zenon DEF PrivmsgFormat, PrivmsgHead, Separator
<1>5. Sentence # <<>>
  BY SentenceFacts
<1>6. QuitFormat(Sentence) = <<Lit(QuitHead), Arg(0)>>
  BY <1>5, Zenon DEF QuitFormat, QuitHead
<1>7. ~Throws(QuitFormat(<<>>), <<<<>>>>)
  <2> DEFINE f == <<Lit(QuitWord)>>
  <2>1. QuitFormat(<<>>) = f
    BY Zenon DEF QuitFormat, QuitWord
  <2>2. Len(f) = 1 /\ f[1].lit = TRUE /\ \A i \in 1..1 : i = 1
    BY FieldsAre
  <2> HIDE DEF f
  <2> QED BY <2>1, <2>2 DEF Throws
<1>8. ASSUME NEW x PROVE Throws(PongFormat, <<x>>) <=> x = <<>>
  <2> DEFINE f == PongFormat  h == PongHead
  <2>1. f = <<Lit(h), Arg(0)>>
    BY <1>3
  <2> HIDE DEF f, h
  <2>2. Throws(f, <<x>>) <=> x = <<>>
    BY <1>1, <2>1
  <2> QED BY <2>2 DEF f
<1>9. ASSUME NEW x PROVE Throws(PrivmsgFormat, <<x, Sentence>>) <=> x = <<>>
  <2> DEFINE f == PrivmsgFormat  h == PrivmsgHead  g == Separator
  <2>1. f = <<Lit(h), Arg(0), Lit(g), Arg(1)>>
    BY <1>4
  <2> HIDE DEF f, h, g
  <2>2. Throws(f, <<x, Sentence>>) <=> x = <<>>
    BY <1>2, <2>1
  <2> QED BY <2>2 DEF f
<1>10. ~Throws(QuitFormat(Sentence), <<Sentence>>)
  BY <1>1, <1>5, <1>6, Zenon
<1> QED BY <1>7, <1>8, <1>9, <1>10

(* The strings of the message.                                             *)
LEMMA TextsClean ==
  ASSUME Clean, phase = "scan"
  PROVE  /\ Text(msg.trailing) # <<>> =>
              \E t : Text(msg.trailing) = <<t>> /\ Unbroken(t) /\ Len(t) > 0
         /\ msg.trailing # Null => Text(msg.trailing) # <<>>
         /\ msg.params \in Seq(Intervals) /\ msg.params # <<>> =>
              Param0 # <<>> /\ \E c : Param0 = <<c>> /\ IsParam(c)
         /\ msg.params = <<>> => Param0 = <<>>
<1>1. /\ msg.trailing # Null => WholeText(line, msg.trailing)
      /\ Len(msg.params) > 0 => WholeParam(line, msg.params[1])
  BY DEF Clean
<1>2. \A p : /\ p = Null => Text(p) = <<>>
             /\ p # Null => Text(p) = <<Cut(line, p)>>
  BY DEF Text, Cut
<1>3. \A x : <<x>> # <<>>
  OBVIOUS
<1>4. msg.trailing # Null =>
        /\ Text(msg.trailing) # <<>>
        /\ \E t : Text(msg.trailing) = <<t>> /\ Unbroken(t) /\ Len(t) > 0
  BY <1>1, <1>2, <1>3, Zenon DEF WholeText
<1>5. msg.trailing = Null => Text(msg.trailing) = <<>>
  BY <1>2
<1>6. ASSUME msg.params \in Seq(Intervals), msg.params # <<>>
      PROVE  Param0 # <<>> /\ \E c : Param0 = <<c>> /\ IsParam(c)
  <2> DEFINE u == msg.params
  <2>1. u \in Seq(Intervals) /\ u # <<>>
    BY <1>6
  <2> HIDE DEF u
  <2>2. Len(u) > 0
    BY <2>1, EmptySeq
  <2>3. WholeParam(line, msg.params[1])
    BY <1>1, <2>2 DEF u
  <2>4. Param0 = Text(msg.params[1])
    BY <1>6, Zenon DEF Param0
  <2> QED BY <1>2, <1>3, <2>3, <2>4, Zenon DEF WholeParam
<1>7. msg.params = <<>> => Param0 = <<>>
  BY DEF Param0
<1> QED BY <1>4, <1>5, <1>6, <1>7

(* The calls of helpers.                                                   *)
LEMMA CallsAre ==
  /\ \A x : /\ Pong(x).how = "pong" /\ Pong(x).f = PongFormat
            /\ Pong(x).args = <<x>>
  /\ \A x, y : /\ Privmsg(x, y).how = "privmsg"
               /\ Privmsg(x, y).f = PrivmsgFormat
               /\ Privmsg(x, y).args = <<x, y>>
  /\ \A x : /\ Quit(x).how = "quit" /\ Quit(x).f = QuitFormat(x)
            /\ Quit(x).args = <<x>>
BY DEF Pong, Privmsg, Quit

LEMMA AnswersAre ==
  ASSUME NEW a \in Answers
  PROVE  \/ a = <<>>
         \/ a = <<Pong(Text(msg.trailing))>>
         \/ msg.trailing # Null /\ a = <<Privmsg(Param0, Sentence)>>
         \/ /\ msg.trailing # Null
            /\ a = <<Privmsg(Param0, Sentence), Quit(Sentence)>>
         \/ msg.trailing # Null /\ a = <<Quit(<<>>)>>
<1> DEFINE P == Privmsg(Param0, Sentence)  Q == Quit(Sentence)
           N == Quit(<<>>)  O == OnPing
<1>1. O = <<Pong(Text(msg.trailing))>>
  BY DEF OnPing
<1>2. OnPrivmsgAnswers = {<<>>, <<P>>, <<P, Q>>, <<N>>}
  BY DEF OnPrivmsgAnswers
<1>3. \/ a = <<>> \/ a = O
      \/ msg.trailing # Null /\ a \in OnPrivmsgAnswers
  <2> HIDE DEF P, Q, N, O
  <2> QED BY Zenon DEF Answers, O
<1> HIDE DEF P, Q, N, O
<1>4. a \in {<<>>, <<P>>, <<P, Q>>, <<N>>} =>
        a = <<>> \/ a = <<P>> \/ a = <<P, Q>> \/ a = <<N>>
  BY Zenon
<1>5. \/ a = <<>> \/ a = <<Pong(Text(msg.trailing))>>
      \/ msg.trailing # Null /\ a = <<P>>
      \/ msg.trailing # Null /\ a = <<P, Q>>
      \/ msg.trailing # Null /\ a = <<N>>
  BY <1>1, <1>2, <1>3, <1>4, Zenon
<1> QED BY <1>5 DEF P, Q, N

LEMMA OneAndTwo ==
  /\ Len(<<>>) = 0
  /\ \A x : Len(<<x>>) = 1 /\ <<x>>[1] = x
  /\ \A x, y : Len(<<x, y>>) = 2 /\ <<x, y>>[1] = x /\ <<x, y>>[2] = y
  /\ \A i \in 1..1 : i = 1
  /\ \A i \in 1..2 : i = 1 \/ i = 2
  /\ \A i \in 1..0 : FALSE
OBVIOUS

(* The single calls.                                                       *)
LEMMA PongCall ==
  ASSUME Clean, phase = "scan", NEW p, p = Pong(Text(msg.trailing)),
         ~Throws(p.f, p.args)
  PROVE  Faithful(Sent(p.how, p.f, p.args))
<1>1. /\ p.how = "pong" /\ p.f = PongFormat
      /\ p.args = <<Text(msg.trailing)>>
  BY CallsAre
<1>2. Text(msg.trailing) # <<>>
  <2> DEFINE x == Text(msg.trailing)
  <2>1. ~Throws(PongFormat, <<x>>)
    BY <1>1
  <2> HIDE DEF x
  <2>2. x # <<>>
    BY <2>1, ThrowsIs, Zenon
  <2> QED BY <2>2 DEF x
<1>3. PICK t : Text(msg.trailing) = <<t>> /\ Unbroken(t) /\ Len(t) > 0
  BY <1>2, TextsClean
<1>4. Faithful(Sent("pong", PongFormat, <<<<t>>>>))
  BY <1>3, PongFaithful
<1> QED BY <1>1, <1>3, <1>4, Zenon

LEMMA PrivmsgCall ==
  ASSUME Clean, phase = "scan", TypeOK, NEW p, p = Privmsg(Param0, Sentence),
         ~Throws(p.f, p.args)
  PROVE  Faithful(Sent(p.how, p.f, p.args))
<1>1. /\ p.how = "privmsg" /\ p.f = PrivmsgFormat
      /\ p.args = <<Param0, Sentence>>
  BY CallsAre
<1>2. Param0 # <<>>
  <2> DEFINE x == Param0
  <2>1. ~Throws(PrivmsgFormat, <<x, Sentence>>)
    BY <1>1
  <2> HIDE DEF x
  <2>2. x # <<>>
    BY <2>1, ThrowsIs, Zenon
  <2> QED BY <2>2 DEF x
<1>3. msg.params \in Seq(Intervals)
  BY DEF TypeOK, Messages
<1>4. PICK c : Param0 = <<c>> /\ IsParam(c)
  BY <1>2, <1>3, TextsClean
<1>5. Faithful(Sent("privmsg", PrivmsgFormat, <<<<c>>, <<SentenceText>>>>))
  BY <1>4, SentenceFacts, PrivmsgFaithful
<1> QED BY <1>1, <1>4, <1>5, SentenceFacts, Zenon

LEMMA QuitCall ==
  ASSUME NEW p, p = Quit(Sentence) \/ p = Quit(<<>>)
  PROVE  Faithful(Sent(p.how, p.f, p.args))
<1>1. CASE p = Quit(Sentence)
  <2>1. p.how = "quit" /\ p.f = QuitFormat(Sentence) /\ p.args = <<Sentence>>
    BY <1>1, CallsAre
  <2>2. Faithful(Sent("quit", QuitFormat(<<SentenceText>>),
                      <<<<SentenceText>>>>))
    BY SentenceFacts, QuitFaithful
  <2> QED BY <2>1, <2>2, SentenceFacts, Zenon
<1>2. CASE p = Quit(<<>>)
  <2>1. p.how = "quit" /\ p.f = QuitFormat(<<>>) /\ p.args = <<<<>>>>
    BY <1>2, CallsAre
  <2> QED BY <2>1, QuitPlainFaithful, Zenon
<1> QED BY <1>1, <1>2

(* Each line that a callback has written by a helper is faithful.          *)
LEMMA AnswersFaithful ==
  ASSUME Clean, phase = "scan", TypeOK, NEW a \in Answers, ~Fails(a),
         NEW i \in 1..Len(a)
  PROVE  Faithful(Sent(a[i].how, a[i].f, a[i].args))
<1> DEFINE p == a[i]
<1>1. ~Throws(p.f, p.args)
  BY DEF Fails
<1>2. \/ p = Pong(Text(msg.trailing)) \/ p = Privmsg(Param0, Sentence)
      \/ p = Quit(Sentence) \/ p = Quit(<<>>)
  <2> DEFINE P == Privmsg(Param0, Sentence)  Q == Quit(Sentence)
             N == Quit(<<>>)  O == Pong(Text(msg.trailing))
  <2>1. a = <<>> \/ a = <<O>> \/ a = <<P>> \/ a = <<P, Q>> \/ a = <<N>>
    BY AnswersAre
  <2> HIDE DEF P, Q, N, O
  <2>2. a # <<>>
    BY OneAndTwo
  <2>3. ASSUME a = <<O>> \/ a = <<P>> \/ a = <<N>>
        PROVE  p = O \/ p = P \/ p = N
    BY <2>3, OneAndTwo
  <2>4. ASSUME a = <<P, Q>> PROVE p = P \/ p = Q
    BY <2>4, OneAndTwo
  <2> HIDE DEF p
  <2> QED BY <2>1, <2>2, <2>3, <2>4 DEF P, Q, N, O
<1> HIDE DEF p
<1>3. Faithful(Sent(p.how, p.f, p.args))
  BY <1>1, <1>2, PongCall, PrivmsgCall, QuitCall
<1> QED BY <1>3 DEF p

(* A callback fails only where the message has a null pointer.             *)
LEMMA FailureReason ==
  ASSUME Clean, phase = "scan", TypeOK, NEW a \in Answers, Fails(a)
  PROVE  msg.trailing = Null \/ msg.params = <<>>
<1>1. PICK i \in 1..Len(a) : Throws(a[i].f, a[i].args)
  BY DEF Fails
<1> DEFINE p == a[i]  x == Text(msg.trailing)  y == Param0
<1>2. \/ p = Pong(x) \/ p = Privmsg(y, Sentence)
      \/ p = Quit(Sentence) \/ p = Quit(<<>>)
  <2> DEFINE P == Privmsg(y, Sentence)  Q == Quit(Sentence)
             N == Quit(<<>>)  O == Pong(x)
  <2>1. a = <<>> \/ a = <<O>> \/ a = <<P>> \/ a = <<P, Q>> \/ a = <<N>>
    BY AnswersAre
  <2> HIDE DEF P, Q, N, O
  <2>2. a # <<>>
    BY OneAndTwo
  <2>3. ASSUME a = <<O>> \/ a = <<P>> \/ a = <<N>>
        PROVE  p = O \/ p = P \/ p = N
    BY <2>3, OneAndTwo
  <2>4. ASSUME a = <<P, Q>> PROVE p = P \/ p = Q
    BY <2>4, OneAndTwo
  <2> HIDE DEF p
  <2> QED BY <2>1, <2>2, <2>3, <2>4 DEF P, Q, N, O
<1>3. Throws(p.f, p.args)
  BY <1>1
<1>4. msg.params \in Seq(Intervals)
  BY DEF TypeOK, Messages
<1>5. x = <<>> => msg.trailing = Null
  BY TextsClean
<1>6. y = <<>> => msg.params = <<>>
  BY <1>4, TextsClean
<1> HIDE DEF p, x, y
<1>7. CASE p = Pong(x)
  <2>1. Throws(PongFormat, <<x>>)
    BY <1>3, <1>7, CallsAre
  <2>2. x = <<>>
    BY <2>1, ThrowsIs, Zenon
  <2> QED BY <1>5, <2>2
<1>8. CASE p = Privmsg(y, Sentence)
  <2>1. Throws(PrivmsgFormat, <<y, Sentence>>)
    BY <1>3, <1>8, CallsAre
  <2>2. y = <<>>
    BY <2>1, ThrowsIs, Zenon
  <2> QED BY <1>6, <2>2
<1>9. p # Quit(Sentence) /\ p # Quit(<<>>)
  BY <1>3, CallsAre, ThrowsIs
<1> QED BY <1>2, <1>7, <1>8, <1>9

-----------------------------------------------------------------------------
(***************************************************************************)
(* The scanner with its callbacks.                                         *)
(***************************************************************************)

ScanInv == IndInv /\ LeakInv /\ ReadInv /\ Clean

LEMMA StepScan == ScanInv /\ [Next]_vars => ScanInv'
BY StepInv, StepLeak, StepRead, StepClean DEF ScanInv

(* Every step of the replies is one of the scanner, or ends in the         *)
(* callback with the scanner where it was.                                 *)
LEMMA ReplySteps ==
  ASSUME [ReplyNext]_<<vars, wire, fate>>
  PROVE  \/ [Next]_vars
         \/ /\ phase = "scan"
            /\ UNCHANGED <<line, installed, phase, buffer, pos, stack, event,
                           command, msg, heap, result>>
<1>1. CASE Scanning
  BY <1>1 DEF Scanning, Next, Rule
<1>2. CASE Signal
  BY <1>2 DEF Next, Rule
<1>3. CASE SignalFails
  BY <1>3 DEF SignalFails, At, Scan
<1>4. CASE UNCHANGED <<vars, wire, fate>>
  BY <1>4
<1> QED BY <1>1, <1>2, <1>3, <1>4 DEF ReplyNext, SignalAnswered

LEMMA StepReplyScan ==
  ScanInv /\ [ReplyNext]_<<vars, wire, fate>> => ScanInv'
<1> SUFFICES ASSUME ScanInv, [ReplyNext]_<<vars, wire, fate>>
             PROVE  ScanInv'
  OBVIOUS
<1>1. CASE [Next]_vars
  BY <1>1, StepScan
<1>2. CASE /\ phase = "scan"
           /\ UNCHANGED <<line, installed, phase, buffer, pos, stack, event,
                          command, msg, heap, result>>
  <2>1. IndInv'
    BY <1>2 DEF ScanInv, IndInv, TypeOK, StackSound, FieldsAllocated, Fresh
  <2>2. LeakInv'
    <3>1. Placed => Placed'
      BY <1>2 DEF Placed, NoPrefix, Copied, Start
    <3>2. Owned => Owned'
      BY <1>2 DEF Owned, Reachable
    <3> QED BY <1>2, <3>1, <3>2 DEF ScanInv, LeakInv
  <2>3. ReadInv'
    <3>1. Progress => Progress'
      BY <1>2, SameProgress
    <3> QED BY <1>2, <3>1 DEF ScanInv, ReadInv
  <2>4. Clean'
    BY <1>2 DEF ScanInv, Clean
  <2> QED BY <2>1, <2>2, <2>3, <2>4 DEF ScanInv
<1> QED BY <1>1, <1>2, ReplySteps

LEMMA InitScan == Init => ScanInv
BY InitInv, InitLeak, InitRead, InitClean DEF ScanInv

THEOREM ScanAlways == ReplySpec => []ScanInv
<1>1. ReplyInit => ScanInv
  BY InitScan DEF ReplyInit
<1> QED BY <1>1, StepReplyScan, PTL DEF ReplySpec

(* What is proved of the scanner holds with the application's callbacks    *)
(* too, whether they return or not: its stack, its strings and the message *)
(* it hands over.                                                          *)
THEOREM ScannerSoundWithCallbacks ==
  ReplySpec => [](/\ TypeOK /\ StackSound /\ FieldsAllocated
                  /\ MessageSignalled /\ OnlyOverwrittenLeaked)
<1>1. ScanInv => /\ TypeOK /\ StackSound /\ FieldsAllocated
                 /\ MessageSignalled /\ OnlyOverwrittenLeaked
  BY DEF ScanInv, IndInv, ReadInv, Judged, MessageSignalled, LeakInv,
         OnlyOverwrittenLeaked
<1> QED BY <1>1, ScanAlways, PTL

FailureExplained ==
  fate # "run" => signal[2].trailing = Null \/ signal[2].params = <<>>

AllFaithful == \A i \in 1..Len(wire) : Faithful(wire[i])

LEMMA ReadBackIs == RepliesReadBack <=> AllFaithful /\ FailureExplained
BY Zenon DEF RepliesReadBack, AllFaithful, FailureExplained, Faithful

LEMMA StepFaithful ==
  ScanInv /\ AllFaithful /\ [ReplyNext]_<<vars, wire, fate>> => AllFaithful'
<1> SUFFICES ASSUME ScanInv, AllFaithful, [ReplyNext]_<<vars, wire, fate>>
             PROVE  AllFaithful'
  OBVIOUS
<1>1. CASE wire' = wire
  BY <1>1 DEF AllFaithful
<1>2. CASE SignalAnswered
  <2>1. PICK a \in Answers :
          /\ ~Fails(a)
          /\ wire' = [i \in 1..Len(a) |-> Sent(a[i].how, a[i].f, a[i].args)]
    BY <1>2 DEF SignalAnswered
  <2>2. Clean /\ TypeOK /\ phase = "scan"
    BY <1>2 DEF SignalAnswered, Signal, At, Scan, ScanInv, IndInv
  <2>3. \A i \in 1..Len(a) : Faithful(Sent(a[i].how, a[i].f, a[i].args))
    BY <2>1, <2>2, AnswersFaithful
  <2>4. Len(a) \in Nat
    <3>1. \/ a = <<>> \/ (\E x : a = <<x>>)
            \/ \E y, z : a = <<y, z>>
      BY AnswersAre
    <3> QED BY <3>1, OneAndTwo
  <2> DEFINE n == Len(a)
             W == [i \in 1..n |-> Sent(a[i].how, a[i].f, a[i].args)]
  <2>5. wire' = W /\ n \in Nat
    BY <2>1, <2>4
  <2>6. \A i \in 1..n : Faithful(W[i])
    BY <2>3
  <2>7. DOMAIN W = 1..n
    OBVIOUS
  <2> HIDE DEF n, W
  <2>8. Len(W) = n
    BY <2>5, <2>7
  <2> QED BY <2>5, <2>6, <2>8 DEF AllFaithful
<1>3. wire' = wire \/ SignalAnswered
  BY DEF ReplyNext, SignalFails
<1> QED BY <1>1, <1>2, <1>3

LEMMA StepExplained ==
  ScanInv /\ FailureExplained /\ [ReplyNext]_<<vars, wire, fate>>
    => FailureExplained'
<1> SUFFICES ASSUME ScanInv, FailureExplained,
                    [ReplyNext]_<<vars, wire, fate>>
             PROVE  FailureExplained'
  OBVIOUS
<1>1. CASE fate = "run" /\ fate' = fate
  BY <1>1 DEF FailureExplained
<1>2. CASE UNCHANGED <<vars, wire, fate>>
  BY <1>2 DEF vars, FailureExplained
<1>3. CASE SignalFails
  <2>1. Clean /\ TypeOK /\ phase = "scan"
    BY <1>3 DEF SignalFails, At, Scan, ScanInv, IndInv
  <2>2. signal' = <<event, msg>>
    BY <1>3 DEF SignalFails
  <2>3. (\E a \in Answers : Fails(a)) \/ msg.trailing = Null
    BY <1>3 DEF SignalFails
  <2>4. msg.trailing = Null \/ msg.params = <<>>
    BY <2>1, <2>3, FailureReason
  <2> QED BY <2>2, <2>4 DEF FailureExplained
<1>4. \/ fate = "run" /\ fate' = fate
      \/ UNCHANGED <<vars, wire, fate>> \/ SignalFails
  BY DEF ReplyNext, SignalAnswered
<1> QED BY <1>1, <1>2, <1>3, <1>4

(* For every line the server can send, what pong, privmsg and quit write   *)
(* from its message is one line that fits into the Writer's buffer and     *)
(* that a reader of the same grammar finds the parameter and the text of   *)
(* the call in, except for a pong whose text has a space or begins with    *)
(* ":"; and only a message without a text or a parameter makes a callback  *)
(* fail.                                                                   *)
THEOREM RepliesAlwaysReadBack == ReplySpec => []RepliesReadBack
<1>1. ReplyInit => AllFaithful /\ FailureExplained
  BY OneAndTwo DEF ReplyInit, AllFaithful, FailureExplained
<1>2. AllFaithful /\ FailureExplained => RepliesReadBack
  BY ReadBackIs
<1> QED BY <1>1, <1>2, ScanAlways, StepFaithful, StepExplained, PTL
        DEF ReplySpec
=============================================================================
