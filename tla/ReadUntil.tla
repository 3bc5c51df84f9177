----------------------------- MODULE ReadUntil ------------------------------
(***************************************************************************)
(* The bytes of the read path: session->input (asio::basic_streambuf), the *)
(* composed operation async_read_until(socket, input, "\r\n") and the part *)
(* of on_read that takes a line out of the input.                          *)
(*                                                                         *)
(* A read operation searches what is buffered, asks the socket for more    *)
(* bytes when it finds no line end, and remembers how far it has searched. *)
(* A line end may be split between two receives, one receive may bring     *)
(* several lines, and a line may be in the buffer before its read begins:  *)
(* such a read asks the socket for no bytes, which completes at once.      *)
(*                                                                         *)
(* IrcSession has the threads, callbacks and the life of the session; here *)
(* there is one session, and one handler of its chain runs at a time       *)
(* (ReadChainExclusive).                                                   *)
(***************************************************************************)
EXTENDS Integers, Sequences

CONSTANTS
  Byte,        (* what the stream is made of                               *)
  CR, LF,      (* the two bytes of the delimiter "\r\n"                    *)
  BufferDelta, (* the buffer's first size                                  *)
  ReadSize,    (* bytes a read asks for at least                           *)
  MaxReadSize, (* bytes a read asks for at most                            *)
  MaxBytes,    (* bound on the bytes received                              *)
  MaxUntried   (* bound on reads that complete without having been tried   *)

ASSUME ReadAssumption ==
  /\ {CR, LF} \subseteq Byte /\ CR # LF
  /\ BufferDelta \in Nat
  /\ ReadSize \in Nat \ {0} /\ MaxReadSize \in Nat /\ MaxReadSize >= ReadSize
  /\ MaxBytes \in Nat /\ MaxUntried \in Nat

VARIABLES
  input,   (* session->input, a Streambuf                                  *)
  pos,     (* search_position_ of the operation                            *)
  op,      (* what the operation waits for, see Reading and Done           *)
  sock,    (* "open"; "closing": disconnect has deregistered the socket,   *)
           (* which is_open() does not see yet; "closed"                   *)
  over,    (* how the chain ended: "no", "hangup" or "error"               *)
  lines,   (* the lines given to thread_parse, without the two zero bytes  *)
  got,     (* number of bytes received                                     *)
  untried  (* number of reads completed without having been tried          *)

vars == <<input, pos, op, sock, over, lines, got, untried>>

(* area: the bytes before pptr(), those before gptr() are consumed; gptr   *)
(* and epptr: offsets.  Bytes from pptr() on have no meaning.              *)
Streambuf == [area : Seq(Byte), gptr : Nat, epptr : Nat]

(* The operation is in the queue of the reactor, with room for n bytes, or *)
(* has completed with a result and the bytes that were received.           *)
Reading(n) == [kind |-> "reading", room |-> n]
Done(e, s) == [kind |-> "done", ec |-> e, bytes |-> s]
Codes == {"ok", "eof", "error", "aborted"}

MinOf(a, b) == IF a <= b THEN a ELSE b
MaxOf(a, b) == IF a >= b THEN a ELSE b

-----------------------------------------------------------------------------
(***************************************************************************)
(* asio::basic_streambuf.                                                  *)
(***************************************************************************)

Data(b) == SubSeq(b.area, b.gptr + 1, Len(b.area))

Size(b) == Len(b.area) - b.gptr

(* Variant: the consumed bytes are dropped and gptr stays where it was.    *)
ReserveKeepsGptr(b, n) ==
  IF n <= b.epptr - Len(b.area) THEN b
  ELSE [b EXCEPT !.area = Data(b), !.epptr = MaxOf(b.epptr, Size(b) + n)]

(* Room for n bytes after pptr(): the bytes in use move to the front, and  *)
(* the buffer grows if that is not enough.                                 *)
Reserve(b, n) ==
  IF n <= b.epptr - Len(b.area) THEN b
  ELSE [area |-> Data(b), gptr |-> 0, epptr |-> MaxOf(b.epptr, Size(b) + n)]

(* Bytes beyond epptr() are dropped.                                       *)
Commit(b, s) ==
  [b EXCEPT !.area = @ \o SubSeq(s, 1, MinOf(Len(s), b.epptr - Len(b.area)))]

(* Variant: everything in the buffer is consumed.                          *)
ConsumeAll(b, n) == [b EXCEPT !.gptr = Len(b.area)]

Consume(b, n) == [b EXCEPT !.gptr = MinOf(@ + n, Len(b.area))]

(* The vector's capacity is its size.                                      *)
ReadSizeHelper(b) == MinOf(MaxOf(ReadSize, b.epptr - Size(b)), MaxReadSize)

-----------------------------------------------------------------------------
(***************************************************************************)
(* async_read_until.                                                       *)
(***************************************************************************)

(* A line end begins at byte i of d; d may end within it.                  *)
BeginsAt(d, i) == d[i] = CR /\ (i < Len(d) => d[i + 1] = LF)

(* partial_search from offset p finds a line end, whose last byte is n.    *)
Finds(d, p, n) ==
  /\ n \in p + 2..Len(d) /\ BeginsAt(d, n - 1)
  /\ \A i \in p + 1..n - 2 : ~BeginsAt(d, i)

(* Variant: a line end that is split is searched for behind its first      *)
(* byte.                                                                   *)
FindsNonePast(d, p, n) ==
  /\ n = Len(d)
  /\ \A i \in p + 1..n - 1 : ~BeginsAt(d, i)

(* It finds none; the next search starts from offset n, where d ends or a  *)
(* line end begins with the last byte of d.                                *)
FindsNone(d, p, n) ==
  /\ n = Len(d) \/ (n = Len(d) - 1 /\ n >= p /\ BeginsAt(d, Len(d)))
  /\ \A i \in p + 1..n : ~BeginsAt(d, i)

(* async_read_some for the room of b.  A socket that has been closed, or   *)
(* that is being closed, refuses; in the second case start_op may also     *)
(* post the operation as it is, with no error and no bytes.                *)
ReadSome(b) ==
  LET n == ReadSizeHelper(b) IN
  /\ input' = Reserve(b, n)
  /\ \/ sock = "open" /\ op' = Reading(n) /\ UNCHANGED untried
     \/ sock # "open" /\ op' = Done("error", <<>>) /\ UNCHANGED untried
     \/ /\ sock = "closing" /\ untried < MaxUntried
        /\ op' = Done("ok", <<>>) /\ untried' = untried + 1

(* async_read_some for no bytes: nothing to wait for, except that the      *)
(* socket, once closed, has forgotten that it is a stream.                 *)
ReadNothing(b) ==
  /\ input' = b
  /\ op' = Done(IF sock = "closed" THEN "error" ELSE "ok", <<>>)
  /\ UNCHANGED untried

(* The search of b from offset p, and what follows when there is no line  *)
(* end in it.                                                              *)
ReadMore(b, p) ==
  /\ \E n \in 0..Size(b) : FindsNone(Data(b), p, n) /\ pos' = n
  /\ ReadSome(b)

(* async_read_until on the input b.                                        *)
StartRead(b) ==
  \/ \E n \in 0..Size(b) : Finds(Data(b), 0, n) /\ pos' = n /\ ReadNothing(b)
  \/ ReadMore(b, 0)

(* on_read takes n bytes as a line and starts the next read.               *)
TakeLine(b, n) ==
  /\ lines' = Append(lines, SubSeq(Data(b), 1, n))
  /\ StartRead(Consume(b, n))

(* The operation completes: with bytes it searches again, and reads again  *)
(* or calls on_read; without, it calls on_read.                            *)
CompleteBytes ==
  /\ op.kind = "done" /\ op.ec = "ok" /\ op.bytes # <<>> /\ over = "no"
  /\ LET b == Commit(input, op.bytes) IN
     \/ \E n \in 0..Size(b) : Finds(Data(b), pos, n) /\ TakeLine(b, n)
     \/ ReadMore(b, pos) /\ UNCHANGED lines
  /\ UNCHANGED <<sock, over, got>>

CompleteEmpty ==
  /\ op.kind = "done" /\ op.bytes = <<>> /\ over = "no"
  /\ \/ op.ec = "ok" /\ TakeLine(input, pos)
     \/ op.ec = "aborted" /\ sock = "closing" /\ TakeLine(input, 0)
  /\ UNCHANGED <<sock, over, got>>

(* on_read ends the chain, with signal_disconnect or without.              *)
CompleteLast ==
  /\ op.kind = "done" /\ over = "no"
  /\ \/ op.ec = "eof" /\ over' = "hangup"
     \/ op.ec = "aborted" /\ sock = "closed" /\ over' = "hangup"
     \/ op.ec = "error" /\ over' = "error"
  /\ UNCHANGED <<input, pos, op, sock, lines, got, untried>>

-----------------------------------------------------------------------------
(***************************************************************************)
(* The socket and the application.                                         *)
(***************************************************************************)

ReceiveBytes(s) ==
  /\ op.kind = "reading" /\ Len(s) <= op.room /\ got + Len(s) <= MaxBytes
  /\ op' = Done("ok", s)
  /\ got' = got + Len(s)
  /\ UNCHANGED <<input, pos, sock, over, lines, untried>>

(* The peer has closed its end, or shutdown() has been called; or the      *)
(* connection is lost.                                                     *)
EndOfStream ==
  /\ op.kind = "reading"
  /\ op' \in {Done("eof", <<>>), Done("error", <<>>)}
  /\ UNCHANGED <<input, pos, sock, over, lines, got, untried>>

(* close(): the waiting read is aborted before is_open() becomes false.    *)
Deregister ==
  /\ sock = "open"
  /\ sock' = "closing"
  /\ op' = IF op.kind = "reading" THEN Done("aborted", <<>>) ELSE op
  /\ UNCHANGED <<input, pos, over, lines, got, untried>>

Close ==
  /\ sock = "closing"
  /\ sock' = "closed"
  /\ UNCHANGED <<input, pos, op, over, lines, got, untried>>

(* on_connect has started the first read.                                  *)
Init ==
  /\ LET b == [area |-> <<>>, gptr |-> 0, epptr |-> BufferDelta]
         n == ReadSizeHelper(b)
     IN input = Reserve(b, n) /\ op = Reading(n)
  /\ pos = 0 /\ sock = "open" /\ over = "no" /\ lines = <<>>
  /\ got = 0 /\ untried = 0

Chunks == UNION {[1..n -> Byte] : n \in 1..MinOf(MaxBytes, MaxReadSize)}

Next ==
  \/ CompleteBytes \/ CompleteEmpty \/ CompleteLast
  \/ EndOfStream \/ Deregister \/ Close
  \/ \E s \in Chunks : ReceiveBytes(s)

Spec == Init /\ [][Next]_vars

-----------------------------------------------------------------------------
(***************************************************************************)
(* Properties.                                                             *)
(***************************************************************************)

TypeOK ==
  /\ input \in Streambuf
  /\ input.gptr <= Len(input.area) /\ Len(input.area) <= input.epptr
  /\ pos \in 0..Len(Data(input))
  /\ \/ /\ op.kind = "reading" /\ op.room \in 1..MaxReadSize
        /\ op = Reading(op.room) /\ op.room <= input.epptr - Len(input.area)
     \/ /\ op.kind = "done" /\ op.ec \in Codes /\ op.bytes \in Seq(Byte)
        /\ op = Done(op.ec, op.bytes)
        /\ Len(op.bytes) <= input.epptr - Len(input.area)
        /\ op.bytes # <<>> => op.ec = "ok"
  /\ sock \in {"open", "closing", "closed"}
  /\ over \in {"no", "hangup", "error"}
  /\ lines \in Seq(Seq(Byte))
  /\ got \in 0..MaxBytes /\ untried \in 0..MaxUntried

(* The bytes received by an operation that has not completed belong to the *)
(* stream, but not yet to session->input.                                  *)
Arrived == IF op.kind = "done" THEN op.bytes ELSE <<>>

Lines == INSTANCE LineStream WITH stream <- Data(input) \o Arrived,
                                  cut <- sock # "open"

(* Every line that on_read gives to thread_parse is the next line of the   *)
(* stream, whole and with its line end, for every way in which the stream  *)
(* is cut into receives: the search position, consume() and the moves of   *)
(* the buffer lose no byte and give none twice.  Only a read that is       *)
(* completed while cq_irc_session_disconnect is under way gives a piece of *)
(* a line, maybe of no bytes: on_read takes what it is told.               *)
ImplementsLineStream == Lines!Spec

(* As long as a read waits for the socket there is no line end in the      *)
(* buffer, and the bytes that the next search will skip hold no beginning  *)
(* of one: no line waits for bytes of the line after it.                   *)
NoLineHeldBack ==
  op.kind = "reading" =>
    /\ \A i \in 1..Size(input) : ~Lines!EndsAt(Data(input), i)
    /\ \A i \in 1..pos : ~BeginsAt(Data(input), i)
=============================================================================
