----------------------------- MODULE LineStream -----------------------------
(***************************************************************************)
(* What on_read relies on when it reads with async_read_until: the bytes   *)
(* of the connection come out as its lines, each with its line end, in the *)
(* order of the stream, none lost and none twice, however TCP cuts the     *)
(* stream into pieces.  Once the socket is being closed a line may also    *)
(* come out too early: a piece of the stream without a line end.           *)
(***************************************************************************)
EXTENDS Integers, Sequences

CONSTANTS
  Byte,
  CR, LF     (* the two bytes of a line end                                *)

VARIABLES
  stream,    (* bytes that have been received and are in no line yet       *)
  lines,     (* the lines that have been handed to the parser              *)
  cut        (* the socket is being closed                                 *)

(* A line end occupies the bytes i and i+1 of s.                           *)
EndsAt(s, i) == i \in 1..Len(s) - 1 /\ s[i] = CR /\ s[i + 1] = LF

(* The first n bytes of s are a line.                                      *)
IsLine(s, n) ==
  /\ n \in 2..Len(s) /\ EndsAt(s, n - 1)
  /\ \A i \in 1..n - 2 : ~EndsAt(s, i)

(* The first n bytes of s are a piece of a line.                           *)
IsPiece(s, n) ==
  /\ n \in 0..Len(s)
  /\ \A i \in 1..n : ~EndsAt(s, i)

Init == stream = <<>> /\ lines = <<>> /\ cut = FALSE

Receive ==
  /\ ~cut
  /\ stream' \in Seq(Byte) /\ Len(stream') > Len(stream)
  /\ SubSeq(stream', 1, Len(stream)) = stream
  /\ UNCHANGED <<lines, cut>>

Deliver ==
  \E n \in 0..Len(stream) :
    /\ IsLine(stream, n) \/ (cut /\ IsPiece(stream, n))
    /\ lines' = Append(lines, SubSeq(stream, 1, n))
    /\ stream' = SubSeq(stream, n + 1, Len(stream))
    /\ UNCHANGED cut

Close == cut' = TRUE /\ UNCHANGED <<stream, lines>>

Next == Receive \/ Deliver \/ Close

Spec == Init /\ [][Next]_<<stream, lines, cut>>
=============================================================================
