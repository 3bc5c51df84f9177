-------------------------- MODULE ReadUntilProofs ---------------------------
(***************************************************************************)
(* Proofs about ReadUntil, for every set of bytes, buffer size, read size  *)
(* and stream.  The first part is about the operators of the buffer and of *)
(* the search, the second the inductive invariant, the third the           *)
(* refinement of LineStream.                                               *)
(***************************************************************************)
EXTENDS ReadUntil, SequenceTheorems, TLAPS

(* The offsets of a buffer are in order.                                   *)
BufOK(b) ==
  /\ b \in Streambuf
  /\ b.gptr <= Len(b.area) /\ Len(b.area) <= b.epptr

-----------------------------------------------------------------------------
(***************************************************************************)
(* The buffer.                                                             *)
(***************************************************************************)

(* Dropping the first bytes and appending others commute.                  *)
LEMMA SuffixOfConcat ==
  ASSUME NEW a \in Seq(Byte), NEW s \in Seq(Byte), NEW g \in 0..Len(a)
  PROVE  SubSeq(a \o s, g + 1, Len(a \o s)) = SubSeq(a, g + 1, Len(a)) \o s
<1> DEFINE c == a \o s
           d == SubSeq(a, g + 1, Len(a))
           e == SubSeq(c, g + 1, Len(c))
           f == d \o s
<1>1. Len(a) \in Nat /\ Len(s) \in Nat /\ g \in Nat /\ g <= Len(a)
  OBVIOUS
<1>2. /\ c \in Seq(Byte) /\ Len(c) = Len(a) + Len(s)
      /\ \A i \in 1..Len(a) + Len(s) :
           c[i] = IF i <= Len(a) THEN a[i] ELSE s[i - Len(a)]
  BY ConcatProperties
<1> HIDE DEF c
<1>3. \A i \in g + 1..Len(a) : a[i] \in Byte
  BY <1>1
<1>4. /\ d \in Seq(Byte)
      /\ Len(d) = IF g + 1 <= Len(a) THEN Len(a) - (g + 1) + 1 ELSE 0
      /\ \A i \in 1..Len(a) - (g + 1) + 1 : d[i] = a[g + 1 + i - 1]
  BY <1>1, <1>3, SubSeqProperties
<1>5. \A i \in g + 1..Len(c) : c[i] \in Byte
  BY <1>1, <1>2
<1>6. /\ e \in Seq(Byte)
      /\ Len(e) = IF g + 1 <= Len(c) THEN Len(c) - (g + 1) + 1 ELSE 0
      /\ \A i \in 1..Len(c) - (g + 1) + 1 : e[i] = c[g + 1 + i - 1]
  BY <1>1, <1>2, <1>5, SubSeqProperties
<1> HIDE DEF d, e
<1>7. Len(d) = Len(a) - g /\ Len(e) = Len(a) + Len(s) - g
  BY <1>1, <1>2, <1>4, <1>6
<1>8. /\ f \in Seq(Byte) /\ Len(f) = Len(d) + Len(s)
      /\ \A i \in 1..Len(d) + Len(s) :
           f[i] = IF i <= Len(d) THEN d[i] ELSE s[i - Len(d)]
  BY <1>4, ConcatProperties
<1> HIDE DEF f
<1>9. ASSUME NEW i \in 1..Len(a) + Len(s) - g
      PROVE  e[i] = f[i]
  <2>1. e[i] = c[g + i]
    <3>1. i \in 1..Len(c) - (g + 1) + 1 /\ g + 1 + i - 1 = g + i
      BY <1>1, <1>2
    <3> QED BY <1>6, <3>1
  <2>2. CASE i <= Len(a) - g
    <3>1. c[g + i] = a[g + i]
      BY <1>1, <1>2, <2>2
    <3>2. i \in 1..Len(a) - (g + 1) + 1 /\ g + 1 + i - 1 = g + i
      BY <1>1, <2>2
    <3>3. d[i] = a[g + i]
      BY <1>4, <3>2
    <3>4. f[i] = d[i]
      BY <1>1, <1>7, <1>8, <2>2
    <3> QED BY <2>1, <3>1, <3>3, <3>4
  <2>3. CASE ~(i <= Len(a) - g)
    <3>1. g + i \in 1..Len(a) + Len(s) /\ ~(g + i <= Len(a))
      BY <1>1, <2>3
    <3>2. c[g + i] = s[g + i - Len(a)]
      BY <1>2, <3>1
    <3>3. i \in 1..Len(d) + Len(s) /\ ~(i <= Len(d))
      BY <1>1, <1>7, <2>3
    <3>4. f[i] = s[i - Len(d)]
      BY <1>8, <3>3
    <3>5. g + i - Len(a) = i - Len(d)
      BY <1>1, <1>7
    <3> QED BY <2>1, <3>2, <3>4, <3>5
  <2> QED BY <1>1, <2>2, <2>3
<1>10. Len(e) = Len(f)
  BY <1>1, <1>7, <1>8
<1>11. e = f
  BY <1>1, <1>6, <1>7, <1>8, <1>9, <1>10, SeqEqual
<1> QED BY <1>11 DEF c, d, e, f

(* data() is a sequence of size() bytes.                                   *)
LEMMA DataType ==
  ASSUME NEW b, BufOK(b)
  PROVE  /\ Data(b) \in Seq(Byte) /\ Len(Data(b)) = Size(b)
         /\ Size(b) \in Nat
         /\ \A i \in 1..Size(b) : Data(b)[i] = b.area[b.gptr + i]
<1>1. /\ b.area \in Seq(Byte) /\ b.gptr \in Nat /\ Len(b.area) \in Nat
      /\ b.gptr <= Len(b.area)
  BY DEF BufOK, Streambuf
<1>2. \A i \in b.gptr + 1..Len(b.area) : b.area[i] \in Byte
  BY <1>1
<1>3. /\ Data(b) \in Seq(Byte)
      /\ Len(Data(b)) = IF b.gptr + 1 <= Len(b.area)
                        THEN Len(b.area) - (b.gptr + 1) + 1 ELSE 0
      /\ \A i \in 1..Len(b.area) - (b.gptr + 1) + 1 :
           Data(b)[i] = b.area[b.gptr + 1 + i - 1]
  <2> DEFINE m == b.gptr + 1  n == Len(b.area)  s == b.area
  <2>1. m \in Int /\ n \in Int /\ \A i \in m..n : s[i] \in Byte
    BY <1>1, <1>2
  <2>2. Data(b) = SubSeq(s, m, n)
    BY DEF Data
  <2> HIDE DEF m, n, s
  <2>3. /\ SubSeq(s, m, n) \in Seq(Byte)
        /\ Len(SubSeq(s, m, n)) = IF m <= n THEN n - m + 1 ELSE 0
        /\ \A i \in 1..n - m + 1 : SubSeq(s, m, n)[i] = s[m + i - 1]
    BY <2>1, SubSeqProperties
  <2> QED BY <2>2, <2>3 DEF m, n, s
<1>4. /\ Len(b.area) - (b.gptr + 1) + 1 = Size(b)
      /\ \A i \in 1..Size(b) : b.gptr + 1 + i - 1 = b.gptr + i
  BY <1>1 DEF Size
<1> QED BY <1>1, <1>3, <1>4 DEF Size

(* reserve() keeps what is in the buffer and makes the room.               *)
LEMMA ReserveKeeps ==
  ASSUME NEW b, BufOK(b), NEW n \in Nat
  PROVE  /\ BufOK(Reserve(b, n))
         /\ Data(Reserve(b, n)) = Data(b)
         /\ n <= Reserve(b, n).epptr - Len(Reserve(b, n).area)
         /\ Size(Reserve(b, n)) = Size(b)
<1>1. /\ b.area \in Seq(Byte) /\ b.gptr \in Nat /\ b.epptr \in Nat
      /\ Len(b.area) \in Nat
      /\ b.gptr <= Len(b.area) /\ Len(b.area) <= b.epptr
  BY DEF BufOK, Streambuf
<1>2. CASE n <= b.epptr - Len(b.area)
  BY <1>1, <1>2 DEF Reserve
<1>3. CASE ~(n <= b.epptr - Len(b.area))
  <2> DEFINE c == [area |-> Data(b), gptr |-> 0,
                   epptr |-> MaxOf(b.epptr, Size(b) + n)]
  <2>1. Reserve(b, n) = c
    BY <1>3 DEF Reserve
  <2>2. /\ c.area = Data(b) /\ c.gptr = 0
        /\ c.epptr = MaxOf(b.epptr, Size(b) + n)
    OBVIOUS
  <2>3. /\ Data(b) \in Seq(Byte) /\ Len(Data(b)) = Size(b) /\ Size(b) \in Nat
    BY DataType
  <2>4. /\ MaxOf(b.epptr, Size(b) + n) \in Nat
        /\ Size(b) + n <= MaxOf(b.epptr, Size(b) + n)
    BY <1>1, <2>3 DEF MaxOf
  <2>5. c \in Streambuf
    BY <2>3, <2>4 DEF Streambuf
  <2>6. Data(c) = Data(b)
    <3>1. Data(c) = SubSeq(Data(b), 0 + 1, Len(Data(b)))
      BY <2>2 DEF Data
    <3>2. 0 + 1 = 1
      OBVIOUS
    <3> QED BY <3>1, <3>2, <2>3, SubSeqFull
  <2>7. Size(c) = Size(b)
    BY <2>2, <2>3 DEF Size
  <2>8. BufOK(c) /\ n <= c.epptr - Len(c.area)
    BY <2>2, <2>3, <2>4, <2>5 DEF BufOK
  <2> QED BY <2>1, <2>6, <2>7, <2>8
<1> QED BY <1>2, <1>3

(* commit() appends bytes for which there is room.                         *)
LEMMA CommitAppends ==
  ASSUME NEW b, BufOK(b), NEW s \in Seq(Byte), Len(s) <= b.epptr - Len(b.area)
  PROVE  /\ BufOK(Commit(b, s))
         /\ Data(Commit(b, s)) = Data(b) \o s
<1>1. /\ b.area \in Seq(Byte) /\ b.gptr \in Nat /\ b.epptr \in Nat
      /\ Len(b.area) \in Nat
      /\ b.gptr <= Len(b.area) /\ Len(b.area) <= b.epptr
      /\ b = [area |-> b.area, gptr |-> b.gptr, epptr |-> b.epptr]
  BY DEF BufOK, Streambuf
<1> DEFINE a == b.area \o s
           c == [area |-> a, gptr |-> b.gptr, epptr |-> b.epptr]
<1>2. Commit(b, s) = c
  <2>1. Len(s) \in Nat
    OBVIOUS
  <2>2. MinOf(Len(s), b.epptr - Len(b.area)) = Len(s)
    BY DEF MinOf
  <2>3. SubSeq(s, 1, Len(s)) = s
    BY SubSeqFull
  <2>4. Commit(b, s) = [b EXCEPT !.area = a]
    BY <2>2, <2>3 DEF Commit
  <2> QED BY <1>1, <2>4
<1>3. /\ a \in Seq(Byte) /\ Len(a) = Len(b.area) + Len(s)
      /\ \A i \in 1..Len(b.area) + Len(s) :
           a[i] = IF i <= Len(b.area) THEN b.area[i] ELSE s[i - Len(b.area)]
  BY <1>1, ConcatProperties
<1>4. Len(s) \in Nat
  OBVIOUS
<1> HIDE DEF a
<1>5. c.area = a /\ c.gptr = b.gptr /\ c.epptr = b.epptr
  OBVIOUS
<1>6. BufOK(c)
  BY <1>1, <1>3, <1>4, <1>5 DEF BufOK, Streambuf
<1> HIDE DEF c
<1>7. Data(c) = Data(b) \o s
  <2>1. b.gptr \in 0..Len(b.area)
    BY <1>1
  <2>2. SubSeq(a, b.gptr + 1, Len(a)) = Data(b) \o s
    BY <1>1, <2>1, SuffixOfConcat DEF a, Data
  <2> QED BY <1>5, <2>2 DEF Data
<1> QED BY <1>2, <1>6, <1>7

(* consume() drops the first bytes.                                        *)
LEMMA ConsumeDrops ==
  ASSUME NEW b, BufOK(b), NEW n \in 0..Size(b)
  PROVE  /\ BufOK(Consume(b, n))
         /\ Data(Consume(b, n)) = SubSeq(Data(b), n + 1, Len(Data(b)))
<1>1. /\ b.area \in Seq(Byte) /\ b.gptr \in Nat /\ b.epptr \in Nat
      /\ Len(b.area) \in Nat
      /\ b.gptr <= Len(b.area) /\ Len(b.area) <= b.epptr
      /\ b = [area |-> b.area, gptr |-> b.gptr, epptr |-> b.epptr]
  BY DEF BufOK, Streambuf
<1>2. Size(b) = Len(b.area) - b.gptr /\ n \in Nat
  BY <1>1 DEF Size
<1> DEFINE c == [area |-> b.area, gptr |-> b.gptr + n, epptr |-> b.epptr]
<1>3. Consume(b, n) = c
  <2>1. MinOf(b.gptr + n, Len(b.area)) = b.gptr + n
    BY <1>1, <1>2 DEF MinOf
  <2> QED BY <1>1, <2>1 DEF Consume
<1>4. BufOK(c)
  BY <1>1, <1>2 DEF BufOK, Streambuf
<1>5. Data(c) = SubSeq(Data(b), n + 1, Len(Data(b)))
  <2>1. /\ Data(b) \in Seq(Byte) /\ Len(Data(b)) = Size(b) /\ Size(b) \in Nat
        /\ \A i \in 1..Size(b) : Data(b)[i] = b.area[b.gptr + i]
    BY DataType
  <2>2. /\ Data(c) \in Seq(Byte) /\ Len(Data(c)) = Size(c)
        /\ \A i \in 1..Size(c) : Data(c)[i] = b.area[b.gptr + n + i]
    BY <1>4, DataType
  <2>3. Size(c) = Size(b) - n
    BY <1>1, <1>2 DEF Size
  <2> DEFINE d == SubSeq(Data(b), n + 1, Len(Data(b)))
  <2>4. \A i \in n + 1..Len(Data(b)) : Data(b)[i] \in Byte
    BY <1>2, <2>1
  <2>5. /\ d \in Seq(Byte)
        /\ Len(d) = IF n + 1 <= Len(Data(b)) THEN Len(Data(b)) - (n + 1) + 1
                                             ELSE 0
        /\ \A i \in 1..Len(Data(b)) - (n + 1) + 1 :
             d[i] = Data(b)[n + 1 + i - 1]
    BY <1>2, <2>1, <2>4, SubSeqProperties
  <2> HIDE DEF d
  <2>6. Len(d) = Size(b) - n
    BY <1>2, <2>1, <2>5
  <2>7. ASSUME NEW i \in 1..Size(b) - n
        PROVE  Data(c)[i] = d[i]
    <3>1. d[i] = Data(b)[n + i] /\ n + i \in 1..Size(b)
      <4>1. /\ i \in 1..Len(Data(b)) - (n + 1) + 1
            /\ n + 1 + i - 1 = n + i /\ n + i \in 1..Size(b)
        BY <1>2, <2>1
      <4> QED BY <2>5, <4>1
    <3>2. b.gptr + n + i = b.gptr + (n + i)
      BY <1>1, <1>2, <2>1
    <3> QED BY <2>1, <2>2, <2>3, <3>1, <3>2
  <2>8. Data(c) = d
    BY <2>2, <2>3, <2>5, <2>6, <2>7, SeqEqual
  <2> QED BY <2>8 DEF d
<1> QED BY <1>3, <1>4, <1>5

-----------------------------------------------------------------------------
(***************************************************************************)
(* The search.                                                             *)
(***************************************************************************)

(* d has been searched up to p: no line end begins there, and what is left *)
(* is too short for one.                                                   *)
Searched(d, p) ==
  /\ p \in 0..Len(d) /\ p >= Len(d) - 1
  /\ \A i \in 1..p : ~BeginsAt(d, i)

(* More bytes do not make a line end where none began.                     *)
LEMMA BeginsInConcat ==
  ASSUME NEW d \in Seq(Byte), NEW s \in Seq(Byte), NEW i \in 1..Len(d),
         BeginsAt(d \o s, i)
  PROVE  BeginsAt(d, i)
<1> DEFINE c == d \o s
<1>1. /\ Len(c) = Len(d) + Len(s)
      /\ \A j \in 1..Len(d) + Len(s) :
           c[j] = IF j <= Len(d) THEN d[j] ELSE s[j - Len(d)]
  BY ConcatProperties
<1>2. Len(d) \in Nat /\ Len(s) \in Nat
  OBVIOUS
<1>3. BeginsAt(c, i)
  OBVIOUS
<1> HIDE DEF c
<1>4. c[i] = d[i]
  BY <1>1, <1>2
<1>5. i < Len(d) => c[i + 1] = d[i + 1] /\ i < Len(c)
  BY <1>1, <1>2
<1> QED BY <1>3, <1>4, <1>5 DEF BeginsAt

(* What the search finds is the end of the first line.                     *)
LEMMA FindsLine ==
  ASSUME NEW d \in Seq(Byte), NEW p \in 0..Len(d), NEW n,
         \A i \in 1..p : ~BeginsAt(d, i), Finds(d, p, n)
  PROVE  n \in 0..Len(d) /\ Lines!IsLine(d, n)
<1>1. /\ n \in p + 2..Len(d) /\ BeginsAt(d, n - 1)
      /\ \A i \in p + 1..n - 2 : ~BeginsAt(d, i)
  BY DEF Finds
<1>2. p \in Nat /\ Len(d) \in Nat /\ n \in Nat /\ n <= Len(d)
      /\ p + 2 <= n
  BY <1>1
<1>3. Lines!EndsAt(d, n - 1)
  <2>1. n - 1 < Len(d) /\ n - 1 \in 1..Len(d) - 1 /\ n - 1 + 1 = n
    BY <1>2
  <2> QED BY <1>1, <2>1 DEF BeginsAt, Lines!EndsAt
<1>4. ASSUME NEW i \in 1..n - 2
      PROVE  ~Lines!EndsAt(d, i)
  <2>1. ~BeginsAt(d, i)
    <3>1. i \in 1..p \/ i \in p + 1..n - 2
      BY <1>2
    <3> QED BY <1>1, <3>1
  <2> QED BY <2>1 DEF BeginsAt, Lines!EndsAt
<1> QED BY <1>2, <1>3, <1>4 DEF Lines!IsLine

(* When it finds none, there is none, and the next search may start where  *)
(* it says.                                                                *)
LEMMA FindsNoneSearched ==
  ASSUME NEW d \in Seq(Byte), NEW p \in 0..Len(d), NEW n \in 0..Len(d),
         \A i \in 1..p : ~BeginsAt(d, i), FindsNone(d, p, n)
  PROVE  Searched(d, n)
<1>1. Len(d) \in Nat /\ p \in Nat /\ n \in Nat
  OBVIOUS
<1>2. n >= Len(d) - 1
  BY <1>1 DEF FindsNone
<1>3. ASSUME NEW i \in 1..n
      PROVE  ~BeginsAt(d, i)
  <2>1. i \in 1..p \/ i \in p + 1..n
    BY <1>1
  <2> QED BY <2>1 DEF FindsNone
<1> QED BY <1>2, <1>3 DEF Searched

(* A stream that has been searched holds no line.                          *)
LEMMA SearchedNoEnd ==
  ASSUME NEW d \in Seq(Byte), NEW p, Searched(d, p)
  PROVE  /\ \A i \in 1..Len(d) : ~Lines!EndsAt(d, i)
         /\ Lines!IsPiece(d, p)
<1>1. /\ p \in Nat /\ Len(d) \in Nat /\ p <= Len(d) /\ p >= Len(d) - 1
      /\ \A i \in 1..p : ~BeginsAt(d, i)
  BY DEF Searched
<1>2. ASSUME NEW i \in 1..Len(d), Lines!EndsAt(d, i)
      PROVE  FALSE
  <2>1. i \in 1..p /\ BeginsAt(d, i)
    BY <1>1, <1>2 DEF Lines!EndsAt, BeginsAt
  <2> QED BY <1>1, <2>1
<1> QED BY <1>1, <1>2 DEF Lines!IsPiece

-----------------------------------------------------------------------------
(***************************************************************************)
(* The inductive invariant.                                                *)
(***************************************************************************)

(* The conjuncts of TypeOK that a read changes.                            *)
ReadType ==
  /\ BufOK(input)
  /\ pos \in 0..Len(Data(input))
  /\ \/ /\ op.kind = "reading" /\ op.room \in 1..MaxReadSize
        /\ op = Reading(op.room) /\ op.room <= input.epptr - Len(input.area)
     \/ /\ op.kind = "done" /\ op.ec \in Codes /\ op.bytes \in Seq(Byte)
        /\ op = Done(op.ec, op.bytes)
        /\ Len(op.bytes) <= input.epptr - Len(input.area)
        /\ op.bytes # <<>> => op.ec = "ok"
  /\ untried \in 0..MaxUntried

(* What a read in each state knows about the buffer: that it holds no line *)
(* when it waits for bytes, or has been given some; that it holds one, as  *)
(* long as the socket is open, when it has completed without bytes.        *)
ReadInv ==
  /\ op.kind = "reading" => sock = "open" /\ over = "no"
  /\ op.kind = "reading" \/ Arrived # <<>> => Searched(Data(input), pos)
  /\ op = Done("ok", <<>>) =>
       \/ Lines!IsLine(Data(input), pos)
       \/ sock # "open" /\ Lines!IsPiece(Data(input), pos)

IInv == TypeOK /\ ReadInv

(* A read asks for some bytes, and not for more than it may.               *)
LEMMA ReadSizeOK ==
  ASSUME NEW b, BufOK(b)
  PROVE  ReadSizeHelper(b) \in 1..MaxReadSize
<1>1. Size(b) \in Nat /\ b.epptr \in Nat
  BY DataType DEF BufOK, Streambuf
<1> QED BY <1>1, ReadAssumption DEF ReadSizeHelper, MinOf, MaxOf

(* Asking the socket for more bytes, the buffer having been searched.      *)
LEMMA ReadSomeOK ==
  ASSUME NEW b, BufOK(b), untried \in 0..MaxUntried, over = "no",
         ReadSome(b), Searched(Data(b), pos'),
         UNCHANGED <<sock, over>>
  PROVE  /\ ReadType' /\ ReadInv'
         /\ Data(input') = Data(b) /\ Arrived' = <<>>
<1> DEFINE n == ReadSizeHelper(b)
<1>1. n \in 1..MaxReadSize /\ n \in Nat
  BY ReadSizeOK, ReadAssumption
<1>2. input' = Reserve(b, n)
  BY DEF ReadSome
<1>3. /\ BufOK(input') /\ Data(input') = Data(b)
      /\ n <= input'.epptr - Len(input'.area)
  BY <1>1, <1>2, ReserveKeeps
<1>4. pos' \in 0..Len(Data(input')) /\ Searched(Data(input'), pos')
  BY <1>3 DEF Searched
<1>5. Data(input') \in Seq(Byte)
  BY <1>3, DataType
<1>6. Lines!IsPiece(Data(input'), pos')
  BY <1>4, <1>5, SearchedNoEnd
<1>7. MaxUntried \in Nat
  BY ReadAssumption
<1> HIDE DEF n
<1>8. CASE sock = "open" /\ op' = Reading(n) /\ UNCHANGED untried
  <2>1. op'.kind = "reading" /\ op'.room = n /\ op' = Reading(op'.room)
    BY <1>8 DEF Reading
  <2>2. Arrived' = <<>> /\ op' # Done("ok", <<>>)
    BY <1>8, <2>1 DEF Arrived, Reading, Done
  <2>3. ReadType'
    BY <1>1, <1>3, <1>4, <1>8, <2>1 DEF ReadType
  <2>4. ReadInv'
    BY <1>4, <1>8, <2>1, <2>2 DEF ReadInv
  <2> QED BY <1>3, <2>2, <2>3, <2>4
<1>9. CASE /\ sock # "open" /\ untried' \in 0..MaxUntried
           /\ \E e \in {"ok", "error"} : op' = Done(e, <<>>)
  <2>1. PICK e \in {"ok", "error"} : op' = Done(e, <<>>)
    BY <1>9
  <2>2. /\ op'.kind = "done" /\ op'.ec = e /\ op'.bytes = <<>>
        /\ op' = Done(op'.ec, op'.bytes)
    BY <2>1 DEF Done
  <2>3. Arrived' = <<>>
    BY <2>2 DEF Arrived
  <2>4. /\ <<>> \in Seq(Byte) /\ Len(<<>>) = 0
        /\ Len(<<>>) <= input'.epptr - Len(input'.area)
    BY <1>1, <1>3 DEF BufOK, Streambuf
  <2>5. ReadType'
    BY <1>3, <1>4, <1>9, <2>1, <2>2, <2>4 DEF ReadType, Codes
  <2>6. ReadInv'
    BY <1>6, <1>9, <2>2, <2>3 DEF ReadInv
  <2> QED BY <1>3, <2>3, <2>5, <2>6
<1> QED BY <1>7, <1>8, <1>9 DEF ReadSome, n

(* Asking it for no bytes, a line being in the buffer.                     *)
LEMMA ReadNothingOK ==
  ASSUME NEW b, BufOK(b), untried \in 0..MaxUntried,
         ReadNothing(b), Lines!IsLine(Data(b), pos'),
         UNCHANGED <<sock, over>>
  PROVE  /\ ReadType' /\ ReadInv'
         /\ Data(input') = Data(b) /\ Arrived' = <<>>
<1>1. PICK e \in {"ok", "error"} : op' = Done(e, <<>>)
  BY DEF ReadNothing
<1>2. /\ op'.kind = "done" /\ op'.ec = e /\ op'.bytes = <<>>
      /\ op' = Done(op'.ec, op'.bytes)
  BY <1>1 DEF Done
<1>3. input' = b /\ untried' = untried
  BY DEF ReadNothing
<1>4. pos' \in 0..Len(Data(b))
  BY DataType DEF Lines!IsLine
<1>5. /\ <<>> \in Seq(Byte) /\ Len(<<>>) = 0
      /\ Len(<<>>) <= input'.epptr - Len(input'.area)
  BY <1>3 DEF BufOK, Streambuf
<1>6. ReadType'
  BY <1>1, <1>2, <1>3, <1>4, <1>5 DEF ReadType, Codes
<1>7. Arrived' = <<>>
  BY <1>2 DEF Arrived
<1>8. ReadInv'
  BY <1>2, <1>3, <1>7 DEF ReadInv
<1> QED BY <1>3, <1>6, <1>7, <1>8

(* A read that begins.                                                     *)
LEMMA StartReadOK ==
  ASSUME NEW b, BufOK(b), untried \in 0..MaxUntried, over = "no",
         StartRead(b), UNCHANGED <<sock, over>>
  PROVE  /\ ReadType' /\ ReadInv'
         /\ Data(input') = Data(b) /\ Arrived' = <<>>
<1>1. /\ Data(b) \in Seq(Byte) /\ Size(b) = Len(Data(b)) /\ Size(b) \in Nat
      /\ 0 \in 0..Len(Data(b))
      /\ \A i \in 1..0 : ~BeginsAt(Data(b), i)
  BY DataType
<1>2. CASE \E n \in 0..Size(b) :
             Finds(Data(b), 0, n) /\ pos' = n /\ ReadNothing(b)
  <2>1. PICK n \in 0..Size(b) :
          Finds(Data(b), 0, n) /\ pos' = n /\ ReadNothing(b)
    BY <1>2
  <2>2. Lines!IsLine(Data(b), pos')
    BY <1>1, <2>1, FindsLine
  <2> QED BY <2>1, <2>2, ReadNothingOK
<1>3. CASE ReadMore(b, 0)
  <2>1. PICK n \in 0..Size(b) : FindsNone(Data(b), 0, n) /\ pos' = n
    BY <1>3 DEF ReadMore
  <2>2. Searched(Data(b), pos')
    BY <1>1, <2>1, FindsNoneSearched
  <2>3. ReadSome(b)
    BY <1>3 DEF ReadMore
  <2> QED BY <2>2, <2>3, ReadSomeOK
<1> QED BY <1>2, <1>3 DEF StartRead

-----------------------------------------------------------------------------
(***************************************************************************)
(* Every step keeps the invariant, and is a step of LineStream or none.    *)
(***************************************************************************)

Stream == Data(input) \o Arrived

Simulates == Lines!Next \/ UNCHANGED <<Stream, lines, sock # "open">>

(* on_read takes n bytes as a line.                                        *)
LEMMA TakeLineOK ==
  ASSUME NEW b, BufOK(b), NEW n \in 0..Size(b), untried \in 0..MaxUntried,
         over = "no", lines \in Seq(Seq(Byte)), TakeLine(b, n),
         UNCHANGED <<sock, over>>
  PROVE  /\ ReadType' /\ ReadInv' /\ lines' \in Seq(Seq(Byte))
         /\ lines' = Append(lines, SubSeq(Data(b), 1, n))
         /\ Stream' = SubSeq(Data(b), n + 1, Len(Data(b)))
<1>1. BufOK(Consume(b, n)) /\ StartRead(Consume(b, n))
  BY ConsumeDrops DEF TakeLine
<1>2. /\ ReadType' /\ ReadInv' /\ Arrived' = <<>>
      /\ Data(input') = Data(Consume(b, n))
  BY <1>1, StartReadOK
<1>3. Data(Consume(b, n)) = SubSeq(Data(b), n + 1, Len(Data(b)))
  BY ConsumeDrops
<1>4. Data(Consume(b, n)) \in Seq(Byte)
  BY <1>1, DataType
<1>5. Stream' = SubSeq(Data(b), n + 1, Len(Data(b)))
  BY <1>2, <1>3, <1>4, ConcatEmptySeq DEF Stream
<1>6. lines' = Append(lines, SubSeq(Data(b), 1, n))
  BY DEF TakeLine
<1>7. SubSeq(Data(b), 1, n) \in Seq(Byte)
  <2>1. Data(b) \in Seq(Byte) /\ n \in 0..Len(Data(b))
    BY DataType
  <2>2. \A i \in 1..n : Data(b)[i] \in Byte
    BY <2>1
  <2> QED BY <2>1, <2>2, SubSeqProperties
<1>8. lines' \in Seq(Seq(Byte))
  BY <1>6, <1>7, AppendProperties
<1> QED BY <1>2, <1>5, <1>6, <1>8

(* What the stream is, by the state of the operation.                      *)
LEMMA StreamType ==
  ASSUME IInv
  PROVE  /\ ReadType
         /\ Data(input) \in Seq(Byte) /\ Arrived \in Seq(Byte)
         /\ Stream \in Seq(Byte)
         /\ Arrived = <<>> => Stream = Data(input)
<1>1. ReadType
  BY DEF IInv, TypeOK, ReadType, BufOK
<1>2. Data(input) \in Seq(Byte)
  BY <1>1, DataType DEF ReadType
<1>3. Arrived \in Seq(Byte)
  BY <1>1 DEF ReadType, Arrived
<1>4. Stream \in Seq(Byte)
  BY <1>2, <1>3, ConcatProperties DEF Stream
<1>5. Arrived = <<>> => Stream = Data(input)
  BY <1>2, ConcatEmptySeq DEF Stream
<1> QED BY <1>1, <1>2, <1>3, <1>4, <1>5

(* A line of the stream that is taken is a step of LineStream.             *)
LEMMA DeliverStep ==
  ASSUME NEW n \in 0..Len(Stream), Len(Stream) \in Nat,
         Lines!IsLine(Stream, n) \/ (sock # "open" /\ Lines!IsPiece(Stream, n)),
         lines' = Append(lines, SubSeq(Stream, 1, n)),
         Stream' = SubSeq(Stream, n + 1, Len(Stream)),
         sock' = sock
  PROVE  Simulates
<1>1. Lines!Deliver
  BY DEF Lines!Deliver, Stream
<1> QED BY <1>1 DEF Simulates, Lines!Next

(* The bytes of a receive.                                                 *)
LEMMA CompleteBytesOK ==
  ASSUME IInv, CompleteBytes
  PROVE  IInv' /\ Simulates
<1>1. /\ ReadType /\ Data(input) \in Seq(Byte) /\ Stream \in Seq(Byte)
      /\ BufOK(input)
  BY StreamType DEF ReadType
<1>2. /\ op.kind = "done" /\ op.bytes # <<>> /\ over = "no"
      /\ UNCHANGED <<sock, over, got>>
  BY DEF CompleteBytes
<1>3. /\ op.bytes \in Seq(Byte)
      /\ Len(op.bytes) <= input.epptr - Len(input.area)
  BY <1>1, <1>2 DEF ReadType
<1> DEFINE b == Commit(input, op.bytes)
<1>4. Arrived = op.bytes
  BY <1>2 DEF Arrived
<1>5. BufOK(b) /\ Data(b) = Stream
  BY <1>1, <1>3, <1>4, CommitAppends DEF Stream
<1>6. \/ \E n \in 0..Size(b) : Finds(Data(b), pos, n) /\ TakeLine(b, n)
      \/ ReadMore(b, pos) /\ UNCHANGED lines
  BY DEF CompleteBytes
<1> HIDE DEF b
<1>7. /\ Size(b) = Len(Stream) /\ Size(b) \in Nat
  BY <1>5, DataType
<1>8. Searched(Data(input), pos)
  BY <1>2, <1>4 DEF IInv, ReadInv
<1>9. pos \in 0..Len(Stream) /\ \A i \in 1..pos : ~BeginsAt(Stream, i)
  <2>1. /\ Len(Stream) = Len(Data(input)) + Len(op.bytes)
        /\ Len(Data(input)) \in Nat /\ Len(op.bytes) \in Nat
    BY <1>1, <1>3, <1>4, ConcatProperties DEF Stream
  <2>2. /\ pos \in 0..Len(Data(input))
        /\ \A i \in 1..pos : ~BeginsAt(Data(input), i)
    BY <1>8 DEF Searched
  <2>3. ASSUME NEW i \in 1..pos, BeginsAt(Stream, i)
        PROVE  FALSE
    <3>1. i \in 1..Len(Data(input))
      BY <2>1, <2>2
    <3>2. BeginsAt(Data(input), i)
      BY <1>1, <1>3, <1>4, <2>3, <3>1, BeginsInConcat DEF Stream
    <3> QED BY <2>2, <3>2
  <2> QED BY <2>1, <2>2, <2>3
<1>10. /\ untried \in 0..MaxUntried /\ lines \in Seq(Seq(Byte))
       /\ sock \in {"open", "closing", "closed"} /\ got \in 0..MaxBytes
  BY DEF IInv, TypeOK
<1>11. CASE \E n \in 0..Size(b) : Finds(Data(b), pos, n) /\ TakeLine(b, n)
  <2>1. PICK n \in 0..Size(b) : Finds(Data(b), pos, n) /\ TakeLine(b, n)
    BY <1>11
  <2>2. Lines!IsLine(Stream, n)
    BY <1>1, <1>5, <1>9, <2>1, FindsLine
  <2>3. /\ ReadType' /\ ReadInv' /\ lines' \in Seq(Seq(Byte))
        /\ lines' = Append(lines, SubSeq(Stream, 1, n))
        /\ Stream' = SubSeq(Stream, n + 1, Len(Stream))
    BY <1>2, <1>5, <1>10, <2>1, TakeLineOK
  <2>4. Simulates
    BY <1>2, <1>7, <2>1, <2>2, <2>3, DeliverStep
  <2>5. TypeOK'
    BY <1>2, <1>10, <2>3 DEF TypeOK, ReadType, BufOK
  <2> QED BY <2>3, <2>4, <2>5 DEF IInv
<1>12. CASE ReadMore(b, pos) /\ UNCHANGED lines
  <2>1. PICK n \in 0..Size(b) : FindsNone(Data(b), pos, n) /\ pos' = n
    BY <1>12 DEF ReadMore
  <2>2. Searched(Data(b), pos')
    BY <1>1, <1>5, <1>7, <1>9, <2>1, FindsNoneSearched
  <2>3. /\ ReadType' /\ ReadInv'
        /\ Data(input') = Data(b) /\ Arrived' = <<>>
    BY <1>2, <1>5, <1>10, <1>12, <2>2, ReadSomeOK DEF ReadMore
  <2>4. Stream' = Stream
    BY <1>1, <1>5, <2>3, ConcatEmptySeq DEF Stream
  <2>5. TypeOK'
    BY <1>2, <1>10, <1>12, <2>3 DEF TypeOK, ReadType, BufOK
  <2>6. Simulates
    BY <1>2, <1>12, <2>4 DEF Simulates
  <2> QED BY <2>3, <2>5, <2>6 DEF IInv
<1> QED BY <1>6, <1>11, <1>12

(* A read that has completed without bytes, but goes on.                   *)
LEMMA CompleteEmptyOK ==
  ASSUME IInv, CompleteEmpty
  PROVE  IInv' /\ Simulates
<1>1. /\ ReadType /\ Stream \in Seq(Byte) /\ BufOK(input)
  BY StreamType DEF ReadType
<1>2. /\ op.kind = "done" /\ op.bytes = <<>> /\ over = "no"
      /\ UNCHANGED <<sock, over, got>>
  BY DEF CompleteEmpty
<1>3. Stream = Data(input)
  BY <1>2, StreamType DEF Arrived
<1>4. /\ untried \in 0..MaxUntried /\ lines \in Seq(Seq(Byte))
      /\ sock \in {"open", "closing", "closed"} /\ got \in 0..MaxBytes
  BY DEF IInv, TypeOK
<1>5. Size(input) = Len(Stream) /\ Size(input) \in Nat
  BY <1>1, <1>3, DataType
<1>6. PICK n \in 0..Size(input) :
        /\ TakeLine(input, n)
        /\ \/ Lines!IsLine(Stream, n)
           \/ sock # "open" /\ Lines!IsPiece(Stream, n)
  <2>1. CASE op.ec = "ok" /\ TakeLine(input, pos)
    <3>1. op = Done("ok", <<>>)
      BY <1>1, <1>2, <2>1 DEF ReadType
    <3>2. pos \in 0..Size(input)
      BY <1>1, <1>3, <1>5 DEF ReadType
    <3> QED BY <1>3, <2>1, <3>1, <3>2 DEF IInv, ReadInv
  <2>2. CASE op.ec = "aborted" /\ sock = "closing" /\ TakeLine(input, 0)
    <3>1. Lines!IsPiece(Stream, 0) /\ 0 \in 0..Size(input)
      BY <1>5 DEF Lines!IsPiece
    <3> QED BY <2>2, <3>1
  <2> QED BY <2>1, <2>2 DEF CompleteEmpty
<1>7. /\ ReadType' /\ ReadInv' /\ lines' \in Seq(Seq(Byte))
      /\ lines' = Append(lines, SubSeq(Stream, 1, n))
      /\ Stream' = SubSeq(Stream, n + 1, Len(Stream))
  BY <1>1, <1>2, <1>3, <1>4, <1>6, TakeLineOK
<1>8. Simulates
  BY <1>2, <1>5, <1>6, <1>7, DeliverStep
<1>9. TypeOK'
  BY <1>2, <1>4, <1>7 DEF TypeOK, ReadType, BufOK
<1> QED BY <1>7, <1>8, <1>9 DEF IInv

(* The last completion changes nothing but the end of the chain.           *)
LEMMA CompleteLastOK ==
  ASSUME IInv, CompleteLast
  PROVE  IInv' /\ Simulates
<1>1. /\ over' \in {"hangup", "error"} /\ op.kind = "done" /\ op.ec # "ok"
      /\ UNCHANGED <<input, pos, op, sock, lines, got, untried>>
  BY DEF CompleteLast
<1>2. UNCHANGED Arrived
  BY <1>1 DEF Arrived
<1>3. TypeOK'
  BY <1>1 DEF IInv, TypeOK
<1>4. ReadInv'
  BY <1>1, <1>2 DEF IInv, ReadInv
<1>5. Simulates
  BY <1>1, <1>2 DEF Simulates, Stream
<1> QED BY <1>3, <1>4, <1>5 DEF IInv

(* The peer ends the stream, or the connection is lost.                    *)
LEMMA EndOfStreamOK ==
  ASSUME IInv, EndOfStream
  PROVE  IInv' /\ Simulates
<1>1. PICK e \in {"eof", "error"} : op' = Done(e, <<>>)
  BY DEF EndOfStream
<1>2. /\ op'.kind = "done" /\ op'.ec = e /\ op'.bytes = <<>>
      /\ op' = Done(op'.ec, op'.bytes) /\ op' # Done("ok", <<>>)
  BY <1>1 DEF Done
<1>3. /\ op.kind = "reading"
      /\ UNCHANGED <<input, pos, sock, over, lines, got, untried>>
  BY DEF EndOfStream
<1>4. Arrived = <<>> /\ Arrived' = <<>>
  BY <1>2, <1>3 DEF Arrived
<1>5. TypeOK'
  <2>1. /\ <<>> \in Seq(Byte) /\ Len(<<>>) = 0
        /\ Len(<<>>) <= input.epptr - Len(input.area)
    BY DEF IInv, TypeOK, Streambuf
  <2> QED BY <1>1, <1>2, <1>3, <2>1 DEF IInv, TypeOK, Codes
<1>6. ReadInv'
  BY <1>2, <1>3, <1>4 DEF IInv, ReadInv
<1>7. Simulates
  BY <1>3, <1>4 DEF Simulates, Stream
<1> QED BY <1>5, <1>6, <1>7 DEF IInv

(* close() begins: the read that waits is aborted.                         *)
LEMMA DeregisterOK ==
  ASSUME IInv, Deregister
  PROVE  IInv' /\ Simulates
<1>1. /\ sock = "open" /\ sock' = "closing"
      /\ UNCHANGED <<input, pos, over, lines, got, untried>>
  BY DEF Deregister
<1>2. Arrived' = Arrived
  BY DEF Deregister, Arrived, Done
<1>3. Stream' = Stream
  BY <1>1, <1>2 DEF Stream
<1>4. Simulates
  BY <1>1, <1>3 DEF Simulates, Lines!Next, Lines!Close, Stream
<1>5. CASE op.kind = "reading"
  <2>1. op' = Done("aborted", <<>>)
    BY <1>5 DEF Deregister
  <2>2. /\ op'.kind = "done" /\ op'.ec = "aborted" /\ op'.bytes = <<>>
        /\ op' = Done(op'.ec, op'.bytes) /\ op' # Done("ok", <<>>)
    BY <2>1 DEF Done
  <2>3. /\ <<>> \in Seq(Byte) /\ Len(<<>>) = 0
        /\ Len(<<>>) <= input.epptr - Len(input.area)
    BY DEF IInv, TypeOK, Streambuf
  <2>4. TypeOK'
    BY <1>1, <2>2, <2>3 DEF IInv, TypeOK, Codes
  <2>5. ReadInv'
    BY <1>1, <1>2, <1>5, <2>2 DEF IInv, ReadInv, Arrived
  <2> QED BY <1>4, <2>4, <2>5 DEF IInv
<1>6. CASE op.kind # "reading"
  <2>1. op' = op
    BY <1>6 DEF Deregister
  <2>2. TypeOK'
    BY <1>1, <2>1 DEF IInv, TypeOK
  <2>3. ReadInv'
    BY <1>1, <1>2, <1>6, <2>1 DEF IInv, ReadInv
  <2> QED BY <1>4, <2>2, <2>3 DEF IInv
<1> QED BY <1>5, <1>6

(* close() ends.                                                           *)
LEMMA CloseOK ==
  ASSUME IInv, Close
  PROVE  IInv' /\ Simulates
<1>1. /\ sock = "closing" /\ sock' = "closed"
      /\ UNCHANGED <<input, pos, op, over, lines, got, untried>>
  BY DEF Close
<1>2. Arrived' = Arrived
  BY <1>1 DEF Arrived
<1>3. Simulates
  BY <1>1, <1>2 DEF Simulates, Stream
<1>4. TypeOK'
  BY <1>1 DEF IInv, TypeOK
<1>5. ReadInv'
  BY <1>1, <1>2 DEF IInv, ReadInv
<1> QED BY <1>3, <1>4, <1>5 DEF IInv

(* The socket receives bytes.                                              *)
LEMMA ReceiveBytesOK ==
  ASSUME IInv, NEW s \in Chunks, ReceiveBytes(s)
  PROVE  IInv' /\ Simulates
<1>1. s \in Seq(Byte) /\ s # <<>> /\ Len(s) \in Nat /\ Len(s) > 0
  <2>1. PICK n \in 1..MinOf(MaxBytes, MaxReadSize) : s \in [1..n -> Byte]
    BY DEF Chunks
  <2>2. n \in Nat /\ n > 0
    BY <2>1, ReadAssumption DEF MinOf
  <2>3. s \in Seq(Byte) /\ Len(s) = n
    BY <2>1, <2>2
  <2> QED BY <2>2, <2>3
<1>2. /\ op.kind = "reading" /\ Len(s) <= op.room /\ op' = Done("ok", s)
      /\ got + Len(s) <= MaxBytes /\ got' = got + Len(s)
      /\ UNCHANGED <<input, pos, sock, over, lines, untried>>
  BY DEF ReceiveBytes
<1>3. /\ op'.kind = "done" /\ op'.ec = "ok" /\ op'.bytes = s
      /\ op' = Done(op'.ec, op'.bytes) /\ op' # Done("ok", <<>>)
  BY <1>1, <1>2 DEF Done
<1>4. Arrived = <<>> /\ Arrived' = s
  BY <1>2, <1>3 DEF Arrived
<1>5. sock = "open" /\ Searched(Data(input), pos)
  BY <1>2 DEF IInv, ReadInv
<1>6. Data(input) \in Seq(Byte) /\ Stream = Data(input)
  BY <1>4, StreamType
<1>7. TypeOK'
  <2>1. Len(s) <= input.epptr - Len(input.area)
    <3>1. op.room <= input.epptr - Len(input.area) /\ op.room \in Nat
      BY <1>2 DEF IInv, TypeOK
    <3>2. input.epptr - Len(input.area) \in Int
      BY DEF IInv, TypeOK, Streambuf
    <3> QED BY <1>1, <1>2, <3>1, <3>2
  <2>2. got' \in 0..MaxBytes
    BY <1>1, <1>2, ReadAssumption DEF IInv, TypeOK
  <2> QED BY <1>1, <1>2, <1>3, <2>1, <2>2 DEF IInv, TypeOK, Codes
<1>8. ReadInv'
  BY <1>2, <1>3, <1>5 DEF ReadInv
<1>9. Simulates
  <2>1. Stream' = Stream \o s
    BY <1>2, <1>4, <1>6 DEF Stream
  <2>2. /\ Stream' \in Seq(Byte)
        /\ Len(Stream') = Len(Stream) + Len(s) /\ Len(Stream) \in Nat
        /\ \A i \in 1..Len(Stream) + Len(s) : Stream'[i] =
             IF i <= Len(Stream) THEN Stream[i] ELSE s[i - Len(Stream)]
    BY <1>1, <1>6, <2>1, ConcatProperties
  <2>3. SubSeq(Stream', 1, Len(Stream)) = Stream
    <3> DEFINE a == Stream
               c == a \o s
               p == SubSeq(c, 1, Len(a))
    <3>1. a \in Seq(Byte) /\ Len(a) \in Nat
      BY <1>6
    <3> HIDE DEF a
    <3>2. /\ c \in Seq(Byte) /\ Len(c) = Len(a) + Len(s)
          /\ \A i \in 1..Len(a) + Len(s) : c[i] =
               IF i <= Len(a) THEN a[i] ELSE s[i - Len(a)]
      BY <1>1, <3>1, ConcatProperties
    <3> HIDE DEF c
    <3>3. ASSUME NEW i \in 1..Len(a)
          PROVE  c[i] \in Byte /\ c[i] = a[i]
      <4>1. i \in 1..Len(a) + Len(s) /\ i <= Len(a)
        BY <1>1, <3>1
      <4>2. c[i] = a[i]
        BY <3>2, <4>1
      <4> QED BY <3>1, <4>2, ElementOfSeq
    <3>4. /\ p \in Seq(Byte)
          /\ Len(p) = IF 1 <= Len(a) THEN Len(a) - 1 + 1 ELSE 0
          /\ \A i \in 1..Len(a) - 1 + 1 : p[i] = c[1 + i - 1]
      BY <3>1, <3>3, SubSeqProperties
    <3> HIDE DEF p
    <3>5. Len(p) = Len(a)
      BY <3>1, <3>4
    <3>6. \A i \in 1..Len(a) : p[i] = a[i]
      BY <3>1, <3>3, <3>4
    <3>7. p = a
      BY <3>1, <3>4, <3>5, <3>6, SeqEqual
    <3> QED BY <2>1, <3>7 DEF a, c, p
  <2>4. Len(Stream') > Len(Stream)
    BY <1>1, <2>2
  <2>5. Lines!Receive
    BY <1>2, <1>5, <2>2, <2>3, <2>4 DEF Lines!Receive, Stream
  <2> QED BY <2>5 DEF Simulates, Lines!Next
<1> QED BY <1>7, <1>8, <1>9 DEF IInv

-----------------------------------------------------------------------------
(***************************************************************************)
(* The theorems.                                                           *)
(***************************************************************************)

(* The first read finds the buffer empty.                                  *)
LEMMA InitOK == Init => IInv /\ Lines!Init
<1> SUFFICES ASSUME Init PROVE IInv /\ Lines!Init
  OBVIOUS
<1> DEFINE b == [area |-> <<>>, gptr |-> 0, epptr |-> BufferDelta]
           n == ReadSizeHelper(b)
<1>1. BufOK(b) /\ Data(b) = <<>>
  <2>1. <<>> \in Seq(Byte) /\ Len(<<>>) = 0
    OBVIOUS
  <2>2. BufOK(b)
    BY <2>1, ReadAssumption DEF BufOK, Streambuf
  <2>3. Data(b) = <<>>
    <3>1. Data(b) = SubSeq(<<>>, 0 + 1, Len(<<>>))
      BY DEF Data
    <3>2. 0 + 1 \in Int /\ Len(<<>>) \in Int /\ Len(<<>>) < 0 + 1
      BY <2>1
    <3> QED BY <3>1, <3>2, SubSeqEmpty
  <2> QED BY <2>2, <2>3
<1>2. n \in 1..MaxReadSize /\ n \in Nat
  BY <1>1, ReadSizeOK, ReadAssumption
<1>3. /\ input = Reserve(b, n) /\ op = Reading(n)
      /\ pos = 0 /\ sock = "open" /\ over = "no" /\ lines = <<>>
      /\ got = 0 /\ untried = 0
  BY DEF Init
<1> HIDE DEF n, b
<1>4. /\ BufOK(input) /\ Data(input) = <<>>
      /\ n <= input.epptr - Len(input.area)
  BY <1>1, <1>2, <1>3, ReserveKeeps
<1>5. /\ op.kind = "reading" /\ op.room = n /\ op = Reading(op.room)
      /\ op # Done("ok", <<>>)
  BY <1>3 DEF Reading, Done
<1>6. Arrived = <<>>
  BY <1>5 DEF Arrived
<1>7. TypeOK
  BY <1>2, <1>3, <1>4, <1>5, ReadAssumption DEF TypeOK, BufOK
<1>8. ReadInv
  BY <1>3, <1>4, <1>5, <1>6 DEF ReadInv, Searched
<1>9. Lines!Init
  BY <1>3, <1>4, <1>6 DEF Lines!Init
<1> QED BY <1>7, <1>8, <1>9 DEF IInv

(* Every step keeps the invariant and maps to a step or a stutter.         *)
LEMMA NextOK == IInv /\ [Next]_vars => IInv' /\ Simulates
<1> SUFFICES ASSUME IInv, [Next]_vars PROVE IInv' /\ Simulates
  OBVIOUS
<1>1. CASE CompleteBytes
  BY <1>1, CompleteBytesOK
<1>2. CASE CompleteEmpty
  BY <1>2, CompleteEmptyOK
<1>3. CASE CompleteLast
  BY <1>3, CompleteLastOK
<1>4. CASE EndOfStream
  BY <1>4, EndOfStreamOK
<1>5. CASE Deregister
  BY <1>5, DeregisterOK
<1>6. CASE Close
  BY <1>6, CloseOK
<1>7. ASSUME NEW s \in Chunks, ReceiveBytes(s)
      PROVE  IInv' /\ Simulates
  BY <1>7, ReceiveBytesOK
<1>8. CASE UNCHANGED vars
  <2>1. UNCHANGED Arrived
    BY <1>8 DEF vars, Arrived
  <2>2. IInv'
    BY <1>8, <2>1 DEF vars, IInv, TypeOK, ReadInv
  <2>3. Simulates
    BY <1>8, <2>1 DEF vars, Simulates, Stream
  <2> QED BY <2>2, <2>3
<1> QED BY <1>1, <1>2, <1>3, <1>4, <1>5, <1>6, <1>7, <1>8 DEF Next

(* The invariant of the composed read: a read that waits has searched all  *)
(* that is buffered, one that has completed without bytes has a line.      *)
THEOREM Inductive == Spec => []IInv
<1>1. Init => IInv
  BY InitOK
<1>2. IInv /\ [Next]_vars => IInv'
  BY NextOK
<1> QED BY <1>1, <1>2, PTL DEF Spec

(* For every buffer size, read size and stream the buffer's offsets stay   *)
(* in order, a receive never exceeds the room that was made for it, and    *)
(* the search position stays within the buffer.                            *)
THEOREM TypeCorrect == Spec => []TypeOK
<1>1. IInv => TypeOK
  BY DEF IInv
<1> QED BY <1>1, Inductive, PTL

(* For every stream and every way to receive it, no line waits in          *)
(* session->input for bytes of the line after it.                          *)
THEOREM NoLineEverHeldBack == Spec => []NoLineHeldBack
<1>1. IInv => NoLineHeldBack
  <2> SUFFICES ASSUME IInv, op.kind = "reading"
               PROVE  /\ \A i \in 1..Size(input) : ~Lines!EndsAt(Data(input), i)
                      /\ \A i \in 1..pos : ~BeginsAt(Data(input), i)
    BY DEF NoLineHeldBack
  <2>1. /\ Data(input) \in Seq(Byte) /\ Len(Data(input)) = Size(input)
    BY StreamType, DataType DEF ReadType
  <2>2. Searched(Data(input), pos)
    BY DEF IInv, ReadInv
  <2> QED BY <2>1, <2>2, SearchedNoEnd DEF Searched
<1> QED BY <1>1, Inductive, PTL

(* async_read_until and on_read implement LineStream: what thread_parse is *)
(* given are the lines of the stream, each once, whole and in order, for   *)
(* every stream, every sequence of receives and every buffer size.         *)
THEOREM Implements == Spec => ImplementsLineStream
<1>1. Init => Lines!Init
  BY InitOK
<1>2. IInv /\ [Next]_vars =>
        [Lines!Next]_<<Data(input) \o Arrived, lines, sock # "open">>
  BY NextOK DEF Simulates, Stream
<1>3. Spec => Lines!Spec
  BY <1>1, <1>2, Inductive, PTL DEF Spec, Lines!Spec
<1> QED BY <1>3 DEF ImplementsLineStream
=============================================================================
