-------------------------- MODULE SequenceElements --------------------------
(***************************************************************************)
(* What a sequence holds: the set of its elements, and whether one of them *)
(* occurs twice, for the queues of the models.                             *)
(***************************************************************************)
EXTENDS SequenceTheorems, TLAPS

(* The elements of s.                                                      *)
Elems(s) == {s[i] : i \in 1..Len(s)}

(* No element occurs twice.                                                *)
Once(s) == \A i, j \in 1..Len(s) : s[i] = s[j] => i = j

LEMMA ElemsOfEmpty == Elems(<<>>) = {} /\ Once(<<>>)
BY DEF Elems, Once

LEMMA ElemsType ==
  ASSUME NEW S, NEW s \in Seq(S)
  PROVE  Elems(s) \subseteq S /\ (Elems(s) = {} <=> s = <<>>)
BY DEF Elems

LEMMA ElemsOfSingle ==
  ASSUME NEW e
  PROVE  Elems(<<e>>) = {e} /\ Once(<<e>>)
BY DEF Elems, Once

LEMMA ElemsOfAppend ==
  ASSUME NEW S, NEW s \in Seq(S), NEW e \in S
  PROVE  /\ Append(s, e) \in Seq(S)
         /\ Elems(Append(s, e)) = Elems(s) \cup {e}
         /\ Once(s) /\ e \notin Elems(s) => Once(Append(s, e))
<1> DEFINE a == Append(s, e)
<1>1. /\ Len(s) \in Nat /\ a \in Seq(S) /\ Len(a) = Len(s) + 1
      /\ \A i \in 1..Len(s) : a[i] = s[i]
      /\ a[Len(s) + 1] = e
  OBVIOUS
<1> HIDE DEF a
<1>2. Elems(a) \subseteq Elems(s) \cup {e}
  BY <1>1 DEF Elems
<1>3. ASSUME NEW x \in Elems(s) \cup {e}
      PROVE  x \in Elems(a)
  <2>1. CASE x = e
    BY <1>1, <2>1 DEF Elems
  <2>2. CASE x \in Elems(s)
    <3>1. PICK i \in 1..Len(s) : x = s[i]
      BY <2>2 DEF Elems
    <3>2. i \in 1..Len(a) /\ a[i] = x
      BY <1>1, <3>1
    <3> QED BY <3>2 DEF Elems
  <2> QED BY <1>3, <2>1, <2>2
<1>4. ASSUME Once(s), e \notin Elems(s)
      PROVE  Once(a)
  BY <1>1, <1>4 DEF Once, Elems
<1>5. Elems(a) = Elems(s) \cup {e}
  BY <1>2, <1>3
<1> QED BY <1>1, <1>4, <1>5 DEF a

LEMMA ElemsOfConcat ==
  ASSUME NEW S, NEW s \in Seq(S), NEW r \in Seq(S)
  PROVE  /\ s \o r \in Seq(S)
         /\ Elems(s \o r) = Elems(s) \cup Elems(r)
         /\ Once(s) /\ Once(r) /\ Elems(s) \cap Elems(r) = {} => Once(s \o r)
<1> DEFINE c == s \o r
<1>1. /\ Len(s) \in Nat /\ Len(r) \in Nat
      /\ c \in Seq(S) /\ Len(c) = Len(s) + Len(r)
      /\ \A i \in 1..Len(s) + Len(r) :
           c[i] = IF i <= Len(s) THEN s[i] ELSE r[i - Len(s)]
  BY ConcatProperties
<1> HIDE DEF c
<1>2. ASSUME NEW x \in Elems(c)
      PROVE  x \in Elems(s) \cup Elems(r)
  BY <1>1 DEF Elems
<1>3. ASSUME NEW x \in Elems(s)
      PROVE  x \in Elems(c)
  <2>1. PICK i \in 1..Len(s) : x = s[i]
    BY <1>3 DEF Elems
  <2>2. i \in 1..Len(c) /\ c[i] = x
    BY <1>1, <2>1
  <2> QED BY <2>2 DEF Elems
<1>4. ASSUME NEW x \in Elems(r)
      PROVE  x \in Elems(c)
  <2>1. PICK i \in 1..Len(r) : x = r[i]
    BY <1>4 DEF Elems
  <2>3. /\ Len(s) + i \in 1..Len(s) + Len(r) /\ ~(Len(s) + i <= Len(s))
        /\ Len(s) + i - Len(s) = i
    BY <1>1
  <2>2. Len(s) + i \in 1..Len(c) /\ c[Len(s) + i] = x
    BY <1>1, <2>1, <2>3
  <2> QED BY <2>2 DEF Elems
<1>5. ASSUME Once(s), Once(r), Elems(s) \cap Elems(r) = {}
      PROVE  Once(c)
  <2>1. \A i \in 1..Len(s), j \in 1..Len(r) : s[i] # r[j]
    BY <1>5 DEF Elems
  <2>2. SUFFICES ASSUME NEW i \in 1..Len(c), NEW j \in 1..Len(c), c[i] = c[j]
                 PROVE  i = j
    BY DEF Once
  <2>3. CASE i <= Len(s) /\ j <= Len(s)
    BY <1>1, <1>5, <2>2, <2>3 DEF Once
  <2>4. CASE i > Len(s) /\ j > Len(s)
    <3>1. i - Len(s) \in 1..Len(r) /\ j - Len(s) \in 1..Len(r)
      BY <1>1, <2>4
    <3>2. c[i] = r[i - Len(s)] /\ c[j] = r[j - Len(s)]
      BY <1>1, <2>4
    <3>3. i - Len(s) = j - Len(s)
      BY <1>5, <2>2, <3>1, <3>2 DEF Once
    <3> QED BY <1>1, <3>3
  <2>5. CASE i <= Len(s) /\ j > Len(s)
    <3>1. i \in 1..Len(s) /\ j - Len(s) \in 1..Len(r)
      BY <1>1, <2>5
    <3>2. c[i] = s[i] /\ c[j] = r[j - Len(s)]
      BY <1>1, <2>5
    <3> QED BY <2>1, <2>2, <3>1, <3>2
  <2>6. CASE i > Len(s) /\ j <= Len(s)
    <3>1. j \in 1..Len(s) /\ i - Len(s) \in 1..Len(r)
      BY <1>1, <2>6
    <3>2. c[j] = s[j] /\ c[i] = r[i - Len(s)]
      BY <1>1, <2>6
    <3> QED BY <2>1, <2>2, <3>1, <3>2
  <2> QED BY <1>1, <2>3, <2>4, <2>5, <2>6
<1>6. Elems(c) = Elems(s) \cup Elems(r)
  BY <1>2, <1>3, <1>4
<1> QED BY <1>1, <1>5, <1>6 DEF c

LEMMA ElemsOfTail ==
  ASSUME NEW S, NEW s \in Seq(S), s # <<>>
  PROVE  /\ Head(s) \in S /\ Tail(s) \in Seq(S)
         /\ Elems(s) = Elems(Tail(s)) \cup {Head(s)}
         /\ Once(s) => Once(Tail(s)) /\ Head(s) \notin Elems(Tail(s))
<1> DEFINE h == Head(s)
           r == Tail(s)
<1>1. /\ Len(s) \in Nat \ {0} /\ h \in S /\ r \in Seq(S) /\ h = s[1]
      /\ Len(r) = Len(s) - 1
      /\ \A i \in 1..Len(r) : r[i] = s[i + 1]
  BY HeadTailProperties
<1> HIDE DEF h, r
<1>2. ASSUME NEW x \in Elems(s)
      PROVE  x \in Elems(r) \cup {h}
  <2>1. PICK i \in 1..Len(s) : x = s[i]
    BY <1>2 DEF Elems
  <2>2. CASE i = 1
    BY <1>1, <2>1, <2>2
  <2>3. CASE i # 1
    <3>1. i - 1 \in 1..Len(r) /\ r[i - 1] = x
      BY <1>1, <2>1, <2>3
    <3> QED BY <3>1 DEF Elems
  <2> QED BY <2>2, <2>3
<1>3. ASSUME NEW x \in Elems(r) \cup {h}
      PROVE  x \in Elems(s)
  <2>1. CASE x = h
    BY <1>1, <2>1 DEF Elems
  <2>2. CASE x \in Elems(r)
    <3>1. PICK i \in 1..Len(r) : x = r[i]
      BY <2>2 DEF Elems
    <3>2. i + 1 \in 1..Len(s) /\ s[i + 1] = x
      BY <1>1, <3>1
    <3> QED BY <3>2 DEF Elems
  <2> QED BY <1>3, <2>1, <2>2
<1>4. ASSUME Once(s)
      PROVE  Once(r) /\ h \notin Elems(r)
  <2>1. ASSUME NEW i \in 1..Len(r), NEW j \in 1..Len(r), r[i] = r[j]
        PROVE  i = j
    <3>1. i + 1 \in 1..Len(s) /\ j + 1 \in 1..Len(s) /\ s[i + 1] = s[j + 1]
      BY <1>1, <2>1
    <3>2. i + 1 = j + 1
      BY <1>4, <3>1 DEF Once
    <3> QED BY <1>1, <3>2
  <2>2. ASSUME NEW i \in 1..Len(r), r[i] = h
        PROVE  FALSE
    <3>1. i + 1 \in 1..Len(s) /\ 1 \in 1..Len(s) /\ s[i + 1] = s[1]
      BY <1>1, <2>2
    <3>2. i + 1 = 1
      BY <1>4, <3>1 DEF Once
    <3> QED BY <1>1, <3>2
  <2> QED BY <2>1, <2>2 DEF Once, Elems
<1>5. Elems(s) = Elems(r) \cup {h}
  BY <1>2, <1>3
<1> QED BY <1>1, <1>4, <1>5 DEF h, r
=============================================================================
