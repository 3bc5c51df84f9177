------------------------- MODULE EpollReactorProofs -------------------------
(***************************************************************************)
(* Proofs about EpollReactor: its types, that no report of epoll is lost,  *)
(* and that completions are real.                                          *)
(***************************************************************************)
EXTENDS EpollReactor, SequenceElements, FiniteSetTheorems

-----------------------------------------------------------------------------
(***************************************************************************)
(* The inductive invariant.                                                *)
(***************************************************************************)

Entries == {Task, Resolved} \cup {Io(E) : E \in SUBSET Flags}
                            \cup {Done(o) : o \in Ops}

KernelType ==
  /\ conn \in Conns
  /\ data \in BOOLEAN /\ space \in BOOLEAN /\ pending \in BOOLEAN
  /\ met \in BOOLEAN

StateType ==
  /\ out \in BOOLEAN /\ shut \in BOOLEAN
  /\ reads \in {<<>>, <<"read">>}
  /\ writes = <<"connect">> \/ writes \in Seq(Writes)
  /\ open \in BOOLEAN /\ attached \in BOOLEAN

ActorType ==
  /\ pc \in [Actors -> PcValues] /\ arg \in [Actors -> Seq(Ops)]
  /\ ev \in [Threads -> SUBSET Flags]

SessionType ==
  /\ ec \in [Ops -> Codes]
  /\ phase \in {"resolving", "connecting", "reading", "over"}
  /\ tries \in 0..MaxEndpoints
  /\ raced \in BOOLEAN
  /\ fate \in {"run", "null", "torn"}

TypeInv ==
  KernelType /\ StateType /\ queue \in Seq(Entries) /\ ActorType /\ SessionType

(* No two elements of s are in C; one is.                                  *)
AtMostOne(s, C) == \A i, j \in 1..Len(s) : s[i] \in C /\ s[j] \in C => i = j
Has(s, C) == Elems(s) \cap C # {}

(* What an actor may have in hand where it is.                             *)
PcArg(a, l, s) ==
  /\ a = User => /\ l \in {"idle", "look", "lock", "close", "free", "closefd"}
                 /\ l \in {"look", "lock"} => Elems(s) \subseteq Writes
  /\ l \in {"look", "lock", "run"} => \E o \in Ops : s = <<o>>
  /\ l \notin {"look", "lock", "run", "free"} => s = <<>>
  /\ a # User /\ l = "free" => s = <<>>

PcInv == \A a \in Actors : PcArg(a, pc[a], arg[a])

(* The task is in the queue, or one thread has it.                         *)
Holding(t) == pc[t] \in {"task", "found"}

TaskInv ==
  /\ AtMostOne(queue, {Task})
  /\ \A t, u \in Threads : Holding(t) /\ Holding(u) => t = u
  /\ Has(queue, {Task}) <=> \A t \in Threads : ~Holding(t)

(* The operations there are in each phase of the session.                  *)
Allowed ==
  CASE phase = "resolving"  -> {}
    [] phase = "connecting" -> {"connect"}
    [] phase = "reading"    -> {"read"} \cup Writes
    [] phase = "over"       -> Writes

PhaseInv ==
  /\ \A o \in Ops : Done(o) \in Elems(queue) => o \in Allowed
  /\ \A a \in Actors : Elems(arg[a]) \subseteq Allowed
  /\ Elems(reads) \subseteq Allowed /\ Elems(writes) \subseteq Allowed
  /\ Resolved \in Elems(queue) => phase = "resolving"
  /\ \A t \in Threads : Reopens(t) => phase = "connecting"

(* The chain of handlers of the session, resolving, connecting and then    *)
(* reading, is at one place: in the queue, in the reactor, with a thread,  *)
(* or among the operations that disconnect aborts.                         *)
ChainOps == {"connect", "read"}
ChainEntries == {Resolved, Done("connect"), Done("read")}

Waits == reads # <<>> \/ writes = <<"connect">>

Reopening == {"close", "free", "closefd", "open", "dial"}

Driving(l, s) ==
  l \in Reopening \/ (l \in {"look", "lock", "run"} /\ Has(s, ChainOps))

Drives(t) == Driving(pc[t], arg[t])

InQueue == Has(queue, ChainEntries)
Aborts  == Has(arg[User], ChainOps)

OnceInv == AtMostOne(queue, ChainEntries) /\ AtMostOne(arg[User], ChainOps)

SiteInv ==
  /\ \A t, u \in Threads : Drives(t) /\ Drives(u) => t = u
  /\ ~(reads # <<>> /\ writes = <<"connect">>)
  /\ ~(InQueue /\ Waits) /\ ~(InQueue /\ Aborts) /\ ~(Waits /\ Aborts)
  /\ \A t \in Threads : Drives(t) => ~InQueue /\ ~Waits /\ ~Aborts

ChainInv == OnceInv /\ SiteInv

(* A descriptor_state that has been shut down has no operations.           *)
ShutInv ==
  /\ shut \/ ~attached => reads = <<>> /\ writes = <<>>
  /\ writes # <<>> => out
  /\ \A a \in Actors : /\ pc[a] = "free" => shut
                       /\ pc[a] = "closefd" => shut \/ ~attached
                       /\ pc[a] = "open" => ~attached
  /\ attached /\ shut => \E a \in Actors : pc[a] = "free"
  /\ pc[User] \in {"free", "closefd"} => \A t \in Threads : ~Reopens(t)
  /\ phase = "resolving" => ~open /\ pc[User] = "idle"

RaceInv ==
  /\ \A a \in Actors : pc[a] = "lock" /\ (shut \/ ~attached) => raced
  /\ \A o \in Ops : ec[o] = "empty" => raced
  /\ fate = "null" => raced

(* A connection that can be used has been accepted by the peer.            *)
Dialled(t) == pc[t] \in {"look", "lock"} /\ arg[t] = <<"connect">>

MetInv ==
  /\ conn \in {"up", "fin", "shut"} => met
  /\ writes = <<"connect">> \/ (\E t \in Threads : Dialled(t)) => conn # "fresh"
  /\ Completed("connect") /\ ec["connect"] = "ok" => met /\ conn # "connecting"
  /\ "connect" \in Elems(arg[User]) => ec["connect"] # "ok"

SessionInv == TypeInv /\ PcInv /\ TaskInv /\ PhaseInv /\ ChainInv

ReactorInv == SessionInv /\ ShutInv /\ RaceInv /\ MetInv /\ NoLostEdge

-----------------------------------------------------------------------------
(***************************************************************************)
(* Sequences and entries.                                                  *)
(***************************************************************************)

LEMMA NamesApart ==
  /\ "connect" \notin Writes /\ "read" \notin Writes /\ "connect" # "read"
  /\ Ops = ChainOps \cup Writes /\ User \notin Threads
  /\ Threads \subseteq Actors /\ User \in Actors
  /\ \A a \in Actors : a # User => a \in Threads
BY ReactorAssumption DEF Ops, ChainOps, Actors

LEMMA EntryFacts ==
  /\ Task \in Entries /\ Resolved \in Entries /\ Task # Resolved
  /\ Task.kind = "task" /\ Resolved.kind = "resolved"
  /\ \A E \in SUBSET Flags :
       /\ Io(E) \in Entries /\ Io(E).kind = "io" /\ Io(E).events = E
       /\ Io(E) # Task /\ Io(E) # Resolved /\ Io(E) \notin ChainEntries
       /\ \A o \in Ops : Io(E) # Done(o)
  /\ \A o \in Ops :
       /\ Done(o) \in Entries /\ Done(o).kind = "done" /\ Done(o).op = o
       /\ Done(o) # Task /\ Done(o) # Resolved
       /\ Done(o) \in ChainEntries <=> o \in ChainOps
  /\ \A o, p \in Ops : Done(o) = Done(p) => o = p
  /\ Task \notin ChainEntries /\ Resolved \in ChainEntries
<1>1. \A o, p : Done(o) = Done(p) => o = p
  <2>1. \A o : Done(o).op = o
    BY DEF Done
  <2> QED BY <2>1
<1>2. /\ Task.kind = "task" /\ Resolved.kind = "resolved"
      /\ \A E : Io(E).kind = "io" /\ Io(E).events = E
      /\ \A o : Done(o).kind = "done" /\ Done(o).op = o
  BY DEF Task, Resolved, Io, Done
<1>3. /\ Task \in Entries /\ Resolved \in Entries
      /\ \A E \in SUBSET Flags : Io(E) \in Entries
      /\ \A o \in Ops : Done(o) \in Entries
  BY DEF Entries
<1>4. \A o \in Ops : Done(o) \in ChainEntries <=> o \in ChainOps
  BY <1>1, <1>2 DEF ChainEntries, ChainOps
<1>5. \A E : Io(E) \notin ChainEntries
  BY <1>2 DEF ChainEntries
<1>6. Task \notin ChainEntries /\ Resolved \in ChainEntries
  BY <1>2 DEF ChainEntries
<1> QED BY <1>1, <1>2, <1>3, <1>4, <1>5, <1>6

LEMMA EntryKinds ==
  ASSUME NEW e \in Entries
  PROVE  /\ e.kind = "task" <=> e = Task
         /\ e.kind = "resolved" <=> e = Resolved
         /\ e.kind = "io" => \E E \in SUBSET Flags : e = Io(E) /\ e.events = E
         /\ e.kind = "done" => \E o \in Ops : e = Done(o) /\ e.op = o
         /\ e.kind \in {"task", "resolved", "io", "done"}
<1>1. CASE e = Task
  BY <1>1, EntryFacts
<1>2. CASE e = Resolved
  BY <1>2, EntryFacts
<1>3. ASSUME NEW E \in SUBSET Flags, e = Io(E)
      PROVE  e.kind = "io" /\ e.events = E /\ e # Task /\ e # Resolved
  BY <1>3, EntryFacts
<1>4. ASSUME NEW o \in Ops, e = Done(o)
      PROVE  e.kind = "done" /\ e.op = o /\ e # Task /\ e # Resolved
  BY <1>4, EntryFacts
<1>5. \/ e = Task \/ e = Resolved
      \/ \E E \in SUBSET Flags : e = Io(E)
      \/ \E o \in Ops : e = Done(o)
  BY DEF Entries
<1> QED BY <1>1, <1>2, <1>3, <1>4, <1>5

LEMMA HasNone ==
  ASSUME NEW s, NEW C, ~Has(s, C)
  PROVE  AtMostOne(s, C)
BY DEF Has, AtMostOne, Elems

LEMMA HasEmpty ==
  ASSUME NEW C
  PROVE  ~Has(<<>>, C) /\ AtMostOne(<<>>, C)
<1>1. ~Has(<<>>, C)
  BY ElemsOfEmpty DEF Has
<1> QED BY <1>1, HasNone

LEMMA HasSingle ==
  ASSUME NEW e, NEW C
  PROVE  (Has(<<e>>, C) <=> e \in C) /\ AtMostOne(<<e>>, C)
BY ElemsOfSingle DEF Has, AtMostOne

LEMMA HasConcat ==
  ASSUME NEW S, NEW s \in Seq(S), NEW r \in Seq(S), NEW C
  PROVE  /\ Has(s \o r, C) <=> Has(s, C) \/ Has(r, C)
         /\ AtMostOne(s, C) /\ AtMostOne(r, C) /\ ~(Has(s, C) /\ Has(r, C))
              => AtMostOne(s \o r, C)
<1>1. Has(s \o r, C) <=> Has(s, C) \/ Has(r, C)
  BY ElemsOfConcat DEF Has
<1> DEFINE c == s \o r
<1>2. /\ Len(s) \in Nat /\ Len(r) \in Nat /\ Len(c) = Len(s) + Len(r)
      /\ \A i \in 1..Len(s) + Len(r) :
           c[i] = IF i <= Len(s) THEN s[i] ELSE r[i - Len(s)]
  BY ConcatProperties
<1> HIDE DEF c
<1>3. ASSUME AtMostOne(s, C), AtMostOne(r, C), ~(Has(s, C) /\ Has(r, C)),
             NEW i \in 1..Len(c), NEW j \in 1..Len(c), c[i] \in C, c[j] \in C
      PROVE  i = j
  <2>1. \A k \in 1..Len(c) :
          /\ k <= Len(s) => k \in 1..Len(s) /\ c[k] = s[k]
          /\ k > Len(s) => k - Len(s) \in 1..Len(r) /\ c[k] = r[k - Len(s)]
    BY <1>2
  <2>2. CASE Has(s, C)
    <3>1. ~Has(r, C)
      BY <1>3, <2>2
    <3>2. i <= Len(s) /\ j <= Len(s)
      BY <1>2, <1>3, <2>1, <3>1 DEF Has, Elems
    <3> QED BY <1>3, <2>1, <3>2 DEF AtMostOne
  <2>3. CASE ~Has(s, C)
    <3>1. i > Len(s) /\ j > Len(s)
      BY <1>2, <1>3, <2>1, <2>3 DEF Has, Elems
    <3>2. i - Len(s) = j - Len(s)
      BY <1>3, <2>1, <3>1 DEF AtMostOne
    <3> QED BY <1>2, <3>2
  <2> QED BY <2>2, <2>3
<1>4. AtMostOne(s, C) /\ AtMostOne(r, C) /\ ~(Has(s, C) /\ Has(r, C))
        => AtMostOne(c, C)
  BY <1>3 DEF AtMostOne
<1> QED BY <1>1, <1>4 DEF c

LEMMA HasAppend ==
  ASSUME NEW S, NEW s \in Seq(S), NEW e \in S, NEW C
  PROVE  /\ Has(Append(s, e), C) <=> Has(s, C) \/ e \in C
         /\ AtMostOne(s, C) /\ ~(Has(s, C) /\ e \in C)
              => AtMostOne(Append(s, e), C)
<1> DEFINE r == <<e>>
<1>1. r \in Seq(S) /\ (Has(r, C) <=> e \in C) /\ AtMostOne(r, C)
  BY HasSingle
<1>2. Append(s, e) = s \o r
  BY AppendIsConcat
<1> HIDE DEF r
<1>3. /\ Has(s \o r, C) <=> Has(s, C) \/ e \in C
      /\ AtMostOne(s, C) /\ ~(Has(s, C) /\ e \in C) => AtMostOne(s \o r, C)
  BY <1>1, HasConcat
<1> QED BY <1>2, <1>3

LEMMA HasTail ==
  ASSUME NEW S, NEW s \in Seq(S), s # <<>>, NEW C
  PROVE  /\ Has(s, C) <=> Has(Tail(s), C) \/ Head(s) \in C
         /\ AtMostOne(s, C)
              => AtMostOne(Tail(s), C) /\ ~(Has(Tail(s), C) /\ Head(s) \in C)
<1> DEFINE a == Tail(s)
           h == Head(s)
<1>1. Has(s, C) <=> Has(a, C) \/ h \in C
  BY ElemsOfTail DEF Has
<1>2. /\ Len(s) \in Nat \ {0} /\ Len(a) = Len(s) - 1 /\ h = s[1]
      /\ \A i \in 1..Len(a) : a[i] = s[i + 1]
  BY HeadTailProperties, EmptySeq
<1> HIDE DEF a, h
<1>3. \A i \in 1..Len(a) : i + 1 \in 1..Len(s) /\ i + 1 # 1
  BY <1>2
<1>4. ASSUME AtMostOne(s, C)
      PROVE  AtMostOne(a, C) /\ ~(Has(a, C) /\ h \in C)
  <2>1. ASSUME NEW i \in 1..Len(a), NEW j \in 1..Len(a), a[i] \in C, a[j] \in C
        PROVE  i = j
    <3>1. i + 1 = j + 1
      BY <1>2, <1>3, <1>4, <2>1 DEF AtMostOne
    <3> QED BY <3>1
  <2>2. ASSUME NEW i \in 1..Len(a), a[i] \in C, h \in C
        PROVE  FALSE
    <3>1. 1 \in 1..Len(s) /\ s[1] \in C /\ s[i + 1] \in C
      BY <1>2, <2>2
    <3>2. i + 1 = 1
      BY <1>3, <1>4, <3>1 DEF AtMostOne
    <3> QED BY <1>3, <3>2
  <2> QED BY <2>1, <2>2 DEF AtMostOne, Has, Elems
<1> QED BY <1>1, <1>4 DEF a, h

(* The completions of the operations s.                                    *)
Posted(s) == [i \in 1..Len(s) |-> Done(s[i])]

LEMMA PostedFacts ==
  ASSUME NEW s \in Seq(Ops)
  PROVE  /\ Posted(s) \in Seq(Entries)
         /\ Elems(Posted(s)) = {Done(o) : o \in Elems(s)}
         /\ Has(Posted(s), ChainEntries) <=> Has(s, ChainOps)
         /\ AtMostOne(s, ChainOps) => AtMostOne(Posted(s), ChainEntries)
         /\ ~Has(Posted(s), {Task}) /\ AtMostOne(Posted(s), {Task})
         /\ Resolved \notin Elems(Posted(s))
<1> DEFINE p == Posted(s)
<1>1. Len(s) \in Nat /\ \A i \in 1..Len(s) : s[i] \in Ops
  OBVIOUS
<1>2. p \in Seq(Entries) /\ Len(p) = Len(s) /\ \A i \in 1..Len(s) : p[i] = Done(s[i])
  BY <1>1, EntryFacts DEF Posted
<1> HIDE DEF p
<1>3. Elems(p) = {Done(o) : o \in Elems(s)}
  BY <1>1, <1>2 DEF Elems
<1>4. Elems(s) \subseteq Ops
  BY ElemsType
<1>5. Has(p, ChainEntries) <=> Has(s, ChainOps)
  <2>1. \A o \in Elems(s) : Done(o) \in ChainEntries <=> o \in ChainOps
    BY <1>4, EntryFacts
  <2> QED BY <1>3, <2>1 DEF Has
<1>6. AtMostOne(s, ChainOps) => AtMostOne(p, ChainEntries)
  <2>1. \A i \in 1..Len(s) : p[i] \in ChainEntries <=> s[i] \in ChainOps
    BY <1>1, <1>2, EntryFacts
  <2> QED BY <1>2, <2>1 DEF AtMostOne
<1>7. ~Has(p, {Task}) /\ Resolved \notin Elems(p)
  BY <1>3, <1>4, EntryFacts DEF Has
<1> QED BY <1>2, <1>3, <1>5, <1>6, <1>7, HasNone DEF p

-----------------------------------------------------------------------------
(***************************************************************************)
(* What a step does to an actor.                                           *)
(***************************************************************************)

(* a goes to l with s in hand.                                             *)
Moves(a, l, s) ==
  /\ pc'[a] = l /\ arg'[a] = s
  /\ \A b \in Actors : b # a => pc'[b] = pc[b] /\ arg'[b] = arg[b]

LEMMA GoesBoth ==
  ASSUME TypeInv, NEW a \in Actors, NEW l, NEW s,
         Go(a, l), arg' = [arg EXCEPT ![a] = s]
  PROVE  /\ Moves(a, l, s)
         /\ l \in PcValues => pc' \in [Actors -> PcValues]
         /\ s \in Seq(Ops) => arg' \in [Actors -> Seq(Ops)]
BY DEF TypeInv, ActorType, Go, Moves

LEMMA GoesOn ==
  ASSUME TypeInv, NEW a \in Actors, NEW l, Go(a, l), arg' = arg
  PROVE  /\ Moves(a, l, arg[a])
         /\ l \in PcValues => pc' \in [Actors -> PcValues]
         /\ arg' \in [Actors -> Seq(Ops)]
BY DEF TypeInv, ActorType, Go, Moves

LEMMA StartedMoves ==
  ASSUME TypeInv, NEW a \in Actors, Started(a)
  PROVE  /\ Moves(a, "idle", <<>>) /\ pc' \in [Actors -> PcValues]
         /\ arg' \in [Actors -> Seq(Ops)]
<1> DEFINE l == "idle"
           s == <<>>
<1>1. l \in PcValues /\ s \in Seq(Ops)
  BY DEF PcValues
<1>2. Go(a, l) /\ arg' = [arg EXCEPT ![a] = s]
  BY DEF Started
<1> HIDE DEF l, s
<1>3. /\ Moves(a, l, s) /\ pc' \in [Actors -> PcValues]
      /\ arg' \in [Actors -> Seq(Ops)]
  BY <1>1, <1>2, GoesBoth
<1> QED BY <1>3 DEF l, s

LEMMA MovesHand ==
  ASSUME PcInv, NEW a \in Actors, NEW l, NEW s, Moves(a, l, s), PcArg(a, l, s)
  PROVE  PcInv'
BY DEF PcInv, Moves

LEMMA MovesSites ==
  ASSUME NEW a \in Actors, NEW l, NEW s, Moves(a, l, s)
  PROVE  /\ \A t \in Threads : t # a => (Drives(t)' <=> Drives(t))
         /\ a \in Threads => /\ Drives(a)' <=> Driving(l, s)
                             /\ Aborts' <=> Aborts
                             /\ arg'[User] = arg[User]
         /\ a = User => /\ Aborts' <=> Has(s, ChainOps)
                        /\ arg'[User] = s
<1>1. \A b \in Actors : b # a => pc'[b] = pc[b] /\ arg'[b] = arg[b]
  BY DEF Moves
<1>2. \A t \in Threads : t # a => (Drives(t)' <=> Drives(t))
  BY <1>1, NamesApart DEF Drives
<1>3. Drives(a)' <=> Driving(l, s)
  BY DEF Drives, Moves
<1>4. a \in Threads => arg'[User] = arg[User]
  BY <1>1, NamesApart
<1>5. a = User => arg'[User] = s
  BY DEF Moves
<1> QED BY <1>2, <1>3, <1>4, <1>5 DEF Aborts

LEMMA MovesHolding ==
  ASSUME NEW a \in Actors, NEW l, NEW s, Moves(a, l, s)
  PROVE  /\ \A t \in Threads : t # a => (Holding(t)' <=> Holding(t))
         /\ Holding(a)' <=> l \in {"task", "found"}
BY NamesApart DEF Moves, Holding

LEMMA MovesTask ==
  ASSUME TaskInv, NEW a \in Actors, NEW l, NEW s, Moves(a, l, s),
         a \in Threads => (l \in {"task", "found"} <=> Holding(a)),
         AtMostOne(queue', {Task}), Has(queue', {Task}) <=> Has(queue, {Task})
  PROVE  TaskInv'
<1>1. \A t \in Threads : Holding(t)' <=> Holding(t)
  BY MovesHolding
<1> QED BY <1>1 DEF TaskInv

LEMMA MovesPhase ==
  ASSUME PhaseInv, NEW a \in Actors, NEW l, NEW s, Moves(a, l, s),
         phase' = phase, Elems(s) \subseteq Allowed,
         a \in Threads /\ l \in Reopening => phase = "connecting",
         Elems(reads') \subseteq Allowed, Elems(writes') \subseteq Allowed,
         \A o \in Ops : Done(o) \in Elems(queue') => o \in Allowed,
         Resolved \in Elems(queue') => Resolved \in Elems(queue)
  PROVE  PhaseInv'
<1>1. Allowed' = Allowed
  BY DEF Allowed
<1>2. \A b \in Actors : Elems(arg'[b]) \subseteq Allowed
  BY DEF PhaseInv, Moves
<1>3. \A t \in Threads : Reopens(t)' => phase = "connecting"
  <2>1. SUFFICES ASSUME NEW t \in Threads, pc'[t] \in Reopening
                 PROVE  phase = "connecting"
    BY DEF Reopens, Reopening
  <2>2. CASE t = a
    BY <2>1, <2>2 DEF Moves
  <2>3. CASE t # a
    BY <2>1, <2>3, NamesApart DEF Moves, PhaseInv, Reopens, Reopening
  <2> QED BY <2>2, <2>3
<1> QED BY <1>1, <1>2, <1>3 DEF PhaseInv

(* What is in the queue when r has been added to it.                       *)
LEMMA Adds ==
  ASSUME queue \in Seq(Entries), NEW r \in Seq(Entries), queue' = queue \o r
  PROVE  /\ queue' \in Seq(Entries)
         /\ Elems(queue') = Elems(queue) \cup Elems(r)
         /\ \A C : /\ Has(queue', C) <=> Has(queue, C) \/ Has(r, C)
                   /\ AtMostOne(queue, C) /\ AtMostOne(r, C)
                        /\ ~(Has(queue, C) /\ Has(r, C))
                        => AtMostOne(queue', C)
BY ConcatProperties, ElemsOfConcat, HasConcat

(* What there is in each phase.                                            *)
LEMMA PhaseFacts ==
  ASSUME SessionInv
  PROVE  /\ Allowed \subseteq Ops
         /\ "connect" \in Allowed <=> phase = "connecting"
         /\ "read" \in Allowed <=> phase = "reading"
         /\ phase = "connecting"
              => /\ Allowed = {"connect"}
                 /\ reads = <<>> /\ writes \in {<<>>, <<"connect">>}
                 /\ pc[User] \notin {"look", "lock"}
         /\ phase # "connecting" => writes # <<"connect">> /\ writes \in Seq(Writes)
         /\ phase # "reading" => reads = <<>>
<1>1. /\ phase \in {"resolving", "connecting", "reading", "over"}
      /\ reads \in {<<>>, <<"read">>}
      /\ writes = <<"connect">> \/ writes \in Seq(Writes)
      /\ Elems(reads) \subseteq Allowed /\ Elems(writes) \subseteq Allowed
      /\ Elems(arg[User]) \subseteq Allowed
      /\ PcArg(User, pc[User], arg[User])
  BY NamesApart DEF SessionInv, TypeInv, SessionType, StateType, PhaseInv, PcInv
<1>2. /\ Allowed \subseteq Ops
      /\ "connect" \in Allowed <=> phase = "connecting"
      /\ "read" \in Allowed <=> phase = "reading"
      /\ phase = "connecting" => Allowed = {"connect"}
  BY <1>1, NamesApart DEF Allowed, ChainOps
<1>3. Elems(<<"read">>) = {"read"} /\ Elems(<<"connect">>) = {"connect"}
  BY ElemsOfSingle
<1>4. phase # "reading" => reads = <<>>
  BY <1>1, <1>2, <1>3
<1>5. phase # "connecting" => writes # <<"connect">>
  BY <1>1, <1>2, <1>3
<1>6. phase = "connecting" => writes \in {<<>>, <<"connect">>}
  <2>1. ASSUME phase = "connecting", writes \in Seq(Writes)
        PROVE  writes = <<>>
    BY <1>1, <1>2, <2>1, ElemsType, NamesApart
  <2> QED BY <1>1, <2>1
<1>7. phase = "connecting" => pc[User] \notin {"look", "lock"}
  <2>1. SUFFICES ASSUME phase = "connecting", pc[User] \in {"look", "lock"}
                 PROVE  FALSE
    OBVIOUS
  <2>2. PICK o \in Ops : arg[User] = <<o>> /\ Elems(arg[User]) \subseteq Writes
    BY <1>1, <2>1 DEF PcArg
  <2>3. Elems(arg[User]) = {o}
    BY <2>2, ElemsOfSingle
  <2> QED BY <1>1, <1>2, <2>1, <2>2, <2>3, NamesApart
<1> QED BY <1>1, <1>2, <1>4, <1>5, <1>6, <1>7

(* The operation that an actor has in hand.                                *)
LEMMA HandFacts ==
  ASSUME SessionInv, NEW a \in Actors, pc[a] \in {"look", "lock", "run"}
  PROVE  /\ arg[a] = <<arg[a][1]>> /\ arg[a][1] \in Allowed
         /\ Elems(arg[a]) = {arg[a][1]}
         /\ Has(arg[a], ChainOps) <=> arg[a][1] \in ChainOps
         /\ arg[a][1] \in ChainOps => a \in Threads /\ Drives(a)
<1>1. PICK o \in Ops : arg[a] = <<o>> /\ PcArg(a, pc[a], arg[a])
  BY DEF SessionInv, PcInv, PcArg
<1>2. arg[a][1] = o /\ Elems(arg[a]) = {o}
  BY <1>1, ElemsOfSingle
<1>3. Has(arg[a], ChainOps) <=> o \in ChainOps
  BY <1>1, HasSingle
<1>4. o \in Allowed
  BY <1>2 DEF SessionInv, PhaseInv
<1>5. ASSUME o \in ChainOps PROVE a \in Threads
  <2>1. SUFFICES ASSUME a = User PROVE FALSE
    BY NamesApart
  <2>2. o \in Writes
    BY <1>1, <1>2, <2>1 DEF PcArg
  <2> QED BY <1>5, <2>2, NamesApart DEF ChainOps
<1>6. o \in ChainOps => Drives(a)
  BY <1>3 DEF Drives, Driving
<1> QED BY <1>1, <1>2, <1>3, <1>4, <1>5, <1>6

-----------------------------------------------------------------------------
(***************************************************************************)
(* The chain of the session, step by step.                                 *)
(***************************************************************************)

Parts == PcInv /\ TaskInv /\ PhaseInv /\ ChainInv

(* An actor goes on, the queues as they are.                               *)
LEMMA Strolls ==
  ASSUME SessionInv, NEW a \in Actors, NEW l, NEW s,
         Moves(a, l, s), PcArg(a, l, s), Elems(s) \subseteq Allowed,
         UNCHANGED <<queue, reads, writes, phase>>,
         a \in Threads => /\ l \in {"task", "found"} <=> Holding(a)
                          /\ l \in Reopening => phase = "connecting"
                          /\ Driving(l, s) => Drives(a),
         a = User => s = arg[User] \/ ~Has(s, ChainOps)
  PROVE  Parts'
<1>1. PcInv /\ TaskInv /\ PhaseInv /\ OnceInv /\ SiteInv
  BY DEF SessionInv, ChainInv
<1>2. PcInv'
  BY <1>1, MovesHand
<1>3. TaskInv'
  <2>1. AtMostOne(queue', {Task}) /\ (Has(queue', {Task}) <=> Has(queue, {Task}))
    BY <1>1 DEF TaskInv
  <2> QED BY <1>1, <2>1, MovesTask
<1>4. PhaseInv'
  <2>1. /\ Elems(reads') \subseteq Allowed /\ Elems(writes') \subseteq Allowed
        /\ \A o \in Ops : Done(o) \in Elems(queue') => o \in Allowed
        /\ Resolved \in Elems(queue') => Resolved \in Elems(queue)
    BY <1>1 DEF PhaseInv
  <2> QED BY <1>1, <2>1, MovesPhase
<1>5. OnceInv'
  <2>1. AtMostOne(queue', ChainEntries)
    BY <1>1 DEF OnceInv
  <2>2. AtMostOne(arg'[User], ChainOps)
    <3>1. arg'[User] = arg[User] \/ ~Has(arg'[User], ChainOps)
      BY MovesSites, NamesApart
    <3> QED BY <1>1, <3>1, HasNone DEF OnceInv
  <2> QED BY <2>1, <2>2 DEF OnceInv
<1>6. SiteInv'
  <2>1. \A t \in Threads : Drives(t)' => Drives(t)
    BY MovesSites
  <2>2. Aborts' => Aborts
    BY MovesSites, NamesApart DEF Aborts
  <2>3. (InQueue' <=> InQueue) /\ (Waits' <=> Waits)
    BY DEF InQueue, Waits
  <2> QED BY <1>1, <2>1, <2>2, <2>3 DEF SiteInv
<1> QED BY <1>2, <1>3, <1>4, <1>5, <1>6 DEF Parts, ChainInv

(* An actor puts what it has in hand into the queue or the reactor, and is *)
(* done with it.                                                           *)
HandsOver(a, o) ==
  /\ Moves(a, "idle", <<>>)
  /\ o \in Allowed /\ phase' = phase
  /\ a \in Threads => ~Holding(a)
  /\ o \in ChainOps => a \in Threads /\ Drives(a)

LEMMA HandsOverFacts ==
  ASSUME SessionInv, NEW a \in Actors, NEW o, HandsOver(a, o)
  PROVE  /\ PcInv' /\ AtMostOne(arg'[User], ChainOps) /\ (Aborts' => Aborts)
         /\ \A t \in Threads : Drives(t)' => Drives(t) /\ t # a
<1> DEFINE s == <<>>
           l == "idle"
<1>1. Moves(a, l, s) /\ Elems(s) = {} /\ ~Has(s, ChainOps) /\ PcInv
  BY ElemsOfEmpty, HasEmpty DEF HandsOver, SessionInv
<1>2. PcArg(a, l, s) /\ ~Driving(l, s)
  BY <1>1 DEF PcArg, Driving, Reopening
<1> HIDE DEF l, s
<1>3. PcInv'
  BY <1>1, <1>2, MovesHand
<1>4. \A t \in Threads : Drives(t)' => Drives(t) /\ t # a
  BY <1>1, <1>2, MovesSites
<1>5. AtMostOne(arg[User], ChainOps)
  BY DEF SessionInv, ChainInv, OnceInv
<1>6. AtMostOne(arg'[User], ChainOps) /\ (Aborts' => Aborts)
  BY <1>1, <1>5, MovesSites, NamesApart, HasNone
<1> QED BY <1>3, <1>4, <1>6

LEMMA PostParts ==
  ASSUME SessionInv, NEW a \in Actors, NEW o, HandsOver(a, o),
         queue' = Append(queue, Done(o)), UNCHANGED <<reads, writes>>
  PROVE  Parts' /\ queue' \in Seq(Entries)
<1>1. PcInv /\ TaskInv /\ PhaseInv /\ OnceInv /\ SiteInv /\ queue \in Seq(Entries)
  BY DEF SessionInv, ChainInv, TypeInv
<1>2. o \in Ops /\ o \in Allowed /\ phase' = phase
  BY PhaseFacts DEF HandsOver
<1> DEFINE e == Done(o)
<1>3. /\ e \in Entries /\ e # Task /\ e # Resolved
      /\ e \in ChainEntries <=> o \in ChainOps
      /\ \A p \in Ops : e = Done(p) => p = o
  BY <1>2, EntryFacts
<1> HIDE DEF e
<1>4. /\ queue' \in Seq(Entries) /\ Elems(queue') = Elems(queue) \cup {e}
      /\ \A C : /\ Has(queue', C) <=> Has(queue, C) \/ e \in C
                /\ AtMostOne(queue, C) /\ ~(Has(queue, C) /\ e \in C)
                     => AtMostOne(queue', C)
  BY <1>1, <1>3, ElemsOfAppend, HasAppend DEF e
<1>5. /\ PcInv' /\ AtMostOne(arg'[User], ChainOps) /\ (Aborts' => Aborts)
      /\ \A t \in Threads : Drives(t)' => Drives(t) /\ t # a
      /\ Moves(a, "idle", <<>>) /\ (a \in Threads => ~Holding(a))
      /\ o \in ChainOps => a \in Threads /\ Drives(a)
  BY HandsOverFacts DEF HandsOver
<1>6. TaskInv'
  <2>1. AtMostOne(queue', {Task}) /\ (Has(queue', {Task}) <=> Has(queue, {Task}))
    BY <1>1, <1>3, <1>4 DEF TaskInv
  <2> QED BY <1>1, <1>5, <2>1, MovesTask
<1>7. PhaseInv'
  <2>1. /\ Elems(reads') \subseteq Allowed /\ Elems(writes') \subseteq Allowed
        /\ \A p \in Ops : Done(p) \in Elems(queue') => p \in Allowed
        /\ Resolved \in Elems(queue') => Resolved \in Elems(queue)
    BY <1>1, <1>2, <1>3, <1>4 DEF PhaseInv
  <2>2. Elems(<<>>) \subseteq Allowed /\ "idle" \notin Reopening
    BY ElemsOfEmpty DEF Reopening
  <2> QED BY <1>1, <1>2, <1>5, <2>1, <2>2, MovesPhase
<1>8. OnceInv'
  <2>1. e \in ChainEntries => ~Has(queue, ChainEntries)
    BY <1>1, <1>3, <1>5 DEF SiteInv, InQueue
  <2>2. AtMostOne(queue', ChainEntries)
    BY <1>1, <1>4, <2>1 DEF OnceInv
  <2> QED BY <1>5, <2>2 DEF OnceInv
<1>9. SiteInv'
  <2>1. /\ InQueue' <=> InQueue \/ o \in ChainOps
        /\ Waits' <=> Waits
    BY <1>3, <1>4 DEF InQueue, Waits
  <2> QED BY <1>1, <1>5, <2>1 DEF SiteInv
<1> QED BY <1>4, <1>5, <1>6, <1>7, <1>8, <1>9 DEF Parts, ChainInv

(* The operation joins its queue in the reactor.                           *)
LEMMA WaitParts ==
  ASSUME SessionInv, NEW a \in Actors, NEW o, HandsOver(a, o), queue' = queue,
         \/ o = "read" /\ reads' = Append(reads, o) /\ UNCHANGED writes
         \/ o # "read" /\ writes' = Append(writes, o) /\ UNCHANGED reads
  PROVE  /\ Parts' /\ reads' \in {<<>>, <<"read">>}
         /\ writes' = <<"connect">> \/ writes' \in Seq(Writes)
         /\ o = "read" => reads = <<>>
         /\ o = "connect" => writes = <<>>
         /\ o \in Writes => writes \in Seq(Writes)
<1>1. /\ PcInv /\ TaskInv /\ PhaseInv /\ OnceInv /\ SiteInv
      /\ reads \in {<<>>, <<"read">>}
      /\ writes = <<"connect">> \/ writes \in Seq(Writes)
  BY DEF SessionInv, ChainInv, TypeInv, StateType
<1>2. o \in Ops /\ o \in Allowed /\ phase' = phase
  BY PhaseFacts DEF HandsOver
<1>3. /\ PcInv' /\ AtMostOne(arg'[User], ChainOps) /\ (Aborts' => Aborts)
      /\ \A t \in Threads : Drives(t)' => Drives(t) /\ t # a
      /\ Moves(a, "idle", <<>>) /\ (a \in Threads => ~Holding(a))
      /\ o \in ChainOps => a \in Threads /\ Drives(a)
  BY HandsOverFacts DEF HandsOver
<1> DEFINE After ==
             /\ reads' \in {<<>>, <<"read">>}
             /\ writes' = <<"connect">> \/ writes' \in Seq(Writes)
             /\ o = "read" => reads = <<>>
             /\ o = "connect" => writes = <<>>
             /\ o \in Writes => writes \in Seq(Writes)
             /\ Elems(reads') \subseteq Allowed /\ Elems(writes') \subseteq Allowed
             /\ ~(reads' # <<>> /\ writes' = <<"connect">>)
             /\ Waits' => Waits \/ o \in ChainOps
<1>4. Elems(reads) \subseteq Allowed /\ Elems(writes) \subseteq Allowed
  BY <1>1 DEF PhaseInv
<1>5. ASSUME o = "read" PROVE After
  <2>1. reads = <<>>
    BY <1>1, <1>3, <1>5 DEF SiteInv, Waits, ChainOps
  <2>2. reads' = <<"read">> /\ writes' = writes
    BY <1>5, <2>1
  <2>3. writes # <<"connect">>
    BY <1>2, <1>5, PhaseFacts
  <2>4. Elems(reads') = {o}
    BY <1>5, <2>2, ElemsOfSingle
  <2>5. o \in ChainOps /\ o # "connect" /\ o \notin Writes
    BY <1>5, NamesApart DEF ChainOps
  <2> QED BY <1>1, <1>2, <1>4, <2>1, <2>2, <2>3, <2>4, <2>5
<1>6. ASSUME o = "connect" PROVE After
  <2>1. phase = "connecting" /\ reads = <<>> /\ writes = <<>>
    <3>1. phase = "connecting"
      BY <1>2, <1>6, PhaseFacts
    <3>2. reads = <<>> /\ writes \in {<<>>, <<"connect">>}
      BY <3>1, PhaseFacts
    <3> QED BY <1>1, <1>3, <1>6, <3>1, <3>2 DEF SiteInv, Waits, ChainOps
  <2>2. writes' = <<"connect">> /\ reads' = <<>>
    BY <1>6, <2>1, NamesApart
  <2>3. Elems(writes') = {o}
    BY <1>6, <2>2, ElemsOfSingle
  <2>4. o \in ChainOps /\ o # "read" /\ o \notin Writes
    BY <1>6, NamesApart DEF ChainOps
  <2> QED BY <1>2, <1>4, <2>1, <2>2, <2>3, <2>4
<1>7. ASSUME o \in Writes PROVE After
  <2>1. o # "read" /\ o # "connect"
    BY <1>7, NamesApart
  <2>2. writes \in Seq(Writes) /\ writes # <<"connect">>
    <3>1. Allowed # {"connect"}
      BY <1>2, <2>1
    <3> QED BY <3>1, PhaseFacts
  <2>3. writes' = Append(writes, o) /\ reads' = reads
    BY <2>1
  <2>4. writes' \in Seq(Writes) /\ Elems(writes') = Elems(writes) \cup {o}
    BY <1>7, <2>2, <2>3, ElemsOfAppend
  <2>5. writes' # <<"connect">>
    <3>1. Elems(writes') \subseteq Writes
      BY <2>4, ElemsType
    <3> QED BY <3>1, ElemsOfSingle, NamesApart
  <2>6. Waits' => Waits
    BY <2>3, <2>5 DEF Waits
  <2> QED BY <1>1, <1>2, <1>4, <2>1, <2>2, <2>3, <2>4, <2>5, <2>6
<1>8. After
  BY <1>2, <1>5, <1>6, <1>7, NamesApart DEF ChainOps
<1> HIDE DEF After
<1>9. TaskInv'
  <2>1. AtMostOne(queue', {Task}) /\ (Has(queue', {Task}) <=> Has(queue, {Task}))
    BY <1>1 DEF TaskInv
  <2> QED BY <1>1, <1>3, <2>1, MovesTask
<1>10. PhaseInv'
  <2>1. /\ Elems(reads') \subseteq Allowed /\ Elems(writes') \subseteq Allowed
    BY <1>8 DEF After
  <2>2. Elems(<<>>) \subseteq Allowed /\ "idle" \notin Reopening
    BY ElemsOfEmpty DEF Reopening
  <2>3. /\ \A p \in Ops : Done(p) \in Elems(queue') => p \in Allowed
        /\ Resolved \in Elems(queue') => Resolved \in Elems(queue)
    BY <1>1 DEF PhaseInv
  <2> QED BY <1>1, <1>2, <1>3, <2>1, <2>2, <2>3, MovesPhase
<1>11. OnceInv'
  BY <1>1, <1>3 DEF OnceInv
<1>12. SiteInv'
  <2>1. /\ (InQueue' <=> InQueue) /\ (Waits' => Waits \/ o \in ChainOps)
        /\ ~(reads' # <<>> /\ writes' = <<"connect">>)
    BY <1>8 DEF InQueue, After
  <2> QED BY <1>1, <1>3, <2>1 DEF SiteInv
<1> QED BY <1>3, <1>8, <1>9, <1>10, <1>11, <1>12 DEF Parts, ChainInv, After

-----------------------------------------------------------------------------
(***************************************************************************)
(* What a thread takes from the queue.                                     *)
(***************************************************************************)

LEMMA Takes ==
  ASSUME queue \in Seq(Entries), queue # <<>>, queue' = Tail(queue), NEW e,
         e = Head(queue)
  PROVE  /\ e \in Entries /\ e \in Elems(queue)
         /\ queue' \in Seq(Entries) /\ Elems(queue') \subseteq Elems(queue)
         /\ \A C : /\ Has(queue, C) <=> Has(queue', C) \/ e \in C
                   /\ AtMostOne(queue, C)
                        => AtMostOne(queue', C) /\ ~(Has(queue', C) /\ e \in C)
<1>1. /\ e \in Entries /\ queue' \in Seq(Entries)
      /\ Elems(queue) = Elems(queue') \cup {e}
  BY ElemsOfTail
<1>2. \A C : /\ Has(queue, C) <=> Has(queue', C) \/ e \in C
             /\ AtMostOne(queue, C)
                  => AtMostOne(queue', C) /\ ~(Has(queue', C) /\ e \in C)
  BY HasTail
<1> QED BY <1>1, <1>2

(* What every way of taking an entry needs.                                *)
LEMMA TakeKeeps ==
  ASSUME SessionInv, NEW t \in Threads, pc[t] = "idle", queue # <<>>,
         queue' = Tail(queue), NEW l, NEW s, Moves(t, l, s), PcArg(t, l, s),
         l \in {"task", "found"} <=> Head(queue) = Task,
         UNCHANGED <<reads, writes>>,
         Driving(l, s) <=> Head(queue) \in ChainEntries
  PROVE  /\ queue' \in Seq(Entries) /\ PcInv' /\ TaskInv' /\ ChainInv'
         /\ Head(queue) \in Elems(queue) /\ Head(queue) \in Entries
         /\ Elems(queue') \subseteq Elems(queue)
<1> DEFINE e == Head(queue)
<1>1. /\ PcInv /\ TaskInv /\ OnceInv /\ SiteInv /\ queue \in Seq(Entries)
  BY DEF SessionInv, ChainInv, TypeInv
<1>2. /\ l \in {"task", "found"} <=> e = Task
      /\ Driving(l, s) <=> e \in ChainEntries
      /\ e = Head(queue)
  OBVIOUS
<1> HIDE DEF e
<1>3. /\ e \in Entries /\ e \in Elems(queue)
      /\ queue' \in Seq(Entries) /\ Elems(queue') \subseteq Elems(queue)
      /\ \A C : /\ Has(queue, C) <=> Has(queue', C) \/ e \in C
                /\ AtMostOne(queue, C)
                     => AtMostOne(queue', C) /\ ~(Has(queue', C) /\ e \in C)
  BY <1>1, <1>2, Takes
<1>4. PcInv'
  BY <1>1, MovesHand, NamesApart
<1>5. TaskInv'
  <2>1. /\ \A u \in Threads : u # t => (Holding(u)' <=> Holding(u))
        /\ Holding(t)' <=> e = Task
        /\ ~Holding(t)
    BY <1>2, MovesHolding, NamesApart DEF Holding
  <2>2. /\ AtMostOne(queue', {Task})
        /\ Has(queue, {Task}) <=> Has(queue', {Task}) \/ e = Task
        /\ ~(Has(queue', {Task}) /\ e = Task)
    BY <1>1, <1>3 DEF TaskInv
  <2> QED BY <1>1, <2>1, <2>2 DEF TaskInv
<1>6. /\ \A u \in Threads : u # t => (Drives(u)' <=> Drives(u))
      /\ Drives(t)' <=> e \in ChainEntries
      /\ Aborts' <=> Aborts
      /\ arg'[User] = arg[User]
  BY <1>2, MovesSites, NamesApart
<1>7. OnceInv'
  BY <1>1, <1>3, <1>6 DEF OnceInv
<1>8. SiteInv'
  <2>1. /\ InQueue <=> InQueue' \/ e \in ChainEntries
        /\ ~(InQueue' /\ e \in ChainEntries)
        /\ Waits' <=> Waits
    BY <1>1, <1>3 DEF InQueue, OnceInv, Waits
  <2> QED BY <1>1, <1>6, <2>1 DEF SiteInv
<1> QED BY <1>2, <1>3, <1>4, <1>5, <1>7, <1>8 DEF ChainInv

LEMMA IdleHand ==
  ASSUME SessionInv, NEW a \in Actors,
         pc[a] \notin {"look", "lock", "run", "free"}
  PROVE  arg[a] = <<>>
BY DEF SessionInv, PcInv, PcArg

LEMMA TakeSession ==
  ASSUME SessionInv, NEW t \in Threads, Take(t)
  PROVE  TypeInv' /\ Parts'
<1> DEFINE e == Head(queue)
<1>1. /\ TypeInv /\ PhaseInv /\ pc[t] = "idle" /\ queue # <<>>
      /\ queue' = Tail(queue) /\ UNCHANGED <<kernel, state, impl, ec, raced, fate>>
      /\ t \in Actors /\ t # User /\ queue \in Seq(Entries)
  BY NamesApart DEF SessionInv, TypeInv, Take, Runs
<1>2. arg[t] = <<>> /\ ~Has(<<>>, ChainOps) /\ Elems(<<>>) = {}
  BY <1>1, IdleHand, HasEmpty, ElemsOfEmpty
<1>3. UNCHANGED <<reads, writes, out, shut, open, attached>>
  BY <1>1 DEF state, impl
<1>4. e \in Entries /\ e \in Elems(queue)
  BY <1>1, Takes
<1>5. KernelType' /\ StateType'
  BY <1>1, <1>3 DEF TypeInv, KernelType, StateType, kernel
<1> HIDE DEF e
<1>6. CASE e = Task
  <2> DEFINE l == "task"
             s == <<>>
  <2>1. e.kind = "task" /\ e \notin ChainEntries
    BY <1>6, EntryFacts
  <2>2. Go(t, l) /\ UNCHANGED <<arg, ev, phase, tries>>
    BY <1>1, <1>6, <2>1, EntryFacts DEF Take, chain, e
  <2>3. Moves(t, l, s) /\ ActorType'
    BY <1>1, <1>2, <2>2, GoesOn DEF TypeInv, ActorType, PcValues
  <2>4. PcArg(t, l, s) /\ ~Driving(l, s)
    BY <1>1, <1>2 DEF PcArg, Driving, Reopening
  <2>5. l \in {"task", "found"} /\ l \notin Reopening /\ Elems(s) \subseteq Allowed
    BY <1>2 DEF Reopening
  <2> HIDE DEF l, s
  <2>6. /\ queue' \in Seq(Entries) /\ PcInv' /\ TaskInv' /\ ChainInv'
        /\ Elems(queue') \subseteq Elems(queue)
    BY <1>1, <1>3, <1>6, <2>1, <2>3, <2>4, <2>5, TakeKeeps DEF e
  <2>7. PhaseInv'
    BY <1>1, <1>3, <2>2, <2>3, <2>5, <2>6, MovesPhase DEF PhaseInv
  <2>8. SessionType'
    BY <1>1, <2>2 DEF TypeInv, SessionType
  <2> QED BY <1>5, <2>3, <2>6, <2>7, <2>8 DEF TypeInv, Parts
<1>7. CASE e.kind = "io"
  <2> DEFINE l == "io"
             s == <<>>
  <2>1. e # Task /\ e \notin ChainEntries /\ e # Resolved /\ e.events \subseteq Flags
    BY <1>4, <1>7, EntryKinds, EntryFacts
  <2>2. /\ Go(t, l) /\ UNCHANGED <<arg, phase, tries>>
        /\ ev' = [ev EXCEPT ![t] = e.events]
    BY <1>1, <1>7, <2>1 DEF Take, chain, e
  <2>3. Moves(t, l, s) /\ ActorType'
    BY <1>1, <1>2, <2>1, <2>2, GoesOn DEF TypeInv, ActorType, PcValues
  <2>4. PcArg(t, l, s) /\ ~Driving(l, s)
    BY <1>1, <1>2 DEF PcArg, Driving, Reopening
  <2>5. l \notin {"task", "found"} /\ l \notin Reopening /\ Elems(s) \subseteq Allowed
    BY <1>2 DEF Reopening
  <2> HIDE DEF l, s
  <2>6. /\ queue' \in Seq(Entries) /\ PcInv' /\ TaskInv' /\ ChainInv'
        /\ Elems(queue') \subseteq Elems(queue)
    BY <1>1, <1>3, <2>1, <2>3, <2>4, <2>5, TakeKeeps DEF e
  <2>7. PhaseInv'
    BY <1>1, <1>3, <2>2, <2>3, <2>5, <2>6, MovesPhase DEF PhaseInv
  <2>8. SessionType'
    BY <1>1, <2>2 DEF TypeInv, SessionType
  <2> QED BY <1>5, <2>3, <2>6, <2>7, <2>8 DEF TypeInv, Parts
<1>8. CASE e.kind = "done"
  <2>1. PICK o \in Ops : e = Done(o) /\ e.op = o
    BY <1>4, <1>8, EntryKinds
  <2> DEFINE l == "run"
             s == <<o>>
  <2>2. e # Task /\ (e \in ChainEntries <=> o \in ChainOps) /\ e # Resolved
    BY <2>1, EntryFacts
  <2>3. /\ Go(t, l) /\ UNCHANGED <<ev, phase, tries>>
        /\ arg' = [arg EXCEPT ![t] = s]
    BY <1>1, <1>8, <2>1, <2>2 DEF Take, chain, e
  <2>4. Moves(t, l, s) /\ ActorType'
    <3>1. s \in Seq(Ops) /\ l \in PcValues
      BY DEF PcValues
    <3> HIDE DEF l, s
    <3>2. /\ Moves(t, l, s) /\ pc' \in [Actors -> PcValues]
          /\ arg' \in [Actors -> Seq(Ops)]
      BY <1>1, <2>3, <3>1, GoesBoth
    <3> QED BY <1>1, <2>3, <3>2 DEF TypeInv, ActorType
  <2>5. PcArg(t, l, s) /\ (Driving(l, s) <=> o \in ChainOps)
    BY <1>1, HasSingle DEF PcArg, Driving, Reopening
  <2>6. l \notin {"task", "found"} /\ l \notin Reopening /\ Elems(s) \subseteq Allowed
    BY <1>1, <1>4, <2>1, ElemsOfSingle DEF Reopening, PhaseInv
  <2> HIDE DEF l, s
  <2>7. /\ queue' \in Seq(Entries) /\ PcInv' /\ TaskInv' /\ ChainInv'
        /\ Elems(queue') \subseteq Elems(queue)
    BY <1>1, <1>3, <2>2, <2>4, <2>5, <2>6, TakeKeeps DEF e
  <2>8. PhaseInv'
    BY <1>1, <1>3, <2>3, <2>4, <2>6, <2>7, MovesPhase DEF PhaseInv
  <2>9. SessionType'
    BY <1>1, <2>3 DEF TypeInv, SessionType
  <2> QED BY <1>5, <2>4, <2>7, <2>8, <2>9 DEF TypeInv, Parts
<1>9. CASE e = Resolved
  <2> DEFINE l == "close"
             s == <<>>
  <2>1. e # Task /\ e \in ChainEntries /\ e.kind = "resolved"
    BY <1>9, EntryFacts
  <2>2. /\ Go(t, l) /\ UNCHANGED <<arg, ev>>
        /\ phase' = "connecting" /\ tries' \in 1..MaxEndpoints
    BY <1>1, <1>9, <2>1 DEF Take, chain, e
  <2>3. Moves(t, l, s) /\ ActorType'
    BY <1>1, <1>2, <2>2, GoesOn DEF TypeInv, ActorType, PcValues
  <2>4. PcArg(t, l, s) /\ Driving(l, s)
    BY <1>1, <1>2 DEF PcArg, Driving, Reopening
  <2>5. l \notin {"task", "found"}
    OBVIOUS
  <2>6. phase = "resolving" /\ Allowed = {} /\ Allowed' = {"connect"}
    BY <1>1, <1>4, <1>9, <2>2 DEF PhaseInv, Allowed
  <2> HIDE DEF l, s
  <2>7. /\ queue' \in Seq(Entries) /\ PcInv' /\ TaskInv' /\ ChainInv'
        /\ Elems(queue') \subseteq Elems(queue)
    BY <1>1, <1>3, <2>1, <2>3, <2>4, <2>5, TakeKeeps DEF e
  <2>8. Resolved \notin Elems(queue')
    <3>1. AtMostOne(queue, ChainEntries)
      BY DEF SessionInv, ChainInv, OnceInv
    <3>2. ~(Has(queue', ChainEntries) /\ e \in ChainEntries)
      BY <1>1, <3>1, Takes DEF e
    <3> QED BY <2>1, <3>2, EntryFacts DEF Has
  <2>9. PhaseInv'
    <3>1. \A b \in Actors : Elems(arg'[b]) \subseteq Allowed'
      BY <1>1, <2>2, <2>6 DEF PhaseInv
    <3>2. Elems(reads') \subseteq Allowed' /\ Elems(writes') \subseteq Allowed'
      BY <1>1, <1>3, <2>6 DEF PhaseInv
    <3>3. \A o \in Ops : Done(o) \in Elems(queue') => o \in Allowed'
      BY <1>1, <2>6, <2>7 DEF PhaseInv
    <3> QED BY <2>2, <2>8, <3>1, <3>2, <3>3 DEF PhaseInv
  <2>10. SessionType'
    <3>1. tries' \in 0..MaxEndpoints
      BY <2>2, ReactorAssumption
    <3> QED BY <1>1, <2>2, <3>1 DEF TypeInv, SessionType
  <2> QED BY <1>5, <2>3, <2>7, <2>9, <2>10 DEF TypeInv, Parts
<1> QED BY <1>4, <1>6, <1>7, <1>8, <1>9, EntryKinds

LEMMA QueueFoundSession ==
  ASSUME SessionInv, NEW t \in Threads, QueueFound(t)
  PROVE  TypeInv' /\ Parts'
<1> DEFINE l == "idle"
           s == <<>>
           r == (IF ev[t] = {} THEN <<>> ELSE <<Io(ev[t])>>) \o <<Task>>
<1>1. /\ TypeInv /\ PcInv /\ TaskInv /\ PhaseInv /\ OnceInv /\ SiteInv
      /\ pc[t] = "found" /\ Go(t, l) /\ ev' = [ev EXCEPT ![t] = {}]
      /\ UNCHANGED <<kernel, state, impl, arg, ec, chain, raced, fate>>
      /\ t \in Actors /\ t # User /\ queue \in Seq(Entries)
  BY NamesApart DEF SessionInv, ChainInv, TypeInv, QueueFound, Runs
<1>2. arg[t] = s /\ ~Has(s, ChainOps) /\ Elems(s) = {} /\ PcArg(t, l, s)
      /\ ~Driving(l, s) /\ l \notin Reopening
  BY <1>1, IdleHand, HasEmpty, ElemsOfEmpty DEF PcArg, Driving, Reopening
<1>3. UNCHANGED <<reads, writes, out, shut, open, attached, phase, tries>>
  BY <1>1 DEF state, impl, chain
<1>4. /\ r \in Seq(Entries) /\ Has(r, {Task}) /\ AtMostOne(r, {Task})
      /\ ~Has(r, ChainEntries) /\ Resolved \notin Elems(r)
      /\ \A o \in Ops : Done(o) \notin Elems(r)
  <2>1. ev[t] \subseteq Flags
    BY <1>1 DEF TypeInv, ActorType
  <2> DEFINE i == IF ev[t] = {} THEN <<>> ELSE <<Io(ev[t])>>
             k == <<Task>>
  <2>2. /\ i \in Seq(Entries) /\ ~Has(i, {Task}) /\ ~Has(i, ChainEntries)
        /\ Elems(i) \subseteq {Io(ev[t])}
    BY <2>1, EntryFacts, HasSingle, HasEmpty, ElemsOfSingle, ElemsOfEmpty
  <2>3. /\ k \in Seq(Entries) /\ Has(k, {Task}) /\ AtMostOne(k, {Task})
        /\ ~Has(k, ChainEntries) /\ Elems(k) = {Task}
    BY EntryFacts, HasSingle, ElemsOfSingle
  <2>4. r = i \o k
    OBVIOUS
  <2> HIDE DEF i, k, r
  <2>5. r \in Seq(Entries) /\ Elems(r) = Elems(i) \cup Elems(k)
    BY <2>2, <2>3, <2>4, ElemsOfConcat
  <2>6. Has(r, {Task}) /\ AtMostOne(r, {Task})
    BY <2>2, <2>3, <2>4, HasConcat, HasNone
  <2>7. ~Has(r, ChainEntries)
    BY <2>2, <2>3, <2>4, HasConcat
  <2> QED BY <2>1, <2>2, <2>3, <2>5, <2>6, <2>7, EntryFacts
<1>5. queue' = queue \o r
  <2> DEFINE i == IF ev[t] = {} THEN <<>> ELSE <<Io(ev[t])>>
             k == <<Task>>
  <2>1. queue' = queue \o i \o k
    BY DEF QueueFound
  <2>2. i \in Seq(Entries) /\ k \in Seq(Entries)
    <3>1. ev[t] \subseteq Flags
      BY <1>1 DEF TypeInv, ActorType
    <3> QED BY <3>1, EntryFacts
  <2> HIDE DEF i, k
  <2>3. (queue \o i) \o k = queue \o (i \o k)
    BY <1>1, <2>2, ConcatAssociative
  <2> QED BY <2>1, <2>3 DEF i, k
<1> HIDE DEF r
<1>6. /\ queue' \in Seq(Entries) /\ Elems(queue') = Elems(queue) \cup Elems(r)
      /\ \A C : /\ Has(queue', C) <=> Has(queue, C) \/ Has(r, C)
                /\ AtMostOne(queue, C) /\ AtMostOne(r, C)
                     /\ ~(Has(queue, C) /\ Has(r, C))
                     => AtMostOne(queue', C)
  BY <1>1, <1>4, <1>5, Adds
<1>7. Moves(t, l, s) /\ ActorType'
  BY <1>1, <1>2, GoesOn DEF TypeInv, ActorType, PcValues
<1> HIDE DEF l, s
<1>8. PcInv'
  BY <1>1, <1>2, <1>7, MovesHand
<1>9. TaskInv'
  <2>1. Holding(t) /\ ~Has(queue, {Task})
    BY <1>1 DEF Holding, TaskInv
  <2>2. AtMostOne(queue', {Task}) /\ Has(queue', {Task})
    BY <1>1, <1>4, <1>6, <2>1 DEF TaskInv
  <2>3. /\ \A u \in Threads : u # t => (Holding(u)' <=> Holding(u))
        /\ ~Holding(t)'
    BY <1>1, <1>7, MovesHolding DEF l
  <2> QED BY <1>1, <2>1, <2>2, <2>3 DEF TaskInv
<1>10. PhaseInv'
  BY <1>1, <1>2, <1>3, <1>4, <1>6, <1>7, MovesPhase DEF PhaseInv
<1>11. /\ \A u \in Threads : Drives(u)' => Drives(u)
       /\ Aborts' <=> Aborts
       /\ arg'[User] = arg[User]
  BY <1>1, <1>2, <1>7, MovesSites
<1>12. OnceInv'
  BY <1>1, <1>4, <1>6, <1>11, HasNone DEF OnceInv
<1>13. SiteInv'
  <2>1. (InQueue' <=> InQueue) /\ (Waits' <=> Waits)
    BY <1>3, <1>4, <1>6 DEF InQueue, Waits
  <2> QED BY <1>1, <1>3, <1>11, <2>1 DEF SiteInv
<1>14. KernelType' /\ StateType' /\ SessionType'
  BY <1>1, <1>3 DEF TypeInv, KernelType, StateType, SessionType, kernel
<1> QED BY <1>6, <1>7, <1>8, <1>9, <1>10, <1>12, <1>13, <1>14
        DEF TypeInv, Parts, ChainInv

-----------------------------------------------------------------------------
(***************************************************************************)
(* Steps in which an actor goes on, and the session's chain with it.       *)
(***************************************************************************)

(* What such a step may change: no queue, no phase.                        *)
Walks(a, l, s) ==
  /\ Go(a, l) /\ arg' = [arg EXCEPT ![a] = s]
  /\ UNCHANGED <<queue, reads, writes, phase>>

LEMMA SameHand ==
  ASSUME SessionInv, NEW a \in Actors, arg' = arg
  PROVE  arg' = [arg EXCEPT ![a] = arg[a]]
BY DEF SessionInv, TypeInv, ActorType

LEMMA WalksParts ==
  ASSUME SessionInv, NEW a \in Actors, NEW l \in PcValues, NEW s \in Seq(Ops),
         Walks(a, l, s), PcArg(a, l, s), Elems(s) \subseteq Allowed,
         a \in Threads => /\ l \in {"task", "found"} <=> Holding(a)
                          /\ l \in Reopening => phase = "connecting"
                          /\ Driving(l, s) => Drives(a),
         a = User => s = arg[User] \/ ~Has(s, ChainOps)
  PROVE  Parts' /\ queue' \in Seq(Entries)
         /\ pc' \in [Actors -> PcValues] /\ arg' \in [Actors -> Seq(Ops)]
<1>1. /\ Moves(a, l, s) /\ pc' \in [Actors -> PcValues]
      /\ arg' \in [Actors -> Seq(Ops)]
  BY GoesBoth DEF SessionInv, Walks
<1>2. Parts'
  BY <1>1, Strolls DEF Walks
<1> QED BY <1>1, <1>2 DEF SessionInv, TypeInv, Walks

(* An actor that goes on with nothing in hand.                             *)
LEMMA EmptyHand ==
  ASSUME NEW a \in Actors, NEW l, l \notin {"look", "lock", "run"},
         a = User => l \in {"idle", "close", "free", "closefd"}
  PROVE  /\ PcArg(a, l, <<>>) /\ <<>> \in Seq(Ops)
         /\ Elems(<<>>) = {} /\ ~Has(<<>>, ChainOps)
         /\ Driving(l, <<>>) => l \in Reopening
BY ElemsOfEmpty, HasEmpty DEF PcArg, Driving

LEMMA EmptyWalk ==
  ASSUME SessionInv, NEW a \in Actors, NEW l \in PcValues,
         l \notin {"look", "lock", "run"},
         a = User => l \in {"idle", "close", "free", "closefd"},
         Walks(a, l, <<>>),
         a \in Threads => /\ l \in {"task", "found"} <=> Holding(a)
                          /\ l \in Reopening => Reopens(a)
  PROVE  Parts' /\ queue' \in Seq(Entries)
         /\ pc' \in [Actors -> PcValues] /\ arg' \in [Actors -> Seq(Ops)]
<1> DEFINE s == <<>>
<1>1. /\ PcArg(a, l, s) /\ s \in Seq(Ops) /\ Elems(s) = {}
      /\ ~Has(s, ChainOps) /\ (Driving(l, s) => l \in Reopening)
  BY EmptyHand
<1>2. Walks(a, l, s)
  OBVIOUS
<1> HIDE DEF s
<1>3. a \in Threads /\ l \in Reopening => phase = "connecting" /\ Drives(a)
  BY DEF SessionInv, PhaseInv, Reopens, Reopening, Drives, Driving
<1> QED BY <1>1, <1>2, <1>3, WalksParts

(* Of a thread that opens the socket, and of one that closes it.           *)
LEMMA ReopenFacts ==
  ASSUME SessionInv, NEW t \in Threads, Reopens(t)
  PROVE  /\ phase = "connecting" /\ Allowed = {"connect"} /\ Drives(t)
         /\ arg[t] = <<>> /\ reads = <<>> /\ writes = <<>>
         /\ pc[User] \notin {"look", "lock"}
         /\ \A u \in Threads : Drives(u) => u = t
         /\ ~InQueue /\ ~Waits /\ ~Aborts
<1>1. phase = "connecting" /\ Drives(t)
  BY DEF SessionInv, PhaseInv, Reopens, Reopening, Drives, Driving
<1>2. /\ \A u \in Threads : Drives(u) => u = t
      /\ ~InQueue /\ ~Waits /\ ~Aborts
  BY <1>1 DEF SessionInv, ChainInv, SiteInv
<1>3. /\ Allowed = {"connect"} /\ reads = <<>> /\ writes \in {<<>>, <<"connect">>}
      /\ pc[User] \notin {"look", "lock"}
  BY <1>1, PhaseFacts
<1>4. arg[t] = <<>>
  BY NamesApart DEF SessionInv, PcInv, PcArg, Reopens
<1> QED BY <1>1, <1>2, <1>3, <1>4 DEF Waits

(* Types of what a step leaves alone.                                      *)
LEMMA TypesStay ==
  ASSUME TypeInv
  PROVE  /\ UNCHANGED <<conn, data, space, pending, met>> => KernelType'
         /\ UNCHANGED <<out, shut, reads, writes, open, attached>> => StateType'
         /\ /\ pc' \in [Actors -> PcValues] /\ arg' \in [Actors -> Seq(Ops)]
            /\ UNCHANGED ev
            => ActorType'
         /\ UNCHANGED <<ec, phase, tries, raced, fate>> => SessionType'
BY DEF TypeInv, KernelType, StateType, ActorType, SessionType

LEMMA EpollWaitSession ==
  ASSUME SessionInv, NEW t \in Threads, EpollWait(t)
  PROVE  TypeInv' /\ Parts'
<1>1. /\ TypeInv /\ t \in Actors /\ t # User /\ pc[t] = "task"
      /\ Go(t, "found") /\ pending' = FALSE
      /\ ev' = [ev EXCEPT ![t] = IF pending THEN Report ELSE {}]
      /\ UNCHANGED <<conn, data, space, met, state, impl, queue, arg, ec, chain,
                     raced, fate>>
  BY NamesApart DEF SessionInv, EpollWait, Runs
<1>2. arg[t] = <<>> /\ Holding(t)
  BY <1>1, IdleHand DEF Holding
<1>3. UNCHANGED <<reads, writes, out, shut, open, attached, phase, tries>>
  BY <1>1 DEF state, impl, chain
<1>4. Walks(t, "found", <<>>)
  BY <1>1, <1>2, <1>3, SameHand DEF Walks
<1>5. Parts' /\ queue' \in Seq(Entries)
      /\ pc' \in [Actors -> PcValues] /\ arg' \in [Actors -> Seq(Ops)]
  BY <1>1, <1>2, <1>4, EmptyWalk DEF PcValues, Reopening
<1>6. Report \subseteq Flags
  BY DEF Report, Mask
<1>7. ev' \in [Threads -> SUBSET Flags]
  BY <1>1, <1>6 DEF TypeInv, ActorType
<1>8. ActorType'
  BY <1>5, <1>7 DEF ActorType
<1>9. KernelType'
  BY <1>1 DEF TypeInv, KernelType
<1>10. StateType' /\ SessionType'
  BY <1>1, <1>3, TypesStay
<1> QED BY <1>5, <1>8, <1>9, <1>10 DEF TypeInv

LEMMA CloseFdSession ==
  ASSUME SessionInv, NEW a \in Actors, CloseFd(a)
  PROVE  TypeInv' /\ Parts'
<1> DEFINE l == IF a = User THEN "idle" ELSE "open"
<1>1. /\ TypeInv /\ pc[a] = "closefd" /\ Go(a, l)
      /\ conn' = "none" /\ data' = FALSE /\ pending' = FALSE
      /\ open' = FALSE /\ attached' = FALSE
      /\ UNCHANGED <<space, met, state, queue, arg, ev, ec, chain, raced, fate>>
  BY DEF SessionInv, CloseFd, Runs
<1>2. arg[a] = <<>>
  BY <1>1, IdleHand
<1>3. UNCHANGED <<reads, writes, out, shut, phase, tries>>
  BY <1>1 DEF state, chain
<1>4. Walks(a, l, <<>>)
  BY <1>1, <1>2, <1>3, SameHand DEF Walks
<1>5. /\ l \in PcValues /\ l \notin {"look", "lock", "run"}
      /\ a = User => l = "idle"
      /\ a \in Threads => Reopens(a) /\ ~Holding(a) /\ l \notin {"task", "found"}
  BY <1>1 DEF PcValues, Reopens, Holding
<1> HIDE DEF l
<1>6. Parts' /\ queue' \in Seq(Entries)
      /\ pc' \in [Actors -> PcValues] /\ arg' \in [Actors -> Seq(Ops)]
  BY <1>4, <1>5, EmptyWalk
<1>7. ActorType' /\ SessionType'
  BY <1>1, <1>3, <1>6, TypesStay
<1>8. KernelType' /\ StateType'
  BY <1>1, <1>3 DEF TypeInv, KernelType, StateType, Conns
<1> QED BY <1>6, <1>7, <1>8 DEF TypeInv

LEMMA OpenSession ==
  ASSUME SessionInv, NEW t \in Threads, Open(t)
  PROVE  TypeInv' /\ Parts'
<1>1. /\ TypeInv /\ t \in Actors /\ t # User /\ pc[t] = "open" /\ Go(t, "dial")
      /\ conn' = "fresh" /\ data' = FALSE /\ space' = TRUE /\ met' = FALSE
      /\ open' = TRUE /\ attached' = TRUE /\ shut' = FALSE /\ out' = FALSE
      /\ pending' = TRUE
      /\ UNCHANGED <<reads, writes, queue, arg, ev, ec, chain, raced, fate>>
  BY NamesApart DEF SessionInv, Open, Runs
<1>2. arg[t] = <<>> /\ Reopens(t) /\ ~Holding(t)
  BY <1>1, IdleHand DEF Reopens, Holding
<1>3. UNCHANGED <<phase, tries>>
  BY <1>1 DEF chain
<1>4. Walks(t, "dial", <<>>)
  BY <1>1, <1>2, <1>3, SameHand DEF Walks
<1>5. Parts' /\ queue' \in Seq(Entries)
      /\ pc' \in [Actors -> PcValues] /\ arg' \in [Actors -> Seq(Ops)]
  BY <1>1, <1>2, <1>4, EmptyWalk DEF PcValues
<1>6. ActorType' /\ SessionType'
  BY <1>1, <1>3, <1>5, TypesStay
<1>7. KernelType' /\ StateType'
  BY <1>1 DEF TypeInv, KernelType, StateType, Conns
<1> QED BY <1>5, <1>6, <1>7 DEF TypeInv

LEMMA DialSession ==
  ASSUME SessionInv, NEW t \in Threads, Dial(t)
  PROVE  TypeInv' /\ Parts'
<1>1. /\ TypeInv /\ t \in Actors /\ t # User /\ pc[t] = "dial"
      /\ UNCHANGED <<data, space, pending, met, state, impl, ev, chain, raced, fate>>
      /\ Reopens(t) /\ ~Holding(t)
  BY NamesApart DEF SessionInv, Dial, Runs, Reopens, Holding
<1>2. /\ phase = "connecting" /\ Allowed = {"connect"} /\ Drives(t)
      /\ arg[t] = <<>>
  BY <1>1, ReopenFacts
<1>3. UNCHANGED <<reads, writes, out, shut, open, attached, phase, tries>>
  BY <1>1 DEF state, impl, chain
<1>4. "connect" \in Ops /\ "connect" \in ChainOps
  BY NamesApart DEF ChainOps
<1>5. CASE /\ conn' = "connecting"
           /\ Go(t, "look") /\ arg' = [arg EXCEPT ![t] = <<"connect">>]
           /\ UNCHANGED <<queue, ec>>
  <2> DEFINE s == <<"connect">>
  <2>1. s \in Seq(Ops) /\ Elems(s) \subseteq Allowed /\ PcArg(t, "look", s)
    BY <1>1, <1>2, <1>4, ElemsOfSingle DEF PcArg
  <2>2. Walks(t, "look", s)
    BY <1>3, <1>5 DEF Walks
  <2> HIDE DEF s
  <2>3. Parts' /\ queue' \in Seq(Entries)
        /\ pc' \in [Actors -> PcValues] /\ arg' \in [Actors -> Seq(Ops)]
    BY <1>1, <1>2, <2>1, <2>2, WalksParts DEF PcValues, Reopening
  <2>4. ActorType' /\ StateType' /\ SessionType'
    BY <1>1, <1>3, <1>5, <2>3, TypesStay
  <2>5. KernelType'
    BY <1>1, <1>5 DEF TypeInv, KernelType, Conns
  <2> QED BY <2>3, <2>4, <2>5 DEF TypeInv
<1>6. CASE UNCHANGED conn /\ Started(t) /\ Post("connect", "error")
  <2>1. /\ Moves(t, "idle", <<>>) /\ pc' \in [Actors -> PcValues]
        /\ arg' \in [Actors -> Seq(Ops)]
    BY <1>1, <1>6, StartedMoves
  <2>2. HandsOver(t, "connect")
    BY <1>1, <1>2, <1>3, <2>1 DEF HandsOver
  <2>3. Parts' /\ queue' \in Seq(Entries)
    BY <1>3, <1>6, <2>2, PostParts, <1>1 DEF Post
  <2>4. KernelType' /\ ActorType' /\ StateType'
    BY <1>1, <1>3, <1>6, <2>1, TypesStay
  <2>5. SessionType'
    BY <1>1, <1>3, <1>4, <1>6 DEF TypeInv, SessionType, Post, Codes
  <2> QED BY <2>3, <2>4, <2>5 DEF TypeInv
<1> QED BY <1>5, <1>6 DEF Dial

LEMMA LookSession ==
  ASSUME SessionInv, NEW a \in Actors, Look(a)
  PROVE  TypeInv' /\ Parts'
<1> DEFINE o == arg[a][1]
<1>1. /\ TypeInv /\ pc[a] = "look"
      /\ UNCHANGED <<kernel, state, impl, ev, chain, fate>>
      /\ a \in Threads => ~Holding(a)
  BY DEF SessionInv, Look, Runs, Holding
<1>2. /\ o \in Allowed /\ arg[a] = <<o>>
      /\ Elems(arg[a]) = {o}
      /\ Has(arg[a], ChainOps) <=> o \in ChainOps
      /\ o \in ChainOps => a \in Threads /\ Drives(a)
  BY <1>1, HandFacts
<1>3. /\ UNCHANGED <<reads, writes, out, shut, open, attached, phase, tries>>
      /\ UNCHANGED <<conn, data, space, pending, met>>
  BY <1>1 DEF state, impl, chain, kernel
<1>4. o \in Ops
  BY <1>2, PhaseFacts
<1>5. CASE ~attached /\ Started(a) /\ Post(o, "error") /\ UNCHANGED raced
  <2> HIDE DEF o
  <2>1. /\ Moves(a, "idle", <<>>) /\ pc' \in [Actors -> PcValues]
        /\ arg' \in [Actors -> Seq(Ops)]
    BY <1>1, <1>5, StartedMoves
  <2>2. HandsOver(a, o)
    BY <1>1, <1>2, <1>3, <2>1 DEF HandsOver
  <2>3. queue' = Append(queue, Done(o))
    BY <1>5 DEF Post
  <2>4. Parts' /\ queue' \in Seq(Entries)
    BY <1>3, <2>2, <2>3, PostParts
  <2>5. KernelType' /\ ActorType' /\ StateType'
    BY <1>1, <1>3, <2>1, TypesStay
  <2>6. SessionType'
    BY <1>1, <1>3, <1>4, <1>5 DEF TypeInv, SessionType, Post, Codes
  <2> QED BY <2>4, <2>5, <2>6 DEF TypeInv
<1>6. CASE /\ attached /\ Go(a, "lock")
           /\ raced' = (raced \/ pc[User] = "free")
           /\ UNCHANGED <<arg, queue, ec>>
  <2> DEFINE s == arg[a]
  <2>1. s \in Seq(Ops) /\ Elems(s) \subseteq Allowed /\ PcArg(a, "lock", s)
    <3>1. s \in Seq(Ops) /\ PcArg(a, "look", s)
      BY <1>1 DEF SessionInv, TypeInv, ActorType, PcInv
    <3>2. PcArg(a, "lock", s)
      BY <3>1 DEF PcArg
    <3> QED BY <1>2, <3>1, <3>2
  <2>2. Walks(a, "lock", s)
    BY <1>3, <1>6, SameHand DEF Walks
  <2>3. Driving("lock", s) => Drives(a)
    BY <1>1, <1>2 DEF Drives, Driving, Reopening
  <2> HIDE DEF s
  <2>4. Parts' /\ queue' \in Seq(Entries)
        /\ pc' \in [Actors -> PcValues] /\ arg' \in [Actors -> Seq(Ops)]
    BY <1>1, <2>1, <2>2, <2>3, WalksParts DEF PcValues, Reopening, s
  <2>5. KernelType' /\ ActorType' /\ StateType'
    BY <1>1, <1>3, <2>4, TypesStay
  <2>6. SessionType'
    <3>1. raced' \in BOOLEAN
      BY <1>1, <1>6 DEF TypeInv, SessionType
    <3> QED BY <1>1, <1>3, <1>6, <3>1 DEF TypeInv, SessionType
  <2> QED BY <2>4, <2>5, <2>6 DEF TypeInv
<1> QED BY <1>5, <1>6 DEF Look

(* The parts of start_op under the lock.                                   *)
LEMMA LockFacts ==
  ASSUME SessionInv, NEW a \in Actors, Lock(a), NEW o, o = arg[a][1]
  PROVE  /\ TypeInv /\ pc[a] = "lock" /\ attached /\ o \in Ops
         /\ HandsOver(a, o)
         /\ UNCHANGED <<open, attached, ev, phase, tries, raced, fate>>
         /\ StartWaits(a, o) \/ StartPerforms(a, o) \/ StartShut(a, o)
         /\ ActorType'
<1>1. /\ TypeInv /\ pc[a] = "lock" /\ attached
      /\ UNCHANGED <<impl, ev, chain, raced, fate>>
      /\ StartWaits(a, o) \/ StartPerforms(a, o) \/ StartShut(a, o)
      /\ a \in Threads => ~Holding(a)
  BY DEF SessionInv, Lock, Runs, Holding
<1>2. /\ o \in Allowed
      /\ o \in ChainOps => a \in Threads /\ Drives(a)
  BY <1>1, HandFacts
<1>3. Started(a)
  BY <1>1 DEF StartWaits, StartPerforms, StartShut
<1>4. /\ Moves(a, "idle", <<>>) /\ pc' \in [Actors -> PcValues]
      /\ arg' \in [Actors -> Seq(Ops)]
  BY <1>1, <1>3, StartedMoves
<1>5. UNCHANGED <<open, attached, phase, tries>>
  BY <1>1 DEF impl, chain
<1>6. HandsOver(a, o)
  BY <1>1, <1>2, <1>4, <1>5 DEF HandsOver
<1>7. ActorType'
  BY <1>1, <1>4, TypesStay
<1>8. o \in Ops
  BY <1>2, PhaseFacts
<1> QED BY <1>1, <1>5, <1>6, <1>7, <1>8

LEMMA UsesType ==
  ASSUME KernelType, NEW R, NEW W, Uses(R, W)
  PROVE  data' \in BOOLEAN /\ space' \in BOOLEAN
BY DEF Uses, KernelType

LEMMA OutcomeType ==
  ASSUME NEW o
  PROVE  Outcome(o) \in {"ok", "eof", "error"}
BY DEF Outcome

LEMMA LockSession ==
  ASSUME SessionInv, NEW a \in Actors, Lock(a)
  PROVE  TypeInv' /\ Parts'
<1> DEFINE o == arg[a][1]
<1>1. /\ TypeInv /\ pc[a] = "lock" /\ attached /\ o \in Ops
      /\ HandsOver(a, o)
      /\ UNCHANGED <<open, attached, ev, phase, tries, raced, fate>>
      /\ StartWaits(a, o) \/ StartPerforms(a, o) \/ StartShut(a, o)
      /\ ActorType'
  BY LockFacts
<1> HIDE DEF o
<1>2. CASE StartWaits(a, o)
  <2>1. /\ queue' = queue /\ UNCHANGED <<conn, data, space, met, shut, ec>>
        /\ out' = (out \/ o # "read")
        /\ pending' = (pending \/ (o # "read" /\ (o = "connect" \/ ~out)
                                     /\ Poll(conn, data, space) # {}))
        /\ \/ o = "read" /\ reads' = Append(reads, o) /\ UNCHANGED writes
           \/ o # "read" /\ writes' = Append(writes, o) /\ UNCHANGED reads
    BY <1>2 DEF StartWaits
  <2>2. /\ Parts' /\ reads' \in {<<>>, <<"read">>}
        /\ writes' = <<"connect">> \/ writes' \in Seq(Writes)
    BY <1>1, <2>1, WaitParts
  <2>3. out' \in BOOLEAN /\ pending' \in BOOLEAN
    BY <1>1, <2>1 DEF TypeInv, StateType, KernelType
  <2>4. KernelType'
    BY <1>1, <2>1, <2>3 DEF TypeInv, KernelType
  <2>5. StateType'
    BY <1>1, <2>1, <2>2, <2>3 DEF TypeInv, StateType
  <2>6. SessionType'
    BY <1>1, <2>1, TypesStay
  <2> QED BY <1>1, <2>1, <2>2, <2>4, <2>5, <2>6 DEF TypeInv
<1>3. CASE StartPerforms(a, o)
  <2>1. /\ queue' = Append(queue, Done(o)) /\ ec' = [ec EXCEPT ![o] = Outcome(o)]
        /\ UNCHANGED <<conn, pending, met, out, shut, reads, writes>>
        /\ Uses({o} \cap {"read"}, {o})
    BY <1>3 DEF StartPerforms, Post, state
  <2>2. Parts' /\ queue' \in Seq(Entries)
    BY <1>1, <2>1, PostParts
  <2>3. KernelType'
    <3>1. data' \in BOOLEAN /\ space' \in BOOLEAN
      BY <1>1, <2>1, UsesType DEF TypeInv
    <3> QED BY <1>1, <2>1, <3>1 DEF TypeInv, KernelType
  <2>4. StateType'
    BY <1>1, <2>1, TypesStay
  <2>5. SessionType'
    <3>1. Outcome(o) \in Codes
      BY OutcomeType DEF Codes
    <3> QED BY <1>1, <2>1, <3>1 DEF TypeInv, SessionType
  <2> QED BY <1>1, <2>2, <2>3, <2>4, <2>5 DEF TypeInv
<1>4. CASE StartShut(a, o)
  <2>1. /\ queue' = Append(queue, Done(o)) /\ ec' = [ec EXCEPT ![o] = "empty"]
        /\ UNCHANGED <<conn, data, space, pending, met, out, shut, reads, writes>>
    BY <1>4 DEF StartShut, Post, state, kernel
  <2>2. Parts' /\ queue' \in Seq(Entries)
    BY <1>1, <2>1, PostParts
  <2>3. KernelType' /\ StateType'
    BY <1>1, <2>1, TypesStay
  <2>4. SessionType'
    BY <1>1, <2>1 DEF TypeInv, SessionType, Codes
  <2> QED BY <1>1, <2>2, <2>3, <2>4 DEF TypeInv
<1> QED BY <1>1, <1>2, <1>3, <1>4

LEMMA OpQueues ==
  ASSUME StateType
  PROVE  /\ reads \in Seq(Ops) /\ writes \in Seq(Ops)
         /\ Has(reads, ChainOps) <=> reads # <<>>
         /\ Has(writes, ChainOps) <=> writes = <<"connect">>
         /\ AtMostOne(reads, ChainOps) /\ AtMostOne(writes, ChainOps)
<1>1. /\ "read" \in Ops /\ "connect" \in Ops /\ Writes \subseteq Ops
      /\ "read" \in ChainOps /\ "connect" \in ChainOps
  BY NamesApart DEF ChainOps
<1> DEFINE r == <<"read">>
           c == <<"connect">>
<1>2. r \in Seq(Ops) /\ c \in Seq(Ops) /\ r # <<>>
  BY <1>1
<1>3. /\ Has(r, ChainOps) /\ AtMostOne(r, ChainOps) /\ Has(c, ChainOps)
      /\ AtMostOne(c, ChainOps) /\ Elems(c) = {"connect"}
  BY <1>1, HasSingle, ElemsOfSingle
<1>4. /\ reads = <<>> \/ reads = r
      /\ writes = c \/ writes \in Seq(Writes)
  BY DEF StateType
<1> HIDE DEF r, c
<1>5. /\ reads \in Seq(Ops) /\ AtMostOne(reads, ChainOps)
      /\ Has(reads, ChainOps) <=> reads # <<>>
  <2>1. CASE reads = <<>>
    <3>1. <<>> \in Seq(Ops)
      OBVIOUS
    <3> QED BY <2>1, <3>1, HasEmpty
  <2>2. CASE reads = r
    BY <1>2, <1>3, <2>2
  <2> QED BY <1>4, <2>1, <2>2
<1>6. /\ writes \in Seq(Ops) /\ AtMostOne(writes, ChainOps)
      /\ Has(writes, ChainOps) <=> writes = c
  <2>1. CASE writes = c
    BY <1>2, <1>3, <2>1
  <2>2. CASE writes \in Seq(Writes)
    <3>1. Elems(writes) \subseteq Writes
      BY <2>2, ElemsType
    <3>2. ~Has(writes, ChainOps) /\ writes # c
      BY <1>3, <3>1, NamesApart DEF Has, ChainOps
    <3>3. writes \in Seq(Ops)
      BY <1>1, <2>2
    <3> QED BY <3>2, <3>3, HasNone
  <2> QED BY <1>4, <2>1, <2>2
<1> QED BY <1>5, <1>6 DEF c

LEMMA DeregisterSession ==
  ASSUME SessionInv, NEW a \in Actors, Deregister(a)
  PROVE  TypeInv' /\ Parts'
<1>1. /\ TypeInv /\ OnceInv /\ SiteInv /\ PhaseInv /\ TaskInv /\ pc[a] = "close"
      /\ ~(a = User /\ \E t \in Threads : Reopens(t))
      /\ UNCHANGED <<kernel, out, impl, queue, ev, chain, fate>>
      /\ raced' = (raced \/ (a = User /\ \E t \in Threads : pc[t] = "lock"))
  BY DEF SessionInv, ChainInv, Deregister, Runs
<1>2. /\ arg[a] = <<>>
      /\ a \in Threads => Reopens(a) /\ ~Holding(a)
      /\ UNCHANGED <<open, attached, phase, tries, conn, data, space, pending, met>>
  BY <1>1, IdleHand DEF Reopens, Holding, impl, chain, kernel
<1>3. raced' \in BOOLEAN
  BY <1>1 DEF TypeInv, SessionType
<1>4. CASE Go(a, "closefd") /\ UNCHANGED <<shut, reads, writes, ec, arg>>
  <2>1. Walks(a, "closefd", <<>>)
    BY <1>1, <1>2, <1>4, SameHand DEF Walks
  <2>2. Parts' /\ queue' \in Seq(Entries)
        /\ pc' \in [Actors -> PcValues] /\ arg' \in [Actors -> Seq(Ops)]
    BY <1>2, <2>1, EmptyWalk DEF PcValues
  <2>3. KernelType' /\ StateType' /\ ActorType'
    BY <1>1, <1>2, <1>4, <2>2, TypesStay
  <2>4. SessionType'
    BY <1>1, <1>2, <1>3, <1>4 DEF TypeInv, SessionType
  <2> QED BY <2>2, <2>3, <2>4 DEF TypeInv
<1>5. CASE /\ shut' = TRUE /\ reads' = <<>> /\ writes' = <<>>
           /\ ec' = [o \in Ops |-> IF o \in Range(reads) \cup Range(writes)
                                   THEN "aborted" ELSE ec[o]]
           /\ arg' = [arg EXCEPT ![a] = reads \o writes]
           /\ Go(a, "free")
  <2> DEFINE s == reads \o writes
             l == "free"
  <2>1. /\ s \in Seq(Ops) /\ Elems(s) = Elems(reads) \cup Elems(writes)
        /\ Has(s, ChainOps) <=> Waits
        /\ AtMostOne(s, ChainOps)
    <3>1. reads \in Seq(Ops) /\ writes \in Seq(Ops)
      BY <1>1, OpQueues DEF TypeInv
    <3>2. /\ Has(reads, ChainOps) <=> reads # <<>>
          /\ Has(writes, ChainOps) <=> writes = <<"connect">>
      BY <1>1, OpQueues DEF TypeInv
    <3>3. AtMostOne(reads, ChainOps) /\ AtMostOne(writes, ChainOps)
      BY <1>1, OpQueues DEF TypeInv
    <3>4. s \in Seq(Ops) /\ Elems(s) = Elems(reads) \cup Elems(writes)
      BY <3>1, ElemsOfConcat
    <3>5. Has(s, ChainOps) <=> Waits
      BY <3>1, <3>2, <3>3, HasConcat DEF Waits
    <3>6. AtMostOne(s, ChainOps)
      BY <1>1, <3>1, <3>2, <3>3, HasConcat DEF SiteInv
    <3> QED BY <3>4, <3>5, <3>6
  <2>2. a \in Threads => s = <<>>
    <3>1. a \in Threads => reads = <<>> /\ writes = <<>>
      BY <1>2, ReopenFacts
    <3> QED BY <3>1
  <2> HIDE DEF s
  <2>3. l \in PcValues
    BY DEF PcValues
  <2>4. /\ Moves(a, l, s) /\ pc' \in [Actors -> PcValues]
        /\ arg' \in [Actors -> Seq(Ops)]
    BY <1>1, <1>5, <2>1, <2>3, GoesBoth DEF s
  <2>5. PcInv'
    <3>1. PcArg(a, l, s)
      BY <2>2, NamesApart DEF PcArg
    <3> QED BY <2>4, <3>1, MovesHand DEF SessionInv
  <2>6. TaskInv'
    <3>1. AtMostOne(queue', {Task}) /\ (Has(queue', {Task}) <=> Has(queue, {Task}))
      BY <1>1 DEF TaskInv
    <3>2. l \notin {"task", "found"}
      OBVIOUS
    <3> HIDE DEF l
    <3> QED BY <1>1, <1>2, <2>4, <3>1, <3>2, MovesTask
  <2>7. PhaseInv'
    <3>1. Elems(s) \subseteq Allowed
      BY <1>1, <2>1 DEF PhaseInv
    <3>2. Elems(reads') \subseteq Allowed /\ Elems(writes') \subseteq Allowed
      BY <1>5, ElemsOfEmpty
    <3>3. a \in Threads => phase = "connecting"
      BY <1>2, ReopenFacts
    <3>4. /\ \A o \in Ops : Done(o) \in Elems(queue') => o \in Allowed
          /\ Resolved \in Elems(queue') => Resolved \in Elems(queue)
      BY <1>1 DEF PhaseInv
    <3> QED BY <1>1, <1>2, <2>4, <3>1, <3>2, <3>3, <3>4, MovesPhase
  <2>8. /\ \A t \in Threads : Drives(t)' => Drives(t)
        /\ Aborts' => Aborts \/ (a = User /\ Waits)
        /\ AtMostOne(arg'[User], ChainOps)
    <3>1. a \in Threads => Drives(a)
      BY <1>2, ReopenFacts
    <3>2. \A t \in Threads : Drives(t)' => Drives(t)
      BY <2>4, <3>1, MovesSites
    <3>3. Aborts' => Aborts \/ (a = User /\ Waits)
      BY <2>1, <2>4, MovesSites, NamesApart
    <3>4. AtMostOne(arg'[User], ChainOps)
      BY <1>1, <2>1, <2>4, MovesSites, NamesApart DEF OnceInv
    <3> QED BY <3>2, <3>3, <3>4
  <2>9. OnceInv'
    BY <1>1, <2>8 DEF OnceInv
  <2>10. SiteInv'
    <3>1. ~Waits' /\ (InQueue' <=> InQueue) /\ reads' = <<>>
      BY <1>1, <1>5 DEF Waits, InQueue
    <3> QED BY <1>1, <2>8, <3>1 DEF SiteInv
  <2>11. ActorType' /\ KernelType'
    BY <1>1, <1>2, <2>4, TypesStay
  <2>12. StateType'
    BY <1>1, <1>2, <1>5 DEF TypeInv, StateType
  <2>13. SessionType'
    BY <1>1, <1>2, <1>3, <1>5 DEF TypeInv, SessionType, Codes
  <2> QED BY <1>1, <2>5, <2>6, <2>7, <2>9, <2>10, <2>11, <2>12, <2>13
          DEF TypeInv, Parts, ChainInv
<1> QED BY <1>4, <1>5 DEF Deregister

-----------------------------------------------------------------------------
(***************************************************************************)
(* Steps that put operations which have completed into the queue.          *)
(***************************************************************************)

LEMMA Posts ==
  ASSUME SessionInv, NEW a \in Actors, NEW l, NEW s, NEW h \in Seq(Ops),
         Moves(a, l, s), PcArg(a, l, s), queue' = queue \o Posted(h),
         phase' = phase, Elems(s) \subseteq Allowed, Elems(h) \subseteq Allowed,
         Elems(reads') \subseteq Allowed, Elems(writes') \subseteq Allowed,
         a \in Threads => /\ l \in {"task", "found"} <=> Holding(a)
                          /\ l \in Reopening => phase = "connecting",
         AtMostOne(h, ChainOps), Has(h, ChainOps) => ~InQueue
  PROVE  /\ PcInv' /\ TaskInv' /\ PhaseInv' /\ queue' \in Seq(Entries)
         /\ AtMostOne(queue', ChainEntries)
         /\ InQueue' <=> InQueue \/ Has(h, ChainOps)
<1>1. PcInv /\ TaskInv /\ PhaseInv /\ OnceInv /\ queue \in Seq(Entries)
  BY DEF SessionInv, ChainInv, TypeInv
<1> DEFINE r == Posted(h)
<1>2. /\ r \in Seq(Entries) /\ Elems(r) = {Done(o) : o \in Elems(h)}
      /\ Has(r, ChainEntries) <=> Has(h, ChainOps)
      /\ AtMostOne(r, ChainEntries)
      /\ ~Has(r, {Task}) /\ AtMostOne(r, {Task})
      /\ Resolved \notin Elems(r)
  BY PostedFacts
<1>3. queue' = queue \o r
  OBVIOUS
<1> HIDE DEF r
<1>4. /\ queue' \in Seq(Entries) /\ Elems(queue') = Elems(queue) \cup Elems(r)
      /\ \A C : /\ Has(queue', C) <=> Has(queue, C) \/ Has(r, C)
                /\ AtMostOne(queue, C) /\ AtMostOne(r, C)
                     /\ ~(Has(queue, C) /\ Has(r, C))
                     => AtMostOne(queue', C)
  BY <1>1, <1>2, <1>3, Adds
<1>5. PcInv'
  BY <1>1, MovesHand
<1>6. TaskInv'
  <2>1. AtMostOne(queue', {Task}) /\ (Has(queue', {Task}) <=> Has(queue, {Task}))
    BY <1>1, <1>2, <1>4 DEF TaskInv
  <2> QED BY <1>1, <2>1, MovesTask
<1>7. PhaseInv'
  <2>1. \A o \in Ops : Done(o) \in Elems(r) => o \in Allowed
    <3>1. Elems(h) \subseteq Ops
      BY ElemsType
    <3> QED BY <1>2, <3>1, EntryFacts
  <2>2. /\ \A o \in Ops : Done(o) \in Elems(queue') => o \in Allowed
        /\ Resolved \in Elems(queue') => Resolved \in Elems(queue)
    BY <1>1, <1>2, <1>4, <2>1 DEF PhaseInv
  <2> QED BY <1>1, <2>2, MovesPhase
<1>8. AtMostOne(queue', ChainEntries)
  BY <1>1, <1>2, <1>4 DEF OnceInv, InQueue
<1>9. InQueue' <=> InQueue \/ Has(h, ChainOps)
  BY <1>2, <1>4 DEF InQueue
<1> QED BY <1>4, <1>5, <1>6, <1>7, <1>8, <1>9

LEMMA FreeSession ==
  ASSUME SessionInv, NEW a \in Actors, Free(a)
  PROVE  TypeInv' /\ Parts'
<1> DEFINE l == "closefd"
           s == <<>>
           h == arg[a]
<1>1. /\ TypeInv /\ OnceInv /\ SiteInv /\ PhaseInv /\ pc[a] = "free"
      /\ attached' = FALSE /\ Go(a, l) /\ arg' = [arg EXCEPT ![a] = s]
      /\ queue' = queue \o Posted(h)
      /\ UNCHANGED <<kernel, state, open, ev, ec, chain, raced, fate>>
  BY DEF SessionInv, ChainInv, Free, Runs, Posted
<1>2. /\ UNCHANGED <<reads, writes, out, shut, phase, tries>>
      /\ UNCHANGED <<conn, data, space, pending, met>>
  BY <1>1 DEF state, chain, kernel
<1>3. /\ l \in PcValues /\ s \in Seq(Ops) /\ Elems(s) = {}
      /\ PcArg(a, l, s) /\ ~Has(s, ChainOps) /\ l \notin {"task", "found"}
  BY EmptyHand DEF PcValues
<1>4. h \in Seq(Ops) /\ Elems(h) \subseteq Allowed
  BY <1>1 DEF TypeInv, ActorType, PhaseInv
<1>5. a \in Threads => /\ ~Holding(a) /\ phase = "connecting" /\ Drives(a)
                       /\ h = <<>>
  BY <1>1, ReopenFacts DEF Reopens, Holding
<1>6. a = User => (Has(h, ChainOps) <=> Aborts) /\ AtMostOne(h, ChainOps)
  BY <1>1 DEF Aborts, OnceInv
<1> HIDE DEF l, s, h
<1>7. /\ Moves(a, l, s) /\ pc' \in [Actors -> PcValues]
      /\ arg' \in [Actors -> Seq(Ops)]
  BY <1>1, <1>3, GoesBoth
<1>8. /\ AtMostOne(h, ChainOps)
      /\ Has(h, ChainOps) => a = User /\ Aborts
  BY <1>5, <1>6, HasEmpty, NamesApart
<1>9. /\ PcInv' /\ TaskInv' /\ PhaseInv' /\ queue' \in Seq(Entries)
      /\ AtMostOne(queue', ChainEntries)
      /\ InQueue' <=> InQueue \/ Has(h, ChainOps)
  <2>1. Has(h, ChainOps) => ~InQueue
    BY <1>1, <1>8 DEF SiteInv
  <2>2. Elems(reads') \subseteq Allowed /\ Elems(writes') \subseteq Allowed
    BY <1>1, <1>2 DEF PhaseInv
  <2>3. /\ phase' = phase /\ Elems(s) \subseteq Allowed
        /\ a \in Threads => /\ l \in {"task", "found"} <=> Holding(a)
                            /\ l \in Reopening => phase = "connecting"
    BY <1>2, <1>3, <1>5
  <2> QED BY <1>1, <1>3, <1>4, <1>7, <1>8, <2>1, <2>2, <2>3, Posts
<1>10. /\ \A t \in Threads : Drives(t)' => Drives(t)
       /\ Aborts' => Aborts /\ a # User
       /\ AtMostOne(arg'[User], ChainOps)
  <2>1. \A t \in Threads : Drives(t)' => Drives(t)
    BY <1>5, <1>7, MovesSites
  <2>2. Aborts' => Aborts /\ a # User
    BY <1>3, <1>7, MovesSites, NamesApart
  <2>3. AtMostOne(arg'[User], ChainOps)
    BY <1>1, <1>3, <1>7, MovesSites, NamesApart, HasNone DEF OnceInv
  <2> QED BY <2>1, <2>2, <2>3
<1>11. SiteInv'
  <2>1. Waits' <=> Waits
    BY <1>2 DEF Waits
  <2> QED BY <1>1, <1>2, <1>8, <1>9, <1>10, <2>1 DEF SiteInv
<1>12. KernelType' /\ ActorType' /\ SessionType'
  BY <1>1, <1>2, <1>7, TypesStay
<1>13. StateType'
  BY <1>1, <1>2 DEF TypeInv, StateType
<1> QED BY <1>9, <1>10, <1>11, <1>12, <1>13 DEF TypeInv, Parts, ChainInv, OnceInv

(* The first n elements of q, and the others.                              *)
First(q, n) == SubSeq(q, 1, n)
Rest(q, n) == SubSeq(q, n + 1, Len(q))

LEMMA Splits ==
  ASSUME NEW S, NEW q \in Seq(S), NEW n \in 0..Len(q)
  PROVE  /\ First(q, n) \in Seq(S) /\ Rest(q, n) \in Seq(S)
         /\ Len(First(q, n)) = n /\ Len(Rest(q, n)) = Len(q) - n
         /\ \A i \in 1..n : First(q, n)[i] = q[i]
         /\ \A i \in 1..Len(q) - n : Rest(q, n)[i] = q[i + n]
         /\ Elems(First(q, n)) \subseteq Elems(q)
         /\ Elems(Rest(q, n)) \subseteq Elems(q)
         /\ Range(First(q, n)) = Elems(First(q, n))
<1> DEFINE b == First(q, n)
           c == Rest(q, n)
<1>1. Len(q) \in Nat /\ n \in Nat /\ n <= Len(q) /\ \A i \in 1..Len(q) : q[i] \in S
  OBVIOUS
<1>2. /\ b \in Seq(S) /\ Len(b) = n /\ \A i \in 1..n : b[i] = q[i]
  BY <1>1 DEF First
<1>3. /\ c \in Seq(S) /\ Len(c) = Len(q) - n
      /\ \A i \in 1..Len(q) - n : c[i] = q[i + n]
  BY <1>1 DEF Rest
<1> HIDE DEF b, c
<1>4. Elems(b) \subseteq Elems(q)
  BY <1>1, <1>2 DEF Elems
<1>5. Elems(c) \subseteq Elems(q)
  <2>1. \A i \in 1..Len(q) - n : i + n \in 1..Len(q)
    BY <1>1
  <2> QED BY <1>3, <2>1 DEF Elems
<1>6. Range(b) = Elems(b)
  <2>1. DOMAIN b = 1..Len(b)
    BY <1>2
  <2> QED BY <2>1 DEF Range, Elems
<1> QED BY <1>2, <1>3, <1>4, <1>5, <1>6 DEF b, c

LEMMA Whole ==
  ASSUME NEW S, NEW q \in Seq(S), Len(q) <= 1, NEW n \in 0..Len(q)
  PROVE  \/ n = 0 /\ First(q, n) = <<>> /\ Rest(q, n) = q
         \/ n = Len(q) /\ First(q, n) = q /\ Rest(q, n) = <<>>
<1>1. Len(q) \in Nat /\ n \in Nat /\ (n = 0 \/ n = Len(q))
  OBVIOUS
<1>2. CASE n = 0
  BY <1>1, <1>2, SubSeqFull, SubSeqEmpty DEF First, Rest
<1>3. CASE n = Len(q)
  <2>1. n + 1 \in Int /\ Len(q) \in Int /\ Len(q) < n + 1
    BY <1>1, <1>3
  <2> QED BY <1>3, <2>1, SubSeqFull, SubSeqEmpty DEF First, Rest
<1> QED BY <1>1, <1>2, <1>3

(* Sends are no part of the chain.                                         *)
LEMMA SendsOnly ==
  ASSUME NEW q \in Seq(Writes)
  PROVE  ~Has(q, ChainOps) /\ q # <<"connect">> /\ q \in Seq(Ops)
<1>1. Elems(q) \subseteq Writes /\ Writes \subseteq Ops
  BY ElemsType, NamesApart
<1>2. Elems(<<"connect">>) = {"connect"}
  BY ElemsOfSingle
<1> QED BY <1>1, <1>2, NamesApart DEF Has, ChainOps

(* perform_io with n sends, or the connect, and k receives.                *)
Sent(n) == First(writes, n)
Got(k) == First(reads, k)
Batch(n, k) == Sent(n) \o Got(k)

IoStep(t, n, k) ==
  /\ pc[t] = "io"
  /\ Uses(Range(Got(k)), Range(Sent(n)))
  /\ IF ev[t] \cap {"out", "err", "hup"} # {} THEN Performs(writes, n) ELSE n = 0
  /\ IF ev[t] \cap {"in", "err", "hup"} # {} THEN Performs(reads, k) ELSE k = 0
  /\ writes' = Rest(writes, n) /\ reads' = Rest(reads, k)
  /\ ec' = [o \in Ops |-> IF o \in Range(Batch(n, k)) THEN Outcome(o) ELSE ec[o]]
  /\ \/ Batch(n, k) = <<>> /\ Go(t, "idle") /\ UNCHANGED <<arg, queue>>
     \/ /\ Batch(n, k) # <<>> /\ Go(t, "run")
        /\ arg' = [arg EXCEPT ![t] = <<Head(Batch(n, k))>>]
        /\ queue' = queue \o [i \in 1..Len(Batch(n, k)) - 1 |->
                                 Done(Batch(n, k)[i + 1])]
  /\ ev' = [ev EXCEPT ![t] = {}]
  /\ UNCHANGED <<conn, pending, met, out, shut, impl, chain, raced, fate>>

LEMMA PerformIoSteps ==
  ASSUME NEW t, PerformIo(t)
  PROVE  \E n \in 0..Len(writes), k \in 0..Len(reads) : IoStep(t, n, k)
BY DEF PerformIo, IoStep, Sent, Got, Batch, First, Rest, Runs

LEMMA IoQueues ==
  ASSUME SessionInv, NEW n \in 0..Len(writes), NEW k \in 0..Len(reads),
         writes' = Rest(writes, n), reads' = Rest(reads, k)
  PROVE  /\ Batch(n, k) \in Seq(Ops) /\ Elems(Batch(n, k)) \subseteq Allowed
         /\ Elems(Batch(n, k)) = Elems(Sent(n)) \cup Elems(Got(k))
         /\ AtMostOne(Batch(n, k), ChainOps)
         /\ Has(Batch(n, k), ChainOps) => Waits /\ ~Waits'
         /\ Waits' => Waits
         /\ reads' \in {<<>>, <<"read">>}
         /\ writes' = <<"connect">> \/ writes' \in Seq(Writes)
         /\ ~(reads' # <<>> /\ writes' = <<"connect">>)
         /\ Elems(reads') \subseteq Allowed /\ Elems(writes') \subseteq Allowed
<1> DEFINE w == Sent(n)
           r == Got(k)
           h == Batch(n, k)
<1>1. /\ StateType /\ ~(reads # <<>> /\ writes = <<"connect">>)
      /\ Elems(reads) \subseteq Allowed /\ Elems(writes) \subseteq Allowed
      /\ reads \in Seq(Ops) /\ writes \in Seq(Ops)
      /\ Has(reads, ChainOps) <=> reads # <<>>
      /\ Has(writes, ChainOps) <=> writes = <<"connect">>
      /\ AtMostOne(reads, ChainOps) /\ AtMostOne(writes, ChainOps)
  BY OpQueues DEF SessionInv, TypeInv, ChainInv, SiteInv, PhaseInv
<1>2. /\ w = First(writes, n) /\ r = First(reads, k) /\ h = w \o r
  BY DEF Sent, Got, Batch
<1> HIDE DEF w, r, h
<1>3. /\ w \in Seq(Ops) /\ Elems(w) \subseteq Elems(writes)
      /\ Elems(writes') \subseteq Elems(writes)
  BY <1>1, <1>2, Splits
<1>4. /\ r \in Seq(Ops) /\ Elems(r) \subseteq Elems(reads)
      /\ Elems(reads') \subseteq Elems(reads)
  BY <1>1, <1>2, Splits
<1>5. \/ r = <<>> /\ reads' = reads
      \/ r = reads /\ reads' = <<>>
  <2>1. Len(reads) <= 1
    <3>1. reads = <<>> \/ reads = <<"read">>
      BY <1>1 DEF StateType
    <3>2. CASE reads = <<>>
      BY <3>2
    <3>3. CASE reads = <<"read">>
      BY <3>3
    <3> QED BY <3>1, <3>2, <3>3
  <2> QED BY <1>1, <1>2, <2>1, Whole
<1>6. CASE writes = <<"connect">>
  <2>1. Len(writes) <= 1
    BY <1>6
  <2>2. \/ w = <<>> /\ writes' = writes
        \/ w = writes /\ writes' = <<>>
    BY <1>1, <1>2, <2>1, Whole
  <2>3. r = <<>> /\ reads' = <<>> /\ reads = <<>>
    BY <1>1, <1>5, <1>6
  <2>4. h = w /\ Elems(r) = {}
    <3>1. w \o <<>> = w
      BY <1>3, ConcatEmptySeq
    <3> QED BY <1>2, <2>3, <3>1, ElemsOfEmpty
  <2>5. /\ AtMostOne(h, ChainOps)
        /\ Has(h, ChainOps) => w = writes
    BY <1>1, <2>2, <2>4, HasEmpty
  <2>6. /\ writes' = <<"connect">> \/ writes' \in Seq(Writes)
        /\ Has(h, ChainOps) => writes' = <<>>
    <3>1. <<>> \in Seq(Writes) /\ <<>> # <<"connect">>
      OBVIOUS
    <3> QED BY <1>6, <2>2, <2>5, <3>1
  <2>7. /\ Has(h, ChainOps) => Waits /\ ~Waits'
        /\ Waits' => Waits
    BY <1>6, <2>3, <2>6 DEF Waits
  <2> QED BY <1>1, <1>2, <1>3, <2>3, <2>4, <2>5, <2>6, <2>7 DEF w, r, h
<1>7. CASE writes \in Seq(Writes)
  <2>1. w \in Seq(Writes) /\ writes' \in Seq(Writes)
    BY <1>2, <1>7, Splits
  <2>2. ~Has(w, ChainOps) /\ writes' # <<"connect">> /\ writes # <<"connect">>
    BY <1>7, <2>1, SendsOnly
  <2>3. /\ Elems(h) = Elems(w) \cup Elems(r) /\ h \in Seq(Ops)
        /\ Has(h, ChainOps) <=> Has(r, ChainOps)
        /\ AtMostOne(r, ChainOps) => AtMostOne(h, ChainOps)
    <3>1. AtMostOne(w, ChainOps)
      BY <2>2, HasNone
    <3>2. Elems(h) = Elems(w) \cup Elems(r) /\ h \in Seq(Ops)
      BY <1>2, <1>3, <1>4, ElemsOfConcat
    <3>3. /\ Has(h, ChainOps) <=> Has(w, ChainOps) \/ Has(r, ChainOps)
          /\ AtMostOne(w, ChainOps) /\ AtMostOne(r, ChainOps)
               /\ ~(Has(w, ChainOps) /\ Has(r, ChainOps))
               => AtMostOne(h, ChainOps)
      BY <1>2, <1>3, <1>4, HasConcat
    <3> QED BY <2>2, <3>1, <3>2, <3>3
  <2>4. /\ AtMostOne(r, ChainOps)
        /\ Has(r, ChainOps) => reads # <<>> /\ reads' = <<>>
    BY <1>1, <1>5, HasEmpty
  <2>5. /\ Has(h, ChainOps) => Waits /\ ~Waits'
        /\ Waits' => Waits
    BY <1>5, <2>2, <2>3, <2>4 DEF Waits
  <2>6. reads' \in {<<>>, <<"read">>}
    BY <1>1, <1>5 DEF StateType
  <2> QED BY <1>1, <1>2, <1>3, <1>4, <2>1, <2>2, <2>3, <2>4, <2>5, <2>6 DEF w, r, h
<1> QED BY <1>1, <1>6, <1>7 DEF StateType

LEMMA PerformIoSession ==
  ASSUME SessionInv, NEW t \in Threads, PerformIo(t)
  PROVE  TypeInv' /\ Parts'
<1>1. PICK n \in 0..Len(writes), k \in 0..Len(reads) : IoStep(t, n, k)
  BY PerformIoSteps
<1> DEFINE h == Batch(n, k)
<1>2. /\ TypeInv /\ OnceInv /\ SiteInv /\ PhaseInv /\ t \in Actors /\ t # User
      /\ pc[t] = "io" /\ ~Holding(t) /\ ~Drives(t)
      /\ Uses(Range(Got(k)), Range(Sent(n)))
      /\ writes' = Rest(writes, n) /\ reads' = Rest(reads, k)
      /\ ec' = [o \in Ops |-> IF o \in Range(h) THEN Outcome(o) ELSE ec[o]]
      /\ ev' = [ev EXCEPT ![t] = {}]
      /\ UNCHANGED <<conn, pending, met, out, shut, impl, chain, raced, fate>>
  BY <1>1, NamesApart
     DEF SessionInv, ChainInv, IoStep, Holding, Drives, Driving, Reopening
<1>3. /\ h \in Seq(Ops) /\ Elems(h) \subseteq Allowed
      /\ AtMostOne(h, ChainOps)
      /\ Has(h, ChainOps) => Waits /\ ~Waits'
      /\ Waits' => Waits
      /\ reads' \in {<<>>, <<"read">>}
      /\ writes' = <<"connect">> \/ writes' \in Seq(Writes)
      /\ ~(reads' # <<>> /\ writes' = <<"connect">>)
      /\ Elems(reads') \subseteq Allowed /\ Elems(writes') \subseteq Allowed
  BY <1>2, IoQueues
<1>4. UNCHANGED <<open, attached, phase, tries>>
  BY <1>2 DEF impl, chain
<1>5. \/ h = <<>> /\ Go(t, "idle") /\ UNCHANGED <<arg, queue>>
      \/ /\ h # <<>> /\ Go(t, "run") /\ arg' = [arg EXCEPT ![t] = <<Head(h)>>]
         /\ queue' = queue \o [i \in 1..Len(h) - 1 |-> Done(h[i + 1])]
  BY <1>1 DEF IoStep
<1> HIDE DEF h
<1>6. KernelType' /\ StateType' /\ SessionType'
  <2>1. data' \in BOOLEAN /\ space' \in BOOLEAN
    BY <1>2, UsesType DEF TypeInv
  <2>2. KernelType'
    BY <1>2, <2>1 DEF TypeInv, KernelType
  <2>3. StateType'
    BY <1>2, <1>3, <1>4 DEF TypeInv, StateType
  <2>4. ec' \in [Ops -> Codes]
    <3>1. \A o : Outcome(o) \in Codes
      BY OutcomeType DEF Codes
    <3> QED BY <1>2, <3>1 DEF TypeInv, SessionType
  <2> QED BY <1>2, <1>4, <2>2, <2>3, <2>4 DEF TypeInv, SessionType
<1>7. ev' \in [Threads -> SUBSET Flags]
  BY <1>2 DEF TypeInv, ActorType
<1>8. CASE h = <<>> /\ Go(t, "idle") /\ UNCHANGED <<arg, queue>>
  <2> DEFINE l == "idle"
             s == <<>>
  <2>1. arg[t] = s
    BY <1>2, IdleHand
  <2>2. /\ PcArg(t, l, s) /\ Elems(s) = {} /\ ~Driving(l, s)
        /\ l \in PcValues /\ l \notin {"task", "found"} /\ l \notin Reopening
        /\ s \in Seq(Ops)
    <3>1. /\ l \in PcValues /\ l \notin {"task", "found"} /\ l \notin Reopening
          /\ l \notin {"look", "lock", "run"}
      BY DEF PcValues, Reopening
    <3> HIDE DEF l
    <3> QED BY <1>2, <3>1, EmptyHand
  <2>3. arg' = [arg EXCEPT ![t] = s] /\ Go(t, l)
    BY <1>2, <1>8, <2>1, SameHand
  <2> HIDE DEF l, s
  <2>4. /\ Moves(t, l, s) /\ pc' \in [Actors -> PcValues]
        /\ arg' \in [Actors -> Seq(Ops)]
    BY <1>2, <2>2, <2>3, GoesBoth
  <2>5. PcInv'
    BY <1>2, <2>2, <2>4, MovesHand DEF SessionInv
  <2>6. TaskInv'
    <3>1. AtMostOne(queue', {Task}) /\ (Has(queue', {Task}) <=> Has(queue, {Task}))
      BY <1>8 DEF SessionInv, TaskInv
    <3> QED BY <1>2, <2>2, <2>4, <3>1, MovesTask DEF SessionInv
  <2>7. PhaseInv'
    BY <1>2, <1>3, <1>4, <1>8, <2>2, <2>4, MovesPhase DEF PhaseInv
  <2>8. /\ \A u \in Threads : Drives(u)' => Drives(u)
        /\ Aborts' <=> Aborts
        /\ arg'[User] = arg[User]
    BY <1>2, <2>2, <2>4, MovesSites
  <2>9. OnceInv'
    BY <1>2, <1>8, <2>8 DEF OnceInv
  <2>10. SiteInv'
    <3>1. InQueue' <=> InQueue
      BY <1>8 DEF InQueue
    <3> QED BY <1>2, <1>3, <2>8, <3>1 DEF SiteInv
  <2>11. ActorType' /\ queue' \in Seq(Entries)
    BY <1>2, <1>7, <1>8, <2>4 DEF TypeInv, ActorType
  <2> QED BY <1>6, <2>5, <2>6, <2>7, <2>9, <2>10, <2>11
          DEF TypeInv, Parts, ChainInv
<1>9. CASE /\ h # <<>> /\ Go(t, "run") /\ arg' = [arg EXCEPT ![t] = <<Head(h)>>]
           /\ queue' = queue \o [i \in 1..Len(h) - 1 |-> Done(h[i + 1])]
  <2> DEFINE l == "run"
             o == Head(h)
             s == <<o>>
             g == Tail(h)
  <2>1. /\ g \in Seq(Ops) /\ o \in Ops /\ Elems(g) \subseteq Allowed /\ o \in Allowed
        /\ Has(h, ChainOps) <=> Has(g, ChainOps) \/ o \in ChainOps
        /\ AtMostOne(g, ChainOps) /\ ~(Has(g, ChainOps) /\ o \in ChainOps)
    BY <1>3, <1>9, ElemsOfTail, HasTail
  <2>2. queue' = queue \o Posted(g)
    <3>1. Len(g) = Len(h) - 1 /\ \A i \in 1..Len(g) : g[i] = h[i + 1]
      BY <1>3, <1>9, HeadTailProperties
    <3>2. Posted(g) = [i \in 1..Len(h) - 1 |-> Done(h[i + 1])]
      BY <3>1 DEF Posted
    <3> QED BY <1>9, <3>2
  <2>3. /\ PcArg(t, l, s) /\ Elems(s) = {o} /\ (Driving(l, s) <=> o \in ChainOps)
        /\ l \notin {"task", "found"} /\ l \notin Reopening
    BY <1>2, <2>1, ElemsOfSingle, HasSingle DEF PcArg, Driving, Reopening
  <2>4. s \in Seq(Ops) /\ l \in PcValues
    BY <2>1 DEF PcValues
  <2>5. Go(t, l) /\ arg' = [arg EXCEPT ![t] = s]
    BY <1>9
  <2> HIDE DEF l, s, o, g
  <2>6. /\ Moves(t, l, s) /\ pc' \in [Actors -> PcValues]
        /\ arg' \in [Actors -> Seq(Ops)]
    BY <1>2, <2>4, <2>5, GoesBoth
  <2>7. /\ PcInv' /\ TaskInv' /\ PhaseInv' /\ queue' \in Seq(Entries)
        /\ AtMostOne(queue', ChainEntries)
        /\ InQueue' <=> InQueue \/ Has(g, ChainOps)
    <3>1. Has(g, ChainOps) => ~InQueue
      BY <1>2, <1>3, <2>1 DEF SiteInv
    <3>2. Elems(s) \subseteq Allowed
      BY <2>1, <2>3
    <3> QED BY <1>2, <1>3, <1>4, <2>1, <2>2, <2>3, <2>6, <3>1, <3>2, Posts
  <2>8. /\ \A u \in Threads : u # t => (Drives(u)' <=> Drives(u))
        /\ Drives(t)' <=> o \in ChainOps
        /\ Aborts' <=> Aborts
        /\ arg'[User] = arg[User]
    BY <1>2, <2>3, <2>6, MovesSites
  <2>9. OnceInv'
    BY <1>2, <2>7, <2>8 DEF OnceInv
  <2>10. SiteInv'
    BY <1>2, <1>3, <2>1, <2>7, <2>8 DEF SiteInv
  <2>11. ActorType'
    BY <1>7, <2>6 DEF ActorType
  <2> QED BY <1>6, <2>7, <2>9, <2>10, <2>11 DEF TypeInv, Parts, ChainInv
<1> QED BY <1>5, <1>8, <1>9

-----------------------------------------------------------------------------
(***************************************************************************)
(* The handlers, and the application's calls.                              *)
(***************************************************************************)

(* While a thread drives the chain there is nothing else but sends.        *)
LEMMA Alone ==
  ASSUME SessionInv, NEW t \in Threads, Drives(t)
  PROVE  /\ \A b \in Actors : b # t => Elems(arg[b]) \subseteq Writes
         /\ reads = <<>> /\ writes \in Seq(Writes) /\ Elems(writes) \subseteq Writes
         /\ \A o \in Ops : Done(o) \in Elems(queue) => o \in Writes
         /\ Resolved \notin Elems(queue)
         /\ \A u \in Threads : u # t => ~Reopens(u)
         /\ ~InQueue /\ ~Waits /\ ~Aborts /\ ~Holding(t)
<1>1. /\ \A u \in Threads : Drives(u) => u = t
      /\ ~InQueue /\ ~Waits /\ ~Aborts
      /\ \A a \in Actors : PcArg(a, pc[a], arg[a]) /\ arg[a] \in Seq(Ops)
      /\ StateType
  BY DEF SessionInv, ChainInv, SiteInv, PcInv, TypeInv, ActorType
<1>2. ASSUME NEW b \in Actors, b # t PROVE Elems(arg[b]) \subseteq Writes
  <2>1. ASSUME Has(arg[b], ChainOps) PROVE FALSE
    <3>1. b \in Threads
      BY <1>1, <2>1, NamesApart DEF Aborts
    <3>2. arg[b] # <<>>
      BY <2>1, HasEmpty
    <3>3. pc[b] \in {"look", "lock", "run"}
      BY <1>1, <3>1, <3>2, NamesApart DEF PcArg
    <3>4. Drives(b)
      BY <2>1, <3>3 DEF Drives, Driving
    <3> QED BY <1>1, <1>2, <3>1, <3>4
  <2>2. Elems(arg[b]) \subseteq Ops
    BY <1>1, ElemsType
  <2> QED BY <2>1, <2>2, NamesApart DEF Has
<1>3. reads = <<>> /\ writes \in Seq(Writes)
  BY <1>1 DEF StateType, Waits
<1>4. Elems(writes) \subseteq Writes
  BY <1>3, ElemsType
<1>5. \A o \in Ops : Done(o) \in Elems(queue) => o \in Writes
  <2>1. ASSUME NEW o \in Ops, Done(o) \in Elems(queue), o \in ChainOps PROVE FALSE
    <3>1. Done(o) \in ChainEntries
      BY <2>1, EntryFacts
    <3> QED BY <1>1, <2>1, <3>1 DEF InQueue, Has
  <2> QED BY <2>1, NamesApart
<1>6. Resolved \notin Elems(queue)
  BY <1>1, EntryFacts DEF InQueue, Has
<1>7. \A u \in Threads : u # t => ~Reopens(u)
  BY <1>1 DEF Reopens, Drives, Driving, Reopening
<1>8. ~Holding(t)
  BY DEF Drives, Driving, Holding, Reopening
<1> QED BY <1>1, <1>2, <1>3, <1>4, <1>5, <1>6, <1>7, <1>8

(* The chain goes on to another phase.                                     *)
LEMMA ChainGoesOn ==
  ASSUME SessionInv, NEW t \in Threads, Drives(t), NEW l \in PcValues,
         NEW s \in Seq(Ops), Go(t, l), arg' = [arg EXCEPT ![t] = s],
         UNCHANGED <<queue, reads, writes>>, phase' \in {"reading", "over"},
         l \notin Reopening, l \notin {"task", "found"}, PcArg(t, l, s),
         Elems(s) \subseteq Allowed'
  PROVE  Parts' /\ queue' \in Seq(Entries)
         /\ pc' \in [Actors -> PcValues] /\ arg' \in [Actors -> Seq(Ops)]
<1>1. /\ PcInv /\ TaskInv /\ OnceInv /\ SiteInv /\ TypeInv /\ t \in Actors
      /\ t # User
  BY NamesApart DEF SessionInv, ChainInv
<1>2. /\ Moves(t, l, s) /\ pc' \in [Actors -> PcValues]
      /\ arg' \in [Actors -> Seq(Ops)]
  BY <1>1, GoesBoth
<1>3. PcInv'
  BY <1>1, <1>2, MovesHand
<1>4. TaskInv'
  <2>1. AtMostOne(queue', {Task}) /\ (Has(queue', {Task}) <=> Has(queue, {Task}))
    BY <1>1 DEF TaskInv
  <2>2. ~Holding(t)
    BY Alone
  <2> QED BY <1>1, <1>2, <2>1, <2>2, MovesTask
<1>5. PhaseInv'
  <2>1. Writes \subseteq Allowed'
    BY DEF Allowed
  <2>2. \A b \in Actors : Elems(arg'[b]) \subseteq Allowed'
    BY <1>2, <2>1, Alone DEF Moves
  <2>3. Elems(reads') \subseteq Allowed' /\ Elems(writes') \subseteq Allowed'
    BY <2>1, Alone, ElemsOfEmpty
  <2>4. /\ \A o \in Ops : Done(o) \in Elems(queue') => o \in Allowed'
        /\ Resolved \notin Elems(queue')
    BY <2>1, Alone
  <2>5. \A u \in Threads : ~Reopens(u)'
    <3>1. SUFFICES ASSUME NEW u \in Threads, pc'[u] \in Reopening PROVE FALSE
      BY DEF Reopens, Reopening
    <3>2. u # t
      BY <1>2, <3>1 DEF Moves
    <3>3. pc[u] \in Reopening
      BY <1>2, <3>1, <3>2, NamesApart DEF Moves
    <3> QED BY <3>2, <3>3, Alone DEF Reopens, Reopening
  <2> QED BY <2>2, <2>3, <2>4, <2>5 DEF PhaseInv
<1>6. /\ \A u \in Threads : Drives(u)' => Drives(u)
      /\ Aborts' <=> Aborts
      /\ arg'[User] = arg[User]
  BY <1>1, <1>2, MovesSites
<1>7. OnceInv'
  BY <1>1, <1>6 DEF OnceInv
<1>8. SiteInv'
  <2>1. (InQueue' <=> InQueue) /\ (Waits' <=> Waits)
    BY DEF InQueue, Waits
  <2> QED BY <1>1, <1>6, <2>1 DEF SiteInv
<1>9. queue' \in Seq(Entries)
  BY <1>1 DEF TypeInv
<1> QED BY <1>2, <1>3, <1>4, <1>5, <1>7, <1>8, <1>9 DEF Parts, ChainInv

(* A completion handler has its operation in hand.                         *)
LEMMA HandlerFacts ==
  ASSUME SessionInv, NEW t \in Threads, NEW o \in Ops, Completes(t, o)
  PROVE  /\ pc[t] = "run" /\ arg[t] = <<o>> /\ o \in Allowed /\ ~Holding(t)
         /\ ~Reopens(t)
         /\ o \in ChainOps => Drives(t)
<1>1. pc[t] = "run" /\ arg[t] = <<o>> /\ arg[t][1] = o /\ t \in Actors
  BY NamesApart DEF Completes
<1>2. o \in Allowed /\ (o \in ChainOps => Drives(t))
  BY <1>1, HandFacts
<1> QED BY <1>1, <1>2 DEF Holding, Reopens

LEMMA ConnectHandlerSession ==
  ASSUME SessionInv, NEW t \in Threads, ConnectHandler(t)
  PROVE  TypeInv' /\ Parts'
<1>1. /\ TypeInv /\ t \in Actors /\ t # User /\ Completes(t, "connect")
      /\ UNCHANGED <<kernel, state, impl, queue, ev, ec, raced, fate>>
      /\ "connect" \in Ops /\ "connect" \in ChainOps /\ "read" \in Ops
  BY NamesApart DEF SessionInv, ConnectHandler, Runs, ChainOps
<1>2. /\ pc[t] = "run" /\ "connect" \in Allowed /\ ~Holding(t) /\ Drives(t)
  BY <1>1, HandlerFacts
<1>3. phase = "connecting"
  BY <1>2, PhaseFacts
<1>4. /\ UNCHANGED <<reads, writes, out, shut, open, attached>>
      /\ UNCHANGED <<conn, data, space, pending, met>>
  BY <1>1 DEF state, impl, kernel
<1>5. KernelType' /\ StateType'
  BY <1>1, <1>4, TypesStay
<1>6. \/ phase' = "over" /\ UNCHANGED tries /\ Ends(t)
      \/ phase' = "reading" /\ UNCHANGED tries /\ Reads(t)
      \/ /\ tries > 1 /\ tries' = tries - 1 /\ UNCHANGED phase
         /\ Go(t, "close") /\ arg' = [arg EXCEPT ![t] = <<>>]
  BY DEF ConnectHandler
<1>7. CASE phase' = "over" /\ UNCHANGED tries /\ Ends(t)
  <2> DEFINE l == "idle"
             s == <<>>
  <2>1. /\ l \in PcValues /\ l \notin {"task", "found"} /\ l \notin Reopening
        /\ s \in Seq(Ops) /\ Go(t, l) /\ arg' = [arg EXCEPT ![t] = s]
    BY <1>7 DEF Ends, PcValues, Reopening
  <2>2. PcArg(t, l, s) /\ Elems(s) \subseteq Allowed'
    BY <1>1, ElemsOfEmpty DEF PcArg
  <2> HIDE DEF l, s
  <2>3. Parts' /\ queue' \in Seq(Entries)
        /\ pc' \in [Actors -> PcValues] /\ arg' \in [Actors -> Seq(Ops)]
    BY <1>1, <1>2, <1>4, <1>7, <2>1, <2>2, ChainGoesOn
  <2>4. ActorType' /\ SessionType'
    BY <1>1, <1>7, <2>3 DEF TypeInv, ActorType, SessionType
  <2> QED BY <1>5, <2>3, <2>4 DEF TypeInv
<1>8. CASE phase' = "reading" /\ UNCHANGED tries /\ Reads(t)
  <2> DEFINE l == "look"
             s == <<"read">>
  <2>1. /\ l \in PcValues /\ l \notin {"task", "found"} /\ l \notin Reopening
        /\ s \in Seq(Ops) /\ Go(t, l) /\ arg' = [arg EXCEPT ![t] = s]
    BY <1>1, <1>8 DEF Reads, PcValues, Reopening
  <2>2. PcArg(t, l, s)
    BY <1>1 DEF PcArg
  <2>3. Elems(s) \subseteq Allowed'
    BY <1>8, ElemsOfSingle DEF Allowed
  <2> HIDE DEF l, s
  <2>4. Parts' /\ queue' \in Seq(Entries)
        /\ pc' \in [Actors -> PcValues] /\ arg' \in [Actors -> Seq(Ops)]
    BY <1>1, <1>2, <1>4, <1>8, <2>1, <2>2, <2>3, ChainGoesOn
  <2>5. ActorType' /\ SessionType'
    BY <1>1, <1>8, <2>4 DEF TypeInv, ActorType, SessionType
  <2> QED BY <1>5, <2>4, <2>5 DEF TypeInv
<1>9. CASE /\ tries > 1 /\ tries' = tries - 1 /\ UNCHANGED phase
           /\ Go(t, "close") /\ arg' = [arg EXCEPT ![t] = <<>>]
  <2> DEFINE l == "close"
             s == <<>>
  <2>1. /\ l \in PcValues /\ l \notin {"task", "found"}
        /\ s \in Seq(Ops) /\ Walks(t, l, s)
    BY <1>1, <1>4, <1>9 DEF PcValues, Walks
  <2>2. PcArg(t, l, s) /\ Elems(s) \subseteq Allowed
    BY <1>1, ElemsOfEmpty DEF PcArg
  <2> HIDE DEF l, s
  <2>3. Parts' /\ queue' \in Seq(Entries)
        /\ pc' \in [Actors -> PcValues] /\ arg' \in [Actors -> Seq(Ops)]
    BY <1>1, <1>2, <1>3, <2>1, <2>2, WalksParts
  <2>4. tries' \in 0..MaxEndpoints
    BY <1>1, <1>9, ReactorAssumption DEF TypeInv, SessionType
  <2>5. ActorType' /\ SessionType'
    BY <1>1, <1>9, <2>3, <2>4 DEF TypeInv, ActorType, SessionType
  <2> QED BY <1>5, <2>3, <2>5 DEF TypeInv
<1> QED BY <1>6, <1>7, <1>8, <1>9

LEMMA ReadHandlerSession ==
  ASSUME SessionInv, NEW t \in Threads, ReadHandler(t)
  PROVE  TypeInv' /\ Parts'
<1>1. /\ TypeInv /\ t \in Actors /\ t # User /\ Completes(t, "read")
      /\ UNCHANGED <<kernel, state, impl, queue, ev, ec, tries, raced, fate>>
      /\ "read" \in ChainOps /\ "read" \in Ops
  BY NamesApart DEF SessionInv, ReadHandler, Runs, ChainOps
<1>2. /\ pc[t] = "run" /\ "read" \in Allowed /\ ~Holding(t) /\ Drives(t)
  BY <1>1, HandlerFacts
<1>3. /\ UNCHANGED <<reads, writes, out, shut, open, attached>>
      /\ UNCHANGED <<conn, data, space, pending, met>>
  BY <1>1 DEF state, impl, kernel
<1>4. KernelType' /\ StateType'
  BY <1>1, <1>3, TypesStay
<1>5. (Reads(t) /\ UNCHANGED phase) \/ (phase' = "over" /\ Ends(t))
  BY DEF ReadHandler
<1>6. CASE Reads(t) /\ UNCHANGED phase
  <2> DEFINE l == "look"
             s == <<"read">>
  <2>1. /\ l \in PcValues /\ l \notin {"task", "found"} /\ l \notin Reopening
        /\ s \in Seq(Ops) /\ Walks(t, l, s)
    BY <1>1, <1>3, <1>6 DEF Reads, PcValues, Reopening, Walks
  <2>2. PcArg(t, l, s)
    BY <1>1 DEF PcArg
  <2>3. Elems(s) \subseteq Allowed
    BY <1>2, ElemsOfSingle
  <2> HIDE DEF l, s
  <2>4. Parts' /\ queue' \in Seq(Entries)
        /\ pc' \in [Actors -> PcValues] /\ arg' \in [Actors -> Seq(Ops)]
    BY <1>1, <1>2, <2>1, <2>2, <2>3, WalksParts
  <2>5. ActorType' /\ SessionType'
    BY <1>1, <1>6, <2>4 DEF TypeInv, ActorType, SessionType
  <2> QED BY <1>4, <2>4, <2>5 DEF TypeInv
<1>7. CASE phase' = "over" /\ Ends(t)
  <2> DEFINE l == "idle"
             s == <<>>
  <2>1. /\ l \in PcValues /\ l \notin {"task", "found"} /\ l \notin Reopening
        /\ s \in Seq(Ops) /\ Go(t, l) /\ arg' = [arg EXCEPT ![t] = s]
    BY <1>7 DEF Ends, PcValues, Reopening
  <2>2. PcArg(t, l, s) /\ Elems(s) \subseteq Allowed'
    BY <1>1, ElemsOfEmpty DEF PcArg
  <2> HIDE DEF l, s
  <2>3. Parts' /\ queue' \in Seq(Entries)
        /\ pc' \in [Actors -> PcValues] /\ arg' \in [Actors -> Seq(Ops)]
    BY <1>1, <1>2, <1>3, <1>7, <2>1, <2>2, ChainGoesOn
  <2>4. ActorType' /\ SessionType'
    BY <1>1, <1>7, <2>3 DEF TypeInv, ActorType, SessionType
  <2> QED BY <1>4, <2>3, <2>4 DEF TypeInv
<1> QED BY <1>5, <1>6, <1>7

LEMMA WriteHandlerSession ==
  ASSUME SessionInv, NEW t \in Threads, WriteHandler(t)
  PROVE  TypeInv' /\ Parts'
<1>1. PICK w \in Writes : Completes(t, w)
  BY DEF WriteHandler
<1>2. w \in Ops /\ t \in Actors /\ t # User /\ TypeInv
  BY NamesApart DEF SessionInv
<1>3. pc[t] = "run" /\ ~Holding(t)
  BY <1>1, <1>2, HandlerFacts
<1>4. /\ UNCHANGED <<reads, writes, out, shut, open, attached>>
      /\ UNCHANGED <<conn, data, space, pending, met>>
      /\ UNCHANGED <<queue, ev, ec, phase, tries, raced, fate>>
  BY DEF WriteHandler, state, impl, kernel, chain, Runs
<1>5. Walks(t, "idle", <<>>)
  BY <1>4 DEF WriteHandler, Ends, Walks
<1>6. Parts' /\ queue' \in Seq(Entries)
      /\ pc' \in [Actors -> PcValues] /\ arg' \in [Actors -> Seq(Ops)]
  BY <1>2, <1>3, <1>5, EmptyWalk DEF PcValues, Reopening
<1>7. KernelType' /\ StateType' /\ ActorType' /\ SessionType'
  BY <1>2, <1>4, <1>6, TypesStay
<1> QED BY <1>6, <1>7 DEF TypeInv

LEMMA WriteSession ==
  ASSUME SessionInv, NEW w \in Writes, Write(w)
  PROVE  TypeInv' /\ Parts'
<1> DEFINE l == "look"
           s == <<w>>
<1>1. /\ TypeInv /\ User \in Actors /\ User \notin Threads /\ w \in Ops
      /\ w \notin ChainOps /\ phase = "reading"
  BY NamesApart DEF SessionInv, Write, ChainOps
<1>2. /\ UNCHANGED <<reads, writes, out, shut, open, attached>>
      /\ UNCHANGED <<conn, data, space, pending, met>>
      /\ UNCHANGED <<queue, ev, ec, phase, tries, raced, fate>>
  BY DEF Write, state, impl, kernel, chain, Runs
<1>3. /\ l \in PcValues /\ s \in Seq(Ops) /\ Walks(User, l, s)
  BY <1>1, <1>2 DEF Write, PcValues, Walks
<1>4. Elems(s) = {w} /\ ~Has(s, ChainOps) /\ w \in Allowed
  BY <1>1, ElemsOfSingle, HasSingle DEF Allowed
<1>5. PcArg(User, l, s)
  BY <1>1, <1>4 DEF PcArg
<1> HIDE DEF l, s
<1>6. Parts' /\ queue' \in Seq(Entries)
      /\ pc' \in [Actors -> PcValues] /\ arg' \in [Actors -> Seq(Ops)]
  BY <1>1, <1>3, <1>4, <1>5, WalksParts
<1>7. KernelType' /\ StateType' /\ ActorType' /\ SessionType'
  BY <1>1, <1>2, <1>6, TypesStay
<1> QED BY <1>6, <1>7 DEF TypeInv

LEMMA DisconnectSession ==
  ASSUME SessionInv, Disconnect
  PROVE  TypeInv' /\ Parts'
<1>1. /\ TypeInv /\ User \in Actors /\ User \notin Threads /\ pc[User] = "idle"
      /\ conn' \in {"shut", "dead"} /\ pending' = TRUE
  BY NamesApart DEF SessionInv, Disconnect
<1>2. /\ UNCHANGED <<reads, writes, out, shut, open, attached>>
      /\ UNCHANGED <<data, space, met>>
      /\ UNCHANGED <<queue, arg, ev, ec, phase, tries, raced, fate>>
  BY DEF Disconnect, state, impl, chain, Runs
<1>3. arg[User] = <<>>
  BY <1>1, IdleHand
<1>4. Walks(User, "close", <<>>)
  BY <1>1, <1>2, <1>3, SameHand DEF Disconnect, Walks
<1>5. Parts' /\ queue' \in Seq(Entries)
      /\ pc' \in [Actors -> PcValues] /\ arg' \in [Actors -> Seq(Ops)]
  BY <1>1, <1>4, EmptyWalk DEF PcValues
<1>6. StateType' /\ ActorType' /\ SessionType'
  BY <1>1, <1>2, <1>5, TypesStay
<1>7. KernelType'
  BY <1>1, <1>2 DEF TypeInv, KernelType, Conns
<1> QED BY <1>5, <1>6, <1>7 DEF TypeInv

(* The kernel's steps, and those that end the program.                     *)
LEMMA StillSession ==
  ASSUME SessionInv, UNCHANGED <<queue, pc, arg, reads, writes, phase>>
  PROVE  Parts'
<1>1. PcInv' /\ TaskInv'
  BY DEF SessionInv, PcInv, TaskInv, Holding
<1>2. Allowed' = Allowed
  BY DEF Allowed
<1>3. PhaseInv'
  BY <1>2 DEF SessionInv, PhaseInv, Reopens
<1>4. \A t \in Threads : Drives(t)' <=> Drives(t)
  BY DEF Drives
<1>5. (InQueue' <=> InQueue) /\ (Waits' <=> Waits) /\ (Aborts' <=> Aborts)
  BY DEF InQueue, Waits, Aborts
<1>6. ChainInv'
  BY <1>4, <1>5 DEF SessionInv, ChainInv, OnceInv, SiteInv
<1> QED BY <1>1, <1>3, <1>6 DEF Parts

LEMMA KernelSession ==
  ASSUME SessionInv, Kernel
  PROVE  TypeInv' /\ Parts'
<1>1. /\ UNCHANGED <<reads, writes, out, shut, open, attached>>
      /\ UNCHANGED <<queue, pc, arg, ev, ec, phase, tries, raced, fate>>
  BY DEF Kernel, Answer, Arrives, PeerEnds, Drains, state, impl, chain, Runs
<1>2. TypeInv
  BY DEF SessionInv
<1>3. KernelType'
  <2>1. CASE Answer
    BY <1>2, <2>1 DEF Answer, TypeInv, KernelType, Conns
  <2>2. CASE Arrives
    BY <1>2, <2>2 DEF Arrives, TypeInv, KernelType, Conns
  <2>3. CASE PeerEnds
    BY <1>2, <2>3 DEF PeerEnds, TypeInv, KernelType, Conns
  <2>4. CASE Drains
    BY <1>2, <2>4 DEF Drains, TypeInv, KernelType, StateType, Conns
  <2> QED BY <2>1, <2>2, <2>3, <2>4 DEF Kernel
<1>4. StateType' /\ ActorType' /\ SessionType' /\ queue' \in Seq(Entries)
  BY <1>1, <1>2 DEF TypeInv, StateType, ActorType, SessionType
<1>5. Parts'
  BY <1>1, StillSession
<1> QED BY <1>3, <1>4, <1>5 DEF TypeInv

LEMMA EndsSession ==
  ASSUME SessionInv, Torn \/ (\E a \in Actors : LockNull(a)) \/ UNCHANGED vars
  PROVE  TypeInv' /\ Parts'
<1>1. /\ UNCHANGED <<reads, writes, out, shut, open, attached>>
      /\ UNCHANGED <<conn, data, space, pending, met>>
      /\ UNCHANGED <<queue, pc, arg, ev, ec, phase, tries, raced>>
      /\ fate' = fate \/ fate' \in {"null", "torn"}
  BY DEF Torn, LockNull, vars, kernel, state, impl, chain
<1>2. TypeInv'
  BY <1>1 DEF SessionInv, TypeInv, KernelType, StateType, ActorType, SessionType
<1> QED BY <1>1, <1>2, StillSession

LEMMA SessionInit ==
  ASSUME Init
  PROVE  SessionInv
<1> DEFINE a == <<Task, Resolved>>
           b == <<Resolved, Task>>
           e == <<>>
<1>1. /\ queue = a \/ queue = b
      /\ a \in Seq(Entries) /\ b \in Seq(Entries) /\ e \in Seq(Ops)
      /\ reads = e /\ writes = e /\ e \in Seq(Writes)
      /\ Elems(e) = {} /\ ~Has(e, ChainOps) /\ AtMostOne(e, ChainOps)
      /\ e # <<"connect">>
  BY EntryFacts, ElemsOfEmpty, HasEmpty DEF Init
<1>2. /\ Task # Resolved /\ Task \notin ChainEntries /\ Resolved \in ChainEntries
      /\ \A o \in Ops : Done(o) # Task /\ Done(o) # Resolved
  BY EntryFacts
<1>3. \A s \in {a, b} : /\ Elems(s) = {Task, Resolved}
                        /\ AtMostOne(s, {Task}) /\ AtMostOne(s, ChainEntries)
  BY <1>2 DEF Elems, AtMostOne
<1>4. \A x \in Actors : pc[x] = "idle" /\ arg[x] = e
  BY DEF Init
<1>5. TypeInv
  <2>1. KernelType
    BY DEF Init, KernelType, Conns
  <2>2. StateType
    <3>1. reads = <<>> /\ writes \in Seq(Writes)
      BY <1>1
    <3>2. /\ out \in BOOLEAN /\ shut \in BOOLEAN
          /\ open \in BOOLEAN /\ attached \in BOOLEAN
      BY DEF Init
    <3> QED BY <3>1, <3>2 DEF StateType
  <2>3. pc \in [Actors -> PcValues] /\ ev \in [Threads -> SUBSET Flags]
    BY DEF Init, PcValues
  <2>4. arg \in [Actors -> Seq(Ops)]
    BY <1>1 DEF Init
  <2>5. SessionType
    <3>1. 0 \in 0..MaxEndpoints
      BY ReactorAssumption
    <3>2. ec \in [Ops -> Codes] /\ tries = 0
      BY DEF Init, Codes
    <3> QED BY <3>1, <3>2 DEF Init, SessionType
  <2> QED BY <1>1, <2>1, <2>2, <2>3, <2>4, <2>5 DEF TypeInv, ActorType
<1> HIDE DEF a, b
<1>6. PcInv
  BY <1>4 DEF PcInv, PcArg
<1> HIDE DEF e
<1>7. TaskInv
  BY <1>1, <1>3, <1>4, NamesApart DEF TaskInv, Holding, Has
<1>8. PhaseInv
  <2>1. phase = "resolving"
    BY DEF Init
  <2> QED BY <1>1, <1>2, <1>3, <1>4, <2>1, NamesApart DEF PhaseInv, Reopens
<1>9. ChainInv
  <2>1. \A t \in Threads : ~Drives(t)
    BY <1>4, NamesApart DEF Drives, Driving, Reopening
  <2>2. ~Waits /\ ~Aborts /\ AtMostOne(arg[User], ChainOps)
    BY <1>1, <1>4, NamesApart DEF Waits, Aborts, e
  <2>3. AtMostOne(queue, ChainEntries)
    BY <1>1, <1>3
  <2> QED BY <1>1, <2>1, <2>2, <2>3 DEF ChainInv, OnceInv, SiteInv
<1> QED BY <1>5, <1>6, <1>7, <1>8, <1>9 DEF SessionInv

LEMMA SessionStep ==
  ASSUME SessionInv, [Next]_vars
  PROVE  SessionInv'
<1>1. \A t \in Threads : t \in Actors
  BY NamesApart
<1>2. User \in Actors
  BY NamesApart
<1>3. ASSUME NEW t \in Threads, Service(t) PROVE TypeInv' /\ Parts'
  BY <1>1, <1>3, TakeSession, EpollWaitSession, QueueFoundSession,
     PerformIoSession, LookSession, LockSession, DeregisterSession, FreeSession,
     CloseFdSession, OpenSession, DialSession, ConnectHandlerSession,
     ReadHandlerSession, WriteHandlerSession, EndsSession DEF Service
<1>4. ASSUME Call PROVE TypeInv' /\ Parts'
  BY <1>2, <1>4, LookSession, LockSession, DeregisterSession, FreeSession,
     CloseFdSession, EndsSession DEF Call
<1>5. TypeInv' /\ Parts'
  BY <1>3, <1>4, KernelSession, DisconnectSession, WriteSession, EndsSession
     DEF Next
<1> QED BY <1>5 DEF SessionInv, Parts

-----------------------------------------------------------------------------
(***************************************************************************)
(* The descriptor_state and those who look at it.                          *)
(***************************************************************************)

(* Who starts an operation does so while nobody opens the socket.          *)
LEMMA NoReopens ==
  ASSUME SessionInv, NEW a \in Actors, pc[a] \in {"look", "lock", "run"},
         pc[a] # "run" \/ (a \in Threads /\ Drives(a))
  PROVE  \A t \in Threads : ~Reopens(t)
<1> SUFFICES ASSUME NEW t \in Threads, Reopens(t) PROVE FALSE
  OBVIOUS
<1>1. /\ Allowed = {"connect"} /\ pc[User] \notin {"look", "lock"}
      /\ \A u \in Threads : Drives(u) => u = t
  BY ReopenFacts
<1>2. a \in Threads
  BY <1>1, NamesApart
<1>3. arg[a][1] \in Allowed /\ (arg[a][1] \in ChainOps => Drives(a))
  BY HandFacts
<1>4. a = t
  BY <1>1, <1>2, <1>3 DEF ChainOps
<1> QED BY <1>4 DEF Reopens

(* A step of an actor that neither comes from nor goes to a place at which *)
(* the descriptor_state is looked at or shut down.                         *)
LEMMA Harmless ==
  ASSUME SessionInv, ShutInv, RaceInv, NEW a \in Actors, NEW l, Go(a, l),
         l \notin {"free", "closefd", "open", "lock"},
         pc[a] \notin {"free", "closefd"},
         UNCHANGED <<shut, attached, open, fate>>,
         shut \/ ~attached => reads' = <<>> /\ writes' = <<>>,
         writes' # <<>> => out',
         raced => raced', \A o \in Ops : ec'[o] = "empty" => raced',
         a \in Threads /\ l \in Reopening
           => Reopens(a) \/ pc[User] \notin {"free", "closefd"},
         phase' = "resolving" => phase = "resolving",
         a = User => phase # "resolving"
  PROVE  ShutInv' /\ RaceInv'
<1>1. /\ pc'[a] = l /\ \A b \in Actors : b # a => pc'[b] = pc[b]
      /\ User \in Actors /\ Threads \subseteq Actors /\ User \notin Threads
  BY NamesApart DEF SessionInv, TypeInv, ActorType, Go
<1>2. \A b \in Actors : /\ pc'[b] = "free" => shut
                        /\ pc'[b] = "closefd" => shut \/ ~attached
                        /\ pc'[b] = "open" => ~attached
  BY <1>1 DEF ShutInv
<1>3. attached /\ shut => \E b \in Actors : pc'[b] = "free"
  BY <1>1 DEF ShutInv
<1>4. pc'[User] \in {"free", "closefd"} => \A t \in Threads : ~Reopens(t)'
  <2>1. SUFFICES ASSUME pc'[User] \in {"free", "closefd"}, NEW t \in Threads,
                        pc'[t] \in Reopening
                 PROVE  FALSE
    BY DEF Reopens, Reopening
  <2>2. pc[User] \in {"free", "closefd"} /\ a # User
    BY <1>1, <2>1
  <2>3. ~Reopens(t) /\ ~(pc[t] \in Reopening)
    BY <2>2 DEF ShutInv, Reopens, Reopening
  <2>4. t = a
    BY <1>1, <2>1, <2>3
  <2> QED BY <1>1, <2>1, <2>2, <2>3, <2>4
<1>5. phase' = "resolving" => ~open /\ pc'[User] = "idle"
  BY <1>1 DEF ShutInv
<1>6. \A b \in Actors : pc'[b] = "lock" /\ (shut \/ ~attached) => raced'
  BY <1>1 DEF RaceInv
<1>7. fate = "null" => raced'
  BY DEF RaceInv
<1> QED BY <1>2, <1>3, <1>4, <1>5, <1>6, <1>7 DEF ShutInv, RaceInv

(* What Harmless needs of steps that leave the descriptor_state alone.     *)
LEMMA QuietState ==
  ASSUME SessionInv, ShutInv, RaceInv, UNCHANGED <<shut, attached, out>>,
         UNCHANGED <<reads, writes>>, raced => raced',
         \A o \in Ops : ec'[o] = "empty" => ec[o] = "empty" \/ raced
  PROVE  /\ shut \/ ~attached => reads' = <<>> /\ writes' = <<>>
         /\ writes' # <<>> => out'
         /\ \A o \in Ops : ec'[o] = "empty" => raced'
BY DEF ShutInv, RaceInv

Marks == ShutInv' /\ RaceInv'

LEMMA TakeMarks ==
  ASSUME SessionInv, ShutInv, RaceInv, NEW t \in Threads, Take(t)
  PROVE  Marks
<1>1. /\ pc[t] = "idle" /\ t \in Actors /\ t # User
      /\ UNCHANGED <<shut, attached, open, fate, out, reads, writes, raced, ec>>
  BY NamesApart DEF Take, Runs, state, impl
<1>2. PICK l \in {"task", "io", "run", "close"} :
        /\ Go(t, l)
        /\ phase' = "resolving" => phase = "resolving"
        /\ l = "close" => Head(queue) = Resolved
  BY DEF Take, chain
<1>3. l = "close" => pc[User] \notin {"free", "closefd"}
  <2>1. SUFFICES ASSUME l = "close" PROVE pc[User] = "idle"
    OBVIOUS
  <2>2. Resolved \in Elems(queue)
    BY <1>2, <2>1, Takes DEF SessionInv, TypeInv, Take
  <2> QED BY <2>2 DEF SessionInv, PhaseInv, ShutInv
<1>4. /\ shut \/ ~attached => reads' = <<>> /\ writes' = <<>>
      /\ writes' # <<>> => out'
      /\ raced => raced'
      /\ \A o \in Ops : ec'[o] = "empty" => raced'
  BY <1>1, QuietState
<1>5. t \in Threads /\ l \in Reopening
        => Reopens(t) \/ pc[User] \notin {"free", "closefd"}
  BY <1>2, <1>3 DEF Reopening
<1> QED BY <1>1, <1>2, <1>4, <1>5, Harmless DEF Marks

(* Steps of a thread that change neither the socket nor the phase.         *)
LEMMA ThreadMarks ==
  ASSUME SessionInv, ShutInv, RaceInv, NEW t \in Threads,
         EpollWait(t) \/ QueueFound(t) \/ Dial(t) \/ ReadHandler(t)
           \/ WriteHandler(t)
  PROVE  Marks
<1>1. /\ t \in Actors /\ t # User /\ pc[t] \notin {"free", "closefd"}
      /\ UNCHANGED <<shut, attached, open, fate, out, reads, writes, raced>>
  BY NamesApart DEF EpollWait, QueueFound, Dial, ReadHandler, WriteHandler,
                    Completes, Runs, state, impl
<1>2. PICK l \in {"found", "idle", "look"} : Go(t, l)
  BY DEF EpollWait, QueueFound, Dial, ReadHandler, WriteHandler, Started, Ends,
         Reads
<1>3. phase' = "resolving" => phase = "resolving"
  BY DEF EpollWait, QueueFound, Dial, ReadHandler, WriteHandler, chain
<1>4. \A o \in Ops : ec'[o] = "empty" => ec[o] = "empty"
  <2>1. ec \in [Ops -> Codes]
    BY DEF SessionInv, TypeInv, SessionType
  <2>2. ec' = ec \/ ec' = [ec EXCEPT !["connect"] = "error"]
    BY DEF EpollWait, QueueFound, Dial, ReadHandler, WriteHandler, Post
  <2> QED BY <2>1, <2>2
<1>5. /\ shut \/ ~attached => reads' = <<>> /\ writes' = <<>>
      /\ writes' # <<>> => out'
      /\ raced => raced'
      /\ \A o \in Ops : ec'[o] = "empty" => raced'
  BY <1>1, <1>4, QuietState
<1>6. l \notin Reopening
  BY DEF Reopening
<1> QED BY <1>1, <1>2, <1>3, <1>5, <1>6, Harmless DEF Marks

LEMMA ConnectHandlerMarks ==
  ASSUME SessionInv, ShutInv, RaceInv, NEW t \in Threads, ConnectHandler(t)
  PROVE  Marks
<1>1. /\ t \in Actors /\ t # User /\ pc[t] = "run"
      /\ UNCHANGED <<shut, attached, open, fate, out, reads, writes, raced, ec>>
  BY NamesApart DEF ConnectHandler, Completes, Runs, state, impl
<1>2. PICK l \in {"idle", "look", "close"} :
        Go(t, l) /\ (l = "close" => pc[User] \notin {"free", "closefd"})
  BY DEF ConnectHandler, Ends, Reads
<1>3. phase' = "resolving" => phase = "resolving"
  BY DEF ConnectHandler
<1>4. /\ shut \/ ~attached => reads' = <<>> /\ writes' = <<>>
      /\ writes' # <<>> => out'
      /\ raced => raced'
      /\ \A o \in Ops : ec'[o] = "empty" => raced'
  BY <1>1, QuietState
<1>5. l \in Reopening => pc[User] \notin {"free", "closefd"}
  BY <1>2 DEF Reopening
<1> QED BY <1>1, <1>2, <1>3, <1>4, <1>5, Harmless DEF Marks

LEMMA PerformIoMarks ==
  ASSUME SessionInv, ShutInv, RaceInv, NEW t \in Threads, PerformIo(t)
  PROVE  Marks
<1>1. PICK n \in 0..Len(writes), k \in 0..Len(reads) : IoStep(t, n, k)
  BY PerformIoSteps
<1>2. /\ t \in Actors /\ t # User /\ pc[t] = "io"
      /\ UNCHANGED <<shut, attached, open, fate, out, raced, phase>>
      /\ writes' = Rest(writes, n) /\ reads' = Rest(reads, k)
  BY <1>1, NamesApart DEF IoStep, impl, chain
<1>3. PICK l \in {"idle", "run"} : Go(t, l)
  BY <1>1 DEF IoStep
<1>4. \A o \in Ops : ec'[o] = "empty" => raced'
  <2>1. \A o \in Ops : ec'[o] = Outcome(o) \/ ec'[o] = ec[o]
    BY <1>1 DEF IoStep
  <2> QED BY <1>2, <2>1, OutcomeType DEF RaceInv
<1>5. /\ reads = <<>> => reads' = <<>>
      /\ writes = <<>> => writes' = <<>>
  <2>1. reads \in Seq(Ops) /\ writes \in Seq(Ops)
    BY OpQueues DEF SessionInv, TypeInv
  <2>2. \A q \in Seq(Ops) : \A m \in 0..Len(q) : q = <<>> => Rest(q, m) = <<>>
    <3>1. SUFFICES ASSUME NEW q \in Seq(Ops), NEW m \in 0..Len(q), q = <<>>
                   PROVE  Rest(q, m) = <<>>
      OBVIOUS
    <3>2. Rest(q, m) \in Seq(Ops) /\ Len(Rest(q, m)) = Len(q) - m
      BY Splits
    <3>3. Len(q) = 0 /\ m = 0
      BY <3>1
    <3> QED BY <3>2, <3>3, EmptySeq
  <2> QED BY <1>2, <2>1, <2>2
<1>6. /\ shut \/ ~attached => reads' = <<>> /\ writes' = <<>>
      /\ writes' # <<>> => out'
  BY <1>2, <1>5 DEF ShutInv
<1>7. l \notin Reopening
  BY DEF Reopening
<1> QED BY <1>2, <1>3, <1>4, <1>6, <1>7, Harmless DEF Marks

(* Nobody starts an operation before the host name has been resolved.      *)
LEMMA LockResolved ==
  ASSUME ShutInv, pc[User] # "idle"
  PROVE  phase # "resolving"
BY DEF ShutInv

LEMMA LockMarks ==
  ASSUME SessionInv, ShutInv, RaceInv, NEW a \in Actors, Lock(a)
  PROVE  Marks
<1> DEFINE o == arg[a][1]
<1>1. /\ TypeInv /\ pc[a] = "lock" /\ attached /\ o \in Ops
      /\ HandsOver(a, o)
      /\ UNCHANGED <<open, attached, ev, phase, tries, raced, fate>>
      /\ StartWaits(a, o) \/ StartPerforms(a, o) \/ StartShut(a, o)
  BY LockFacts
<1> HIDE DEF o
<1>2. Go(a, "idle") /\ UNCHANGED shut
  BY <1>1 DEF StartWaits, StartPerforms, StartShut, Started, state
<1>3. ec \in [Ops -> Codes]
  BY DEF SessionInv, TypeInv, SessionType
<1>4. CASE StartWaits(a, o)
  <2>1. /\ ~shut /\ ec' = ec
        /\ (UNCHANGED writes /\ (out => out')) \/ out'
    BY <1>4 DEF StartWaits
  <2>2. writes' # <<>> => out'
    BY <2>1 DEF ShutInv
  <2>3. \A p \in Ops : ec'[p] = "empty" => raced'
    BY <1>1, <2>1 DEF RaceInv
  <2> QED BY <1>1, <1>2, <2>1, <2>2, <2>3, Harmless, LockResolved DEF Marks, Reopening
<1>5. CASE StartPerforms(a, o)
  <2>1. UNCHANGED <<out, reads, writes>> /\ ec' = [ec EXCEPT ![o] = Outcome(o)]
    BY <1>5 DEF StartPerforms, state, Post
  <2>2. \A p \in Ops : ec'[p] = "empty" => ec[p] = "empty"
    BY <1>3, <2>1, OutcomeType
  <2> QED BY <1>1, <1>2, <2>1, <2>2, QuietState, Harmless, LockResolved
          DEF Marks, Reopening
<1>6. CASE StartShut(a, o)
  <2>1. UNCHANGED <<out, reads, writes>> /\ shut
    BY <1>6 DEF StartShut, state
  <2>2. raced
    BY <1>1, <2>1 DEF RaceInv
  <2> QED BY <1>1, <1>2, <2>1, <2>2, QuietState, Harmless, LockResolved
          DEF Marks, Reopening
<1> QED BY <1>1, <1>4, <1>5, <1>6

LEMMA LookMarks ==
  ASSUME SessionInv, ShutInv, RaceInv, NEW a \in Actors, Look(a)
  PROVE  Marks
<1>1. /\ pc[a] = "look" /\ phase' = phase /\ raced \in BOOLEAN
      /\ UNCHANGED <<shut, attached, open, fate, out, reads, writes>>
      /\ a = User => phase # "resolving"
  BY LockResolved DEF Look, Runs, state, impl, chain, SessionInv, TypeInv, SessionType
<1>2. CASE ~attached /\ Started(a) /\ Post(arg[a][1], "error") /\ UNCHANGED raced
  <2>1. Go(a, "idle")
    BY <1>2 DEF Started
  <2>2. \A p \in Ops : ec'[p] = "empty" => ec[p] = "empty"
    <3>1. ec \in [Ops -> Codes]
      BY DEF SessionInv, TypeInv, SessionType
    <3> QED BY <1>2, <3>1 DEF Post
  <2>3. /\ shut \/ ~attached => reads' = <<>> /\ writes' = <<>>
        /\ writes' # <<>> => out'
        /\ raced => raced'
        /\ \A o \in Ops : ec'[o] = "empty" => raced'
    BY <1>1, <1>2, <2>2, QuietState
  <2>4. "idle" \notin Reopening
    BY DEF Reopening
  <2> QED BY <1>1, <2>1, <2>3, <2>4, Harmless DEF Marks
<1>3. CASE /\ attached /\ Go(a, "lock") /\ UNCHANGED <<arg, queue, ec>>
           /\ raced' = (raced \/ pc[User] = "free")
  <2>1. \A t \in Threads : ~Reopens(t)
    BY <1>1, NoReopens
  <2>2. shut => raced'
    <3>1. ASSUME shut PROVE pc[User] = "free"
      <4>1. PICK b \in Actors : pc[b] = "free"
        BY <1>3, <3>1 DEF ShutInv
      <4> QED BY <2>1, <4>1, NamesApart DEF Reopens
    <3> QED BY <1>3, <3>1
  <2>3. /\ pc'[a] = "lock" /\ \A b \in Actors : b # a => pc'[b] = pc[b]
    BY <1>3 DEF SessionInv, TypeInv, ActorType, Go
  <2>4. ShutInv'
    <3>1. \A t \in Threads : ~Reopens(t)'
      BY <2>1, <2>3, NamesApart DEF Reopens
    <3>2. \A b \in Actors : /\ pc'[b] = "free" => shut
                            /\ pc'[b] = "closefd" => shut \/ ~attached
                            /\ pc'[b] = "open" => ~attached
      BY <2>3 DEF ShutInv
    <3>3. attached /\ shut => \E b \in Actors : pc'[b] = "free"
      BY <1>1, <2>3 DEF ShutInv
    <3>4. phase' = "resolving" => ~open /\ pc'[User] = "idle"
      BY <1>1, <2>3, NamesApart DEF ShutInv
    <3> QED BY <1>1, <3>1, <3>2, <3>3, <3>4 DEF ShutInv
  <2>5. RaceInv'
    <3>1. \A b \in Actors : pc'[b] = "lock" /\ (shut \/ ~attached) => raced'
      BY <1>3, <2>2, <2>3 DEF RaceInv
    <3> QED BY <1>1, <1>3, <3>1 DEF RaceInv
  <2> QED BY <2>4, <2>5 DEF Marks
<1> QED BY <1>2, <1>3 DEF Look

LEMMA DeregisterMarks ==
  ASSUME SessionInv, ShutInv, RaceInv, NEW a \in Actors, Deregister(a)
  PROVE  Marks
<1>1. /\ pc[a] = "close" /\ phase' = phase
      /\ ~(a = User /\ \E t \in Threads : Reopens(t))
      /\ UNCHANGED <<attached, open, fate, out>>
      /\ raced' = (raced \/ (a = User /\ \E t \in Threads : pc[t] = "lock"))
      /\ User \in Actors /\ Threads \subseteq Actors /\ User \notin Threads
  BY NamesApart DEF Deregister, Runs, impl, chain
<1>2. a \in Threads => Reopens(a) /\ pc[User] \notin {"free", "closefd"}
  BY <1>1 DEF Reopens, ShutInv
<1>3. PICK l \in {"free", "closefd"} : Go(a, l)
  BY DEF Deregister
<1>4. pc'[a] = l /\ \A b \in Actors : b # a => pc'[b] = pc[b]
  BY <1>3 DEF SessionInv, TypeInv, ActorType, Go
<1>5. pc'[User] \in {"free", "closefd"} => \A t \in Threads : ~Reopens(t)'
  <2>1. CASE a = User
    BY <1>1, <1>4, <2>1 DEF Reopens
  <2>2. CASE a \in Threads
    BY <1>1, <1>2, <1>4, <2>2
  <2> QED BY <2>1, <2>2, NamesApart
<1>6. phase' = "resolving" => ~open /\ pc'[User] = "idle"
  <2>1. CASE a = User
    BY <1>1, <2>1 DEF ShutInv
  <2>2. CASE a \in Threads
    BY <1>1, <1>2, <2>2, ReopenFacts
  <2> QED BY <2>1, <2>2, NamesApart
<1>7. CASE ~(attached /\ ~shut)
  <2>1. Go(a, "closefd") /\ UNCHANGED <<shut, reads, writes, ec>>
    BY <1>7 DEF Deregister
  <2>2. pc'[a] = "closefd"
    BY <2>1 DEF SessionInv, TypeInv, ActorType, Go
  <2>3. \A b \in Actors : /\ pc'[b] = "free" => shut
                          /\ pc'[b] = "closefd" => shut \/ ~attached
                          /\ pc'[b] = "open" => ~attached
    BY <1>4, <1>7, <2>2 DEF ShutInv
  <2>4. attached /\ shut => \E b \in Actors : pc'[b] = "free"
    BY <1>1, <1>4 DEF ShutInv
  <2>5. ShutInv'
    BY <1>1, <1>5, <1>6, <2>1, <2>3, <2>4 DEF ShutInv
  <2>6. RaceInv'
    <3>1. \A b \in Actors : pc'[b] = "lock" /\ (shut \/ ~attached) => raced
      BY <1>4, <2>2 DEF RaceInv
    <3> QED BY <1>1, <2>1, <3>1 DEF RaceInv
  <2> QED BY <2>5, <2>6 DEF Marks
<1>8. CASE attached /\ ~shut
  <2>1. /\ Go(a, "free") /\ shut' = TRUE /\ reads' = <<>> /\ writes' = <<>>
        /\ \A o \in Ops : ec'[o] \in {"aborted", ec[o]}
    BY <1>8 DEF Deregister
  <2>2. pc'[a] = "free"
    BY <2>1 DEF SessionInv, TypeInv, ActorType, Go
  <2>3. \A b \in Actors : pc'[b] = "open" => ~attached
    BY <1>4, <2>2 DEF ShutInv
  <2>4. ShutInv'
    BY <1>1, <1>5, <1>6, <2>1, <2>2, <2>3 DEF ShutInv
  <2>5. RaceInv'
    <3>1. ASSUME NEW b \in Actors, pc'[b] = "lock" PROVE raced'
      <4>1. pc[b] = "lock" /\ b # a
        BY <1>4, <2>2, <3>1
      <4>2. a = User
        <5>1. \A t \in Threads : ~Reopens(t)
          BY <4>1, NoReopens
        <5> QED BY <1>2, <5>1, NamesApart
      <4> QED BY <1>1, <4>1, <4>2, NamesApart
    <3> QED BY <1>1, <2>1, <3>1 DEF RaceInv
  <2> QED BY <2>4, <2>5 DEF Marks
<1> QED BY <1>7, <1>8

(* The two steps after which the pointer to the descriptor_state is clear. *)
LEMMA DetachMarks ==
  ASSUME SessionInv, ShutInv, RaceInv, NEW a \in Actors, Free(a) \/ CloseFd(a)
  PROVE  Marks
<1>1. /\ pc[a] \in {"free", "closefd"} /\ attached' = FALSE /\ phase' = phase
      /\ UNCHANGED <<shut, fate, out, reads, writes, raced, ec>>
      /\ open' = open \/ open' = FALSE
  BY DEF Free, CloseFd, Runs, chain, state
<1>2. shut \/ ~attached
  BY <1>1 DEF ShutInv
<1>3. reads = <<>> /\ writes = <<>>
  BY <1>2 DEF ShutInv
<1>4. PICK l \in {"closefd", "idle", "open"} :
        Go(a, l) /\ (a = User /\ l # "idle" => pc[a] = "free")
  BY DEF Free, CloseFd
<1>5. pc'[a] = l /\ \A b \in Actors : b # a => pc'[b] = pc[b]
  BY <1>4 DEF SessionInv, TypeInv, ActorType, Go
<1>6. a \in Threads => Reopens(a) /\ pc[User] \notin {"free", "closefd"}
  BY <1>1 DEF Reopens, ShutInv
<1>7. \A b \in Actors : pc'[b] = "free" => shut
  BY <1>4, <1>5 DEF ShutInv
<1>8. pc'[User] \in {"free", "closefd"} => \A t \in Threads : ~Reopens(t)'
  <2>1. CASE a = User
    BY <1>1, <1>5, <2>1, NamesApart DEF Reopens, ShutInv
  <2>2. CASE a \in Threads
    BY <1>5, <1>6, <2>2, NamesApart
  <2> QED BY <2>1, <2>2, NamesApart
<1>9. phase' = "resolving" => ~open' /\ pc'[User] = "idle"
  <2>1. CASE a = User
    BY <1>1, <2>1 DEF ShutInv
  <2>2. CASE a \in Threads
    BY <1>1, <1>6, <2>2, ReopenFacts
  <2> QED BY <2>1, <2>2, NamesApart
<1>10. ShutInv'
  BY <1>1, <1>3, <1>7, <1>8, <1>9 DEF ShutInv
<1>11. \A b \in Actors : pc'[b] = "lock" => raced
  BY <1>2, <1>4, <1>5 DEF RaceInv
<1>12. RaceInv'
  BY <1>1, <1>11 DEF RaceInv
<1> QED BY <1>10, <1>12 DEF Marks

LEMMA OpenMarks ==
  ASSUME SessionInv, ShutInv, RaceInv, NEW t \in Threads, Open(t)
  PROVE  Marks
<1>1. /\ pc[t] = "open" /\ attached' = TRUE /\ shut' = FALSE /\ phase' = phase
      /\ UNCHANGED <<fate, reads, writes, raced, ec>> /\ Go(t, "dial")
      /\ t \in Actors /\ t # User
  BY NamesApart DEF Open, Runs, chain
<1>2. /\ phase = "connecting" /\ reads = <<>> /\ writes = <<>>
      /\ \A u \in Threads : Drives(u) => u = t
      /\ pc[User] \notin {"free", "closefd"}
  BY <1>1, ReopenFacts DEF Reopens, ShutInv
<1>3. pc'[t] = "dial" /\ \A b \in Actors : b # t => pc'[b] = pc[b]
  BY <1>1 DEF SessionInv, TypeInv, ActorType, Go
<1>4. \A b \in Actors : pc'[b] \notin {"free", "closefd", "open"}
  <2>1. ASSUME NEW b \in Actors, b # t, pc[b] \in {"free", "closefd", "open"}
        PROVE  FALSE
    <3>1. b # User
      BY <1>2, <2>1 DEF SessionInv, PcInv, PcArg
    <3>2. b \in Threads /\ Drives(b)
      BY <2>1, <3>1, NamesApart DEF Drives, Driving, Reopening
    <3> QED BY <1>2, <2>1, <3>2
  <2> QED BY <1>3, <2>1
<1>5. ShutInv'
  BY <1>1, <1>2, <1>4, NamesApart DEF ShutInv
<1>6. RaceInv'
  BY <1>1 DEF RaceInv
<1> QED BY <1>5, <1>6 DEF Marks

(* The application's calls.                                                *)
LEMMA CallMarks ==
  ASSUME SessionInv, ShutInv, RaceInv, Disconnect \/ \E w \in Writes : Write(w)
  PROVE  Marks
<1>1. /\ pc[User] = "idle" /\ phase' = phase /\ User \in Actors
      /\ User \notin Threads
      /\ UNCHANGED <<shut, attached, open, fate, out, reads, writes, raced, ec>>
  BY NamesApart DEF Disconnect, Write, Runs, state, impl, chain
<1>2. phase # "resolving"
  BY DEF Disconnect, Write, ShutInv
<1>3. PICK l \in {"close", "look"} : Go(User, l)
  BY DEF Disconnect, Write
<1>4. /\ shut \/ ~attached => reads' = <<>> /\ writes' = <<>>
      /\ writes' # <<>> => out'
      /\ raced => raced'
      /\ \A o \in Ops : ec'[o] = "empty" => raced'
  BY <1>1, QuietState
<1> QED BY <1>1, <1>2, <1>3, <1>4, Harmless DEF Marks

(* Steps of the kernel, and those that end the program.                    *)
LEMMA OtherMarks ==
  ASSUME SessionInv, ShutInv, RaceInv,
         \/ Kernel
         \/ Torn \/ (\E a \in Actors : LockNull(a)) \/ UNCHANGED vars
  PROVE  Marks
<1>1. /\ UNCHANGED <<shut, attached, open, out, reads, writes, raced, ec, pc>>
      /\ phase' = phase
  BY DEF Kernel, Answer, Arrives, PeerEnds, Drains, Torn, LockNull, vars,
         state, impl, chain
<1>2. fate' = "null" => raced
  <2>1. CASE Kernel
    BY <2>1 DEF Kernel, Answer, Arrives, PeerEnds, Drains, Runs, RaceInv
  <2>2. CASE Torn
    BY <2>2 DEF Torn
  <2>3. CASE \E a \in Actors : LockNull(a)
    BY <2>3 DEF LockNull, RaceInv
  <2>4. CASE UNCHANGED vars
    BY <2>4 DEF vars, RaceInv
  <2> QED BY <2>1, <2>2, <2>3, <2>4
<1>3. ShutInv'
  BY <1>1 DEF ShutInv, Reopens
<1>4. RaceInv'
  BY <1>1, <1>2 DEF RaceInv
<1> QED BY <1>3, <1>4 DEF Marks

LEMMA MarksInit ==
  ASSUME Init
  PROVE  ShutInv /\ RaceInv
<1>1. /\ \A a \in Actors : pc[a] = "idle"
      /\ \A o \in Ops : ec[o] = "none"
      /\ User \in Actors
  BY NamesApart DEF Init
<1>2. ShutInv
  BY <1>1 DEF Init, ShutInv
<1>3. RaceInv
  BY <1>1 DEF Init, RaceInv
<1> QED BY <1>2, <1>3

LEMMA MarksStep ==
  ASSUME SessionInv, ShutInv, RaceInv, [Next]_vars
  PROVE  ShutInv' /\ RaceInv'
<1>1. \A t \in Threads : t \in Actors
  BY NamesApart
<1>2. User \in Actors
  BY NamesApart
<1>3. ASSUME NEW t \in Threads, Service(t) PROVE Marks
  BY <1>1, <1>3, TakeMarks, ThreadMarks, PerformIoMarks, LookMarks, LockMarks,
     DeregisterMarks, DetachMarks, OpenMarks, ConnectHandlerMarks, OtherMarks
     DEF Service
<1>4. ASSUME Call PROVE Marks
  BY <1>2, <1>4, LookMarks, LockMarks, DeregisterMarks, DetachMarks, OtherMarks
     DEF Call
<1>5. Marks
  BY <1>3, <1>4, CallMarks, OtherMarks DEF Next
<1> QED BY <1>5 DEF Marks

-----------------------------------------------------------------------------
(***************************************************************************)
(* Reports on their way, and completions.                                  *)
(***************************************************************************)

InFlags == {"in", "err", "hup"}
OutFlags == {"out", "err", "hup"}

(* What WouldBlock says of the socket in each state of it.                 *)
BlocksRead(c, d) == c \in {"up", "connecting"} /\ ~d
BlocksSend(c, s) == c = "connecting" \/ (c \in {"up", "fin"} /\ ~s)
BlocksConnect(c, s) == ~(c \in {"fresh", "dead", "shut"} \/ (c \in {"up", "fin"} /\ s))

LEMMA PollOut ==
  ASSUME NEW c \in Conns, NEW d \in BOOLEAN, NEW s \in BOOLEAN
  PROVE  "out" \notin Poll(c, d, s) <=> BlocksConnect(c, s)
BY DEF Conns, Poll, BlocksConnect, Flags

LEMMA Blocks ==
  ASSUME KernelType
  PROVE  /\ WouldBlock("read") <=> BlocksRead(conn, data)
         /\ \A o \in Writes : WouldBlock(o) <=> BlocksSend(conn, space)
         /\ WouldBlock("connect") <=> BlocksConnect(conn, space)
<1>1. WouldBlock("read") <=> BlocksRead(conn, data)
  BY DEF WouldBlock, BlocksRead
<1>2. ASSUME NEW o \in Writes PROVE WouldBlock(o) <=> BlocksSend(conn, space)
  <2>1. o # "read" /\ o # "connect"
    BY NamesApart
  <2> QED BY <2>1 DEF WouldBlock, BlocksSend
<1>3. WouldBlock("connect") <=> BlocksConnect(conn, space)
  BY PollOut DEF WouldBlock, KernelType
<1> QED BY <1>1, <1>2, <1>3

LEMMA BlocksNext ==
  ASSUME KernelType'
  PROVE  /\ WouldBlock("read")' <=> BlocksRead(conn', data')
         /\ \A o \in Writes : WouldBlock(o)' <=> BlocksSend(conn', space')
         /\ WouldBlock("connect")' <=> BlocksConnect(conn', space')
<1>1. WouldBlock("read")' <=> BlocksRead(conn', data')
  BY DEF WouldBlock, BlocksRead
<1>2. ASSUME NEW o \in Writes PROVE WouldBlock(o)' <=> BlocksSend(conn', space')
  <2>1. o # "read" /\ o # "connect"
    BY NamesApart
  <2> QED BY <2>1 DEF WouldBlock, BlocksSend
<1>3. WouldBlock("connect")' <=> BlocksConnect(conn', space')
  BY PollOut DEF WouldBlock, KernelType
<1> QED BY <1>1, <1>2, <1>3

(* epoll reports what an operation waits for.                              *)
LEMMA PollReports ==
  ASSUME NEW c \in Conns, NEW d \in BOOLEAN, NEW s \in BOOLEAN, c # "none"
  PROVE  /\ ~BlocksRead(c, d) /\ c # "connecting"
              => Poll(c, d, s) \cap InFlags # {}
         /\ ~BlocksSend(c, s) => Poll(c, d, s) \cap OutFlags # {}
         /\ ~BlocksConnect(c, s) => Poll(c, d, s) \cap OutFlags # {}
<1>1. "out" \in OutFlags /\ "hup" \in OutFlags /\ "in" \in InFlags /\ "hup" \in InFlags
  BY DEF OutFlags, InFlags
<1>2. ~BlocksConnect(c, s) => Poll(c, d, s) \cap OutFlags # {}
  BY <1>1, PollOut
<1>3. ~BlocksSend(c, s) => ~BlocksConnect(c, s)
  BY DEF BlocksSend, BlocksConnect, Conns
<1>4. ~BlocksRead(c, d) /\ c # "connecting"
        => "in" \in Poll(c, d, s) \/ "hup" \in Poll(c, d, s)
  BY DEF BlocksRead, Poll, Conns, Flags
<1> QED BY <1>1, <1>2, <1>3, <1>4

(* The first operation that waits to send.                                 *)
LEMMA FirstWrite ==
  ASSUME StateType, writes # <<>>
  PROVE  writes[1] = "connect" \/ writes[1] \in Writes
BY DEF StateType

LEMMA FirstWriteNext ==
  ASSUME StateType', writes' # <<>>
  PROVE  writes'[1] = "connect" \/ writes'[1] \in Writes
BY DEF StateType

LEMMA OnWay ==
  ASSUME NEW E
  PROVE  OnItsWay(E) <=> \/ pending /\ Report \cap E # {}
                         \/ \E t \in Threads : /\ pc[t] \in {"found", "io"}
                                               /\ ev[t] \cap E # {}
                         \/ \E e \in Elems(queue) : /\ e.kind = "io"
                                                    /\ e.events \cap E # {}
BY DEF OnItsWay, Elems

LEMMA OnWayNext ==
  ASSUME NEW E
  PROVE  OnItsWay(E)' <=> \/ pending' /\ Report' \cap E # {}
                          \/ \E t \in Threads : /\ pc'[t] \in {"found", "io"}
                                                /\ ev'[t] \cap E # {}
                          \/ \E e \in Elems(queue') : /\ e.kind = "io"
                                                      /\ e.events \cap E # {}
BY DEF OnItsWay, Elems

(* A change of the socket has been put on epoll's ready list.              *)
LEMMA Reported ==
  ASSUME SessionInv', ShutInv', conn' \notin {"none", "connecting"}, pending'
  PROVE  NoLostEdge'
<1>1. /\ conn' \in Conns /\ data' \in BOOLEAN /\ space' \in BOOLEAN
      /\ KernelType' /\ StateType' /\ (writes' # <<>> => out')
  BY DEF SessionInv, TypeInv, KernelType, ShutInv
<1> DEFINE p == Poll(conn', data', space')
<1>2. /\ Report' = p \cap Mask(out')
      /\ "in" \in Mask(out') /\ "hup" \in Mask(out') /\ "err" \in Mask(out')
      /\ p \subseteq Flags /\ (out' => Mask(out') = Flags)
  BY <1>1 DEF Report, Mask, Flags, Poll, Conns
<1>3. /\ ~BlocksRead(conn', data') => p \cap InFlags # {}
      /\ ~BlocksSend(conn', space') => p \cap OutFlags # {}
      /\ ~BlocksConnect(conn', space') => p \cap OutFlags # {}
  BY <1>1, PollReports
<1> HIDE DEF p
<1>4. p \cap InFlags # {} => Report' \cap InFlags # {}
  BY <1>2 DEF InFlags
<1>5. out' /\ p \cap OutFlags # {} => Report' \cap OutFlags # {}
  BY <1>2
<1>6. ~WouldBlock("read")' => OnItsWay(InFlags)'
  BY <1>1, <1>3, <1>4, BlocksNext, OnWayNext
<1>7. writes' # <<>> /\ ~WouldBlock(writes[1])' => OnItsWay(OutFlags)'
  <2>1. SUFFICES ASSUME writes' # <<>>, ~WouldBlock(writes[1])'
                 PROVE  Report' \cap OutFlags # {}
    BY OnWayNext
  <2>2. writes'[1] = "connect" \/ writes'[1] \in Writes
    BY <1>1, <2>1, FirstWriteNext
  <2>3. ~BlocksSend(conn', space') \/ ~BlocksConnect(conn', space')
    BY <1>1, <2>1, <2>2, BlocksNext
  <2> QED BY <1>1, <1>3, <1>5, <2>1, <2>3
<1> QED BY <1>6, <1>7 DEF NoLostEdge, InFlags, OutFlags

(* Reports stay on their way when an actor goes on that has none.          *)
LEMMA WayKept ==
  ASSUME NEW a \in Actors, NEW l, NEW s, Moves(a, l, s),
         pc[a] \notin {"found", "io"}, NEW E,
         \A t \in Threads : t # a => ev'[t] = ev[t],
         pending /\ Report \cap E # {} => pending' /\ Report' \cap E # {},
         \A e \in Elems(queue) : e.kind = "io" => e \in Elems(queue'),
         OnItsWay(E)
  PROVE  OnItsWay(E)'
<1>1. CASE pending /\ Report \cap E # {}
  BY <1>1, OnWayNext
<1>2. CASE \E t \in Threads : pc[t] \in {"found", "io"} /\ ev[t] \cap E # {}
  <2>1. PICK t \in Threads : pc[t] \in {"found", "io"} /\ ev[t] \cap E # {}
    BY <1>2
  <2>2. pc'[t] = pc[t] /\ ev'[t] = ev[t]
    BY <2>1, NamesApart DEF Moves
  <2> QED BY <2>1, <2>2, OnWayNext
<1>3. CASE \E e \in Elems(queue) : e.kind = "io" /\ e.events \cap E # {}
  BY <1>3, OnWayNext
<1> QED BY <1>1, <1>2, <1>3, OnWay

LEMMA EdgesKept ==
  ASSUME SessionInv, SessionInv', NoLostEdge,
         NEW a \in Actors, NEW l, NEW s, Moves(a, l, s),
         pc[a] \notin {"found", "io"},
         UNCHANGED <<conn, data, space, out, reads, writes>>, pending => pending',
         \A t \in Threads : t # a => ev'[t] = ev[t],
         \A e \in Elems(queue) : e.kind = "io" => e \in Elems(queue')
  PROVE  NoLostEdge'
<1>1. /\ KernelType /\ KernelType' /\ StateType
  BY DEF SessionInv, TypeInv
<1>2. Report' = Report
  BY DEF Report
<1>3. \A E : OnItsWay(E) => OnItsWay(E)'
  BY <1>2, WayKept
<1>4. WouldBlock("read")' <=> WouldBlock("read")
  BY <1>1, Blocks, BlocksNext
<1>5. writes # <<>> => (WouldBlock(writes[1])' <=> WouldBlock(writes[1]))
  BY <1>1, FirstWrite, Blocks, BlocksNext
<1> QED BY <1>3, <1>4, <1>5 DEF NoLostEdge

LEMMA CompletedIn ==
  ASSUME NEW o
  PROVE  Completed(o) <=> \/ Done(o) \in Elems(queue)
                          \/ \E t \in Threads : Completes(t, o)
BY DEF Completed, Elems

LEMMA CompletedNext ==
  ASSUME NEW o
  PROVE  Completed(o)' <=> \/ Done(o) \in Elems(queue')
                           \/ \E t \in Threads : Completes(t, o)'
BY DEF Completed, Elems

(* Where a completion can have come from.                                  *)
LEMMA CompletedMoves ==
  ASSUME NEW a \in Actors, NEW l, NEW s, Moves(a, l, s), NEW o, Completed(o)'
  PROVE  Completed(o) \/ Done(o) \in Elems(queue') \/ (l = "run" /\ s = <<o>>)
<1>1. ASSUME NEW t \in Threads, Completes(t, o)'
      PROVE  Completed(o) \/ (l = "run" /\ s = <<o>>)
  <2>1. pc'[t] = "run" /\ arg'[t] = <<o>>
    BY <1>1 DEF Completes
  <2>2. CASE t = a
    BY <2>1, <2>2 DEF Moves
  <2>3. CASE t # a
    <3>1. Completes(t, o)
      BY <2>1, <2>3, NamesApart DEF Moves, Completes
    <3> QED BY <3>1, CompletedIn
  <2> QED BY <2>2, <2>3
<1> QED BY <1>1, CompletedNext

LEMMA MetKept ==
  ASSUME SessionInv, MetInv, NEW a \in Actors, NEW l, NEW s, Moves(a, l, s),
         UNCHANGED <<conn, met>>,
         Completed("connect")' /\ ec'["connect"] = "ok"
           => \/ Completed("connect") /\ ec["connect"] = "ok"
              \/ met /\ conn # "connecting",
         writes' = <<"connect">> => \/ writes = <<"connect">>
                                    \/ \E t \in Threads : Dialled(t),
         a \in Threads /\ l \in {"look", "lock"} /\ s = <<"connect">> => Dialled(a),
         a = User /\ "connect" \in Elems(s)
           => "connect" \in Elems(arg[User]) \/ ec'["connect"] # "ok",
         ec'["connect"] = "ok" => ec["connect"] = "ok" \/ ~Aborts
  PROVE  MetInv'
<1>1. \A t \in Threads : Dialled(t)' => Dialled(t)
  <2>1. SUFFICES ASSUME NEW t \in Threads, Dialled(t)' PROVE Dialled(t)
    OBVIOUS
  <2>2. pc'[t] \in {"look", "lock"} /\ arg'[t] = <<"connect">>
    BY <2>1 DEF Dialled
  <2>3. CASE t = a
    BY <2>2, <2>3 DEF Moves
  <2>4. CASE t # a
    BY <2>2, <2>4, NamesApart DEF Moves, Dialled
  <2> QED BY <2>3, <2>4
<1>2. writes' = <<"connect">> \/ (\E t \in Threads : Dialled(t)') => conn' # "fresh"
  BY <1>1 DEF MetInv
<1>3. "connect" \in Elems(arg'[User]) => ec'["connect"] # "ok"
  <2>1. "connect" \in Elems(arg[User]) => Aborts /\ ec["connect"] # "ok"
    BY DEF MetInv, Aborts, Has, ChainOps
  <2>2. \/ arg'[User] = arg[User]
        \/ a = User /\ arg'[User] = s
    BY NamesApart DEF Moves
  <2> QED BY <2>1, <2>2
<1>4. Completed("connect")' /\ ec'["connect"] = "ok" => met' /\ conn' # "connecting"
  BY DEF MetInv
<1>5. conn' \in {"up", "fin", "shut"} => met'
  BY DEF MetInv
<1> QED BY <1>2, <1>3, <1>4, <1>5 DEF MetInv

(* A step of an actor that leaves the socket and its operations alone.     *)
Edges == MetInv' /\ NoLostEdge'

LEMMA Calm ==
  ASSUME SessionInv, SessionInv', MetInv, NoLostEdge,
         NEW a \in Actors, NEW l, NEW s, Moves(a, l, s),
         pc[a] \notin {"found", "io"},
         UNCHANGED <<conn, data, space, met, out, reads, writes, ev>>,
         pending => pending',
         Elems(queue) \subseteq Elems(queue'),
         Done("connect") \in Elems(queue')
           => Done("connect") \in Elems(queue) \/ ec'["connect"] # "ok",
         ec'["connect"] = ec["connect"] \/ ec'["connect"] # "ok",
         l # "run",
         a \in Threads /\ l \in {"look", "lock"} /\ s = <<"connect">> => Dialled(a),
         a = User => "connect" \notin Elems(s)
  PROVE  Edges
<1>1. NoLostEdge'
  BY EdgesKept
<1>2. Completed("connect")' /\ ec'["connect"] = "ok"
        => Completed("connect") /\ ec["connect"] = "ok"
  BY CompletedMoves, CompletedIn
<1>3. MetInv'
  BY <1>2, MetKept
<1> QED BY <1>1, <1>3 DEF Edges

LEMMA PostQuiet ==
  ASSUME SessionInv, NEW o \in Ops, NEW c, c # "ok" \/ o # "connect",
         queue' = Append(queue, Done(o)), ec' = [ec EXCEPT ![o] = c]
  PROVE  /\ Elems(queue) \subseteq Elems(queue')
         /\ Done("connect") \in Elems(queue')
              => Done("connect") \in Elems(queue) \/ ec'["connect"] # "ok"
         /\ ec'["connect"] = ec["connect"] \/ ec'["connect"] # "ok"
<1>1. queue \in Seq(Entries) /\ ec \in [Ops -> Codes] /\ "connect" \in Ops
  BY NamesApart DEF SessionInv, TypeInv, SessionType, ChainOps
<1>2. Done(o) \in Entries /\ (Done(o) = Done("connect") => o = "connect")
  BY <1>1, EntryFacts
<1>3. Elems(queue') = Elems(queue) \cup {Done(o)}
  BY <1>1, <1>2, ElemsOfAppend
<1>4. ec'["connect"] = IF o = "connect" THEN c ELSE ec["connect"]
  BY <1>1
<1> QED BY <1>2, <1>3, <1>4

LEMMA LookEdges ==
  ASSUME SessionInv, SessionInv', MetInv, NoLostEdge, NEW a \in Actors, Look(a)
  PROVE  Edges
<1> DEFINE o == arg[a][1]
<1>1. /\ TypeInv /\ pc[a] = "look"
      /\ UNCHANGED <<conn, data, space, pending, met, out, reads, writes, ev>>
  BY DEF SessionInv, Look, kernel, state
<1>2. o \in Ops
  BY <1>1, HandFacts, PhaseFacts
<1>3. CASE Started(a) /\ Post(o, "error")
  <2> HIDE DEF o
  <2> DEFINE l == "idle"
             s == <<>>
  <2>1. Moves(a, l, s) /\ "connect" \notin Elems(s) /\ l \notin {"run", "look", "lock"}
    BY <1>1, <1>3, StartedMoves, ElemsOfEmpty
  <2>2. /\ Elems(queue) \subseteq Elems(queue')
        /\ Done("connect") \in Elems(queue')
             => Done("connect") \in Elems(queue) \/ ec'["connect"] # "ok"
        /\ ec'["connect"] = ec["connect"] \/ ec'["connect"] # "ok"
    BY <1>2, <1>3, PostQuiet DEF Post
  <2> HIDE DEF l, s
  <2> QED BY <1>1, <2>1, <2>2, Calm
<1>4. CASE Go(a, "lock") /\ UNCHANGED <<arg, queue, ec>>
  <2> DEFINE l == "lock"
             s == arg[a]
  <2>1. Moves(a, l, s) /\ l # "run"
    BY <1>1, <1>4, GoesOn
  <2>2. a = User => "connect" \notin Elems(s)
    BY <1>1, NamesApart DEF SessionInv, PcInv, PcArg
  <2>3. a \in Threads /\ s = <<"connect">> => Dialled(a)
    BY <1>1 DEF Dialled
  <2> HIDE DEF l, s
  <2> QED BY <1>1, <1>4, <2>1, <2>2, <2>3, Calm
<1> QED BY <1>3, <1>4 DEF Look

(* Steps that hand nothing to the queue.                                   *)
LEMMA WalkEdges ==
  ASSUME SessionInv, SessionInv', MetInv, NoLostEdge, NEW a \in Actors,
         NEW l \in {"idle", "look", "close"}, NEW s,
         Go(a, l), arg' = [arg EXCEPT ![a] = s],
         pc[a] \notin {"found", "io"},
         UNCHANGED <<conn, data, space, pending, met, out, reads, writes, ev>>,
         UNCHANGED <<queue, ec>>,
         "connect" \notin Elems(s)
  PROVE  Edges
<1>1. Moves(a, l, s)
  BY GoesBoth DEF SessionInv
<1>2. s # <<"connect">>
  BY ElemsOfSingle
<1> QED BY <1>1, <1>2, Calm

LEMMA HandlerEdges ==
  ASSUME SessionInv, SessionInv', MetInv, NoLostEdge, NEW t \in Threads,
         ConnectHandler(t) \/ ReadHandler(t) \/ WriteHandler(t)
  PROVE  Edges
<1>1. /\ pc[t] = "run" /\ t \in Actors
      /\ UNCHANGED <<conn, data, space, pending, met, out, reads, writes, ev>>
      /\ UNCHANGED <<queue, ec>>
  BY NamesApart DEF ConnectHandler, ReadHandler, WriteHandler, Completes, kernel,
                    state
<1>2. \/ Ends(t) \/ Reads(t)
      \/ Go(t, "close") /\ arg' = [arg EXCEPT ![t] = <<>>]
  BY DEF ConnectHandler, ReadHandler, WriteHandler
<1>3. "connect" \notin Elems(<<>>) /\ "connect" \notin Elems(<<"read">>)
  BY ElemsOfEmpty, ElemsOfSingle
<1>4. CASE Ends(t)
  BY <1>1, <1>3, <1>4, WalkEdges DEF Ends
<1>5. CASE Reads(t)
  BY <1>1, <1>3, <1>5, WalkEdges DEF Reads
<1>6. CASE Go(t, "close") /\ arg' = [arg EXCEPT ![t] = <<>>]
  BY <1>1, <1>3, <1>6, WalkEdges
<1> QED BY <1>2, <1>4, <1>5, <1>6

LEMMA WriteEdges ==
  ASSUME SessionInv, SessionInv', MetInv, NoLostEdge, NEW w \in Writes, Write(w)
  PROVE  Edges
<1> DEFINE s == <<w>>
<1>1. /\ pc[User] = "idle" /\ User \in Actors
      /\ Go(User, "look") /\ arg' = [arg EXCEPT ![User] = s]
      /\ UNCHANGED <<conn, data, space, pending, met, out, reads, writes, ev>>
      /\ UNCHANGED <<queue, ec>>
  BY NamesApart DEF Write, kernel, state
<1>2. "connect" \notin Elems(s)
  BY ElemsOfSingle, NamesApart
<1> HIDE DEF s
<1> QED BY <1>1, <1>2, WalkEdges

LEMMA FreeEdges ==
  ASSUME SessionInv, SessionInv', MetInv, NoLostEdge, NEW a \in Actors, Free(a)
  PROVE  Edges
<1> DEFINE h == arg[a]
           l == "closefd"
           s == <<>>
<1>1. /\ TypeInv /\ pc[a] = "free" /\ queue' = queue \o Posted(h)
      /\ Go(a, l) /\ arg' = [arg EXCEPT ![a] = s]
      /\ UNCHANGED <<conn, data, space, pending, met, out, reads, writes, ev, ec>>
  BY DEF SessionInv, Free, Posted, kernel, state
<1>2. queue \in Seq(Entries) /\ h \in Seq(Ops)
  BY <1>1 DEF TypeInv, ActorType
<1>3. "connect" \in Elems(h) => ec["connect"] # "ok"
  <2>1. a \in Threads => h = <<>>
    BY <1>1, ReopenFacts DEF Reopens
  <2> QED BY <2>1, ElemsOfEmpty, NamesApart DEF MetInv
<1> HIDE DEF h
<1>4. Posted(h) \in Seq(Entries) /\ Elems(Posted(h)) = {Done(o) : o \in Elems(h)}
  BY <1>2, PostedFacts
<1>5. Elems(queue') = Elems(queue) \cup Elems(Posted(h))
  BY <1>1, <1>2, <1>4, ElemsOfConcat
<1>6. Done("connect") \in Elems(Posted(h)) => "connect" \in Elems(h)
  <2>1. Elems(h) \subseteq Ops /\ "connect" \in Ops
    BY <1>2, ElemsType, NamesApart DEF ChainOps
  <2> QED BY <1>4, <2>1, EntryFacts
<1>7. /\ Moves(a, l, s) /\ l \notin {"run", "look", "lock"} /\ "connect" \notin Elems(s)
  BY <1>1, GoesBoth, ElemsOfEmpty
<1> HIDE DEF l, s
<1> QED BY <1>1, <1>3, <1>5, <1>6, <1>7, Calm

LEMMA RangeElems ==
  ASSUME NEW S, NEW q \in Seq(S)
  PROVE  Range(q) = Elems(q)
<1>1. DOMAIN q = 1..Len(q)
  OBVIOUS
<1> QED BY <1>1 DEF Range, Elems

LEMMA DeregisterEdges ==
  ASSUME SessionInv, SessionInv', MetInv, NoLostEdge, NEW a \in Actors,
         Deregister(a)
  PROVE  Edges
<1>1. /\ TypeInv /\ pc[a] = "close" /\ queue' = queue
      /\ UNCHANGED <<conn, data, space, pending, met, out, ev>>
  BY DEF SessionInv, Deregister, kernel
<1>2. CASE Go(a, "closefd") /\ UNCHANGED <<shut, reads, writes, ec, arg>>
  <2> DEFINE l == "closefd"
             s == <<>>
  <2>1. arg[a] = s
    BY <1>1, IdleHand
  <2>2. Moves(a, l, s) /\ l \notin {"run", "look", "lock"} /\ "connect" \notin Elems(s)
    BY <1>1, <1>2, <2>1, GoesOn, ElemsOfEmpty
  <2> HIDE DEF l, s
  <2> QED BY <1>1, <1>2, <2>2, Calm
<1>3. CASE /\ reads' = <<>> /\ writes' = <<>> /\ Go(a, "free")
           /\ ec' = [o \in Ops |-> IF o \in Range(reads) \cup Range(writes)
                                   THEN "aborted" ELSE ec[o]]
           /\ arg' = [arg EXCEPT ![a] = reads \o writes]
  <2> DEFINE l == "free"
             s == reads \o writes
  <2>1. NoLostEdge'
    BY <1>3 DEF NoLostEdge
  <2>2. reads \in Seq(Ops) /\ writes \in Seq(Ops)
    BY <1>1, OpQueues DEF TypeInv
  <2>3. Elems(s) = Range(reads) \cup Range(writes)
    BY <2>2, ElemsOfConcat, RangeElems
  <2>4. /\ "connect" \in Elems(s) => ec'["connect"] # "ok"
        /\ ec'["connect"] = "ok" => ec["connect"] = "ok"
    <3>1. "connect" \in Ops
      BY NamesApart DEF ChainOps
    <3> QED BY <1>3, <2>3, <3>1
  <2>5. Moves(a, l, s) /\ l \notin {"run", "look", "lock"}
    BY <1>1, <1>3, GoesBoth
  <2> HIDE DEF l, s
  <2>6. Completed("connect")' => Completed("connect")
    BY <1>1, <2>5, CompletedMoves, CompletedIn
  <2>7. writes' # <<"connect">>
    BY <1>3
  <2>8. MetInv'
    BY <1>1, <2>4, <2>5, <2>6, <2>7, MetKept
  <2> QED BY <2>1, <2>8 DEF Edges
<1> QED BY <1>2, <1>3 DEF Deregister

(* Steps that change the socket, or find it changed.                       *)
LEMMA CloseFdEdges ==
  ASSUME SessionInv, ShutInv, MetInv, NoLostEdge, NEW a \in Actors, CloseFd(a)
  PROVE  Edges
<1>1. /\ TypeInv /\ pc[a] = "closefd" /\ conn' = "none"
      /\ UNCHANGED <<met, reads, writes, queue, arg, ec>>
      /\ reads = <<>> /\ writes = <<>>
  BY DEF SessionInv, ShutInv, CloseFd, state
<1>2. NoLostEdge'
  BY <1>1 DEF NoLostEdge
<1>3. PICK l \in {"idle", "open"} : Go(a, l)
  BY DEF CloseFd
<1> DEFINE s == arg[a]
<1>4. Moves(a, l, s)
  BY <1>1, <1>3, GoesOn
<1> HIDE DEF s
<1>5. Completed("connect")' => Completed("connect")
  BY <1>1, <1>3, <1>4, CompletedMoves, CompletedIn
<1>6. MetInv'
  BY <1>1, <1>5 DEF MetInv
<1> QED BY <1>2, <1>6 DEF Edges

(* While a thread opens the socket there is no connection to complete.     *)
LEMMA NoneCompleted ==
  ASSUME SessionInv, NEW t \in Threads, Reopens(t)
  PROVE  /\ ~Completed("connect")
         /\ \A u \in Threads : ~Dialled(u)
<1>1. /\ \A u \in Threads : Drives(u) => u = t
      /\ ~InQueue /\ pc[t] \in Reopening
  BY ReopenFacts DEF Reopens, Reopening
<1>2. Done("connect") \notin Elems(queue)
  <2>1. Done("connect") \in ChainEntries
    BY DEF ChainEntries
  <2> QED BY <1>1, <2>1 DEF InQueue, Has
<1>3. ASSUME NEW u \in Threads, Completes(u, "connect") \/ Dialled(u) PROVE FALSE
  <2>1. pc[u] \in {"look", "lock", "run"} /\ arg[u] = <<"connect">>
    BY <1>3 DEF Completes, Dialled
  <2>2. Has(arg[u], ChainOps)
    BY <2>1, HasSingle DEF ChainOps
  <2>3. u = t
    BY <1>1, <2>1, <2>2 DEF Drives, Driving
  <2> QED BY <1>1, <2>1, <2>3 DEF Reopening
<1> QED BY <1>2, <1>3, CompletedIn

LEMMA OpenEdges ==
  ASSUME SessionInv, MetInv, NoLostEdge, NEW t \in Threads, Open(t)
  PROVE  Edges
<1>1. /\ TypeInv /\ Reopens(t) /\ conn' = "fresh" /\ Go(t, "dial") /\ t \in Actors
      /\ UNCHANGED <<reads, writes, queue, arg, ec>>
  BY NamesApart DEF SessionInv, Open, Reopens
<1>2. reads = <<>> /\ writes = <<>>
  BY <1>1, ReopenFacts
<1>3. NoLostEdge'
  BY <1>1, <1>2 DEF NoLostEdge
<1> DEFINE l == "dial"
           s == arg[t]
<1>4. Moves(t, l, s)
  BY <1>1, GoesOn
<1>5. \A u \in Threads : ~Dialled(u)'
  <2>1. SUFFICES ASSUME NEW u \in Threads, Dialled(u)' PROVE FALSE
    OBVIOUS
  <2>2. u # t
    BY <1>4, <2>1 DEF Moves, Dialled
  <2>3. Dialled(u)
    BY <1>4, <2>1, <2>2, NamesApart DEF Moves, Dialled
  <2> QED BY <1>1, <2>3, NoneCompleted
<1>6. ~Completed("connect")'
  <2>1. l # "run"
    OBVIOUS
  <2> HIDE DEF l, s
  <2> QED BY <1>1, <1>4, <2>1, NoneCompleted, CompletedMoves, CompletedIn
<1>7. MetInv'
  BY <1>1, <1>2, <1>5, <1>6 DEF MetInv
<1> QED BY <1>3, <1>7 DEF Edges

LEMMA DialEdges ==
  ASSUME SessionInv, MetInv, NoLostEdge, NEW t \in Threads, Dial(t)
  PROVE  Edges
<1>1. /\ TypeInv /\ Reopens(t) /\ t \in Actors /\ t # User
      /\ UNCHANGED <<met, reads, writes>>
  BY NamesApart DEF SessionInv, Dial, Reopens, state
<1>2. reads = <<>> /\ writes = <<>> /\ ~Aborts
  BY <1>1, ReopenFacts
<1>3. NoLostEdge'
  BY <1>1, <1>2 DEF NoLostEdge
<1>4. CASE /\ conn' = "connecting"
           /\ Go(t, "look") /\ arg' = [arg EXCEPT ![t] = <<"connect">>]
           /\ UNCHANGED <<queue, ec>>
  <2> DEFINE l == "look"
             s == <<"connect">>
  <2>1. Moves(t, l, s) /\ l # "run"
    BY <1>1, <1>4, GoesBoth
  <2> HIDE DEF l, s
  <2>2. ~Completed("connect")'
    BY <1>1, <1>4, <2>1, NoneCompleted, CompletedMoves, CompletedIn
  <2>3. arg'[User] = arg[User]
    BY <1>1, <2>1, NamesApart DEF Moves
  <2>4. MetInv'
    BY <1>4, <2>2, <2>3 DEF MetInv
  <2> QED BY <1>3, <2>4 DEF Edges
<1>5. CASE UNCHANGED conn /\ Started(t) /\ Post("connect", "error")
  <2> DEFINE l == "idle"
             s == <<>>
  <2>1. Moves(t, l, s) /\ l \notin {"run", "look", "lock"}
    BY <1>1, <1>5, StartedMoves
  <2> HIDE DEF l, s
  <2>2. ec'["connect"] = "error"
    BY <1>5, NamesApart DEF Post, SessionInv, TypeInv, SessionType, ChainOps
  <2>3. MetInv'
    BY <1>1, <1>2, <1>5, <2>1, <2>2, MetKept
  <2> QED BY <1>3, <2>3 DEF Edges
<1> QED BY <1>4, <1>5 DEF Dial

LEMMA DisconnectEdges ==
  ASSUME SessionInv, SessionInv', ShutInv', MetInv, NoLostEdge, Disconnect
  PROVE  Edges
<1>1. /\ TypeInv /\ User \in Actors /\ Go(User, "close")
      /\ UNCHANGED <<met, queue, arg, ec, writes>>
      /\ (conn \in {"up", "fin"} /\ conn' = "shut")
           \/ (conn = "connecting" /\ conn' = "dead")
      /\ pending'
  BY NamesApart DEF SessionInv, Disconnect, state
<1>2. NoLostEdge'
  BY <1>1, Reported
<1> DEFINE l == "close"
           s == arg[User]
<1>3. Moves(User, l, s) /\ l # "run"
  BY <1>1, GoesOn
<1> HIDE DEF l, s
<1>4. Completed("connect")' => Completed("connect")
  BY <1>1, <1>3, CompletedMoves, CompletedIn
<1>5. MetInv'
  BY <1>1, <1>4 DEF MetInv
<1> QED BY <1>2, <1>5 DEF Edges

LEMMA KernelEdges ==
  ASSUME SessionInv, SessionInv', ShutInv, ShutInv', MetInv, NoLostEdge, Kernel
  PROVE  Edges
<1>1. /\ UNCHANGED <<reads, writes, out, queue, pc, arg, ev, ec>>
      /\ KernelType /\ KernelType' /\ StateType
  BY DEF SessionInv, TypeInv, Kernel, Answer, Arrives, PeerEnds, Drains, state
<1>2. /\ Completed("connect")' <=> Completed("connect")
      /\ \A t \in Threads : Dialled(t)' <=> Dialled(t)
  BY <1>1 DEF Completed, Completes, Dialled
<1>3. CASE Answer
  <2>1. NoLostEdge'
    BY <1>3, Reported DEF Answer
  <2>2. MetInv'
    BY <1>1, <1>2, <1>3 DEF Answer, MetInv
  <2> QED BY <2>1, <2>2 DEF Edges
<1>4. CASE Arrives \/ PeerEnds
  <2>1. conn' \in {"up", "fin", "dead"} /\ pending' /\ met' = met
        /\ conn \in {"up", "fin"}
    BY <1>4 DEF Arrives, PeerEnds
  <2>2. NoLostEdge'
    BY <2>1, Reported
  <2>3. MetInv'
    BY <1>1, <1>2, <2>1 DEF MetInv
  <2> QED BY <2>2, <2>3 DEF Edges
<1>5. CASE Drains
  <2>1. /\ conn' = conn /\ data' = data /\ met' = met /\ conn \in {"up", "fin"}
        /\ space' = TRUE /\ pending' = (pending \/ out)
    BY <1>5 DEF Drains
  <2>2. MetInv'
    BY <1>1, <1>2, <2>1 DEF MetInv
  <2>3. Report \cap InFlags \subseteq Report' \cap InFlags
    BY <1>1, <2>1 DEF Report, Mask, Poll, Conns, KernelType, InFlags
  <2>4. OnItsWay(InFlags) => OnItsWay(InFlags)'
    <3>1. pending => pending'
      BY <2>1
    <3> QED BY <1>1, <2>3, <3>1, OnWay, OnWayNext
  <2>5. reads' # <<>> /\ ~WouldBlock("read")' => OnItsWay(InFlags)'
    BY <1>1, <2>1, <2>4, Blocks, BlocksNext DEF NoLostEdge, InFlags
  <2>6. writes' # <<>> => OnItsWay(OutFlags)'
    <3>1. SUFFICES ASSUME writes' # <<>> PROVE OnItsWay(OutFlags)'
      OBVIOUS
    <3>2. out /\ pending'
      BY <1>1, <2>1, <3>1 DEF ShutInv
    <3>3. "out" \in Report'
      BY <1>1, <2>1, <3>2 DEF Report, Mask, Poll, Flags
    <3> QED BY <3>2, <3>3, OnWayNext DEF OutFlags
  <2>7. NoLostEdge'
    BY <2>5, <2>6 DEF NoLostEdge, InFlags, OutFlags
  <2> QED BY <2>2, <2>7 DEF Edges
<1> QED BY <1>3, <1>4, <1>5 DEF Kernel

LEMMA OtherEdges ==
  ASSUME MetInv, NoLostEdge,
         Torn \/ (\E a \in Actors : LockNull(a)) \/ UNCHANGED vars
  PROVE  Edges
<1>1. UNCHANGED <<conn, data, space, pending, met, out, reads, writes, queue, pc,
                  arg, ev, ec>>
  BY DEF Torn, LockNull, vars, kernel, state
<1>2. MetInv'
  BY <1>1 DEF MetInv, Dialled, Completed, Completes
<1>3. \A E : OnItsWay(E)' <=> OnItsWay(E)
  BY <1>1 DEF OnItsWay, Report
<1>4. NoLostEdge'
  BY <1>1, <1>3 DEF NoLostEdge, WouldBlock
<1> QED BY <1>2, <1>4 DEF Edges

-----------------------------------------------------------------------------
(***************************************************************************)
(* A report on its way from epoll through the queue to a thread.           *)
(***************************************************************************)

LEMMA SameBlocks ==
  ASSUME SessionInv, SessionInv', UNCHANGED <<conn, data, space, reads, writes>>,
         \A E : OnItsWay(E) => OnItsWay(E)', NoLostEdge
  PROVE  NoLostEdge'
<1>1. /\ KernelType /\ KernelType' /\ StateType
  BY DEF SessionInv, TypeInv
<1>2. WouldBlock("read")' <=> WouldBlock("read")
  BY <1>1, Blocks, BlocksNext
<1>3. writes # <<>> => (WouldBlock(writes[1])' <=> WouldBlock(writes[1]))
  BY <1>1, FirstWrite, Blocks, BlocksNext
<1> QED BY <1>2, <1>3 DEF NoLostEdge

LEMMA TakeEdges ==
  ASSUME SessionInv, SessionInv', MetInv, NoLostEdge, NEW t \in Threads, Take(t)
  PROVE  Edges
<1> DEFINE e == Head(queue)
           l == pc'[t]
           s == arg'[t]
<1>1. /\ TypeInv /\ pc[t] = "idle" /\ t \in Actors /\ t # User
      /\ queue \in Seq(Entries) /\ queue # <<>> /\ queue' = Tail(queue)
      /\ UNCHANGED <<conn, data, space, pending, met, out, reads, writes, ec>>
  BY NamesApart DEF SessionInv, TypeInv, Take, kernel, state
<1>2. Elems(queue) = Elems(queue') \cup {e}
  BY <1>1, ElemsOfTail
<1>3. /\ \A b \in Actors : b # t => pc'[b] = pc[b] /\ arg'[b] = arg[b]
      /\ \A b \in Threads : b # t => ev'[b] = ev[b]
  BY <1>1 DEF Take, Go, TypeInv, ActorType
<1>4. Moves(t, l, s)
  BY <1>3 DEF Moves
<1>5. /\ l \in {"task", "io", "run", "close"}
      /\ l = "run" => e.kind = "done" /\ s = <<e.op>>
  BY <1>1 DEF Take, Go, TypeInv, ActorType
<1>6. e.kind = "io" => l = "io" /\ ev'[t] = e.events
  <2>1. e.kind = "io" => e # Task /\ e # Resolved
    BY EntryFacts
  <2> QED BY <1>1, <2>1 DEF Take, Go, TypeInv, ActorType
<1> HIDE DEF e, l, s
<1>7. \A E : OnItsWay(E) => OnItsWay(E)'
  <2>1. SUFFICES ASSUME NEW E, OnItsWay(E) PROVE OnItsWay(E)'
    OBVIOUS
  <2>2. Report' = Report
    BY <1>1 DEF Report
  <2>3. CASE pending /\ Report \cap E # {}
    BY <1>1, <2>2, <2>3, OnWayNext
  <2>4. CASE \E u \in Threads : pc[u] \in {"found", "io"} /\ ev[u] \cap E # {}
    <3>1. PICK u \in Threads : pc[u] \in {"found", "io"} /\ ev[u] \cap E # {}
      BY <2>4
    <3>2. pc'[u] = pc[u] /\ ev'[u] = ev[u]
      BY <1>1, <1>3, <3>1, NamesApart
    <3> QED BY <3>1, <3>2, OnWayNext
  <2>5. CASE \E i \in Elems(queue) : i.kind = "io" /\ i.events \cap E # {}
    <3>1. PICK i \in Elems(queue) : i.kind = "io" /\ i.events \cap E # {}
      BY <2>5
    <3>2. CASE i = e
      <4>1. pc'[t] = "io" /\ ev'[t] \cap E # {}
        BY <1>6, <3>1, <3>2 DEF l
      <4> QED BY <4>1, OnWayNext
    <3>3. CASE i # e
      BY <1>2, <3>1, <3>3, OnWayNext
    <3> QED BY <3>2, <3>3
  <2> QED BY <2>1, <2>3, <2>4, <2>5, OnWay
<1>8. NoLostEdge'
  BY <1>1, <1>7, SameBlocks
<1>9. Completed("connect")' => Completed("connect")
  <2>1. ASSUME l = "run", s = <<"connect">> PROVE Done("connect") \in Elems(queue)
    <3>1. PICK o \in Ops : e = Done(o) /\ e.op = o
      BY <1>1, <1>2, <1>5, <2>1, ElemsType, EntryKinds
    <3>2. o = "connect"
      BY <1>5, <2>1, <3>1
    <3> QED BY <1>2, <3>1, <3>2
  <2> QED BY <1>1, <1>2, <1>4, <2>1, CompletedMoves, CompletedIn
<1>10. MetInv'
  BY <1>1, <1>4, <1>5, <1>9, MetKept
<1> QED BY <1>8, <1>10 DEF Edges

LEMMA EpollWaitEdges ==
  ASSUME SessionInv, SessionInv', MetInv, NoLostEdge, NEW t \in Threads,
         EpollWait(t)
  PROVE  Edges
<1> DEFINE l == "found"
           s == arg[t]
<1>1. /\ TypeInv /\ pc[t] = "task" /\ t \in Actors /\ t # User /\ Go(t, l)
      /\ UNCHANGED <<conn, data, space, met, out, reads, writes, queue, arg, ec>>
      /\ ev' = [ev EXCEPT ![t] = IF pending THEN Report ELSE {}]
  BY NamesApart DEF SessionInv, EpollWait, state
<1>2. /\ \A b \in Threads : b # t => ev'[b] = ev[b]
      /\ pending => ev'[t] = Report
  BY <1>1 DEF TypeInv, ActorType
<1>3. Moves(t, l, s) /\ l = "found"
  BY <1>1, GoesOn
<1> HIDE DEF l, s
<1>4. \A E : OnItsWay(E) => OnItsWay(E)'
  <2>1. SUFFICES ASSUME NEW E, OnItsWay(E) PROVE OnItsWay(E)'
    OBVIOUS
  <2>2. CASE pending /\ Report \cap E # {}
    <3>1. pc'[t] = "found" /\ ev'[t] \cap E # {}
      BY <1>2, <1>3, <2>2 DEF Moves
    <3> QED BY <3>1, OnWayNext
  <2>3. CASE \E u \in Threads : pc[u] \in {"found", "io"} /\ ev[u] \cap E # {}
    <3>1. PICK u \in Threads : pc[u] \in {"found", "io"} /\ ev[u] \cap E # {}
      BY <2>3
    <3>2. pc'[u] = pc[u] /\ ev'[u] = ev[u]
      BY <1>1, <1>2, <1>3, <3>1, NamesApart DEF Moves
    <3> QED BY <3>1, <3>2, OnWayNext
  <2>4. CASE \E i \in Elems(queue) : i.kind = "io" /\ i.events \cap E # {}
    BY <1>1, <2>4, OnWayNext
  <2> QED BY <2>1, <2>2, <2>3, <2>4, OnWay
<1>5. NoLostEdge'
  BY <1>1, <1>4, SameBlocks
<1>6. Completed("connect")' => Completed("connect")
  BY <1>1, <1>3, CompletedMoves, CompletedIn
<1>7. MetInv'
  BY <1>1, <1>3, <1>6, MetKept
<1> QED BY <1>5, <1>7 DEF Edges

LEMMA QueueFoundEdges ==
  ASSUME SessionInv, SessionInv', MetInv, NoLostEdge, NEW t \in Threads,
         QueueFound(t)
  PROVE  Edges
<1> DEFINE l == "idle"
           s == arg[t]
           i == IF ev[t] = {} THEN <<>> ELSE <<Io(ev[t])>>
           k == <<Task>>
<1>1. /\ TypeInv /\ pc[t] = "found" /\ t \in Actors /\ t # User /\ Go(t, l)
      /\ UNCHANGED <<conn, data, space, pending, met, out, reads, writes, arg, ec>>
      /\ ev' = [ev EXCEPT ![t] = {}]
      /\ queue' = (queue \o i) \o k /\ queue \in Seq(Entries)
  BY NamesApart DEF SessionInv, TypeInv, QueueFound, kernel, state
<1>2. /\ \A b \in Threads : b # t => ev'[b] = ev[b]
      /\ ev[t] \subseteq Flags
  BY <1>1 DEF TypeInv, ActorType
<1>3. Moves(t, l, s) /\ l = "idle"
  BY <1>1, GoesOn
<1>4. /\ i \in Seq(Entries) /\ Elems(i) \subseteq {Io(ev[t])}
      /\ ev[t] # {} => Io(ev[t]) \in Elems(i)
      /\ k \in Seq(Entries) /\ Elems(k) = {Task}
  BY <1>2, EntryFacts, ElemsOfSingle, ElemsOfEmpty
<1> HIDE DEF l, s, i, k
<1>5. Elems(queue') = (Elems(queue) \cup Elems(i)) \cup Elems(k)
  <2> DEFINE q == queue \o i
  <2>1. q \in Seq(Entries) /\ Elems(q) = Elems(queue) \cup Elems(i)
    BY <1>1, <1>4, ElemsOfConcat
  <2>2. queue' = q \o k
    BY <1>1
  <2> HIDE DEF q
  <2> QED BY <1>4, <2>1, <2>2, ElemsOfConcat
<1>6. \A E : OnItsWay(E) => OnItsWay(E)'
  <2>1. SUFFICES ASSUME NEW E, OnItsWay(E) PROVE OnItsWay(E)'
    OBVIOUS
  <2>2. CASE pending /\ Report \cap E # {}
    <3>1. Report' = Report
      BY <1>1 DEF Report
    <3> QED BY <1>1, <2>2, <3>1, OnWayNext
  <2>3. CASE \E u \in Threads : pc[u] \in {"found", "io"} /\ ev[u] \cap E # {}
    <3>1. PICK u \in Threads : pc[u] \in {"found", "io"} /\ ev[u] \cap E # {}
      BY <2>3
    <3>2. CASE u = t
      <4> DEFINE x == Io(ev[t])
      <4>1. x \in Elems(queue') /\ x.kind = "io" /\ x.events \cap E # {}
        BY <1>2, <1>4, <1>5, <3>1, <3>2, EntryFacts
      <4> HIDE DEF x
      <4> QED BY <4>1, OnWayNext
    <3>3. CASE u # t
      <4>1. pc'[u] = pc[u] /\ ev'[u] = ev[u]
        BY <1>2, <1>3, <3>1, <3>3, NamesApart DEF Moves
      <4> QED BY <3>1, <4>1, OnWayNext
    <3> QED BY <3>2, <3>3
  <2>4. CASE \E x \in Elems(queue) : x.kind = "io" /\ x.events \cap E # {}
    BY <1>5, <2>4, OnWayNext
  <2> QED BY <2>1, <2>2, <2>3, <2>4, OnWay
<1>7. NoLostEdge'
  BY <1>1, <1>6, SameBlocks
<1>8. Completed("connect")' => Completed("connect")
  <2>1. Done("connect") # Task /\ Done("connect") # Io(ev[t])
    BY <1>2, NamesApart, EntryFacts DEF ChainOps
  <2> QED BY <1>1, <1>3, <1>4, <1>5, <2>1, CompletedMoves, CompletedIn
<1>9. MetInv'
  BY <1>1, <1>3, <1>8, MetKept
<1> QED BY <1>7, <1>9 DEF Edges

LEMMA SameReport ==
  ASSUME KernelType, KernelType', conn' = conn
  PROVE  /\ data' = data /\ Report \cap InFlags # {} => Report' \cap InFlags # {}
         /\ space' = space /\ (out => out') /\ Report \cap OutFlags # {}
              => Report' \cap OutFlags # {}
<1> DEFINE p == Poll(conn, data, space)
           q == Poll(conn', data', space')
<1>1. /\ conn \in Conns /\ data \in BOOLEAN /\ space \in BOOLEAN
      /\ data' \in BOOLEAN /\ space' \in BOOLEAN
  BY DEF KernelType
<1>2. data' = data => p \cap {"in", "err", "hup"} = q \cap {"in", "err", "hup"}
  BY <1>1 DEF Poll, Conns, Flags
<1>3. space' = space => p \cap OutFlags = q \cap OutFlags
  BY <1>1 DEF Poll, Conns, Flags, OutFlags
<1>4. Report = p \cap Mask(out) /\ Report' = q \cap Mask(out')
  BY DEF Report
<1>5. /\ InFlags \subseteq Mask(out) /\ InFlags \subseteq Mask(out')
      /\ (out => out') => Mask(out) \subseteq Mask(out')
  BY DEF Mask, Flags, InFlags
<1> HIDE DEF p, q
<1> QED BY <1>2, <1>3, <1>4, <1>5 DEF InFlags

(* What is on its way stays so when a thread gives up other events.        *)
LEMMA WayLeft ==
  ASSUME NEW a \in Threads, NEW l, NEW s, Moves(a, l, s),
         NEW E, ev[a] \cap E = {},
         \A t \in Threads : t # a => ev'[t] = ev[t],
         pending /\ Report \cap E # {} => pending' /\ Report' \cap E # {},
         \A e \in Elems(queue) : e.kind = "io" => e \in Elems(queue'),
         OnItsWay(E)
  PROVE  OnItsWay(E)'
<1>1. CASE pending /\ Report \cap E # {}
  BY <1>1, OnWayNext
<1>2. CASE \E t \in Threads : pc[t] \in {"found", "io"} /\ ev[t] \cap E # {}
  <2>1. PICK t \in Threads : pc[t] \in {"found", "io"} /\ ev[t] \cap E # {}
    BY <1>2
  <2>2. pc'[t] = pc[t] /\ ev'[t] = ev[t]
    BY <2>1, NamesApart DEF Moves
  <2> QED BY <2>1, <2>2, OnWayNext
<1>3. CASE \E e \in Elems(queue) : e.kind = "io" /\ e.events \cap E # {}
  BY <1>3, OnWayNext
<1> QED BY <1>1, <1>2, <1>3, OnWay

LEMMA LostIn ==
  ASSUME NoLostEdge
  PROVE  /\ reads # <<>> /\ ~WouldBlock("read") => OnItsWay(InFlags)
         /\ writes # <<>> /\ ~WouldBlock(writes[1]) => OnItsWay(OutFlags)
BY DEF NoLostEdge, InFlags, OutFlags

LEMMA LostInNext ==
  ASSUME reads' # <<>> /\ ~WouldBlock("read")' => OnItsWay(InFlags)',
         writes' # <<>> /\ ~WouldBlock(writes[1])' => OnItsWay(OutFlags)'
  PROVE  NoLostEdge'
BY DEF NoLostEdge, InFlags, OutFlags

LEMMA StartWaitsEdges ==
  ASSUME SessionInv, SessionInv', MetInv, NoLostEdge, NEW a \in Actors, Lock(a),
         StartWaits(a, arg[a][1])
  PROVE  Edges
<1> DEFINE o == arg[a][1]
           l == "idle"
           s == <<>>
<1>1. /\ TypeInv /\ pc[a] = "lock" /\ o \in Ops /\ HandsOver(a, o) /\ ev' = ev
      /\ KernelType /\ StateType /\ KernelType' /\ StateType'
  BY LockFacts DEF SessionInv, TypeInv
<1>2. Moves(a, l, s) /\ l \notin {"run", "look", "lock"} /\ Elems(s) = {}
  BY <1>1, ElemsOfEmpty DEF HandsOver
<1>3. a \in Threads /\ o = "connect" => Dialled(a)
  BY <1>1, HandFacts DEF Dialled
<1>4. o = "connect" => phase = "connecting" /\ a \in Threads
  BY <1>1, PhaseFacts DEF HandsOver, ChainOps
<1>5. /\ queue' = queue /\ UNCHANGED <<conn, data, space, met, ec>>
      /\ out' = (out \/ o # "read")
      /\ pending' = (pending \/ (o # "read" /\ (o = "connect" \/ ~out)
                                   /\ Poll(conn, data, space) # {}))
      /\ \/ o = "read" /\ reads' = Append(reads, o) /\ UNCHANGED writes
         \/ o # "read" /\ writes' = Append(writes, o) /\ UNCHANGED reads
      /\ o = "read" => reads # <<>> \/ WouldBlock(o)
      /\ o \in Writes => writes # <<>> \/ WouldBlock(o)
  BY NamesApart DEF StartWaits
<1> HIDE DEF o, l, s
<1>6. /\ o = "read" => reads = <<>>
      /\ o = "connect" => writes = <<>>
      /\ o \in Writes => writes \in Seq(Writes)
  BY <1>1, <1>5, WaitParts
<1>7. (pending => pending') /\ (out => out')
  BY <1>1, <1>5 DEF KernelType, StateType
<1>8. OnItsWay(InFlags) => OnItsWay(InFlags)'
  <2>1. pending /\ Report \cap InFlags # {} => pending' /\ Report' \cap InFlags # {}
    BY <1>1, <1>5, <1>7, SameReport
  <2> QED BY <1>1, <1>2, <1>5, <2>1, WayKept
<1>9. OnItsWay(OutFlags) => OnItsWay(OutFlags)'
  <2>1. pending /\ Report \cap OutFlags # {}
          => pending' /\ Report' \cap OutFlags # {}
    BY <1>1, <1>5, <1>7, SameReport
  <2> QED BY <1>1, <1>2, <1>5, <2>1, WayKept
<1>10. /\ WouldBlock("read")' <=> WouldBlock("read")
       /\ \A x \in Writes \cup {"connect"} : WouldBlock(x)' <=> WouldBlock(x)
  BY <1>1, <1>5, Blocks, BlocksNext
<1>11. reads' # <<>> /\ ~WouldBlock("read")' => OnItsWay(InFlags)'
  <2>1. CASE o = "read"
    BY <1>5, <1>6, <1>10, <2>1
  <2>2. CASE o # "read"
    BY <1>5, <1>8, <1>10, <2>2, LostIn
  <2> QED BY <2>1, <2>2
<1>12. writes' # <<>> /\ ~WouldBlock(writes[1])' => OnItsWay(OutFlags)'
  <2>1. SUFFICES ASSUME writes' # <<>>, ~WouldBlock(writes[1])'
                 PROVE  OnItsWay(OutFlags)'
    OBVIOUS
  <2>2. CASE o = "read"
    <3>1. writes' = writes /\ writes[1] \in Writes \cup {"connect"}
      BY <1>1, <1>5, <2>1, <2>2, NamesApart, FirstWrite
    <3> QED BY <1>9, <1>10, <2>1, <3>1, LostIn
  <2>3. CASE o = "connect"
    <3>1. /\ writes'[1] = "connect" /\ out'
          /\ Poll(conn, data, space) # {} => pending'
      <4>1. writes' = Append(writes, o) /\ writes = <<>>
        BY <1>5, <1>6, <2>3, NamesApart
      <4>2. out'
        BY <1>5, <2>3, NamesApart
      <4>3. Poll(conn, data, space) # {} => pending'
        BY <1>5, <2>3, NamesApart
      <4> QED BY <2>3, <4>1, <4>2, <4>3
    <3>2. "out" \in Poll(conn, data, space)
      <4>1. ~WouldBlock("connect")
        BY <1>10, <2>1, <3>1
      <4> QED BY <1>1, <4>1, Blocks, PollOut DEF KernelType
    <3> QED BY <1>5, <2>3, <3>1, <3>2, OnWayNext, NamesApart
            DEF Report, Mask, Flags, OutFlags
  <2>4. CASE o \in Writes
    <3>1. CASE writes = <<>>
      <4>1. writes'[1] = o
        BY <1>5, <2>4, <3>1, NamesApart
      <4> QED BY <1>5, <1>10, <2>1, <2>4, <3>1, <4>1
    <3>2. CASE writes # <<>>
      <4>1. writes'[1] = writes[1] /\ writes[1] \in Writes
        BY <1>5, <1>6, <2>4, <3>2, NamesApart
      <4> QED BY <1>9, <1>10, <2>1, <3>2, <4>1, LostIn
    <3> QED BY <3>1, <3>2
  <2> QED BY <1>1, <2>2, <2>3, <2>4, NamesApart DEF ChainOps
<1>13. writes' = <<"connect">> => \/ writes = <<"connect">>
                                  \/ \E t \in Threads : Dialled(t)
  <2>1. CASE o = "read"
    BY <1>5, <2>1, NamesApart
  <2>2. CASE o = "connect"
    BY <1>3, <1>4, <2>2
  <2>3. CASE o \in Writes
    <3>1. writes' \in Seq(Writes)
      BY <1>5, <1>6, <2>3, NamesApart, ElemsOfAppend
    <3> QED BY <3>1, SendsOnly
  <2> QED BY <1>1, <2>1, <2>2, <2>3, NamesApart DEF ChainOps
<1>14. Completed("connect")' => Completed("connect")
  BY <1>2, <1>5, CompletedMoves, CompletedIn
<1>15. MetInv'
  BY <1>2, <1>5, <1>13, <1>14, MetKept
<1>16. NoLostEdge'
  BY <1>11, <1>12, LostInNext
<1> QED BY <1>15, <1>16 DEF Edges

LEMMA StartPerformsEdges ==
  ASSUME SessionInv, SessionInv', MetInv, NoLostEdge, NEW a \in Actors, Lock(a),
         StartPerforms(a, arg[a][1])
  PROVE  Edges
<1> DEFINE o == arg[a][1]
           l == "idle"
           s == <<>>
<1>1. /\ TypeInv /\ pc[a] = "lock" /\ o \in Ops /\ HandsOver(a, o) /\ ev' = ev
      /\ KernelType /\ StateType /\ KernelType' /\ StateType'
      /\ queue \in Seq(Entries)
  BY LockFacts DEF SessionInv, TypeInv
<1>2. Moves(a, l, s) /\ l \notin {"run", "look", "lock"} /\ Elems(s) = {}
  BY <1>1, ElemsOfEmpty DEF HandsOver
<1>3. /\ o # "connect"
      /\ queue' = Append(queue, Done(o)) /\ ec' = [ec EXCEPT ![o] = Outcome(o)]
      /\ UNCHANGED <<conn, pending, met, out, reads, writes>>
      /\ Uses({o} \cap {"read"}, {o})
      /\ o = "read" => reads = <<>>
      /\ o # "read" => writes = <<>>
  BY DEF StartPerforms, Post, state
<1> HIDE DEF o, l, s
<1>4. /\ o = "read" => space' = space
      /\ o # "read" => data' = data
  BY <1>3, NamesApart DEF Uses
<1>5. /\ Elems(queue) \subseteq Elems(queue')
      /\ Done("connect") \in Elems(queue')
           => Done("connect") \in Elems(queue) \/ ec'["connect"] # "ok"
      /\ ec'["connect"] = ec["connect"] \/ ec'["connect"] # "ok"
  BY <1>1, <1>3, PostQuiet
<1>6. reads' # <<>> /\ ~WouldBlock("read")' => OnItsWay(InFlags)'
  <2>1. SUFFICES ASSUME reads' # <<>>, ~WouldBlock("read")'
                 PROVE  OnItsWay(InFlags)'
    OBVIOUS
  <2>2. data' = data
    BY <1>3, <1>4, <2>1
  <2>3. OnItsWay(InFlags)
    BY <1>1, <1>3, <2>1, <2>2, Blocks, BlocksNext, LostIn
  <2>4. pending /\ Report \cap InFlags # {} => pending' /\ Report' \cap InFlags # {}
    BY <1>1, <1>3, <2>2, SameReport
  <2> QED BY <1>1, <1>2, <1>5, <2>3, <2>4, WayKept
<1>7. writes' # <<>> /\ ~WouldBlock(writes[1])' => OnItsWay(OutFlags)'
  <2>1. SUFFICES ASSUME writes' # <<>>, ~WouldBlock(writes[1])'
                 PROVE  OnItsWay(OutFlags)'
    OBVIOUS
  <2>2. space' = space
    BY <1>3, <1>4, <2>1
  <2>3. writes'[1] = writes[1] /\ (writes[1] = "connect" \/ writes[1] \in Writes)
    BY <1>1, <1>3, <2>1, FirstWrite
  <2>4. ~WouldBlock(writes[1])
    BY <1>1, <1>3, <2>1, <2>2, <2>3, Blocks, BlocksNext
  <2>5. OnItsWay(OutFlags)
    BY <1>3, <2>1, <2>4, LostIn
  <2>6. pending /\ Report \cap OutFlags # {}
          => pending' /\ Report' \cap OutFlags # {}
    BY <1>1, <1>3, <2>2, SameReport
  <2> QED BY <1>1, <1>2, <1>5, <2>5, <2>6, WayKept
<1>8. Completed("connect")' /\ ec'["connect"] = "ok"
        => Completed("connect") /\ ec["connect"] = "ok"
  BY <1>2, <1>5, CompletedMoves, CompletedIn
<1>9. MetInv'
  BY <1>2, <1>3, <1>5, <1>8, MetKept
<1>10. NoLostEdge'
  BY <1>6, <1>7, LostInNext
<1> QED BY <1>9, <1>10 DEF Edges

LEMMA LockEdges ==
  ASSUME SessionInv, SessionInv', MetInv, NoLostEdge, NEW a \in Actors, Lock(a)
  PROVE  Edges
<1> DEFINE o == arg[a][1]
           l == "idle"
           s == <<>>
<1>1. /\ TypeInv /\ pc[a] = "lock" /\ o \in Ops /\ HandsOver(a, o) /\ ev' = ev
      /\ StartWaits(a, o) \/ StartPerforms(a, o) \/ StartShut(a, o)
  BY LockFacts
<1>2. Moves(a, l, s) /\ l \notin {"run", "look", "lock"} /\ "connect" \notin Elems(s)
  BY <1>1, ElemsOfEmpty DEF HandsOver
<1>3. CASE StartShut(a, o)
  <2>1. /\ queue' = Append(queue, Done(o)) /\ ec' = [ec EXCEPT ![o] = "empty"]
        /\ UNCHANGED <<conn, data, space, pending, met, out, reads, writes>>
    BY <1>3 DEF StartShut, Post, state, kernel
  <2> HIDE DEF o, l, s
  <2>2. /\ Elems(queue) \subseteq Elems(queue')
        /\ Done("connect") \in Elems(queue')
             => Done("connect") \in Elems(queue) \/ ec'["connect"] # "ok"
        /\ ec'["connect"] = ec["connect"] \/ ec'["connect"] # "ok"
    BY <1>1, <2>1, PostQuiet
  <2> QED BY <1>1, <1>2, <2>1, <2>2, Calm
<1> QED BY <1>1, <1>3, StartWaitsEdges, StartPerformsEdges

LEMMA RangeOfEmpty == Range(<<>>) = {}
<1>1. \A i \in DOMAIN <<>> : FALSE
  OBVIOUS
<1> QED BY <1>1 DEF Range

LEMMA NoneTaken ==
  ASSUME NEW S, NEW q \in Seq(S)
  PROVE  First(q, 0) = <<>> /\ Rest(q, 0) = q
<1>1. Len(q) \in Nat /\ 0 \in Nat
  OBVIOUS
<1> QED BY <1>1, SubSeqFull, SubSeqEmpty DEF First, Rest

LEMMA TakenAll ==
  ASSUME NEW S, NEW q \in Seq(S)
  PROVE  Rest(q, Len(q)) = <<>>
<1>1. Len(q) + 1 \in Int /\ Len(q) \in Int /\ Len(q) < Len(q) + 1
  OBVIOUS
<1> QED BY <1>1, SubSeqEmpty DEF Rest

(* What is left of a queue by perform_io is empty or begins with an        *)
(* operation that would block.                                             *)
LEMMA ReadsLeft ==
  ASSUME KernelType, KernelType', StateType, NEW k \in 0..Len(reads),
         NEW W, Uses(Range(Got(k)), W), reads' = Rest(reads, k), conn' = conn,
         Performs(reads, k), reads' # <<>>
  PROVE  WouldBlock("read")'
<1>1. reads \in Seq(Ops) /\ Len(reads) <= 1 /\ (reads = <<>> \/ reads[1] = "read")
  <2>1. CASE reads = <<>>
    BY <2>1
  <2>2. CASE reads = <<"read">>
    BY <2>2, NamesApart DEF ChainOps
  <2> QED BY <2>1, <2>2 DEF StateType
<1>2. k = 0 /\ Got(k) = <<>> /\ reads' = reads
  BY <1>1, Whole DEF Got
<1>3. data' = data
  <2>1. Range(Got(k)) = {}
    BY <1>2, RangeOfEmpty
  <2> QED BY <2>1 DEF Uses
<1>4. WouldBlock("read")
  BY <1>1, <1>2 DEF Performs
<1> QED BY <1>3, <1>4, Blocks, BlocksNext

LEMMA WritesLeft ==
  ASSUME KernelType, KernelType', StateType, StateType',
         NEW n \in 0..Len(writes), NEW R, Uses(R, Range(Sent(n))),
         writes' = Rest(writes, n), conn' = conn,
         Performs(writes, n), writes' # <<>>
  PROVE  WouldBlock(writes[1])'
<1>1. /\ writes \in Seq(Ops)
      /\ writes'[1] = "connect" \/ writes'[1] \in Writes
  BY OpQueues, FirstWriteNext
<1>2. writes # <<>>
  BY <1>1, NoneTaken DEF Performs
<1>3. CASE WouldBlock(writes[1])
  <2>1. n = 0
    BY <1>3 DEF Performs
  <2>2. Sent(n) = <<>> /\ writes' = writes
    BY <1>1, <2>1, NoneTaken DEF Sent
  <2>3. Range(Sent(n)) = {}
    BY <2>2, RangeOfEmpty
  <2>4. space' = space
    BY <2>3 DEF Uses
  <2> QED BY <1>1, <1>3, <2>2, <2>4, Blocks, BlocksNext
<1>4. CASE ~WouldBlock(writes[1])
  <2>1. n = Len(writes) \/ (conn \in {"up", "fin"} /\ ~space')
    BY <1>2, <1>4 DEF Performs
  <2>2. conn' \in {"up", "fin"} /\ ~space'
    BY <1>1, <2>1, TakenAll
  <2>3. BlocksSend(conn', space') /\ BlocksConnect(conn', space')
    BY <2>2 DEF BlocksSend, BlocksConnect
  <2> QED BY <1>1, <2>3, BlocksNext
<1> QED BY <1>3, <1>4

LEMMA IoMoves ==
  ASSUME TypeInv, NEW t \in Threads,
         NEW n \in 0..Len(writes), NEW k \in 0..Len(reads), IoStep(t, n, k),
         Batch(n, k) \in Seq(Ops)
  PROVE  /\ Moves(t, pc'[t], arg'[t]) /\ pc'[t] \in {"idle", "run"}
         /\ \A b \in Threads : b # t => ev'[b] = ev[b]
         /\ pc'[t] = "run"
              => \E o \in Elems(Batch(n, k)) : arg'[t] = <<o>>
         /\ Elems(queue) \subseteq Elems(queue')
         /\ \A o \in Ops : Done(o) \in Elems(queue')
              => Done(o) \in Elems(queue) \/ o \in Elems(Batch(n, k))
<1> DEFINE h == Batch(n, k)
<1>1. /\ \/ h = <<>> /\ Go(t, "idle") /\ UNCHANGED <<arg, queue>>
         \/ /\ h # <<>> /\ Go(t, "run") /\ arg' = [arg EXCEPT ![t] = <<Head(h)>>]
            /\ queue' = queue \o [i \in 1..Len(h) - 1 |-> Done(h[i + 1])]
      /\ ev' = [ev EXCEPT ![t] = {}] /\ t \in Actors /\ queue \in Seq(Entries)
  BY NamesApart DEF IoStep, TypeInv
<1> HIDE DEF h
<1>2. \A b \in Threads : b # t => ev'[b] = ev[b]
  BY <1>1 DEF TypeInv, ActorType
<1>3. CASE h = <<>> /\ Go(t, "idle") /\ UNCHANGED <<arg, queue>>
  <2> DEFINE l == "idle"
  <2>1. Moves(t, l, arg[t])
    BY <1>1, <1>3, GoesOn
  <2>2. pc'[t] = "idle" /\ arg'[t] = arg[t]
    BY <2>1 DEF Moves
  <2> QED BY <1>2, <1>3, <2>1, <2>2
<1>4. CASE /\ h # <<>> /\ Go(t, "run") /\ arg' = [arg EXCEPT ![t] = <<Head(h)>>]
           /\ queue' = queue \o [i \in 1..Len(h) - 1 |-> Done(h[i + 1])]
  <2> DEFINE l == "run"
             o == Head(h)
             s == <<o>>
             g == Tail(h)
  <2>1. g \in Seq(Ops) /\ o \in Elems(h) /\ Elems(g) \subseteq Elems(h)
    BY <1>4, ElemsOfTail DEF h
  <2>2. queue' = queue \o Posted(g)
    <3>1. Len(g) = Len(h) - 1 /\ \A i \in 1..Len(g) : g[i] = h[i + 1]
      BY <1>4, HeadTailProperties DEF h
    <3>2. Posted(g) = [i \in 1..Len(h) - 1 |-> Done(h[i + 1])]
      BY <3>1 DEF Posted
    <3> QED BY <1>4, <3>2
  <2>3. Moves(t, l, s)
    <3>1. Go(t, l) /\ arg' = [arg EXCEPT ![t] = s]
      BY <1>4
    <3> HIDE DEF l, s
    <3> QED BY <1>1, <3>1, GoesBoth
  <2>4. pc'[t] = "run" /\ arg'[t] = <<o>>
    BY <2>3 DEF Moves
  <2> HIDE DEF o, g
  <2>5. Elems(queue') = Elems(queue) \cup {Done(x) : x \in Elems(g)}
    BY <1>1, <2>1, <2>2, PostedFacts, Adds
  <2>6. ASSUME NEW x \in Ops, Done(x) \in Elems(queue')
        PROVE  Done(x) \in Elems(queue) \/ x \in Elems(h)
    <3>1. CASE Done(x) \in {Done(y) : y \in Elems(g)}
      <4>1. PICK y \in Elems(g) : Done(x) = Done(y)
        BY <3>1
      <4>2. y \in Ops
        BY <2>1, ElemsType
      <4> QED BY <2>1, <4>1, <4>2, EntryFacts
    <3> QED BY <2>5, <2>6, <3>1
  <2>7. Moves(t, pc'[t], arg'[t])
    BY <2>3, <2>4
  <2> QED BY <1>2, <2>1, <2>4, <2>5, <2>6, <2>7 DEF h
<1> QED BY <1>1, <1>3, <1>4

LEMMA PerformIoMet ==
  ASSUME SessionInv, MetInv, NEW t \in Threads,
         NEW n \in 0..Len(writes), NEW k \in 0..Len(reads), IoStep(t, n, k)
  PROVE  MetInv'
<1> DEFINE l == pc'[t]
           s == arg'[t]
           H == Elems(Batch(n, k))
<1>1. /\ TypeInv /\ KernelType /\ StateType /\ t \in Actors /\ t # User
      /\ UNCHANGED <<conn, met>>
      /\ writes' = Rest(writes, n) /\ reads' = Rest(reads, k)
      /\ ec' = [o \in Ops |-> IF o \in Range(Batch(n, k)) THEN Outcome(o) ELSE ec[o]]
      /\ n = 0 \/ Performs(writes, n)
  BY NamesApart DEF SessionInv, TypeInv, IoStep
<1>2. /\ Batch(n, k) \in Seq(Ops) /\ H = Elems(Sent(n)) \cup Elems(Got(k))
      /\ Has(Batch(n, k), ChainOps) => Waits
  BY <1>1, IoQueues
<1>3. /\ Moves(t, l, s) /\ l \in {"idle", "run"}
      /\ l = "run" => \E o \in H : s = <<o>>
      /\ \A o \in Ops : Done(o) \in Elems(queue')
           => Done(o) \in Elems(queue) \/ o \in H
  BY <1>1, <1>2, IoMoves
<1>4. /\ reads \in Seq(Ops) /\ writes \in Seq(Ops)
      /\ Elems(Sent(n)) \subseteq Elems(writes) /\ Elems(Got(k)) \subseteq Elems(reads)
  BY <1>1, OpQueues, Splits DEF Sent, Got
<1>5. /\ "connect" \in Ops /\ "connect" \notin Elems(reads)
      /\ "connect" \in H => ec'["connect"] = Outcome("connect")
      /\ "connect" \notin H => ec'["connect"] = ec["connect"]
  <2>1. "connect" \in Ops
    BY NamesApart DEF ChainOps
  <2>2. "connect" \notin Elems(reads)
    BY <1>1, NamesApart, ElemsOfEmpty, ElemsOfSingle DEF StateType
  <2>3. Range(Batch(n, k)) = H
    BY <1>2, RangeElems
  <2> QED BY <1>1, <2>1, <2>2, <2>3
<1>6. "connect" \in H => /\ ~Aborts
                         /\ Outcome("connect") = "ok" => met /\ conn # "connecting"
  <2>1. SUFFICES ASSUME "connect" \in H
                 PROVE  /\ ~Aborts
                        /\ Outcome("connect") = "ok" => met /\ conn # "connecting"
    OBVIOUS
  <2>2. "connect" \in Elems(Sent(n)) /\ "connect" \in Elems(writes)
    BY <1>2, <1>4, <1>5, <2>1
  <2>3. writes = <<"connect">> /\ writes[1] = "connect" /\ writes # <<>>
    <3>1. writes \notin Seq(Writes)
      BY <2>2, ElemsType, NamesApart
    <3> QED BY <1>1, <3>1 DEF StateType
  <2>4. Waits
    BY <2>3 DEF Waits
  <2>5. ~Aborts
    BY <2>4 DEF SessionInv, ChainInv, SiteInv
  <2>6. n # 0
    <3>1. SUFFICES ASSUME n = 0 PROVE FALSE
      OBVIOUS
    <3>2. Sent(n) = <<>>
      BY <1>4, <3>1, NoneTaken DEF Sent
    <3> QED BY <2>2, <3>2, ElemsOfEmpty
  <2>7. ~WouldBlock("connect")
    BY <1>1, <2>3, <2>6 DEF Performs
  <2>8. ~BlocksConnect(conn, space) /\ conn # "fresh"
    BY <1>1, <2>3, <2>7, Blocks DEF MetInv
  <2>9. conn \in {"up", "fin", "shut", "dead"}
    BY <2>8 DEF BlocksConnect
  <2>10. Outcome("connect") = "ok" => conn # "dead"
    BY NamesApart DEF Outcome
  <2>11. Outcome("connect") = "ok" => met /\ conn # "connecting"
    BY <2>9, <2>10 DEF MetInv
  <2> QED BY <2>5, <2>11
<1> HIDE DEF l, s, H
<1>7. "connect" \notin H => (Completed("connect")' => Completed("connect"))
  BY <1>1, <1>3, <1>5, CompletedMoves, CompletedIn
<1>8. writes' = <<"connect">> => writes = <<"connect">>
  <2>1. CASE writes \in Seq(Writes)
    <3>1. writes' \in Seq(Writes)
      BY <1>1, <2>1, Splits
    <3> QED BY <3>1, SendsOnly
  <2> QED BY <1>1, <2>1 DEF StateType
<1>9. Completed("connect")' /\ ec'["connect"] = "ok"
        => \/ Completed("connect") /\ ec["connect"] = "ok"
           \/ met /\ conn # "connecting"
  BY <1>5, <1>6, <1>7
<1>10. ec'["connect"] = "ok" => ec["connect"] = "ok" \/ ~Aborts
  BY <1>5, <1>6
<1>11. l \notin {"look", "lock"}
  BY <1>3
<1> QED BY <1>1, <1>3, <1>8, <1>9, <1>10, <1>11, MetKept

LEMMA PerformIoEdges ==
  ASSUME SessionInv, SessionInv', MetInv, NoLostEdge, NEW t \in Threads,
         PerformIo(t)
  PROVE  Edges
<1>1. PICK n \in 0..Len(writes), k \in 0..Len(reads) : IoStep(t, n, k)
  BY PerformIoSteps
<1> DEFINE l == pc'[t]
           s == arg'[t]
<1>2. /\ TypeInv /\ KernelType /\ StateType /\ KernelType' /\ StateType'
      /\ UNCHANGED <<conn, pending, out>>
      /\ writes' = Rest(writes, n) /\ reads' = Rest(reads, k)
      /\ Uses(Range(Got(k)), Range(Sent(n)))
      /\ ev[t] \cap OutFlags # {} => Performs(writes, n)
      /\ ev[t] \cap OutFlags = {} => n = 0
      /\ ev[t] \cap InFlags # {} => Performs(reads, k)
      /\ ev[t] \cap InFlags = {} => k = 0
      /\ reads \in Seq(Ops) /\ writes \in Seq(Ops)
  <2>1. TypeInv /\ KernelType /\ StateType /\ KernelType' /\ StateType'
    BY DEF SessionInv, TypeInv
  <2> QED BY <1>1, <2>1, OpQueues DEF IoStep, InFlags, OutFlags
<1>3. /\ Moves(t, l, s)
      /\ \A b \in Threads : b # t => ev'[b] = ev[b]
      /\ Elems(queue) \subseteq Elems(queue')
  BY <1>1, <1>2, IoQueues, IoMoves
<1> HIDE DEF l, s
<1>4. reads' # <<>> /\ ~WouldBlock("read")' => OnItsWay(InFlags)'
  <2>1. SUFFICES ASSUME reads' # <<>>, ~WouldBlock("read")'
                 PROVE  OnItsWay(InFlags)'
    OBVIOUS
  <2>2. ev[t] \cap InFlags = {}
    BY <1>2, <2>1, ReadsLeft
  <2>3. Got(k) = <<>> /\ reads' = reads
    BY <1>2, <2>2, NoneTaken DEF Got
  <2>4. data' = data
    <3>1. Range(Got(k)) = {}
      BY <2>3, RangeOfEmpty
    <3> QED BY <1>2, <3>1 DEF Uses
  <2>5. OnItsWay(InFlags)
    BY <1>2, <2>1, <2>3, <2>4, Blocks, BlocksNext, LostIn
  <2>6. pending /\ Report \cap InFlags # {} => pending' /\ Report' \cap InFlags # {}
    BY <1>2, <2>4, SameReport
  <2> QED BY <1>3, <2>2, <2>5, <2>6, WayLeft
<1>5. writes' # <<>> /\ ~WouldBlock(writes[1])' => OnItsWay(OutFlags)'
  <2>1. SUFFICES ASSUME writes' # <<>>, ~WouldBlock(writes[1])'
                 PROVE  OnItsWay(OutFlags)'
    OBVIOUS
  <2>2. ev[t] \cap OutFlags = {}
    BY <1>2, <2>1, WritesLeft
  <2>3. Sent(n) = <<>> /\ writes' = writes
    BY <1>2, <2>2, NoneTaken DEF Sent
  <2>4. space' = space
    <3>1. Range(Sent(n)) = {}
      BY <2>3, RangeOfEmpty
    <3> QED BY <1>2, <3>1 DEF Uses
  <2>5. writes'[1] = writes[1] /\ (writes[1] = "connect" \/ writes[1] \in Writes)
    BY <1>2, <2>1, <2>3, FirstWrite
  <2>6. ~WouldBlock(writes[1])
    BY <1>2, <2>1, <2>4, <2>5, Blocks, BlocksNext
  <2>7. OnItsWay(OutFlags)
    BY <2>1, <2>3, <2>6, LostIn
  <2>8. pending /\ Report \cap OutFlags # {}
          => pending' /\ Report' \cap OutFlags # {}
    BY <1>2, <2>4, SameReport
  <2> QED BY <1>3, <2>2, <2>7, <2>8, WayLeft
<1>6. NoLostEdge'
  BY <1>4, <1>5, LostInNext
<1>7. MetInv'
  BY <1>1, PerformIoMet
<1> QED BY <1>6, <1>7 DEF Edges

LEMMA EdgesStep ==
  ASSUME SessionInv, SessionInv', ShutInv, ShutInv', MetInv, NoLostEdge,
         [Next]_vars
  PROVE  Edges
<1>1. \A t \in Threads : t \in Actors
  BY NamesApart
<1>2. User \in Actors
  BY NamesApart
<1>3. ASSUME NEW t \in Threads, Service(t) PROVE Edges
  BY <1>1, <1>3, TakeEdges, EpollWaitEdges, QueueFoundEdges, PerformIoEdges,
     LookEdges, LockEdges, DeregisterEdges, FreeEdges, CloseFdEdges, OpenEdges,
     DialEdges, HandlerEdges, OtherEdges DEF Service
<1>4. ASSUME Call PROVE Edges
  BY <1>2, <1>4, LookEdges, LockEdges, DeregisterEdges, FreeEdges, CloseFdEdges,
     OtherEdges DEF Call
<1> QED BY <1>3, <1>4, KernelEdges, DisconnectEdges, WriteEdges, OtherEdges
        DEF Next

LEMMA EdgesInit ==
  ASSUME Init
  PROVE  MetInv /\ NoLostEdge
<1>1. /\ reads = <<>> /\ writes = <<>> /\ conn = "none"
      /\ User \in Actors
      /\ \A a \in Actors : pc[a] = "idle" /\ arg[a] = <<>>
      /\ \A o \in Ops : ec[o] = "none"
  BY NamesApart DEF Init
<1>2. "connect" \in Ops
  BY NamesApart DEF ChainOps
<1>3. NoLostEdge
  BY <1>1 DEF NoLostEdge
<1>4. \A t \in Threads : ~Dialled(t)
  BY <1>1, NamesApart DEF Dialled
<1>5. MetInv
  BY <1>1, <1>2, <1>4, ElemsOfEmpty DEF MetInv
<1> QED BY <1>3, <1>5

LEMMA ReactorInit ==
  ASSUME Init
  PROVE  ReactorInv
BY SessionInit, MarksInit, EdgesInit DEF ReactorInv

LEMMA ReactorStep ==
  ASSUME ReactorInv, [Next]_vars
  PROVE  ReactorInv'
<1>1. SessionInv'
  BY SessionStep DEF ReactorInv
<1>2. ShutInv' /\ RaceInv'
  BY MarksStep DEF ReactorInv
<1>3. Edges
  BY <1>1, <1>2, EdgesStep DEF ReactorInv
<1> QED BY <1>1, <1>2, <1>3 DEF ReactorInv, Edges

(* Every step of the threads, the disconnecting thread, the kernel and the *)
(* peer keeps the invariant: the chain of handlers is in one place, close  *)
(* and open leave the descriptor_state as the next endpoint needs it, and  *)
(* reports and connections are what the operations rely on.                *)
THEOREM Invariant == Spec => []ReactorInv
<1>1. Init => ReactorInv
  BY ReactorInit
<1>2. ReactorInv /\ [Next]_vars => ReactorInv'
  BY ReactorStep
<1> QED BY <1>1, <1>2, PTL DEF Spec

-----------------------------------------------------------------------------
(***************************************************************************)
(* The theorems.                                                           *)
(***************************************************************************)

(* The task is an entry of the queue, once, or one thread has it.          *)
LEMMA OneTask ==
  ASSUME SessionInv
  PROVE  Cardinality({i \in 1..Len(queue) : queue[i] = Task})
           + Cardinality({t \in Threads : pc[t] \in {"task", "found"}}) = 1
<1> DEFINE I == {i \in 1..Len(queue) : queue[i] = Task}
           T == {t \in Threads : Holding(t)}
<1>1. TaskInv
  BY DEF SessionInv
<1>2. {t \in Threads : pc[t] \in {"task", "found"}} = T
  BY DEF Holding
<1>3. ASSUME \A t \in Threads : ~Holding(t)
      PROVE  Cardinality(I) = 1 /\ Cardinality(T) = 0
  <2>1. Has(queue, {Task}) /\ T = {}
    BY <1>1, <1>3 DEF TaskInv
  <2>2. PICK i \in 1..Len(queue) : queue[i] = Task
    BY <2>1 DEF Has, Elems
  <2>3. I = {i}
    BY <1>1, <2>2 DEF TaskInv, AtMostOne
  <2> HIDE DEF I, T
  <2> QED BY <2>1, <2>3, FS_Singleton, FS_EmptySet
<1>4. ASSUME \E t \in Threads : Holding(t)
      PROVE  Cardinality(I) = 0 /\ Cardinality(T) = 1
  <2>1. PICK t \in Threads : Holding(t)
    BY <1>4
  <2>2. T = {t}
    BY <1>1, <2>1 DEF TaskInv
  <2>3. ~Has(queue, {Task})
    BY <1>1, <2>1 DEF TaskInv
  <2>4. I = {}
    BY <2>3 DEF Has, Elems
  <2> HIDE DEF I, T
  <2> QED BY <2>2, <2>4, FS_Singleton, FS_EmptySet
<1> HIDE DEF T
<1>5. Cardinality(I) + Cardinality(T) = 1
  <2> HIDE DEF I
  <2> QED BY <1>3, <1>4
<1> QED BY <1>2, <1>5

(* Every variable keeps its type, and epoll_wait is run by one thread at a *)
(* time: the task is once in the queue or with one thread.                 *)
THEOREM TypeCorrect == Spec => []TypeOK
<1>1. ReactorInv => TypeOK
  <2>1. SUFFICES ASSUME ReactorInv PROVE TypeOK
    OBVIOUS
  <2>2. SessionInv /\ TypeInv
    BY <2>1 DEF ReactorInv, SessionInv
  <2>3. KernelType /\ StateType /\ ActorType /\ SessionType
    BY <2>2 DEF TypeInv
  <2>4. {data, space, pending, out, shut, open, attached, met, raced}
          \subseteq BOOLEAN
    <3>1. /\ data \in BOOLEAN /\ space \in BOOLEAN /\ pending \in BOOLEAN
          /\ met \in BOOLEAN /\ out \in BOOLEAN /\ shut \in BOOLEAN
          /\ open \in BOOLEAN /\ attached \in BOOLEAN /\ raced \in BOOLEAN
      BY <2>3 DEF KernelType, StateType, SessionType
    <3> QED BY <3>1
  <2>5. Cardinality({i \in 1..Len(queue) : queue[i] = Task})
          + Cardinality({t \in Threads : pc[t] \in {"task", "found"}}) = 1
    BY <2>2, OneTask
  <2> QED BY <2>3, <2>4, <2>5
          DEF TypeOK, KernelType, StateType, ActorType, SessionType
<1> QED BY <1>1, Invariant, PTL

(* start_op, perform_io and epoll_wait run on different threads and share  *)
(* no lock, and yet no report that an operation waits for gets lost:       *)
(* whatever the threads, the operations and the number of endpoints, an    *)
(* operation waits only while it would block or a report is on its way.    *)
THEOREM NoReportLost == Spec => []NoLostEdge
<1>1. ReactorInv => NoLostEdge
  BY DEF ReactorInv
<1> QED BY <1>1, Invariant, PTL

(* async_connect is told of a success only when the peer has accepted the  *)
(* connection it has now, although reports can be about an earlier one;    *)
(* and an operation completes untried, or start_op meets a null pointer,   *)
(* only after cq_irc_session_disconnect ran beside the start of one.       *)
THEOREM CompletionsReal == Spec => []CompletionsAreReal
<1>1. ReactorInv => CompletionsAreReal
  BY DEF ReactorInv, MetInv, RaceInv, CompletionsAreReal
<1> QED BY <1>1, Invariant, PTL

=============================================================================
