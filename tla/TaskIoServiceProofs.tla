------------------------ MODULE TaskIoServiceProofs ------------------------
(***************************************************************************)
(* Proofs about TaskIoService, for any number of threads and operations.   *)
(***************************************************************************)
EXTENDS TaskIoService, SequenceElements, FiniteSetTheorems

(* The parts of TypeOK; that outstanding_work_ is never negative needs the *)
(* count of the work.                                                      *)
QueueType ==
  /\ opq \in Seq(Entries \cup {Task})
  /\ cur \in [Threads -> Entries \cup {None}]
  /\ priv \in [Threads -> Seq(Entries)]

WakeType ==
  /\ {stopped, interrupted, bit, poke, keep, halted} \subseteq BOOLEAN
  /\ waiters \subseteq Runners /\ signalled \subseteq waiters
  /\ owes \subseteq Actors

WorkType ==
  /\ outstanding \in Int
  /\ edge \subseteq Ops /\ avail \subseteq Ops
  /\ pc \in [Actors -> PcValues]
  /\ privWork \in [Threads -> Nat]
  /\ life \in [Ops -> Lives]

PushType ==
  /\ arg \in [Actors -> Ops \cup {None}]
  /\ \A a \in Actors : pc[a] = "push" => arg[a] \in Ops

TypeInv == QueueType /\ WakeType /\ WorkType /\ PushType

LEMMA TypeParts == TypeInv /\ outstanding \in Nat => TypeOK
BY Zenon DEF TypeInv, QueueType, WakeType, WorkType, PushType, TypeOK

LEMMA EntryFacts ==
  /\ Task \notin Entries /\ None \notin Entries /\ Task # None
  /\ \A o \in Ops : /\ Op(o) \in Entries /\ Io(o) \in Entries
                    /\ Op(o).kind = "op" /\ Io(o).kind = "io"
                    /\ Op(o).op = o /\ Io(o).op = o
  /\ \A e \in Entries :
       /\ e.op \in Ops /\ e.kind \in {"op", "io"}
       /\ e.kind = "op" => e = Op(e.op)
       /\ e.kind = "io" => e = Io(e.op)
  /\ \A o, n \in Ops : /\ Op(o) # Io(n)
                       /\ Op(o) = Op(n) => o = n
                       /\ Io(o) = Io(n) => o = n
<1>1. Task \notin Entries /\ None \notin Entries /\ Task # None
  <2>1. Task.kind = "task" /\ None.kind = "none"
    BY DEF Task, None
  <2>2. \A e \in Entries : e.kind \in {"op", "io"}
    BY DEF Entries
  <2> QED BY <2>1, <2>2
<1>2. \A o \in Ops : /\ Op(o) \in Entries /\ Io(o) \in Entries
                     /\ Op(o).kind = "op" /\ Io(o).kind = "io"
                     /\ Op(o).op = o /\ Io(o).op = o
  BY DEF Op, Io, Entries
<1>3. \A e \in Entries :
        /\ e.op \in Ops /\ e.kind \in {"op", "io"}
        /\ e.kind = "op" => e = Op(e.op)
        /\ e.kind = "io" => e = Io(e.op)
  BY DEF Op, Io, Entries
<1>4. \A o, n \in Ops : /\ Op(o) # Io(n)
                        /\ Op(o) = Op(n) => o = n
                        /\ Io(o) = Io(n) => o = n
  <2>1. SUFFICES ASSUME NEW o \in Ops, NEW n \in Ops
                 PROVE  /\ Op(o) # Io(n)
                        /\ Op(o) = Op(n) => o = n
                        /\ Io(o) = Io(n) => o = n
    OBVIOUS
  <2>2. /\ Op(o).kind = "op" /\ Io(n).kind = "io" /\ Op(o).op = o
        /\ Op(n).op = n /\ Io(o).op = o /\ Io(n).op = n
    BY <1>2
  <2> QED BY <2>2
<1> QED BY <1>1, <1>2, <1>3, <1>4

LEMMA InitType == Init => TypeInv
<1> SUFFICES ASSUME Init PROVE TypeInv
  OBVIOUS
<1>1. QueueType
  <2>1. <<Task>> \in Seq(Entries \cup {Task})
    OBVIOUS
  <2>2. <<>> \in Seq(Entries)
    OBVIOUS
  <2> QED BY <2>1, <2>2 DEF Init, QueueType
<1>2. WakeType
  BY DEF Init, WakeType
<1>3. WorkType
  BY DEF Init, WorkType, PcValues, Lives
<1>4. PushType
  BY DEF Init, PushType
<1> QED BY <1>1, <1>2, <1>3, <1>4 DEF TypeInv

(* What the notifying operations change.                                   *)
LEMMA WakesType ==
  ASSUME WakeType, NEW a \in Actors, NEW W, NEW i \in BOOLEAN,
         WakeOneThreadAndUnlock(a, W, i)
  PROVE  /\ bit' = TRUE /\ owes' \subseteq Actors
         /\ interrupted' \in BOOLEAN /\ poke' \in BOOLEAN
BY DEF WakeType, WakeOneThreadAndUnlock, UnlockAndSignalOne

-----------------------------------------------------------------------------
(***************************************************************************)
(* A turn of a thread's loop, the queue being q: the thread leaves, sleeps,*)
(* takes the task or takes another entry.                                  *)
(***************************************************************************)

Leaves(t, q) ==
  /\ opq' = q /\ Return(t) /\ waiters' = waiters \ {t}
  /\ UNCHANGED <<cur, life>>

Sleeps(t, q) ==
  /\ q = <<>> /\ opq' = q /\ t \in Runners
  /\ Go(t, "wait") /\ waiters' = waiters \cup {t}
  /\ UNCHANGED <<cur, life>>

TakesTask(t, q) ==
  /\ q # <<>> /\ Head(q) = Task /\ opq' = Tail(q)
  /\ Go(t, "scan") \/ (t \in Runners /\ Go(t, "block"))
  /\ waiters' = waiters \ {t}
  /\ UNCHANGED <<cur, life>>

TakesEntry(t, q) ==
  /\ q # <<>> /\ Head(q) # Task /\ opq' = Tail(q)
  /\ cur' = [cur EXCEPT ![t] = Head(q)]
  /\ life' = IF Head(q).kind = "op" THEN [life EXCEPT ![Head(q).op] = "running"]
             ELSE life
  /\ Go(t, IF Head(q).kind = "op" THEN "handler" ELSE "io")
  /\ waiters' = waiters \ {t}

Turn(t, q) ==
  /\ priv' = [priv EXCEPT ![t] = <<>>]
  /\ UNCHANGED <<outstanding, stopped, kernel, privWork, arg, keep, halted>>
  /\ Leaves(t, q) \/ Sleeps(t, q) \/ TakesTask(t, q) \/ TakesEntry(t, q)

(* The turns a thread makes, and the queue that each finds.                *)
Turns(t) ==
  \/ pc[t] = "loop" /\ Turn(t, opq \o priv[t])
  \/ pc[t] = "wait" /\ t \in Runners /\ Turn(t, opq)
  \/ pc[t] = "found" /\ Turn(t, opq \o priv[t] \o <<Task>>)

LEMMA DoRunOneTurn ==
  ASSUME NEW t \in Runners, NEW q, NEW i, DoRunOne(t, q, waiters \ {t}, i)
  PROVE  Turn(t, q)
<1>1. (waiters \ {t}) \cup {t} = waiters \cup {t}
  OBVIOUS
<1>2. TakeHandler(t, q, waiters \ {t}, i) /\ q # <<>>
      /\ waiters' = waiters \ {t} => TakesEntry(t, q)
  BY DEF TakeHandler, TakesEntry
<1>3. Leaves(t, q) \/ Sleeps(t, q) \/ TakesTask(t, q) \/ TakesEntry(t, q)
  BY <1>1, <1>2 DEF DoRunOne, Leaves, Sleeps, TakesTask, Go
<1>4. /\ priv' = [priv EXCEPT ![t] = <<>>]
      /\ UNCHANGED <<outstanding, stopped, kernel, privWork, arg, keep, halted>>
  BY DEF DoRunOne
<1> QED BY <1>3, <1>4 DEF Turn

LEMMA DoPollOneTurn ==
  ASSUME NEW t, t \notin waiters, NEW q, DoPollOne(t, q)
  PROVE  Turn(t, q)
<1>1. waiters' = waiters \ {t}
  BY DEF DoPollOne
<1>2. TakeHandler(t, q, waiters, interrupted) /\ q # <<>> => TakesEntry(t, q)
  BY <1>1 DEF TakeHandler, TakesEntry
<1>3. Leaves(t, q) \/ TakesTask(t, q) \/ TakesEntry(t, q)
  BY <1>1, <1>2 DEF DoPollOne, Leaves, TakesTask
<1>4. /\ priv' = [priv EXCEPT ![t] = <<>>]
      /\ UNCHANGED <<outstanding, stopped, kernel, privWork, arg, keep, halted>>
  BY DEF DoPollOne
<1> QED BY <1>3, <1>4 DEF Turn

LEMMA PollAfterTaskTurn ==
  ASSUME NEW t, t \notin waiters, NEW q, q # <<>>, PollAfterTask(t, q)
  PROVE  Turn(t, q)
<1>1. waiters' = waiters \ {t}
  BY DEF PollAfterTask
<1>2. TakeHandler(t, q, waiters, TRUE) => TakesEntry(t, q)
  BY <1>1 DEF TakeHandler, TakesEntry
<1>3. Leaves(t, q) \/ TakesEntry(t, q)
  BY <1>1, <1>2 DEF PollAfterTask, Leaves
<1>4. /\ priv' = [priv EXCEPT ![t] = <<>>]
      /\ UNCHANGED <<outstanding, stopped, kernel, privWork, arg, keep, halted>>
  BY DEF PollAfterTask
<1> QED BY <1>3, <1>4 DEF Turn

(* Who waits is in the queue of the event.                                 *)
WaitInv ==
  /\ waiters = {t \in Threads : pc[t] = "wait"}
  /\ \A t \in Threads : pc[t] \in {"wait", "block"} => t \in Runners

LEMMA QueueTypes ==
  ASSUME QueueType, NEW t \in Threads
  PROVE  /\ opq \o priv[t] \in Seq(Entries \cup {Task})
         /\ opq \o priv[t] \o <<Task>> \in Seq(Entries \cup {Task})
         /\ opq \o priv[t] \o <<Task>> # <<>>
         /\ opq \in Seq(Entries \cup {Task}) /\ priv[t] \in Seq(Entries)
         /\ priv[t] \in Seq(Entries \cup {Task})
<1>1. opq \in Seq(Entries \cup {Task}) /\ priv[t] \in Seq(Entries)
  BY DEF QueueType
<1>2. priv[t] \in Seq(Entries \cup {Task})
  BY <1>1, SeqMonotonic
<1> DEFINE q == opq \o priv[t]
<1>3. q \in Seq(Entries \cup {Task})
  BY <1>1, <1>2, ConcatProperties
<1> HIDE DEF q
<1>4. <<Task>> \in Seq(Entries \cup {Task}) /\ Len(<<Task>>) = 1
  OBVIOUS
<1>5. /\ q \o <<Task>> \in Seq(Entries \cup {Task})
      /\ Len(q \o <<Task>>) = Len(q) + 1 /\ Len(q) \in Nat
  BY <1>3, <1>4, ConcatProperties
<1>6. q \o <<Task>> # <<>>
  BY <1>5, EmptySeq
<1> QED BY <1>1, <1>2, <1>3, <1>5, <1>6 DEF q

LEMMA ServiceTurns ==
  ASSUME QueueType, WaitInv, NEW t \in Threads,
         Loop(t) \/ (Wake(t) /\ bit) \/ TaskCleanup(t)
  PROVE  Turns(t)
<1>1. pc[t] # "wait" => t \notin waiters /\ waiters \ {t} = waiters
  BY DEF WaitInv
<1>2. CASE Loop(t)
  <2>1. pc[t] = "loop"
    BY <1>2 DEF Loop, At
  <2>2. CASE t \in Runners
    BY <1>1, <1>2, <2>1, <2>2, DoRunOneTurn DEF Loop, Turns
  <2>3. CASE t \notin Runners
    BY <1>1, <1>2, <2>1, <2>3, DoPollOneTurn DEF Loop, Turns
  <2> QED BY <2>2, <2>3
<1>3. CASE Wake(t) /\ bit
  <2>1. pc[t] = "wait" /\ t \in Runners
    BY <1>3 DEF Wake, At, WaitInv
  <2>2. DoRunOne(t, opq, waiters \ {t}, interrupted)
    BY <1>3 DEF Wake
  <2> QED BY <2>1, <2>2, DoRunOneTurn DEF Turns
<1>4. CASE TaskCleanup(t)
  <2> DEFINE q == opq \o priv[t] \o <<Task>>
  <2>1. pc[t] = "found" /\ q # <<>>
    BY <1>4, QueueTypes DEF TaskCleanup, At
  <2>2. IF t \in Runners THEN DoRunOne(t, q, waiters, TRUE)
                         ELSE PollAfterTask(t, q)
    BY <1>4 DEF TaskCleanup
  <2> HIDE DEF q
  <2>3. Turn(t, q)
    BY <1>1, <2>1, <2>2, DoRunOneTurn, PollAfterTaskTurn
  <2> QED BY <2>1, <2>3 DEF q, Turns
<1> QED BY <1>2, <1>3, <1>4

-----------------------------------------------------------------------------
(***************************************************************************)
(* Types.                                                                  *)
(***************************************************************************)

LEMMA SameTypes ==
  /\ QueueType /\ UNCHANGED <<opq, cur, priv>> => QueueType'
  /\ WakeType /\ UNCHANGED <<stopped, event, task, keep, halted>> => WakeType'
  /\ WorkType /\ UNCHANGED <<outstanding, kernel, pc, privWork, life>>
       => WorkType'
  /\ PushType /\ UNCHANGED <<pc, arg>> => PushType'
<1>1. QueueType /\ UNCHANGED <<opq, cur, priv>> => QueueType'
  BY DEF QueueType
<1>2. WakeType /\ UNCHANGED <<stopped, event, task, keep, halted>> => WakeType'
  BY Zenon DEF WakeType, event, task
<1>3. WorkType /\ UNCHANGED <<outstanding, kernel, pc, privWork, life>>
       => WorkType'
  BY DEF WorkType, kernel
<1>4. PushType /\ UNCHANGED <<pc, arg>> => PushType'
  BY DEF PushType
<1> QED BY <1>1, <1>2, <1>3, <1>4

(* An actor goes on to something else than a push.                         *)
LEMMA GoesType ==
  ASSUME TypeInv, NEW a \in Actors, NEW l \in PcValues \ {"push"}, Go(a, l)
  PROVE  /\ pc' \in [Actors -> PcValues]
         /\ arg' = arg => PushType'
BY DEF TypeInv, WorkType, PushType, Go

LEMMA TurnType ==
  ASSUME TypeInv, NEW t \in Threads, NEW q \in Seq(Entries \cup {Task}),
         Turn(t, q)
  PROVE  QueueType' /\ WorkType' /\ PushType'
<1>1. /\ priv' = [priv EXCEPT ![t] = <<>>]
      /\ UNCHANGED <<outstanding, stopped, kernel, privWork, arg, keep, halted>>
      /\ t \in Actors
  BY DEF Turn, Actors
<1>2. priv' \in [Threads -> Seq(Entries)]
  <2>1. <<>> \in Seq(Entries)
    OBVIOUS
  <2> QED BY <1>1, <2>1 DEF TypeInv, QueueType
<1>3. q # <<>> => /\ Tail(q) \in Seq(Entries \cup {Task})
                  /\ Head(q) \in Entries \cup {Task}
  BY HeadTailProperties
<1>4. QueueType'
  <2>1. opq' \in Seq(Entries \cup {Task})
    BY <1>3 DEF Turn, Leaves, Sleeps, TakesTask, TakesEntry
  <2>2. cur' \in [Threads -> Entries \cup {None}]
    <3>1. cur \in [Threads -> Entries \cup {None}]
      BY DEF TypeInv, QueueType
    <3>2. cur' = cur \/ (cur' = [cur EXCEPT ![t] = Head(q)] /\ Head(q) \in Entries)
      BY <1>3 DEF Turn, Leaves, Sleeps, TakesTask, TakesEntry
    <3> QED BY <3>1, <3>2
  <2> QED BY <1>2, <2>1, <2>2 DEF QueueType
<1>5. \E l \in PcValues \ {"push"} : Go(t, l)
  <2>1. {"done", "out", "wait", "scan", "block", "handler", "io"}
          \subseteq PcValues \ {"push"}
    BY DEF PcValues
  <2>2. CASE Leaves(t, q)
    BY <2>1, <2>2 DEF Leaves, Return
  <2>3. CASE Sleeps(t, q)
    BY <2>1, <2>3 DEF Sleeps
  <2>4. CASE TakesTask(t, q)
    BY <2>1, <2>4 DEF TakesTask
  <2>5. CASE TakesEntry(t, q)
    BY <2>1, <2>5 DEF TakesEntry
  <2> QED BY <2>2, <2>3, <2>4, <2>5 DEF Turn
<1>6. life' \in [Ops -> Lives]
  <2>1. life \in [Ops -> Lives] /\ "running" \in Lives
    BY DEF TypeInv, WorkType, Lives
  <2>2. life' = life \/ life' = [life EXCEPT ![Head(q).op] = "running"]
    BY DEF Turn, Leaves, Sleeps, TakesTask, TakesEntry
  <2> QED BY <2>1, <2>2
<1>7. pc' \in [Actors -> PcValues] /\ PushType'
  BY <1>1, <1>5, GoesType
<1> QED BY <1>1, <1>4, <1>6, <1>7 DEF TypeInv, WorkType, kernel

(* What the operations that wake do to the event and to the task.          *)
LEMMA StopType ==
  ASSUME WakeType, StopAllThreads
  PROVE  /\ stopped' = TRUE /\ bit' = TRUE /\ interrupted' = TRUE
         /\ poke' \in BOOLEAN /\ waiters' = waiters /\ signalled' = waiters
         /\ owes' = owes
BY DEF WakeType, StopAllThreads

LEMMA WakeParts ==
  ASSUME stopped' \in BOOLEAN, interrupted' \in BOOLEAN, bit' \in BOOLEAN,
         poke' \in BOOLEAN, keep' \in BOOLEAN, halted' \in BOOLEAN,
         waiters' \subseteq Runners, signalled' \subseteq waiters',
         owes' \subseteq Actors
  PROVE  WakeType'
BY Zenon DEF WakeType

LEMMA WakeFacts ==
  ASSUME WakeType
  PROVE  /\ stopped \in BOOLEAN /\ interrupted \in BOOLEAN
         /\ bit \in BOOLEAN /\ poke \in BOOLEAN /\ keep \in BOOLEAN
         /\ halted \in BOOLEAN /\ waiters \subseteq Runners
         /\ signalled \subseteq waiters /\ owes \subseteq Actors
BY DEF WakeType

(* The wake-ups of a turn.                                                 *)
TurnWakes(a) ==
  /\ bit' \in BOOLEAN /\ owes' \subseteq Actors
  /\ interrupted' \in BOOLEAN /\ poke' \in BOOLEAN

LEMMA TakeHandlerWakes ==
  ASSUME WakeType, NEW t \in Actors, NEW q, NEW W, NEW i \in BOOLEAN,
         TakeHandler(t, q, W, i)
  PROVE  TurnWakes(t)
<1>1. CASE Tail(q) # <<>>
  <2>1. WakeOneThreadAndUnlock(t, W, i)
    BY <1>1 DEF TakeHandler
  <2> QED BY <2>1, WakesType DEF TurnWakes
<1>2. CASE Tail(q) = <<>>
  <2>1. interrupted' = i /\ UNCHANGED <<bit, owes, poke>>
    BY <1>2 DEF TakeHandler
  <2> QED BY <2>1, WakeFacts DEF TurnWakes
<1> QED BY <1>1, <1>2

LEMMA SignalWakes ==
  ASSUME WakeType, NEW t \in Actors, NEW W, UnlockAndSignalOne(t, W)
  PROVE  bit' = TRUE /\ owes' \subseteq Actors
BY WakeFacts DEF UnlockAndSignalOne

LEMMA DoRunOneWakes ==
  ASSUME WakeType, NEW t \in Runners, NEW q, NEW i \in BOOLEAN,
         DoRunOne(t, q, waiters \ {t}, i)
  PROVE  WakeType'
<1>1. t \in Actors
  BY DEF Actors, Threads
<1>2. TurnWakes(t)
  <2> USE WakeFacts
  <2>1. CASE /\ Head(q) = Task /\ interrupted' = (Tail(q) # <<>>)
             /\ IF Tail(q) # <<>> THEN UnlockAndSignalOne(t, waiters \ {t})
                                  ELSE UNCHANGED <<bit, owes>>
             /\ UNCHANGED poke
    <3>1. bit' \in BOOLEAN /\ owes' \subseteq Actors
      BY <1>1, <2>1, SignalWakes
    <3>2. interrupted' \in BOOLEAN
      BY Zenon, <2>1
    <3>3. poke' \in BOOLEAN
      BY Zenon, <2>1
    <3> QED BY <3>1, <3>2, <3>3 DEF TurnWakes
  <2>2. CASE TakeHandler(t, q, waiters \ {t}, i)
    BY <1>1, <2>2, TakeHandlerWakes
  <2>3. CASE interrupted' = i /\ bit' \in {bit, FALSE} /\ UNCHANGED <<owes, poke>>
    BY <2>3 DEF TurnWakes
  <2> QED BY <2>1, <2>2, <2>3 DEF DoRunOne
<1>3. UNCHANGED <<stopped, keep, halted>> /\ signalled' = signalled \ {t}
      /\ waiters' \in {waiters \ {t}, (waiters \ {t}) \cup {t}}
  BY DEF DoRunOne
<1>4. waiters' \subseteq Runners /\ signalled' \subseteq waiters'
  BY <1>3, WakeFacts
<1> QED BY <1>2, <1>3, <1>4, WakeFacts, WakeParts DEF TurnWakes

LEMMA DoPollOneWakes ==
  ASSUME WakeType, NEW t \in Threads, NEW q, DoPollOne(t, q)
  PROVE  WakeType'
<1>1. t \in Actors
  BY DEF Actors
<1>2. TurnWakes(t)
  <2>1. CASE TakeHandler(t, q, waiters, interrupted)
    BY <1>1, <2>1, TakeHandlerWakes, WakeFacts
  <2>2. CASE UNCHANGED <<bit, owes, task>>
    BY <2>2, WakeFacts DEF task, TurnWakes
  <2> QED BY <2>1, <2>2 DEF DoPollOne
<1>3. UNCHANGED <<stopped, keep, halted, signalled, waiters>>
  BY DEF DoPollOne
<1> QED BY <1>2, <1>3, WakeFacts, WakeParts DEF TurnWakes

LEMMA PollAfterTaskWakes ==
  ASSUME WakeType, NEW t \in Threads, NEW q, PollAfterTask(t, q)
  PROVE  WakeType'
<1>1. t \in Actors
  BY DEF Actors
<1>2. TurnWakes(t)
  <2>1. CASE TakeHandler(t, q, waiters, TRUE)
    BY <1>1, <2>1, TakeHandlerWakes
  <2>2. CASE UnlockAndSignalOne(t, waiters) /\ interrupted' = TRUE
             /\ UNCHANGED poke
    BY <1>1, <2>2, SignalWakes, WakeFacts DEF TurnWakes
  <2> QED BY <2>1, <2>2 DEF PollAfterTask
<1>3. UNCHANGED <<stopped, keep, halted, signalled, waiters>>
  BY DEF PollAfterTask
<1> QED BY <1>2, <1>3, WakeFacts, WakeParts DEF TurnWakes

LEMMA ServiceWakes ==
  ASSUME TypeInv, WaitInv, NEW t \in Threads,
         Loop(t) \/ (Wake(t) /\ bit) \/ TaskCleanup(t)
  PROVE  WakeType'
<1>1. pc[t] # "wait" => waiters \ {t} = waiters
  BY DEF WaitInv
<1>2. WakeType /\ interrupted \in BOOLEAN
  BY WakeFacts DEF TypeInv
<1>3. CASE Loop(t)
  BY <1>1, <1>2, <1>3, DoRunOneWakes, DoPollOneWakes DEF Loop, At
<1>4. CASE Wake(t) /\ bit
  <2>1. t \in Runners /\ DoRunOne(t, opq, waiters \ {t}, interrupted)
    BY <1>4 DEF Wake, At, WaitInv
  <2> QED BY <1>2, <2>1, DoRunOneWakes
<1>5. CASE TaskCleanup(t)
  BY <1>1, <1>2, <1>5, DoRunOneWakes, PollAfterTaskWakes DEF TaskCleanup, At
<1> QED BY <1>3, <1>4, <1>5

LEMMA GoesWait ==
  ASSUME TypeInv, WaitInv, NEW a \in Actors, NEW l,
         pc[a] # "wait", l \notin {"wait", "block"}, Go(a, l), waiters' = waiters
  PROVE  WaitInv'
BY DEF TypeInv, WorkType, WaitInv, Go, Actors

LEMMA StaysWait ==
  ASSUME WaitInv, UNCHANGED <<pc, waiters>>
  PROVE  WaitInv'
BY DEF WaitInv

LEMMA TurnWait ==
  ASSUME TypeInv, WaitInv, NEW t \in Threads, NEW q, Turn(t, q)
  PROVE  WaitInv'
<1>1. pc \in [Actors -> PcValues] /\ t \in Actors /\ Threads \subseteq Actors
  BY DEF TypeInv, WorkType, Actors
<1>2. CASE Sleeps(t, q)
  BY <1>1, <1>2 DEF Sleeps, Go, WaitInv
<1>3. ASSUME NEW l, Go(t, l), l # "wait", l = "block" => t \in Runners,
             waiters' = waiters \ {t}
      PROVE  WaitInv'
  BY <1>1, <1>3 DEF Go, WaitInv
<1>4. CASE Leaves(t, q)
  BY <1>3, <1>4 DEF Leaves, Return
<1>5. CASE TakesTask(t, q)
  BY <1>3, <1>5 DEF TakesTask
<1>6. CASE TakesEntry(t, q)
  BY <1>3, <1>6 DEF TakesEntry
<1> QED BY <1>2, <1>4, <1>5, <1>6 DEF Turn

(* Steps that leave the queues, the work and the threads as they are.      *)
core == <<opq, cur, priv, outstanding, pc, privWork, life, arg, waiters>>

Quiet ==
  \/ \E a \in Actors : CondSignal(a) \/ Stop(a)
  \/ \E t \in Threads : SpuriousWakeup(t) \/ (Wake(t) /\ ~bit)
  \/ \E o \in Ops : Ready(o)
  \/ UNCHANGED vars

LEMMA QuietFacts ==
  ASSUME Quiet
  PROVE  UNCHANGED core /\ keep' = keep
BY DEF Quiet, core, CondSignal, Stop, SpuriousWakeup, Wake, Ready, vars, mine,
       StopAllThreads, event, task

LEMMA QuietType ==
  ASSUME TypeInv, WaitInv, Quiet
  PROVE  TypeInv' /\ WaitInv'
<1>1. /\ QueueType /\ WakeType /\ WorkType /\ PushType
      /\ UNCHANGED core
  BY QuietFacts DEF TypeInv
<1>2. QueueType' /\ PushType' /\ WaitInv'
  BY <1>1, SameTypes, StaysWait DEF core
<1>3. WorkType'
  <2>1. edge' \subseteq Ops /\ avail' \subseteq Ops
    BY <1>1 DEF Quiet, WorkType, CondSignal, Stop, SpuriousWakeup, Wake, Ready,
                vars, kernel
  <2> QED BY <1>1, <2>1 DEF WorkType, core
<1>4. WakeType'
  <2>1. ASSUME NEW a \in Actors, CondSignal(a)
        PROVE  WakeType'
    <3>1. owes' \subseteq Actors /\ signalled' \subseteq waiters'
          /\ waiters' \subseteq Runners
      BY <1>1, <2>1 DEF CondSignal, WakeType, core
    <3>2. UNCHANGED <<stopped, bit, task, keep, halted>>
      BY <2>1 DEF CondSignal
    <3> QED BY <1>1, <3>1, <3>2, WakeFacts, WakeParts DEF task
  <2>2. ASSUME NEW a \in Actors, Stop(a)
        PROVE  WakeType'
    <3>1. StopAllThreads /\ halted' = TRUE /\ keep' = keep
      BY <2>2 DEF Stop
    <3> QED BY <1>1, <3>1, StopType, WakeFacts, WakeParts
  <2>3. ASSUME NEW t \in Threads, SpuriousWakeup(t) \/ (Wake(t) /\ ~bit)
        PROVE  WakeType'
    <3>1. signalled' \subseteq waiters' /\ waiters' = waiters
      BY <1>1, <2>3 DEF SpuriousWakeup, Wake, WakeType
    <3>2. UNCHANGED <<stopped, bit, owes, task, keep, halted>>
      BY <2>3 DEF SpuriousWakeup, Wake
    <3> QED BY <1>1, <3>1, <3>2, WakeFacts, WakeParts DEF task
  <2>4. ASSUME NEW o \in Ops, Ready(o)
        PROVE  WakeType'
    BY <1>1, <2>4, SameTypes DEF Ready
  <2>5. ASSUME UNCHANGED vars
        PROVE  WakeType'
    BY <1>1, <2>5, SameTypes DEF vars
  <2> QED BY <2>1, <2>2, <2>3, <2>4, <2>5 DEF Quiet
<1> QED BY <1>1, <1>2, <1>3, <1>4 DEF TypeInv

(* Steps that only lead an actor elsewhere.                                *)
Passes ==
  \/ \E t \in Threads : Enter(t) \/ NoWorkLeft(t)
  \/ \E a \in Actors : LastWork(a)

(* One that finds work or none, one that stops the service and leaves, and *)
(* one that stops it and goes on.                                          *)
Passing(a) ==
  \/ /\ pc[a] = "out" /\ a \in Threads
     /\ Go(a, "loop") \/ (Go(a, "zero") /\ outstanding = 0)
     /\ UNCHANGED <<stopped, event, task>>
  \/ /\ pc[a] = "zero" /\ a \in Threads
     /\ Go(a, "done") \/ Go(a, "out")
     /\ StopAllThreads
  \/ /\ pc[a] = "last"
     /\ IF a = User THEN Go(a, "out") ELSE Go(a, "loop")
     /\ StopAllThreads

LEMMA PassesFacts ==
  ASSUME Passes
  PROVE  /\ UNCHANGED <<opq, outstanding, kernel, mine, life, keep, halted>>
         /\ waiters' = waiters
         /\ \E a \in Actors : Passing(a)
<1> DEFINE Rest == /\ UNCHANGED <<opq, outstanding, kernel, mine, life, keep,
                                  halted>>
                   /\ waiters' = waiters
<1>1. Threads \subseteq Actors
  BY DEF Actors
<1>2. ASSUME NEW t \in Threads, Enter(t)
      PROVE  Rest /\ Passing(t)
  BY <1>2 DEF Enter, At, event, Passing
<1>3. ASSUME NEW t \in Threads, NoWorkLeft(t)
      PROVE  Rest /\ Passing(t)
  BY <1>3 DEF NoWorkLeft, At, Return, StopAllThreads, Passing
<1>4. ASSUME NEW a \in Actors, LastWork(a)
      PROVE  Rest /\ Passing(a)
  BY <1>4 DEF LastWork, At, StopAllThreads, Passing
<1> HIDE DEF Rest
<1>5. Rest /\ \E a \in Actors : Passing(a)
  BY <1>1, <1>2, <1>3, <1>4 DEF Passes
<1> QED BY <1>5 DEF Rest

LEMMA PassesType ==
  ASSUME TypeInv, WaitInv, Passes
  PROVE  TypeInv' /\ WaitInv'
<1>1. /\ QueueType /\ WakeType /\ WorkType /\ PushType
      /\ UNCHANGED <<opq, outstanding, kernel, mine, life, keep, halted>>
      /\ waiters' = waiters
  BY PassesFacts DEF TypeInv
<1>2. PICK a \in Actors, l \in {"zero", "loop", "done", "out"} :
        pc[a] # "wait" /\ Go(a, l)
  BY PassesFacts DEF Passing
<1>3. QueueType'
  BY <1>1, SameTypes DEF mine
<1>4. l \in PcValues \ {"push"}
  BY DEF PcValues
<1>5. pc' \in [Actors -> PcValues] /\ PushType' /\ WaitInv'
  BY <1>1, <1>2, <1>4, GoesType, GoesWait DEF mine
<1>6. WorkType'
  BY <1>1, <1>5 DEF WorkType, mine, kernel
<1>7. WakeType'
  <2>1. CASE UNCHANGED <<stopped, event, task>>
    BY <1>1, <2>1, SameTypes
  <2>2. CASE StopAllThreads
    BY <1>1, <2>2, StopType, WakeFacts, WakeParts
  <2> QED BY <2>1, <2>2, PassesFacts DEF Passing
<1> QED BY <1>3, <1>5, <1>6, <1>7 DEF TypeInv

(* What epoll_wait found: each descriptor once.                            *)
LEMMA FoundFacts ==
  ASSUME TypeInv, NEW s \in SetToSeqs(edge)
  PROVE  LET r == [i \in 1..Len(s) |-> Io(s[i])] IN
         /\ r \in Seq(Entries) /\ Once(r)
         /\ \A e \in Elems(r) : \E o \in Ops : e = Io(o)
<1> DEFINE r == [i \in 1..Len(s) |-> Io(s[i])]
           n == Cardinality(edge)
<1>1. edge \subseteq Ops /\ n \in Nat
  BY ServiceAssumption, FS_Subset, FS_CardinalityType DEF TypeInv, WorkType
<1>2. s \in [1..n -> edge] /\ \A i, j \in 1..n : i # j => s[i] # s[j]
  BY DEF SetToSeqs
<1> HIDE DEF n
<1>3. s \in Seq(edge) /\ Len(s) = n
  BY <1>1, <1>2
<1>4. r \in Seq(Entries) /\ Len(r) = n /\ \A i \in 1..n : r[i] = Io(s[i])
  BY <1>1, <1>2, <1>3, EntryFacts
<1> HIDE DEF r
<1>5. Once(r)
  <2>1. SUFFICES ASSUME NEW i \in 1..n, NEW j \in 1..n, r[i] = r[j]
                 PROVE  i = j
    BY <1>4 DEF Once
  <2>2. s[i] \in Ops /\ s[j] \in Ops /\ Io(s[i]) = Io(s[j])
    BY <1>1, <1>2, <1>4, <2>1
  <2> QED BY <1>2, <2>2, EntryFacts
<1>6. ASSUME NEW e \in Elems(r)
      PROVE  \E o \in Ops : e = Io(o)
  <2>1. PICK i \in 1..n : e = r[i]
    BY <1>4 DEF Elems
  <2> QED BY <1>1, <1>2, <1>4, <2>1
<1> QED BY <1>4, <1>5, <1>6 DEF r

LEMMA EpollWaitType ==
  ASSUME TypeInv, WaitInv, NEW t \in Threads, EpollWait(t)
  PROVE  TypeInv' /\ WaitInv'
<1>1. /\ QueueType /\ WakeType /\ WorkType /\ PushType /\ t \in Actors
      /\ pc[t] # "wait" /\ Go(t, "found") /\ edge' = {}
      /\ UNCHANGED <<opq, outstanding, stopped, event, interrupted, avail, cur,
                     privWork, arg, life, keep, halted>>
      /\ poke' = FALSE
  BY DEF TypeInv, EpollWait, At, Actors
<1>2. PICK s \in SetToSeqs(edge) :
        priv' = [priv EXCEPT ![t] = [i \in 1..Len(s) |-> Io(s[i])]]
  BY DEF EpollWait
<1>3. priv' \in [Threads -> Seq(Entries)]
  BY <1>1, <1>2, FoundFacts DEF QueueType
<1>4. QueueType'
  BY <1>1, <1>3 DEF QueueType
<1>5. "found" \in PcValues \ {"push"}
  BY DEF PcValues
<1>6. pc' \in [Actors -> PcValues] /\ PushType' /\ WaitInv'
  BY <1>1, <1>5, GoesType, GoesWait DEF event
<1>7. WorkType'
  BY <1>1, <1>6 DEF WorkType
<1>8. WakeType'
  BY <1>1, WakeFacts, WakeParts DEF event
<1> QED BY <1>4, <1>6, <1>7, <1>8 DEF TypeInv

(* Steps of a handler's thread that wake nobody.                           *)
LEMMA RunType ==
  ASSUME TypeInv, WaitInv, NEW t \in Threads,
         PerformIo(t) \/ HandlerReturns(t) \/ WorkCleanup(t)
  PROVE  TypeInv' /\ WaitInv'
<1>1. /\ QueueType /\ WakeType /\ WorkType /\ PushType /\ t \in Actors
      /\ pc[t] # "wait" /\ UNCHANGED <<opq, priv, arg, edge>>
      /\ UNCHANGED <<stopped, event, task, keep, halted>>
  BY DEF TypeInv, PerformIo, HandlerReturns, WorkCleanup, At, Actors, kernel,
         mine
<1>2. PICK l \in {"handler", "finish", "last", "loop"} : Go(t, l)
  BY DEF PerformIo, HandlerReturns, WorkCleanup
<1>3. l \in PcValues \ {"push"}
  BY DEF PcValues
<1>4. pc' \in [Actors -> PcValues] /\ PushType' /\ WaitInv'
  BY <1>1, <1>2, <1>3, GoesType, GoesWait DEF event
<1>5. QueueType'
  <2>1. cur' = cur \/ cur' = [cur EXCEPT ![t] = None]
    BY DEF PerformIo, HandlerReturns, WorkCleanup, mine
  <2>2. cur' \in [Threads -> Entries \cup {None}]
    BY <1>1, <2>1 DEF QueueType
  <2> QED BY <1>1, <2>2 DEF QueueType
<1>6. WorkType'
  <2>1. life' \in [Ops -> Lives]
    BY <1>1 DEF PerformIo, HandlerReturns, WorkCleanup, WorkType, Lives
  <2>2. privWork' \in [Threads -> Nat] /\ outstanding' \in Int
        /\ avail' \subseteq Ops
    BY <1>1 DEF PerformIo, HandlerReturns, WorkCleanup, WorkType, mine, kernel
  <2> QED BY <1>1, <1>4, <2>1, <2>2 DEF WorkType
<1>7. WakeType'
  BY <1>1, SameTypes
<1> QED BY <1>4, <1>5, <1>6, <1>7 DEF TypeInv

LEMMA PostType ==
  ASSUME TypeInv, WaitInv, NEW a \in Actors, NEW o \in Ops, Post(a, o)
  PROVE  TypeInv' /\ WaitInv'
<1>1. /\ QueueType /\ WakeType /\ WorkType /\ PushType
      /\ pc[a] # "wait" /\ Go(a, "push")
      /\ outstanding' = outstanding + 1 /\ life' = [life EXCEPT ![o] = "pushing"]
      /\ arg' = [arg EXCEPT ![a] = o]
      /\ UNCHANGED <<opq, stopped, event, task, kernel, cur, priv, privWork,
                     keep, halted>>
  BY DEF TypeInv, Post, Calls, At
<1>2. pc' \in [Actors -> PcValues]
  BY <1>1 DEF WorkType, Go, PcValues
<1>3. PushType'
  BY <1>1 DEF PushType, WorkType, Go
<1>4. WaitInv'
  BY <1>1, GoesWait DEF event
<1>5. WorkType'
  BY <1>1, <1>2 DEF WorkType, kernel, Lives
<1> QED BY <1>1, <1>3, <1>4, <1>5, SameTypes DEF TypeInv

LEMMA PushedType ==
  ASSUME QueueType, NEW o \in Ops
  PROVE  Append(opq, Op(o)) \in Seq(Entries \cup {Task})
<1>1. opq \in Seq(Entries \cup {Task}) /\ Op(o) \in Entries \cup {Task}
  BY EntryFacts DEF QueueType
<1> QED BY <1>1, AppendProperties

LEMMA AddsType ==
  ASSUME TypeInv, WaitInv, NEW a \in Actors,
         Push(a) \/ \E o \in Ops : CancelOp(a, o)
  PROVE  TypeInv' /\ WaitInv'
<1>1. /\ QueueType /\ WakeType /\ WorkType /\ PushType
      /\ WakeOneThreadAndUnlock(a, waiters, interrupted)
      /\ UNCHANGED <<outstanding, stopped, waiters, signalled, edge, cur, priv,
                     privWork, keep, halted>>
  BY DEF TypeInv, Push, CancelOp, kernel, mine
<1>2. PICK o \in Ops :
        /\ opq' = Append(opq, Op(o)) /\ life' = [life EXCEPT ![o] = "queued"]
        /\ avail' \subseteq avail
  <2>1. CASE Push(a)
    <3>1. arg[a] \in Ops
      BY <1>1, <2>1 DEF Push, At, PushType
    <3> QED BY <2>1, <3>1 DEF Push, kernel
  <2>2. CASE \E o \in Ops : CancelOp(a, o)
    BY <2>2 DEF CancelOp
  <2> QED BY <2>1, <2>2
<1>3. QueueType'
  BY <1>1, <1>2, PushedType DEF QueueType
<1>4. WakeType'
  <2>1. interrupted \in BOOLEAN
    BY <1>1, WakeFacts
  <2> QED BY <1>1, <2>1, WakesType, WakeFacts, WakeParts
<1>5. pc' \in [Actors -> PcValues] /\ PushType' /\ WaitInv'
  <2>1. CASE Push(a)
    <3>1. PICK l \in {"out", "handler"} : Go(a, l)
      BY <2>1 DEF Push
    <3>2. arg' = [arg EXCEPT ![a] = None] /\ pc[a] = "push"
      BY <2>1 DEF Push, At
    <3>3. l \in PcValues \ {"push"}
      BY DEF PcValues
    <3>4. WaitInv'
      BY <1>1, <3>1, <3>2, GoesWait
    <3>5. pc' \in [Actors -> PcValues]
      BY <3>1, <3>3, GoesType
    <3>6. PushType'
      BY <1>1, <3>1, <3>2 DEF PushType, WorkType, Go
    <3> QED BY <3>4, <3>5, <3>6
  <2>2. CASE \E n \in Ops : CancelOp(a, n)
    <3>1. UNCHANGED <<pc, arg>>
      BY <2>2 DEF CancelOp, mine
    <3> QED BY <1>1, <3>1, SameTypes, StaysWait DEF WorkType
  <2> QED BY <2>1, <2>2
<1>6. WorkType'
  BY <1>1, <1>2, <1>5 DEF WorkType, Lives
<1> QED BY <1>3, <1>4, <1>5, <1>6 DEF TypeInv

LEMMA PostContinuationType ==
  ASSUME TypeInv, WaitInv, NEW t \in Threads, NEW o \in Ops,
         PostContinuation(t, o)
  PROVE  TypeInv' /\ WaitInv'
<1>1. /\ QueueType /\ WakeType /\ WorkType /\ PushType
      /\ priv' = [priv EXCEPT ![t] = Append(priv[t], Op(o))]
      /\ privWork' = [privWork EXCEPT ![t] = privWork[t] + 1]
      /\ life' = [life EXCEPT ![o] = "queued"]
      /\ UNCHANGED <<opq, outstanding, stopped, event, task, kernel, pc, cur,
                     arg, keep, halted>>
  BY DEF TypeInv, PostContinuation
<1>2. Append(priv[t], Op(o)) \in Seq(Entries)
  <2>1. priv[t] \in Seq(Entries) /\ Op(o) \in Entries
    BY <1>1, EntryFacts DEF QueueType
  <2> QED BY <2>1, AppendProperties
<1>3. QueueType'
  BY <1>1, <1>2 DEF QueueType
<1>4. WorkType'
  BY <1>1 DEF WorkType, kernel, Lives
<1>5. WakeType' /\ PushType'
  BY <1>1, SameTypes
<1>6. WaitInv'
  BY <1>1, StaysWait DEF event
<1> QED BY <1>3, <1>4, <1>5, <1>6 DEF TypeInv

LEMMA StartOpType ==
  ASSUME TypeInv, WaitInv, NEW a \in Actors, NEW o \in Ops, StartOp(a, o)
  PROVE  TypeInv' /\ WaitInv'
<1>1. /\ QueueType /\ WakeType /\ WorkType /\ PushType
      /\ life' = [life EXCEPT ![o] = "waiting"]
      /\ outstanding' = outstanding + 1
      /\ UNCHANGED <<opq, stopped, event, task, kernel, pc, mine, keep, halted>>
  BY DEF TypeInv, StartOp
<1>2. WorkType'
  BY <1>1 DEF WorkType, kernel, mine, Lives
<1> QED BY <1>1, <1>2, SameTypes, StaysWait DEF TypeInv, mine, event

LEMMA ReleaseWorkType ==
  ASSUME TypeInv, WaitInv, NEW a \in Actors, ReleaseWork(a)
  PROVE  TypeInv' /\ WaitInv'
<1>1. /\ QueueType /\ WakeType /\ WorkType /\ PushType
      /\ pc[a] # "wait" /\ keep' = FALSE /\ outstanding' = outstanding - 1
      /\ Go(a, "last") \/ UNCHANGED pc
      /\ UNCHANGED <<opq, stopped, event, task, kernel, mine, life, halted>>
  BY DEF TypeInv, ReleaseWork, Calls, At
<1>2. "last" \in PcValues \ {"push"}
  BY DEF PcValues
<1>3. pc' \in [Actors -> PcValues] /\ PushType' /\ WaitInv'
  <2>1. CASE Go(a, "last")
    BY <1>1, <1>2, <2>1, GoesType, GoesWait DEF mine, event
  <2>2. CASE UNCHANGED pc
    BY <1>1, <2>2, SameTypes, StaysWait DEF mine, event, WorkType
  <2> QED BY <1>1, <2>1, <2>2
<1>4. WorkType'
  BY <1>1, <1>3 DEF WorkType, mine, kernel
<1>5. QueueType'
  BY <1>1, SameTypes DEF mine
<1>6. WakeType'
  BY <1>1, WakeFacts, WakeParts DEF event, task
<1> QED BY <1>3, <1>4, <1>5, <1>6 DEF TypeInv

(* The steps there are.                                                    *)
LEMMA Steps ==
  ASSUME TypeInv, WaitInv, [Next]_vars
  PROVE  \/ Quiet
         \/ Passes
         \/ \E t \in Threads : Turns(t) /\ (Loop(t) \/ (Wake(t) /\ bit)
                                              \/ TaskCleanup(t))
         \/ \E t \in Threads : \/ EpollWait(t) \/ PerformIo(t)
                               \/ HandlerReturns(t) \/ WorkCleanup(t)
         \/ \E a \in Actors : Push(a) \/ ReleaseWork(a)
         \/ \E a \in Actors, o \in Ops :
              Post(a, o) \/ StartOp(a, o) \/ CancelOp(a, o)
         \/ \E t \in Threads, o \in Ops : PostContinuation(t, o)
<1>1. CASE UNCHANGED vars
  BY <1>1 DEF Quiet
<1>2. ASSUME NEW a \in Actors, Proceeds(a) \/ Program(a)
      PROVE  \/ Quiet \/ Passes
             \/ Push(a) \/ ReleaseWork(a)
             \/ \E o \in Ops : Post(a, o) \/ StartOp(a, o) \/ CancelOp(a, o)
  BY <1>2 DEF Proceeds, Program, Quiet, Passes
<1>3. ASSUME NEW t \in Threads,
             \/ Enter(t) \/ Service(t) \/ SpuriousWakeup(t) \/ HandlerReturns(t)
             \/ \E o \in Ops : PostContinuation(t, o)
      PROVE  \/ Quiet \/ Passes
             \/ Turns(t) /\ (Loop(t) \/ (Wake(t) /\ bit) \/ TaskCleanup(t))
             \/ EpollWait(t) \/ PerformIo(t) \/ HandlerReturns(t)
             \/ WorkCleanup(t)
             \/ \E o \in Ops : PostContinuation(t, o)
  <2>1. QueueType
    BY DEF TypeInv
  <2>2. Loop(t) \/ (Wake(t) /\ bit) \/ TaskCleanup(t) => Turns(t)
    BY <2>1, ServiceTurns
  <2>3. (Wake(t) /\ ~bit) \/ SpuriousWakeup(t) => Quiet
    BY DEF Quiet
  <2>4. Enter(t) \/ NoWorkLeft(t) => Passes
    BY DEF Passes
  <2> QED BY <1>3, <2>2, <2>3, <2>4 DEF Service
<1>4. ASSUME NEW o \in Ops, Ready(o)
      PROVE  Quiet
  BY <1>4 DEF Quiet
<1>5. CASE Next
  <2>1. CASE \E a \in Actors : Proceeds(a) \/ Program(a)
    BY <1>2, <2>1
  <2>2. CASE \E t \in Threads :
               \/ Enter(t) \/ Service(t) \/ SpuriousWakeup(t)
               \/ HandlerReturns(t) \/ \E o \in Ops : PostContinuation(t, o)
    BY <1>3, <2>2
  <2>3. CASE \E o \in Ops : Ready(o)
    BY <1>4, <2>3
  <2> QED BY <1>5, <2>1, <2>2, <2>3 DEF Next
<1> QED BY <1>1, <1>5

LEMMA TurnsType ==
  ASSUME TypeInv, WaitInv, NEW t \in Threads, Turns(t)
  PROVE  QueueType' /\ WorkType' /\ PushType' /\ WaitInv'
<1>1. QueueType
  BY DEF TypeInv
<1> DEFINE S == Seq(Entries \cup {Task})
<1>2. /\ opq \o priv[t] \in S /\ opq \o priv[t] \o <<Task>> \in S /\ opq \in S
  BY <1>1, QueueTypes
<1>3. PICK q \in S : Turn(t, q)
  BY <1>2 DEF Turns
<1> QED BY <1>3, TurnType, TurnWait

LEMMA TypeStep == TypeInv /\ WaitInv /\ [Next]_vars => TypeInv' /\ WaitInv'
<1> SUFFICES ASSUME TypeInv, WaitInv, [Next]_vars PROVE TypeInv' /\ WaitInv'
  OBVIOUS
<1>1. CASE Quiet
  BY <1>1, QuietType
<1>2. CASE Passes
  BY <1>2, PassesType
<1>3. ASSUME NEW t \in Threads, Turns(t),
             Loop(t) \/ (Wake(t) /\ bit) \/ TaskCleanup(t)
      PROVE  TypeInv' /\ WaitInv'
  BY <1>3, TurnsType, ServiceWakes DEF TypeInv
<1>4. ASSUME NEW t \in Threads,
             \/ EpollWait(t) \/ PerformIo(t) \/ HandlerReturns(t)
             \/ WorkCleanup(t) \/ \E o \in Ops : PostContinuation(t, o)
      PROVE  TypeInv' /\ WaitInv'
  BY <1>4, EpollWaitType, RunType, PostContinuationType
<1>5. ASSUME NEW a \in Actors,
             \/ Push(a) \/ ReleaseWork(a)
             \/ \E o \in Ops : Post(a, o) \/ StartOp(a, o) \/ CancelOp(a, o)
      PROVE  TypeInv' /\ WaitInv'
  BY <1>5, AddsType, ReleaseWorkType, PostType, StartOpType
<1> QED BY <1>1, <1>2, <1>3, <1>4, <1>5, Steps

-----------------------------------------------------------------------------
(***************************************************************************)
(* The queues: op_queue_, q, and the private queues p of the threads.      *)
(***************************************************************************)

Ios == {Io(o) : o \in Ops}
Completions == {Op(o) : o \in Ops}

(* No entry is in two queues, nor twice in one.                            *)
Apart(q, p) ==
  /\ Once(q) /\ \A t \in Threads : Once(p[t])
  /\ \A t \in Threads : Elems(q) \cap Elems(p[t]) = {}
  /\ \A t, u \in Threads : t # u => Elems(p[t]) \cap Elems(p[u]) = {}

Queued(q, p) == Elems(q) \cup UNION {Elems(p[t]) : t \in Threads}

(* The descriptors' entries come before the task, and go before it does.   *)
IosFirst(q) ==
  /\ Task \notin Elems(q) => Elems(q) \cap Ios = {}
  /\ \A i, j \in 1..Len(q) : q[i] = Task /\ q[j] \in Ios => j < i

LEMMA ApartAppend ==
  ASSUME NEW S, NEW q \in Seq(S), NEW p, NEW e \in S,
         Apart(q, p), e \notin Queued(q, p)
  PROVE  /\ Apart(Append(q, e), p)
         /\ Queued(Append(q, e), p) = Queued(q, p) \cup {e}
<1>1. Elems(Append(q, e)) = Elems(q) \cup {e} /\ Once(Append(q, e))
  BY ElemsOfAppend DEF Apart, Queued
<1> DEFINE a == Append(q, e)
<1> HIDE DEF a
<1>2. Apart(a, p) /\ Queued(a, p) = Queued(q, p) \cup {e}
  <2>1. Elems(a) = Elems(q) \cup {e} /\ Once(a)
    BY <1>1 DEF a
  <2>2. \A t \in Threads : e \notin Elems(p[t])
    BY DEF Queued
  <2>3. Apart(a, p)
    BY <2>1, <2>2 DEF Apart
  <2>4. Queued(a, p) = Queued(q, p) \cup {e}
    BY <2>1 DEF Queued
  <2> QED BY <2>3, <2>4
<1> QED BY <1>2 DEF a

LEMMA ApartTail ==
  ASSUME NEW S, NEW q \in Seq(S), NEW p, q # <<>>, Apart(q, p)
  PROVE  /\ Apart(Tail(q), p)
         /\ Queued(Tail(q), p) = Queued(q, p) \ {Head(q)}
<1> DEFINE a == Tail(q)
           e == Head(q)
<1>1. Elems(q) = Elems(a) \cup {e} /\ Once(a) /\ e \notin Elems(a)
  BY ElemsOfTail DEF Apart
<1> HIDE DEF a, e
<1>2. Apart(a, p)
  BY <1>1 DEF Apart
<1>3. Queued(a, p) = Queued(q, p) \ {e}
  BY <1>1 DEF Apart, Queued
<1> QED BY <1>2, <1>3 DEF a, e

(* A private queue is replaced.                                            *)
Replacing(q, p, t, r, b) ==
  /\ t \in Threads /\ Apart(q, p) /\ Once(r)
  /\ Elems(r) \cap (Queued(q, p) \ Elems(p[t])) = {}
  /\ b[t] = r /\ \A u \in Threads : u # t => b[u] = p[u]

LEMMA ApartReplace ==
  ASSUME NEW q, NEW p, NEW t, NEW r, NEW b, Replacing(q, p, t, r, b)
  PROVE  /\ Apart(q, b)
         /\ Queued(q, b) = (Queued(q, p) \ Elems(p[t])) \cup Elems(r)
<1> USE DEF Replacing
<1>2. Elems(r) \cap Elems(q) = {}
  BY DEF Apart, Queued
<1>3. ASSUME NEW u \in Threads, u # t
      PROVE  Elems(r) \cap Elems(p[u]) = {} /\ Elems(p[t]) \cap Elems(p[u]) = {}
  BY <1>3 DEF Apart, Queued
<1>4. Apart(q, b)
  BY <1>2, <1>3 DEF Apart
<1>5. ASSUME NEW x
      PROVE  x \in Queued(q, b)
               <=> x \in (Queued(q, p) \ Elems(p[t])) \cup Elems(r)
  <2>1. x \in Queued(q, b) <=>
          \/ x \in Elems(q) \/ x \in Elems(r)
          \/ \E u \in Threads : u # t /\ x \in Elems(p[u])
    BY DEF Queued
  <2>2. x \in Queued(q, p) <=>
          \/ x \in Elems(q) \/ x \in Elems(p[t])
          \/ \E u \in Threads : u # t /\ x \in Elems(p[u])
    BY DEF Queued
  <2>3. x \in Elems(p[t]) =>
          x \notin Elems(q) /\ ~\E u \in Threads : u # t /\ x \in Elems(p[u])
    BY DEF Apart
  <2> QED BY <2>1, <2>2, <2>3
<1> QED BY <1>4, <1>5

(* A private queue goes behind op_queue_.                                  *)
Merging(S, q, p, t, b) ==
  /\ t \in Threads /\ q \in Seq(S) /\ p[t] \in Seq(S) /\ Apart(q, p)
  /\ b[t] = <<>> /\ \A u \in Threads : u # t => b[u] = p[u]

LEMMA ApartMerge ==
  ASSUME NEW S, NEW q, NEW p, NEW t, NEW b, Merging(S, q, p, t, b)
  PROVE  /\ Apart(q \o p[t], b)
         /\ Queued(q \o p[t], b) = Queued(q, p)
         /\ Elems(q \o p[t]) = Elems(q) \cup Elems(p[t])
<1> DEFINE a == q \o p[t]
<1>1. Elems(a) = Elems(q) \cup Elems(p[t]) /\ Once(a)
  <2>1. /\ q \in Seq(S) /\ p[t] \in Seq(S) /\ Once(q) /\ Once(p[t])
        /\ Elems(q) \cap Elems(p[t]) = {}
    BY DEF Merging, Apart
  <2> QED BY <2>1, ElemsOfConcat
<1>2. /\ t \in Threads /\ Apart(q, p) /\ b[t] = <<>>
      /\ \A u \in Threads : u # t => b[u] = p[u]
  BY DEF Merging
<1> HIDE DEF a
<1>3. Apart(q, b) /\ Queued(q, b) = (Queued(q, p) \ Elems(p[t])) \cup {}
  <2> DEFINE r == <<>>
  <2>1. Once(r) /\ Elems(r) = {} /\ b[t] = r
    BY <1>2, ElemsOfEmpty
  <2> HIDE DEF r
  <2>2. Replacing(q, p, t, r, b)
    BY <1>2, <2>1 DEF Replacing
  <2> QED BY <2>1, <2>2, ApartReplace
<1>4. ASSUME NEW u \in Threads
      PROVE  Elems(p[t]) \cap Elems(b[u]) = {}
  BY <1>2, ElemsOfEmpty DEF Apart
<1>5. Apart(a, b)
  BY <1>1, <1>3, <1>4 DEF Apart
<1>6. Queued(a, b) = Queued(q, b) \cup Elems(p[t])
  BY <1>1 DEF Queued
<1>7. Elems(p[t]) \subseteq Queued(q, p)
  BY <1>2 DEF Queued
<1> QED BY <1>1, <1>3, <1>5, <1>6, <1>7 DEF a

LEMMA IosFirstConcat ==
  ASSUME NEW S, NEW q \in Seq(S), NEW r \in Seq(S), IosFirst(q),
         Elems(r) \cap Ios = {}, Task \notin Elems(r)
  PROVE  IosFirst(q \o r)
<1> DEFINE a == q \o r
<1>1. Elems(a) = Elems(q) \cup Elems(r)
  BY ElemsOfConcat
<1>2. /\ Len(q) \in Nat /\ Len(r) \in Nat /\ Len(a) = Len(q) + Len(r)
      /\ \A i \in 1..Len(q) + Len(r) :
           a[i] = IF i <= Len(q) THEN q[i] ELSE r[i - Len(q)]
  BY ConcatProperties
<1> HIDE DEF a
<1>3. \A i \in 1..Len(r) : r[i] \notin Ios /\ r[i] # Task
  BY DEF Elems
<1>4. ASSUME NEW i \in 1..Len(a), NEW j \in 1..Len(a), a[i] = Task, a[j] \in Ios
      PROVE  j < i
  <2>1. i <= Len(q) /\ j <= Len(q)
    BY <1>2, <1>3, <1>4
  <2>2. i \in 1..Len(q) /\ j \in 1..Len(q) /\ q[i] = Task /\ q[j] \in Ios
    BY <1>2, <1>4, <2>1
  <2> QED BY <2>2 DEF IosFirst
<1>5. Task \notin Elems(a) => Elems(a) \cap Ios = {}
  BY <1>1 DEF IosFirst
<1>6. IosFirst(a)
  BY <1>4, <1>5 DEF IosFirst
<1> QED BY <1>6 DEF a

LEMMA IosFirstTask ==
  ASSUME NEW S, NEW q \in Seq(S), Task \in S, Task \notin Elems(q)
  PROVE  IosFirst(Append(q, Task))
<1> DEFINE a == Append(q, Task)
<1>1. Elems(a) = Elems(q) \cup {Task}
  BY ElemsOfAppend
<1>2. /\ Len(q) \in Nat /\ Len(a) = Len(q) + 1 /\ a[Len(q) + 1] = Task
      /\ \A i \in 1..Len(q) : a[i] = q[i]
  BY AppendProperties
<1> HIDE DEF a
<1>3. Task \notin Ios
  BY EntryFacts DEF Ios
<1>4. ASSUME NEW i \in 1..Len(a), NEW j \in 1..Len(a), a[i] = Task, a[j] \in Ios
      PROVE  j < i
  <2>1. \A k \in 1..Len(q) : a[k] # Task
    BY <1>2 DEF Elems
  <2>2. i = Len(q) + 1
    BY <1>2, <1>4, <2>1
  <2>3. j # Len(q) + 1
    BY <1>2, <1>3, <1>4
  <2> QED BY <1>2, <2>2, <2>3
<1>5. IosFirst(a)
  BY <1>1, <1>4 DEF IosFirst
<1> QED BY <1>5 DEF a

LEMMA IosFirstTail ==
  ASSUME NEW S, NEW q \in Seq(S), q # <<>>, Once(q), IosFirst(q)
  PROVE  IosFirst(Tail(q))
<1> DEFINE a == Tail(q)
           e == Head(q)
<1>1. Elems(q) = Elems(a) \cup {e} /\ e \notin Elems(a)
  BY ElemsOfTail
<1>2. /\ Len(q) \in Nat \ {0} /\ Len(a) = Len(q) - 1 /\ e = q[1]
      /\ \A i \in 1..Len(a) : a[i] = q[i + 1]
  BY HeadTailProperties, EmptySeq
<1> HIDE DEF a, e
<1>3. ASSUME NEW i \in 1..Len(a), NEW j \in 1..Len(a), a[i] = Task, a[j] \in Ios
      PROVE  j < i
  <2>1. /\ i + 1 \in 1..Len(q) /\ j + 1 \in 1..Len(q)
        /\ q[i + 1] = Task /\ q[j + 1] \in Ios
    BY <1>2, <1>3
  <2>2. j + 1 < i + 1
    BY <2>1 DEF IosFirst
  <2> QED BY <1>2, <2>2
<1>4. ASSUME Task \notin Elems(a)
      PROVE  Elems(a) \cap Ios = {}
  <2>1. CASE e # Task
    BY <1>1, <1>4, <2>1 DEF IosFirst
  <2>2. CASE e = Task
    <3>1. SUFFICES ASSUME NEW j \in 1..Len(a), a[j] \in Ios
                   PROVE  FALSE
      BY DEF Elems
    <3>2. /\ 1 \in 1..Len(q) /\ j + 1 \in 1..Len(q)
          /\ q[1] = Task /\ q[j + 1] \in Ios
      BY <1>2, <2>2, <3>1
    <3>3. j + 1 < 1
      BY <3>2 DEF IosFirst
    <3> QED BY <1>2, <3>3
  <2> QED BY <2>1, <2>2
<1>5. IosFirst(a)
  BY <1>3, <1>4 DEF IosFirst
<1> QED BY <1>5 DEF a

-----------------------------------------------------------------------------
(***************************************************************************)
(* The inductive invariant.                                                *)
(***************************************************************************)

(* A thread has an entry while it works on it.                             *)
CurInv ==
  /\ pc[User] \in {"out", "push", "last"}
  /\ \A t \in Threads :
       cur[t] # None <=> pc[t] \in {"io", "handler", "push", "finish"}
  /\ \A t \in Threads : pc[t] = "io" => cur[t] \in Ios

(* The task is in the queue, or one thread has it.                         *)
TaskInv ==
  /\ \A t, u \in Threads : Holding(t) /\ Holding(u) => t = u
  /\ Task \in Elems(opq) <=> \A t \in Threads : ~Holding(t)

(* t runs o, or is about to clean up after it, from the queue or from the  *)
(* descriptor's entry.                                                     *)
RunsOp(t, o) ==
  \/ cur[t] = Op(o)
  \/ cur[t] = Io(o) /\ pc[t] \in {"handler", "push"}

(* One thread runs an operation, and one actor pushes it.                  *)
RunInv ==
  /\ \A t, u \in Threads, o \in Ops : RunsOp(t, o) /\ RunsOp(u, o) => t = u
  /\ \A t \in Threads, o \in Ops :
       RunsOp(t, o) => /\ life[o] \in {"running", "done"}
                       /\ pc[t] \in {"handler", "push"} => life[o] = "running"
  /\ \A a \in Actors : pc[a] = "push" => life[arg[a]] = "pushing"
  /\ \A a, b \in Actors :
       pc[a] = "push" /\ pc[b] = "push" /\ arg[a] = arg[b] => a = b

(* An operation is in a queue, one of them and once, while it is queued.   *)
QueueInv ==
  /\ Apart(opq, priv) /\ IosFirst(opq)
  /\ \A o \in Ops : life[o] = "queued" <=> Op(o) \in Queued(opq, priv)

(* What threads keep in their private queues, and how they count it.       *)
PrivInv ==
  \A t \in Threads :
    /\ pc[t] = "found" => Elems(priv[t]) \subseteq Ios
    /\ pc[t] \in {"loop", "handler", "push", "finish"}
         => Elems(priv[t]) \subseteq Completions
    /\ pc[t] \notin {"found", "loop", "handler", "push", "finish"}
         => priv[t] = <<>>
    /\ privWork[t] = IF pc[t] \in {"handler", "push", "finish"} THEN Len(priv[t])
                     ELSE 0

(* Without work the session's io_service::work is gone; with it, only the  *)
(* application has stopped the service.                                    *)
KeepInv ==
  keep => /\ \A a \in Actors : pc[a] \notin {"zero", "last"}
          /\ stopped => halted

StateInv ==
  TypeInv /\ WaitInv /\ CurInv /\ TaskInv /\ RunInv /\ QueueInv /\ PrivInv

WorkInv == StateInv /\ WorkCounted /\ KeepInv

-----------------------------------------------------------------------------
(***************************************************************************)
(* Counting: privately counted operations are queued, so outstanding_work_ *)
(* is at least what the session and the running handlers account for.      *)
(***************************************************************************)

Private  == UNION {{t} \X (1..privWork[t]) : t \in Threads}
Live     == {o \in Ops : life[o] \notin {"new", "done"}}
Finished == {t \in Threads : pc[t] = "finish"}

LEMMA CountedAs ==
  /\ WorkCounted <=> outstanding + Cardinality(Private)
                       = (IF keep THEN 1 ELSE 0) + Cardinality(Live)
                           + Cardinality(Finished)
BY DEF WorkCounted, Private, Live, Finished

LEMMA InPrivate ==
  ASSUME NEW p
  PROVE  p \in Private <=> \E t \in Threads : \E i \in 1..privWork[t] : p = <<t, i>>
BY DEF Private

LEMMA Finite ==
  /\ IsFiniteSet(Live) /\ IsFiniteSet(Finished)
  /\ Cardinality(Live) \in Nat /\ Cardinality(Finished) \in Nat
<1>1. Live \in SUBSET Ops /\ Finished \in SUBSET Threads
  BY DEF Live, Finished
<1>2. IsFiniteSet(Live) /\ IsFiniteSet(Finished)
  BY <1>1, ServiceAssumption, FS_Subset
<1> QED BY <1>2, FS_CardinalityType

(* A privately counted operation.                                          *)
LEMMA PrivateFacts ==
  ASSUME StateInv, NEW t \in Threads, NEW i \in 1..privWork[t]
  PROVE  /\ i \in 1..Len(priv[t]) /\ priv[t][i] \in Elems(priv[t])
         /\ priv[t][i].op \in Ops /\ priv[t][i] = Op(priv[t][i].op)
         /\ life[priv[t][i].op] = "queued"
<1>1. pc[t] \in {"handler", "push", "finish"} /\ privWork[t] = Len(priv[t])
  <2>1. CASE pc[t] \in {"handler", "push", "finish"}
    BY <2>1 DEF StateInv, PrivInv
  <2>2. CASE pc[t] \notin {"handler", "push", "finish"}
    <3>1. privWork[t] = 0
      BY <2>2 DEF StateInv, PrivInv
    <3> QED BY <3>1
  <2> QED BY <2>1, <2>2
<1>2. i \in 1..Len(priv[t]) /\ priv[t][i] \in Elems(priv[t])
  BY <1>1 DEF Elems
<1>3. PICK o \in Ops : priv[t][i] = Op(o)
  BY <1>1, <1>2 DEF StateInv, PrivInv, Completions
<1>4. priv[t][i].op = o
  BY <1>3, EntryFacts
<1>5. life[o] = "queued"
  <2>1. Op(o) \in Queued(opq, priv)
    BY <1>2, <1>3 DEF Queued
  <2> QED BY <2>1 DEF StateInv, QueueInv
<1> QED BY <1>2, <1>3, <1>4, <1>5

LEMMA PrivateBound ==
  ASSUME StateInv, NEW S \in SUBSET Ops,
         \A o \in Ops : life[o] = "queued" => o \in S
  PROVE  /\ IsFiniteSet(Private) /\ Cardinality(Private) \in Nat
         /\ Cardinality(Private) <= Cardinality(S)
<1> DEFINE f == [p \in Private |-> priv[p[1]][p[2]].op]
<1>1. ASSUME NEW p \in Private
      PROVE  /\ p[1] \in Threads /\ p[2] \in 1..privWork[p[1]]
             /\ p = <<p[1], p[2]>> /\ f[p] \in S
             /\ Op(f[p]) = priv[p[1]][p[2]]
             /\ p[2] \in 1..Len(priv[p[1]])
             /\ Op(f[p]) \in Elems(priv[p[1]])
  <2>1. PICK t \in Threads : \E i \in 1..privWork[t] : p = <<t, i>>
    BY InPrivate
  <2>2. PICK i \in 1..privWork[t] : p = <<t, i>>
    BY <2>1
  <2>3. p[1] = t /\ p[2] = i
    BY <2>2
  <2> QED BY <2>2, <2>3, PrivateFacts
<1>2. ASSUME NEW p \in Private, NEW r \in Private, f[p] = f[r]
      PROVE  p = r
  <2>1. priv[p[1]][p[2]] = priv[r[1]][r[2]]
    BY <1>1, <1>2
  <2>2. p[1] = r[1]
    <3>1. Op(f[p]) \in Elems(priv[p[1]]) /\ Op(f[p]) \in Elems(priv[r[1]])
          /\ p[1] \in Threads /\ r[1] \in Threads
      BY <1>1, <1>2
    <3> HIDE DEF f
    <3> QED BY <3>1 DEF StateInv, QueueInv, Apart
  <2>3. p[2] = r[2]
    <3>1. Once(priv[p[1]])
      BY <1>1 DEF StateInv, QueueInv, Apart
    <3> QED BY <1>1, <2>1, <2>2, <3>1 DEF Once
  <2> QED BY <1>1, <2>2, <2>3
<1>3. f \in Injection(Private, S)
  BY <1>1, <1>2 DEF Injection, IsInjective
<1>4. IsFiniteSet(S)
  BY ServiceAssumption, FS_Subset
<1> QED BY <1>3, <1>4, FS_Injection, FS_CardinalityType

(* The least there is of outstanding work.                                 *)
LEMMA WorkLeast ==
  ASSUME StateInv, WorkCounted
  PROVE  /\ outstanding \in Nat
         /\ keep => outstanding >= 1
         /\ \A t \in Threads : pc[t] \in {"handler", "push", "finish"} =>
              outstanding >= 1 /\ (keep => outstanding >= 2)
<1>1. /\ outstanding \in Int /\ keep \in BOOLEAN
      /\ outstanding + Cardinality(Private)
           = (IF keep THEN 1 ELSE 0) + Cardinality(Live) + Cardinality(Finished)
  BY CountedAs DEF StateInv, TypeInv, WorkType, WakeType
<1>2. /\ Cardinality(Private) \in Nat /\ Cardinality(Private) <= Cardinality(Live)
      /\ IsFiniteSet(Private)
  <2>1. Live \in SUBSET Ops /\ \A o \in Ops : life[o] = "queued" => o \in Live
    BY DEF Live
  <2> QED BY <2>1, PrivateBound
<1>3. outstanding \in Nat /\ (keep => outstanding >= 1)
  BY <1>1, <1>2, Finite
<1>4. ASSUME NEW t \in Threads, pc[t] = "finish"
      PROVE  outstanding >= 1 /\ (keep => outstanding >= 2)
  <2>1. Finished # {}
    BY <1>4 DEF Finished
  <2>2. Cardinality(Finished) # 0
    BY <2>1, Finite, FS_EmptySet
  <2> QED BY <1>1, <1>2, <2>2, Finite
<1>5. ASSUME NEW t \in Threads, pc[t] \in {"handler", "push"}
      PROVE  outstanding >= 1 /\ (keep => outstanding >= 2)
  <2>1. PICK o \in Ops : RunsOp(t, o)
    <3>1. cur[t] # None /\ cur[t] \in Entries \cup {None}
      BY <1>5 DEF StateInv, CurInv, TypeInv, QueueType
    <3>2. PICK o \in Ops : cur[t] = Op(o) \/ cur[t] = Io(o)
      BY <3>1, EntryFacts
    <3> QED BY <1>5, <3>2 DEF RunsOp
  <2>2. life[o] = "running"
    BY <1>5, <2>1 DEF StateInv, RunInv
  <2>3. Live \ {o} \in SUBSET Ops
        /\ (\A n \in Ops : life[n] = "queued" => n \in Live \ {o}) /\ o \in Live
    BY <2>2 DEF Live
  <2>4. Cardinality(Private) <= Cardinality(Live \ {o})
    BY <2>3, PrivateBound
  <2>5. Cardinality(Live \ {o}) = Cardinality(Live) - 1
    BY <2>3, Finite, FS_RemoveElement
  <2> QED BY <1>1, <1>2, <2>4, <2>5, Finite
<1> QED BY <1>3, <1>4, <1>5

-----------------------------------------------------------------------------
(***************************************************************************)
(* What a thread holds: its entry, and the task.                           *)
(***************************************************************************)

Busy == {"io", "handler", "push", "finish"}

LEMMA ActorFacts ==
  /\ Threads \subseteq Actors /\ User \in Actors /\ User \notin Threads
  /\ \A a \in Actors : a \in Threads \/ a = User
BY ServiceAssumption DEF Actors

LEMMA GoesTo ==
  ASSUME TypeInv, NEW a \in Actors, NEW l, Go(a, l)
  PROVE  pc'[a] = l /\ \A b \in Actors : b # a => pc'[b] = pc[b]
BY DEF TypeInv, WorkType, Go

LEMMA GoesCur ==
  ASSUME TypeInv, CurInv, NEW a \in Actors, NEW l, Go(a, l), cur' = cur,
         a = User => l \in {"out", "push", "last"},
         a \in Threads => (pc[a] \in Busy <=> l \in Busy), l # "io"
  PROVE  CurInv'
<1>1. pc'[a] = l /\ \A b \in Actors : b # a => pc'[b] = pc[b]
  BY GoesTo
<1>2. pc'[User] \in {"out", "push", "last"}
  BY <1>1, ActorFacts DEF CurInv
<1>3. ASSUME NEW t \in Threads
      PROVE  /\ cur'[t] # None <=> pc'[t] \in Busy
             /\ pc'[t] = "io" => cur'[t] \in Ios
  <2>1. CASE t = a
    BY <1>1, <2>1 DEF CurInv, Busy
  <2>2. CASE t # a
    BY <1>1, <2>2, ActorFacts DEF CurInv, Busy
  <2> QED BY <2>1, <2>2
<1> QED BY <1>2, <1>3 DEF CurInv, Busy

LEMMA StaysCur ==
  ASSUME CurInv, UNCHANGED <<pc, cur>>
  PROVE  CurInv'
BY DEF CurInv

LEMMA TurnCur ==
  ASSUME TypeInv, CurInv, NEW t \in Threads, pc[t] \notin Busy,
         NEW q \in Seq(Entries \cup {Task}), Turn(t, q)
  PROVE  CurInv'
<1>1. t \in Actors /\ t # User /\ cur[t] = None
  BY ActorFacts DEF CurInv, Busy
<1>2. CASE Leaves(t, q)
  <2>1. PICK l \in {"done", "out"} : Go(t, l)
    BY <1>2 DEF Leaves, Return
  <2> QED BY <1>1, <1>2, <2>1, GoesCur DEF Leaves, Busy
<1>3. CASE Sleeps(t, q)
  BY <1>1, <1>3, GoesCur DEF Sleeps, Busy
<1>4. CASE TakesTask(t, q)
  <2>1. PICK l \in {"scan", "block"} : Go(t, l)
    BY <1>4 DEF TakesTask
  <2> QED BY <1>1, <1>4, <2>1, GoesCur DEF TakesTask, Busy
<1>5. CASE TakesEntry(t, q)
  <2> DEFINE e == Head(q)
  <2>1. e \in Entries /\ cur' = [cur EXCEPT ![t] = e]
        /\ Go(t, IF e.kind = "op" THEN "handler" ELSE "io")
    <3>1. Head(q) \in Entries \cup {Task} /\ Head(q) # Task
      BY <1>5, HeadTailProperties DEF TakesEntry
    <3> QED BY <1>5, <3>1 DEF TakesEntry
  <2> HIDE DEF e
  <2>2. e # None /\ (e.kind # "op" => e \in Ios)
    BY <2>1, EntryFacts DEF Ios
  <2>3. cur'[t] = e /\ \A u \in Threads : u # t => cur'[u] = cur[u]
    BY <2>1 DEF TypeInv, QueueType
  <2>4. pc'[t] = (IF e.kind = "op" THEN "handler" ELSE "io")
        /\ \A b \in Actors : b # t => pc'[b] = pc[b]
    BY <1>1, <2>1, GoesTo
  <2>5. pc'[User] \in {"out", "push", "last"}
    BY <1>1, <2>4, ActorFacts DEF CurInv
  <2>6. ASSUME NEW u \in Threads
        PROVE  /\ cur'[u] # None <=> pc'[u] \in Busy
               /\ pc'[u] = "io" => cur'[u] \in Ios
    BY <2>2, <2>3, <2>4, ActorFacts DEF CurInv, Busy
  <2> QED BY <2>5, <2>6 DEF CurInv, Busy
<1> QED BY <1>2, <1>3, <1>4, <1>5 DEF Turn

LEMMA TurnsQueue ==
  ASSUME TypeInv, NEW t \in Threads, Turns(t)
  PROVE  /\ pc[t] \in {"loop", "wait", "found"}
         /\ \E q \in Seq(Entries \cup {Task}) : Turn(t, q)
<1>1. QueueType
  BY DEF TypeInv
<1> DEFINE S == Seq(Entries \cup {Task})
<1>2. /\ opq \o priv[t] \in S /\ opq \o priv[t] \o <<Task>> \in S /\ opq \in S
  BY <1>1, QueueTypes
<1> QED BY <1>2 DEF Turns

LEMMA CurStep == WorkInv /\ [Next]_vars => CurInv'
<1> SUFFICES ASSUME WorkInv, [Next]_vars PROVE CurInv'
  OBVIOUS
<1>1. TypeInv /\ WaitInv /\ CurInv /\ StateInv
  BY DEF WorkInv, StateInv
<1>2. CASE Quiet
  BY <1>1, <1>2, QuietFacts, StaysCur DEF core
<1>3. CASE Passes
  <2>1. PICK a \in Actors : Passing(a) /\ cur' = cur
    BY <1>3, PassesFacts DEF mine
  <2>2. PICK l \in {"zero", "loop", "done", "out"} :
          /\ Go(a, l) /\ pc[a] \notin Busy /\ (a = User => l = "out")
    BY <2>1, ActorFacts DEF Passing, Busy
  <2> QED BY <1>1, <2>1, <2>2, GoesCur, ActorFacts DEF Busy
<1>4. ASSUME NEW t \in Threads, Turns(t)
      PROVE  CurInv'
  BY <1>1, <1>4, TurnsQueue, TurnCur DEF Busy
<1>5. ASSUME NEW t \in Threads,
             EpollWait(t) \/ PerformIo(t) \/ HandlerReturns(t)
      PROVE  CurInv'
  <2>1. PICK l \in {"found", "handler", "finish"} :
          Go(t, l) /\ (pc[t] \in Busy <=> l \in Busy) /\ cur' = cur
    BY <1>5 DEF EpollWait, PerformIo, HandlerReturns, At, mine, Busy
  <2> QED BY <1>1, <2>1, GoesCur, ActorFacts
<1>6. ASSUME NEW t \in Threads, WorkCleanup(t)
      PROVE  CurInv'
  <2>1. PICK l \in {"last", "loop"} : Go(t, l)
    BY <1>6 DEF WorkCleanup
  <2>2. pc'[t] = l /\ (\A b \in Actors : b # t => pc'[b] = pc[b])
        /\ t # User /\ t \in Actors
    BY <1>1, <2>1, GoesTo, ActorFacts
  <2>3. cur'[t] = None /\ \A u \in Threads : u # t => cur'[u] = cur[u]
    BY <1>1, <1>6 DEF WorkCleanup, TypeInv, QueueType
  <2> QED BY <1>1, <2>2, <2>3, ActorFacts DEF CurInv
<1>7. ASSUME NEW a \in Actors, Push(a) \/ \E o \in Ops : Post(a, o)
      PROVE  CurInv'
  <2>1. PICK l \in {"out", "handler", "push"} :
          /\ Go(a, l) /\ cur' = cur /\ (a = User => l \in {"out", "push"})
          /\ (a # User => l \in Busy /\ pc[a] \in Busy)
    BY <1>7 DEF Push, Post, At, Calls, Busy
  <2> QED BY <1>1, <2>1, GoesCur, ActorFacts
<1>8. ASSUME NEW a \in Actors, ReleaseWork(a)
      PROVE  CurInv'
  <2>1. CASE UNCHANGED pc
    BY <1>1, <1>8, <2>1, StaysCur DEF ReleaseWork, mine
  <2>2. CASE pc' # pc
    <3>1. outstanding = 1 /\ keep /\ Go(a, "last") /\ cur' = cur /\ Calls(a)
      BY <1>8, <2>2 DEF ReleaseWork, mine
    <3>2. a \in Threads => outstanding >= 2
      BY <1>1, <3>1, WorkLeast, ActorFacts DEF Calls, At, WorkInv
    <3>3. a = User
      BY <3>1, <3>2, ActorFacts
    <3> QED BY <1>1, <3>1, <3>3, GoesCur, ActorFacts DEF Busy
  <2> QED BY <2>1, <2>2
<1>9. ASSUME NEW a \in Actors, NEW o \in Ops, StartOp(a, o) \/ CancelOp(a, o)
      PROVE  CurInv'
  BY <1>1, <1>9, StaysCur DEF StartOp, CancelOp, mine
<1>10. ASSUME NEW t \in Threads, NEW o \in Ops, PostContinuation(t, o)
       PROVE  CurInv'
  BY <1>1, <1>10, StaysCur DEF PostContinuation
<1> QED BY <1>1, <1>2, <1>3, <1>4, <1>5, <1>6, <1>7, <1>8, <1>9, <1>10, Steps

-----------------------------------------------------------------------------
(***************************************************************************)
(* A turn: what t has to add is in q, and the rest is as the invariant     *)
(* says.                                                                   *)
(***************************************************************************)

Emptied(t) == [priv EXCEPT ![t] = <<>>]

Consistent(t, q) ==
  /\ q \in Seq(Entries \cup {Task})
  /\ Apart(q, Emptied(t)) /\ IosFirst(q)
  /\ \A o \in Ops : life[o] = "queued" <=> Op(o) \in Queued(q, Emptied(t))
  /\ Task \in Elems(q) <=> \A u \in Threads \ {t} : ~Holding(u)

LEMMA KindsApart ==
  /\ Task \notin Ios /\ Task \notin Completions /\ Ios \cap Completions = {}
  /\ Ios \subseteq Entries /\ Completions \subseteq Entries
BY EntryFacts DEF Ios, Completions

LEMMA LoopConsistent ==
  ASSUME StateInv, NEW t \in Threads, pc[t] \in {"loop", "wait"}
  PROVE  Consistent(t, opq \o priv[t])
<1> DEFINE S == Entries \cup {Task}
           q == opq \o priv[t]
<1>1. /\ opq \in Seq(S) /\ priv[t] \in Seq(S) /\ q \in Seq(S)
      /\ DOMAIN priv = Threads
  BY QueueTypes DEF StateInv, TypeInv, QueueType
<1>2. Elems(priv[t]) \subseteq Completions
  <2>1. CASE pc[t] = "loop"
    BY <2>1 DEF StateInv, PrivInv
  <2>2. CASE pc[t] = "wait"
    BY <2>2, ElemsOfEmpty DEF StateInv, PrivInv
  <2> QED BY <2>1, <2>2
<1>3. /\ Apart(opq, priv) /\ IosFirst(opq)
      /\ \A o \in Ops : life[o] = "queued" <=> Op(o) \in Queued(opq, priv)
      /\ Task \in Elems(opq) <=> \A u \in Threads : ~Holding(u)
  BY DEF StateInv, QueueInv, TaskInv
<1> HIDE DEF S
<1>4. /\ Apart(q, Emptied(t)) /\ Queued(q, Emptied(t)) = Queued(opq, priv)
      /\ Elems(q) = Elems(opq) \cup Elems(priv[t])
  <2>1. Merging(Entries \cup {Task}, opq, priv, t, Emptied(t))
    BY <1>1, <1>3 DEF Merging, Emptied, S
  <2> QED BY <2>1, ApartMerge
<1>5. IosFirst(q)
  BY <1>1, <1>2, <1>3, KindsApart, IosFirstConcat
<1> HIDE DEF q
<1>6. Task \in Elems(q) <=> \A u \in Threads \ {t} : ~Holding(u)
  <2>1. ~Holding(t)
    BY DEF Holding
  <2> QED BY <1>2, <1>3, <1>4, <2>1, KindsApart
<1> QED BY <1>1, <1>3, <1>4, <1>5, <1>6 DEF Consistent, S, q

LEMMA FoundConsistent ==
  ASSUME StateInv, NEW t \in Threads, pc[t] = "found"
  PROVE  Consistent(t, opq \o priv[t] \o <<Task>>)
<1> DEFINE S == Entries \cup {Task}
           r == opq \o priv[t]
<1>1. /\ opq \in Seq(S) /\ priv[t] \in Seq(S) /\ r \in Seq(S) /\ Task \in S
      /\ DOMAIN priv = Threads /\ \A u \in Threads : priv[u] \in Seq(Entries)
  BY QueueTypes DEF StateInv, TypeInv, QueueType
<1>2. Elems(priv[t]) \subseteq Ios
  BY DEF StateInv, PrivInv
<1>3. /\ Apart(opq, priv)
      /\ \A o \in Ops : life[o] = "queued" <=> Op(o) \in Queued(opq, priv)
      /\ Holding(t) /\ Task \notin Elems(opq)
      /\ \A u \in Threads \ {t} : ~Holding(u)
  BY DEF StateInv, QueueInv, TaskInv, Holding
<1>4. /\ Apart(r, Emptied(t)) /\ Queued(r, Emptied(t)) = Queued(opq, priv)
      /\ Elems(r) = Elems(opq) \cup Elems(priv[t])
  <2>1. Merging(Entries \cup {Task}, opq, priv, t, Emptied(t))
    BY <1>1, <1>3 DEF Merging, Emptied
  <2> QED BY <2>1, ApartMerge
<1>5. Task \notin Elems(r) /\ Task \notin Queued(opq, priv)
  <2>1. \A u \in Threads : Elems(priv[u]) \subseteq Entries
    BY <1>1, ElemsType
  <2> QED BY <1>3, <1>4, <2>1, EntryFacts DEF Queued
<1> HIDE DEF r
<1>6. r \o <<Task>> = Append(r, Task)
  BY <1>1, AppendIsConcat
<1> DEFINE q == Append(r, Task)
<1>7. /\ q \in Seq(S) /\ Elems(q) = Elems(r) \cup {Task}
  BY <1>1, ElemsOfAppend
<1>8. /\ Apart(q, Emptied(t))
      /\ Queued(q, Emptied(t)) = Queued(opq, priv) \cup {Task}
  BY <1>1, <1>4, <1>5, ApartAppend
<1>9. IosFirst(q)
  BY <1>1, <1>5, IosFirstTask
<1>10. \A o \in Ops : Op(o) # Task
  BY KindsApart DEF Completions
<1> HIDE DEF q
<1>11. Consistent(t, q)
  BY <1>3, <1>7, <1>8, <1>9, <1>10 DEF Consistent, S
<1> QED BY <1>6, <1>11 DEF q, r

LEMMA TurnsConsistent ==
  ASSUME StateInv, NEW t \in Threads, Turns(t)
  PROVE  \E q \in Seq(Entries \cup {Task}) : Consistent(t, q) /\ Turn(t, q)
<1>1. CASE pc[t] = "loop"
  BY <1>1, LoopConsistent DEF Turns, Consistent
<1>2. CASE pc[t] = "wait"
  <2>1. priv[t] = <<>> /\ opq \in Seq(Entries \cup {Task})
    BY <1>2 DEF StateInv, PrivInv, TypeInv, QueueType
  <2>2. opq \o priv[t] = opq
    BY <2>1, ConcatEmptySeq
  <2> QED BY <1>2, <2>2, LoopConsistent DEF Turns, Consistent
<1>3. CASE pc[t] = "found"
  BY <1>3, FoundConsistent DEF Turns, Consistent
<1> QED BY <1>1, <1>2, <1>3 DEF Turns

LEMMA TurnPc ==
  ASSUME TypeInv, NEW t \in Threads, NEW q, Turn(t, q)
  PROVE  /\ \A b \in Actors : b # t => pc'[b] = pc[b]
         /\ \A u \in Threads : u # t => (Holding(u)' <=> Holding(u))
         /\ Holding(t)' <=> TakesTask(t, q)
         /\ pc'[t] \in {"done", "out", "wait", "scan", "block", "handler", "io"}
<1>1. t \in Actors /\ Threads \subseteq Actors
  BY ActorFacts
<1>2. TakesTask(t, q) => pc'[t] \in {"scan", "block"}
  BY <1>1, GoesTo DEF TakesTask
<1>3. CASE Leaves(t, q)
  <2>1. PICK l \in {"done", "out"} : Go(t, l)
    BY <1>3 DEF Leaves, Return
  <2>2. pc'[t] = l /\ \A b \in Actors : b # t => pc'[b] = pc[b]
    BY <1>1, <2>1, GoesTo
  <2> QED BY <1>1, <1>2, <2>2 DEF Holding
<1>4. CASE Sleeps(t, q)
  <2>1. pc'[t] = "wait" /\ \A b \in Actors : b # t => pc'[b] = pc[b]
    BY <1>1, <1>4, GoesTo DEF Sleeps
  <2> QED BY <1>1, <2>1, <1>4 DEF Holding, TakesTask, Sleeps
<1>5. CASE TakesTask(t, q)
  <2>1. PICK l \in {"scan", "block"} : Go(t, l)
    BY <1>5 DEF TakesTask
  <2>2. pc'[t] = l /\ \A b \in Actors : b # t => pc'[b] = pc[b]
    BY <1>1, <2>1, GoesTo
  <2> QED BY <1>1, <2>2, <1>5 DEF Holding
<1>6. CASE TakesEntry(t, q)
  <2>1. PICK l \in {"handler", "io"} : Go(t, l)
    BY <1>6 DEF TakesEntry
  <2>2. pc'[t] = l /\ \A b \in Actors : b # t => pc'[b] = pc[b]
    BY <1>1, <2>1, GoesTo
  <2> QED BY <1>1, <2>2, <1>6 DEF Holding, TakesTask, TakesEntry
<1> QED BY <1>3, <1>4, <1>5, <1>6 DEF Turn

LEMMA TurnTask ==
  ASSUME StateInv, NEW t \in Threads, NEW q, Consistent(t, q), Turn(t, q)
  PROVE  TaskInv'
<1>1. /\ \A u \in Threads : u # t => (Holding(u)' <=> Holding(u))
      /\ Holding(t)' <=> TakesTask(t, q)
  BY TurnPc DEF StateInv
<1>2. Task \in Elems(q) <=> \A u \in Threads \ {t} : ~Holding(u)
  BY DEF Consistent
<1>3. q # <<>> => /\ Elems(q) = Elems(Tail(q)) \cup {Head(q)}
                  /\ Head(q) \notin Elems(Tail(q))
  BY ElemsOfTail DEF Consistent, Apart
<1>4. CASE TakesTask(t, q)
  <2>1. Task \in Elems(q) /\ Task \notin Elems(opq')
    BY <1>3, <1>4 DEF TakesTask
  <2> QED BY <1>1, <1>2, <1>4, <2>1 DEF TaskInv
<1>5. CASE ~TakesTask(t, q)
  <2>1. Task \in Elems(q) <=> Task \in Elems(opq')
    BY <1>3, <1>5 DEF Turn, Leaves, Sleeps, TakesEntry
  <2>2. \A u, v \in Threads : Holding(u) /\ Holding(v) => u = v
    BY DEF StateInv, TaskInv
  <2> QED BY <1>1, <1>2, <1>5, <2>1, <2>2 DEF TaskInv
<1> QED BY <1>4, <1>5

LEMMA TurnQueue ==
  ASSUME StateInv, NEW t \in Threads, NEW q, Consistent(t, q), Turn(t, q)
  PROVE  QueueInv'
<1> DEFINE p == Emptied(t)
<1>1. /\ q \in Seq(Entries \cup {Task}) /\ Apart(q, p) /\ IosFirst(q)
      /\ \A o \in Ops : life[o] = "queued" <=> Op(o) \in Queued(q, p)
      /\ priv' = p
  BY DEF Consistent, Turn, Emptied
<1> HIDE DEF p
<1>2. CASE opq' = q /\ life' = life
  BY <1>1, <1>2 DEF QueueInv
<1>3. CASE q # <<>> /\ opq' = Tail(q)
           /\ life' = IF Head(q).kind = "op"
                      THEN [life EXCEPT ![Head(q).op] = "running"] ELSE life
  <2> DEFINE e == Head(q)
  <2>1. /\ Apart(opq', p) /\ Queued(opq', p) = Queued(q, p) \ {e}
        /\ e \in Entries \cup {Task}
    BY <1>1, <1>3, ApartTail, HeadTailProperties
  <2>2. IosFirst(opq')
    BY <1>1, <1>3, IosFirstTail DEF Apart
  <2>3. life' = IF e.kind = "op" THEN [life EXCEPT ![e.op] = "running"] ELSE life
    BY <1>3
  <2> HIDE DEF e
  <2>4. ASSUME NEW o \in Ops
        PROVE  life'[o] = "queued" <=> Op(o) \in Queued(opq', p)
    <3>1. life[o] = "queued" <=> Op(o) \in Queued(q, p)
      BY <1>1
    <3>2. CASE e = Op(o)
      <4>1. e.kind = "op" /\ e.op = o
        BY <3>2, EntryFacts
      <4>2. life'[o] = "running"
        BY <2>3, <4>1 DEF StateInv, TypeInv, WorkType
      <4> QED BY <2>1, <3>2, <4>2
    <3>3. CASE e # Op(o)
      <4>1. e.kind = "op" => e.op # o
        <5>1. Task.kind # "op"
          BY DEF Task
        <5> QED BY <2>1, <3>3, <5>1, EntryFacts
      <4>2. life'[o] = life[o]
        BY <2>3, <4>1 DEF StateInv, TypeInv, WorkType
      <4> QED BY <2>1, <3>1, <3>3, <4>2
    <3> QED BY <3>2, <3>3
  <2> QED BY <1>1, <2>1, <2>2, <2>4 DEF QueueInv
<1>4. CASE TakesTask(t, q)
  <2>1. Head(q).kind # "op"
    BY <1>4 DEF TakesTask, Task
  <2> QED BY <1>3, <1>4, <2>1 DEF TakesTask
<1>5. CASE TakesEntry(t, q)
  BY <1>3, <1>5 DEF TakesEntry
<1>6. CASE Leaves(t, q) \/ Sleeps(t, q)
  BY <1>2, <1>6 DEF Leaves, Sleeps
<1> QED BY <1>4, <1>5, <1>6 DEF Turn

LEMMA TurnPriv ==
  ASSUME StateInv, NEW t \in Threads, pc[t] \in {"loop", "wait", "found"},
         NEW q, Turn(t, q)
  PROVE  PrivInv'
<1>1. /\ \A b \in Actors : b # t => pc'[b] = pc[b]
      /\ pc'[t] \in {"done", "out", "wait", "scan", "block", "handler", "io"}
  BY TurnPc DEF StateInv
<1>2. /\ priv'[t] = <<>> /\ \A u \in Threads : u # t => priv'[u] = priv[u]
      /\ privWork' = privWork
  BY DEF Turn, StateInv, TypeInv, QueueType
<1>3. Elems(priv'[t]) = {} /\ Len(priv'[t]) = 0
  BY <1>2, ElemsOfEmpty
<1>4. privWork[t] = 0
  BY DEF StateInv, PrivInv
<1>5. ASSUME NEW u \in Threads, u # t
      PROVE  pc'[u] = pc[u] /\ priv'[u] = priv[u] /\ privWork'[u] = privWork[u]
  BY <1>1, <1>2, <1>5, ActorFacts
<1> QED BY <1>1, <1>2, <1>3, <1>4, <1>5 DEF StateInv, PrivInv

LEMMA TurnRun ==
  ASSUME StateInv, NEW t \in Threads, pc[t] \in {"loop", "wait", "found"},
         NEW q, Consistent(t, q), Turn(t, q)
  PROVE  RunInv'
<1>1. /\ \A b \in Actors : b # t => pc'[b] = pc[b]
      /\ pc'[t] \in {"done", "out", "wait", "scan", "block", "handler", "io"}
      /\ RunInv /\ arg' = arg
  BY TurnPc DEF StateInv, Turn
<1>2. cur[t] = None
  BY DEF StateInv, CurInv
<1>3. cur \in [Threads -> Entries \cup {None}] /\ life \in [Ops -> Lives]
  BY DEF StateInv, TypeInv, QueueType, WorkType
<1>4. ASSUME NEW a \in Actors, pc'[a] = "push"
      PROVE  pc[a] = "push" /\ life[arg[a]] = "pushing" /\ arg[a] \in Ops
  BY <1>1, <1>4 DEF RunInv, StateInv, TypeInv, PushType
<1>5. CASE cur' = cur /\ life' = life
  <2>1. \A u \in Threads, o \in Ops : RunsOp(u, o)' => RunsOp(u, o)
    <3>1. SUFFICES ASSUME NEW u \in Threads, NEW o \in Ops, RunsOp(u, o)'
                   PROVE  RunsOp(u, o)
      OBVIOUS
    <3>2. u # t
      BY <1>2, <1>5, <3>1, EntryFacts DEF RunsOp
    <3> QED BY <1>1, <1>5, <3>1, <3>2, ActorFacts DEF RunsOp
  <2>2. \A u \in Threads, o \in Ops :
          RunsOp(u, o)' /\ pc'[u] \in {"handler", "push"}
            => pc[u] \in {"handler", "push"}
    <3>1. SUFFICES ASSUME NEW u \in Threads, NEW o \in Ops, RunsOp(u, o)'
                   PROVE  u # t
      BY <1>1, ActorFacts
    <3> QED BY <1>2, <1>5, <3>1, EntryFacts DEF RunsOp
  <2> QED BY <1>1, <1>4, <1>5, <2>1, <2>2 DEF RunInv
<1>6. CASE TakesEntry(t, q) /\ Head(q).kind # "op"
  <2>1. PICK n \in Ops : Head(q) = Io(n)
    <3>1. Head(q) \in Entries
      BY <1>6, HeadTailProperties DEF TakesEntry, Consistent
    <3> QED BY <1>6, <3>1, EntryFacts
  <2>2. /\ cur'[t] = Io(n) /\ \A u \in Threads : u # t => cur'[u] = cur[u]
        /\ life' = life /\ Go(t, "io")
    BY <1>3, <1>6, <2>1 DEF TakesEntry
  <2>3. pc'[t] = "io"
    BY <2>2, GoesTo, ActorFacts DEF StateInv
  <2>4. \A u \in Threads, o \in Ops : RunsOp(u, o)' => u # t /\ RunsOp(u, o)
    BY <1>1, <2>2, <2>3, ActorFacts, EntryFacts DEF RunsOp
  <2>5. \A u \in Threads : u # t => pc'[u] = pc[u]
    BY <1>1, ActorFacts
  <2> QED BY <1>1, <1>4, <2>2, <2>4, <2>5 DEF RunInv
<1>7. CASE TakesEntry(t, q) /\ Head(q).kind = "op"
  <2>1. PICK n \in Ops : Head(q) = Op(n) /\ Head(q).op = n
    <3>1. Head(q) \in Entries
      BY <1>7, HeadTailProperties DEF TakesEntry, Consistent
    <3> QED BY <1>7, <3>1, EntryFacts
  <2>2. /\ cur'[t] = Op(n) /\ \A u \in Threads : u # t => cur'[u] = cur[u]
        /\ life' = [life EXCEPT ![n] = "running"] /\ Go(t, "handler")
    BY <1>3, <1>7, <2>1 DEF TakesEntry
  <2>3. life[n] = "queued"
    <3>1. Head(q) \in Elems(q)
      BY <1>7, ElemsOfTail DEF TakesEntry, Consistent
    <3> QED BY <2>1, <3>1 DEF Consistent, Queued
  <2>4. /\ \A u \in Threads : u # t => pc'[u] = pc[u]
        /\ pc'[t] = "handler"
    BY <1>1, <2>2, ActorFacts, GoesTo DEF StateInv
  <2>5. ASSUME NEW u \in Threads, NEW o \in Ops, RunsOp(u, o)'
        PROVE  (u = t /\ o = n) \/ (u # t /\ o # n /\ RunsOp(u, o))
    <3>2. CASE u = t
      BY <2>2, <2>5, <3>2, EntryFacts DEF RunsOp
    <3>3. CASE u # t
      <4>1. RunsOp(u, o)
        BY <2>2, <2>4, <2>5, <3>3 DEF RunsOp
      <4>2. o # n
        BY <1>1, <2>3, <4>1 DEF RunInv
      <4> QED BY <3>3, <4>1, <4>2
    <3> QED BY <3>2, <3>3
  <2>6. life'[n] = "running" /\ \A o \in Ops : o # n => life'[o] = life[o]
    BY <1>3, <2>2
  <2>7. \A a \in Actors : pc'[a] = "push" => life'[arg'[a]] = "pushing"
    BY <1>1, <1>4, <2>3, <2>6
  <2>8. \A u, v \in Threads, o \in Ops : RunsOp(u, o)' /\ RunsOp(v, o)' => u = v
    BY <1>1, <2>5 DEF RunInv
  <2>9. \A u \in Threads, o \in Ops :
          RunsOp(u, o)' => /\ life'[o] \in {"running", "done"}
                           /\ pc'[u] \in {"handler", "push"} => life'[o] = "running"
    BY <1>1, <2>4, <2>5, <2>6 DEF RunInv
  <2>10. \A a, b \in Actors :
           pc'[a] = "push" /\ pc'[b] = "push" /\ arg'[a] = arg'[b] => a = b
    BY <1>1, <1>4 DEF RunInv
  <2> QED BY <2>7, <2>8, <2>9, <2>10 DEF RunInv
<1> QED BY <1>5, <1>6, <1>7 DEF Turn, Leaves, Sleeps, TakesTask

-----------------------------------------------------------------------------
(***************************************************************************)
(* The other steps.                                                        *)
(***************************************************************************)

LEMMA GoesTask ==
  ASSUME TypeInv, TaskInv, NEW a \in Actors, NEW l, Go(a, l),
         a \in Threads => (Holding(a) <=> l \in {"block", "scan", "found"}),
         Task \in Elems(opq') <=> Task \in Elems(opq)
  PROVE  TaskInv'
<1>1. pc'[a] = l /\ \A b \in Actors : b # a => pc'[b] = pc[b]
  BY GoesTo
<1>2. \A t \in Threads : Holding(t)' <=> Holding(t)
  BY <1>1, ActorFacts DEF Holding
<1> QED BY <1>2 DEF TaskInv

LEMMA StaysTask ==
  ASSUME TaskInv, pc' = pc, Task \in Elems(opq') <=> Task \in Elems(opq)
  PROVE  TaskInv'
BY DEF TaskInv, Holding

LEMMA SameQueue ==
  ASSUME QueueInv, UNCHANGED <<opq, priv>>,
         \A o \in Ops : life'[o] = "queued" <=> life[o] = "queued"
  PROVE  QueueInv'
BY DEF QueueInv

LEMMA AddsQueue ==
  ASSUME StateInv, NEW o \in Ops, life[o] # "queued",
         opq' = Append(opq, Op(o)), priv' = priv,
         life' = [life EXCEPT ![o] = "queued"]
  PROVE  QueueInv' /\ (Task \in Elems(opq') <=> Task \in Elems(opq))
<1> DEFINE S == Entries \cup {Task}
<1>1. /\ opq \in Seq(S) /\ Op(o) \in S /\ Op(o) # Task /\ Op(o) \notin Ios
  BY EntryFacts DEF StateInv, TypeInv, QueueType, Ios
<1> HIDE DEF S
<1>2. /\ Apart(opq, priv) /\ IosFirst(opq) /\ Op(o) \notin Queued(opq, priv)
      /\ \A n \in Ops : life[n] = "queued" <=> Op(n) \in Queued(opq, priv)
  BY DEF StateInv, QueueInv
<1>3. /\ Apart(opq', priv') /\ Queued(opq', priv') = Queued(opq, priv) \cup {Op(o)}
  BY <1>1, <1>2, ApartAppend
<1>4. Elems(opq') = Elems(opq) \cup {Op(o)}
  BY <1>1, ElemsOfAppend
<1>5. IosFirst(opq')
  <2>1. /\ Elems(<<Op(o)>>) = {Op(o)} /\ <<Op(o)>> \in Seq(S)
    BY <1>1, ElemsOfSingle
  <2>2. Append(opq, Op(o)) = opq \o <<Op(o)>>
    BY <1>1, AppendIsConcat
  <2> DEFINE r == <<Op(o)>>
  <2>3. /\ Elems(r) \cap Ios = {} /\ Task \notin Elems(r) /\ r \in Seq(S)
        /\ opq' = opq \o r
    BY <1>1, <2>1, <2>2
  <2> HIDE DEF r
  <2> QED BY <1>1, <1>2, <2>3, IosFirstConcat
<1>6. \A n \in Ops : life'[n] = "queued" <=> life[n] = "queued" \/ n = o
  BY DEF StateInv, TypeInv, WorkType
<1>7. \A n \in Ops : Op(n) = Op(o) => n = o
  BY EntryFacts
<1>8. QueueInv'
  BY <1>2, <1>3, <1>5, <1>6, <1>7 DEF QueueInv
<1> QED BY <1>1, <1>4, <1>8

(* What an actor needs of its private queue where it goes.                 *)
LEMMA GoesPriv ==
  ASSUME TypeInv, PrivInv, NEW a \in Actors, NEW l, Go(a, l),
         UNCHANGED <<priv, privWork>>,
         l # "found",
         a \in Threads =>
           \/ pc[a] \in {"handler", "push", "finish"} /\ l \in {"handler", "push", "finish"}
           \/ priv[a] = <<>> /\ pc[a] \notin {"handler", "push", "finish"}
  PROVE  PrivInv'
<1>1. pc'[a] = l /\ \A b \in Actors : b # a => pc'[b] = pc[b]
  BY GoesTo
<1>2. Elems(<<>>) = {} /\ Len(<<>>) = 0
  BY ElemsOfEmpty
<1>3. ASSUME NEW t \in Threads, t # a
      PROVE  pc'[t] = pc[t]
  BY <1>1, <1>3, ActorFacts
<1>4. CASE a \notin Threads
  BY <1>3, <1>4 DEF PrivInv
<1>5. CASE a \in Threads
  <2>1. /\ pc'[a] # "found"
        /\ pc'[a] \in {"loop", "handler", "push", "finish"}
             => Elems(priv[a]) \subseteq Completions
        /\ pc'[a] \notin {"found", "loop", "handler", "push", "finish"}
             => priv[a] = <<>>
        /\ privWork[a] = IF pc'[a] \in {"handler", "push", "finish"}
                         THEN Len(priv[a]) ELSE 0
    BY <1>1, <1>2, <1>5 DEF PrivInv
  <2> QED BY <1>3, <2>1 DEF PrivInv
<1> QED BY <1>4, <1>5

LEMMA StaysPriv ==
  ASSUME PrivInv, UNCHANGED <<pc, priv, privWork>>
  PROVE  PrivInv'
BY DEF PrivInv

(* Steps that begin, complete and push nothing.                            *)
LEMMA SameRun ==
  ASSUME StateInv, UNCHANGED <<cur, arg>>,
         \A t \in Threads : pc'[t] \in {"handler", "push"}
                              => pc[t] \in {"handler", "push"},
         \A a \in Actors : pc'[a] = "push" => pc[a] = "push",
         \A o \in Ops : life[o] \in {"running", "done", "pushing"}
                           => life'[o] = life[o]
  PROVE  RunInv'
<1>1. \A t \in Threads, o \in Ops : RunsOp(t, o)' => RunsOp(t, o)
  BY DEF RunsOp
<1>2. \A a \in Actors : pc[a] = "push" => arg[a] \in Ops
  BY DEF StateInv, TypeInv, PushType
<1>3. RunInv
  BY DEF StateInv
<1>4. \A t \in Threads, o \in Ops :
        RunsOp(t, o)' => /\ life'[o] \in {"running", "done"}
                         /\ pc'[t] \in {"handler", "push"} => life'[o] = "running"
  BY <1>1, <1>3 DEF RunInv
<1>5. \A a \in Actors : pc'[a] = "push" => life'[arg'[a]] = "pushing"
  BY <1>2, <1>3 DEF RunInv
<1> QED BY <1>1, <1>3, <1>4, <1>5 DEF RunInv

PartsInv == TaskInv /\ RunInv /\ QueueInv /\ PrivInv

LEMMA StaysParts ==
  ASSUME StateInv, UNCHANGED <<opq, cur, priv, privWork, arg, life, pc>>
  PROVE  PartsInv'
<1>1. RunInv'
  BY SameRun
<1>2. TaskInv' /\ QueueInv' /\ PrivInv'
  BY StaysTask, SameQueue, StaysPriv DEF StateInv
<1> QED BY <1>1, <1>2 DEF PartsInv

LEMMA QuietParts ==
  ASSUME StateInv, UNCHANGED core
  PROVE  PartsInv'
BY StaysParts DEF core

LEMMA PassesParts ==
  ASSUME StateInv, Passes
  PROVE  PartsInv'
<1>1. PICK a \in Actors :
        /\ Passing(a) /\ UNCHANGED <<opq, cur, priv, privWork, arg, life>>
  BY PassesFacts DEF mine
<1>2. PICK l \in {"zero", "loop", "done", "out"} :
        /\ Go(a, l) /\ pc[a] \in {"out", "zero", "last"}
  BY <1>1 DEF Passing
<1>3. TypeInv /\ TaskInv /\ QueueInv /\ PrivInv
  BY DEF StateInv
<1>4. pc'[a] = l /\ \A b \in Actors : b # a => pc'[b] = pc[b]
  BY <1>2, <1>3, GoesTo
<1>5. TaskInv'
  BY <1>1, <1>2, <1>3, GoesTask DEF Holding
<1>6. PrivInv'
  <2>1. a \in Threads => priv[a] = <<>>
    BY <1>2, <1>3 DEF PrivInv
  <2> QED BY <1>1, <1>2, <1>3, <2>1, GoesPriv
<1>7. RunInv'
  <2>1. \A b \in Actors : pc'[b] \in {"handler", "push"} => pc'[b] = pc[b]
    BY <1>4
  <2> QED BY <1>1, <2>1, SameRun, ActorFacts
<1> QED BY <1>1, <1>3, <1>5, <1>6, <1>7, SameQueue DEF PartsInv

LEMMA EpollWaitParts ==
  ASSUME StateInv, NEW t \in Threads, EpollWait(t)
  PROVE  PartsInv'
<1>1. /\ pc[t] \in {"scan", "block"} /\ Go(t, "found") /\ t \in Actors
      /\ UNCHANGED <<opq, cur, privWork, arg, life>>
  BY ActorFacts DEF EpollWait, At
<1>2. PICK s \in SetToSeqs(edge) :
        priv' = [priv EXCEPT ![t] = [i \in 1..Len(s) |-> Io(s[i])]]
  BY DEF EpollWait
<1> DEFINE r == [i \in 1..Len(s) |-> Io(s[i])]
<1>3. r \in Seq(Entries) /\ Once(r) /\ Elems(r) \subseteq Ios
  BY FoundFacts DEF StateInv, Ios
<1>4. priv'[t] = r /\ \A u \in Threads : u # t => priv'[u] = priv[u]
  BY <1>2 DEF StateInv, TypeInv, QueueType
<1> HIDE DEF r
<1>5. TypeInv /\ TaskInv /\ QueueInv /\ PrivInv
  BY DEF StateInv
<1>6. pc'[t] = "found" /\ \A b \in Actors : b # t => pc'[b] = pc[b]
  BY <1>1, <1>5, GoesTo
<1>7. TaskInv'
  BY <1>1, <1>5, GoesTask DEF Holding
<1>8. RunInv'
  <2>1. \A b \in Actors : pc'[b] \in {"handler", "push"} => pc'[b] = pc[b]
    BY <1>6
  <2> QED BY <1>1, <2>1, SameRun, ActorFacts
<1>9. priv[t] = <<>> /\ Elems(priv[t]) = {} /\ privWork[t] = 0
  BY <1>1, <1>5, ElemsOfEmpty DEF PrivInv
<1>10. PrivInv'
  <2>1. ASSUME NEW u \in Threads, u # t
        PROVE  /\ pc'[u] = pc[u] /\ priv'[u] = priv[u]
               /\ privWork'[u] = privWork[u]
    BY <1>1, <1>4, <1>6, <2>1, ActorFacts
  <2> QED BY <1>1, <1>3, <1>4, <1>5, <1>6, <1>9, <2>1 DEF PrivInv
<1>11. Ios \cap Queued(opq, priv) = {}
  <2>1. Holding(t)
    BY <1>1 DEF Holding
  <2>2. Elems(opq) \cap Ios = {}
    BY <1>5, <2>1 DEF TaskInv, QueueInv, IosFirst
  <2>3. \A u \in Threads : pc[u] # "found"
    BY <1>1, <1>5, <2>1 DEF TaskInv, Holding
  <2>4. \A u \in Threads : Elems(priv[u]) \subseteq Completions
    BY <1>5, <2>3, ElemsOfEmpty DEF PrivInv
  <2> QED BY <2>2, <2>4, KindsApart DEF Queued
<1>12. /\ Apart(opq, priv')
       /\ Queued(opq, priv') = (Queued(opq, priv) \ Elems(priv[t])) \cup Elems(r)
  <2>1. Replacing(opq, priv, t, r, priv')
    BY <1>3, <1>4, <1>5, <1>11 DEF Replacing, QueueInv
  <2> QED BY <2>1, ApartReplace
<1>13. QueueInv'
  <2>1. \A o \in Ops : Op(o) \in Queued(opq, priv') <=> Op(o) \in Queued(opq, priv)
    <3>1. \A o \in Ops : Op(o) \notin Ios
      BY EntryFacts DEF Ios
    <3> QED BY <1>3, <1>9, <1>12, <3>1
  <2> QED BY <1>1, <1>5, <1>12, <2>1 DEF QueueInv
<1> QED BY <1>7, <1>8, <1>10, <1>13 DEF PartsInv

(* A thread with an entry.                                                 *)
LEMMA EntryOf ==
  ASSUME StateInv, NEW t \in Threads, pc[t] \in Busy
  PROVE  /\ cur[t].op \in Ops
         /\ pc[t] \in {"handler", "push"} => RunsOp(t, cur[t].op)
         /\ pc[t] = "io" => cur[t] = Io(cur[t].op)
<1>1. cur[t] \in Entries /\ (pc[t] = "io" => cur[t] \in Ios)
  BY DEF StateInv, CurInv, TypeInv, QueueType, Busy
<1>2. PICK o \in Ops : cur[t].op = o /\ (cur[t] = Op(o) \/ cur[t] = Io(o))
  BY <1>1, EntryFacts
<1>3. pc[t] = "io" => cur[t] = Io(o)
  BY <1>1, <1>2, KindsApart DEF Ios, Completions
<1> QED BY <1>2, <1>3 DEF RunsOp

LEMMA PerformIoParts ==
  ASSUME StateInv, NEW t \in Threads, PerformIo(t)
  PROVE  PartsInv'
<1>1. /\ pc[t] = "io" /\ t \in Actors
      /\ UNCHANGED <<opq, cur, priv, privWork, arg>>
  BY ActorFacts DEF PerformIo, At, mine
<1>2. PICK o \in Ops : cur[t].op = o /\ cur[t] = Io(o)
  <2>1. pc[t] \in Busy
    BY <1>1 DEF Busy
  <2> QED BY <1>1, <2>1, EntryOf
<1>3. TypeInv /\ TaskInv /\ RunInv /\ QueueInv /\ PrivInv
  BY DEF StateInv
<1>4. PICK l \in {"handler", "finish"} : Go(t, l)
  BY DEF PerformIo
<1>5. pc'[t] = l /\ \A b \in Actors : b # t => pc'[b] = pc[b]
  BY <1>1, <1>3, <1>4, GoesTo
<1>6. TaskInv'
  BY <1>1, <1>3, <1>4, GoesTask DEF Holding
<1>7. PrivInv'
  <2>1. priv[t] = <<>>
    BY <1>1, <1>3 DEF PrivInv
  <2>2. Elems(priv[t]) = {} /\ Len(priv[t]) = 0 /\ privWork[t] = 0
    BY <1>1, <1>3, <2>1, ElemsOfEmpty DEF PrivInv
  <2>3. \A u \in Threads : u # t => pc'[u] = pc[u]
    BY <1>5, ActorFacts
  <2> QED BY <1>1, <1>3, <1>5, <2>2, <2>3 DEF PrivInv
<1>8. CASE l = "finish"
  <2>1. life' = life
    <3>1. pc'[t] # "handler"
      BY <1>5, <1>8
    <3>2. ~Go(t, "handler")
      BY <1>1, <1>3, <3>1, GoesTo
    <3> QED BY <3>2 DEF PerformIo
  <2>2. RunInv'
    <3>1. \A b \in Actors : pc'[b] \in {"handler", "push"} => pc'[b] = pc[b]
      BY <1>5, <1>8
    <3> QED BY <1>1, <2>1, <3>1, SameRun, ActorFacts
  <2> QED BY <1>1, <1>3, <1>6, <1>7, <2>1, <2>2, SameQueue DEF PartsInv
<1>9. CASE l = "handler"
  <2>1. life[o] = "waiting" /\ life' = [life EXCEPT ![o] = "running"]
    <3>1. pc'[t] # "finish"
      BY <1>5, <1>9
    <3>2. ~Go(t, "finish")
      BY <1>1, <1>3, <3>1, GoesTo
    <3> QED BY <1>2, <3>2 DEF PerformIo
  <2>2. life'[o] = "running" /\ \A n \in Ops : n # o => life'[n] = life[n]
    BY <1>3, <2>1 DEF TypeInv, WorkType
  <2>3. QueueInv'
    <3>1. \A n \in Ops : life'[n] = "queued" <=> life[n] = "queued"
      BY <2>1, <2>2
    <3> QED BY <1>1, <1>3, <3>1, SameQueue
  <2>4. ASSUME NEW u \in Threads, NEW n \in Ops, RunsOp(u, n)'
        PROVE  (u = t /\ n = o) \/ (u # t /\ n # o /\ RunsOp(u, n))
    <3>1. CASE u = t
      BY <1>1, <1>2, <2>4, <3>1, EntryFacts DEF RunsOp
    <3>2. CASE u # t
      <4>1. RunsOp(u, n)
        BY <1>1, <1>5, <2>4, <3>2, ActorFacts DEF RunsOp
      <4>2. n # o
        BY <1>3, <2>1, <4>1 DEF RunInv
      <4> QED BY <3>2, <4>1, <4>2
    <3> QED BY <3>1, <3>2
  <2>5. \A u \in Threads : u # t => pc'[u] = pc[u]
    BY <1>5, ActorFacts
  <2>6. \A u, v \in Threads, n \in Ops : RunsOp(u, n)' /\ RunsOp(v, n)' => u = v
    BY <1>3, <2>4 DEF RunInv
  <2>7. \A u \in Threads, n \in Ops :
          RunsOp(u, n)' => /\ life'[n] \in {"running", "done"}
                           /\ pc'[u] \in {"handler", "push"} => life'[n] = "running"
    BY <1>3, <2>2, <2>4, <2>5 DEF RunInv
  <2>8. ASSUME NEW a \in Actors, pc'[a] = "push"
        PROVE  pc[a] = "push" /\ arg[a] \in Ops /\ life'[arg[a]] = "pushing"
    <3>1. pc[a] = "push"
      BY <1>5, <1>9, <2>8
    <3>2. arg[a] \in Ops /\ life[arg[a]] = "pushing"
      BY <1>3, <3>1 DEF TypeInv, PushType, RunInv
    <3> QED BY <2>1, <2>2, <3>1, <3>2
  <2>9. RunInv'
    BY <1>1, <1>3, <2>6, <2>7, <2>8 DEF RunInv
  <2> QED BY <1>6, <1>7, <2>3, <2>9 DEF PartsInv
<1> QED BY <1>8, <1>9

LEMMA HandlerReturnsParts ==
  ASSUME StateInv, NEW t \in Threads, HandlerReturns(t)
  PROVE  PartsInv'
<1>1. /\ pc[t] = "handler" /\ Go(t, "finish") /\ t \in Actors
      /\ UNCHANGED <<opq, cur, priv, privWork, arg>>
  BY ActorFacts DEF HandlerReturns, At, mine
<1>2. PICK o \in Ops : cur[t].op = o /\ RunsOp(t, o)
  <2>1. pc[t] \in Busy
    BY <1>1 DEF Busy
  <2> QED BY <1>1, <2>1, EntryOf
<1>3. TypeInv /\ TaskInv /\ RunInv /\ QueueInv /\ PrivInv
  BY DEF StateInv
<1>4. life[o] = "running" /\ life' = [life EXCEPT ![o] = "done"]
  BY <1>1, <1>2, <1>3 DEF HandlerReturns, RunInv
<1>5. life'[o] = "done" /\ \A n \in Ops : n # o => life'[n] = life[n]
  BY <1>3, <1>4 DEF TypeInv, WorkType
<1>6. pc'[t] = "finish" /\ \A b \in Actors : b # t => pc'[b] = pc[b]
  BY <1>1, <1>3, GoesTo
<1>7. TaskInv'
  BY <1>1, <1>3, GoesTask DEF Holding
<1>8. PrivInv'
  BY <1>1, <1>3, GoesPriv
<1>9. QueueInv'
  <2>1. \A n \in Ops : life'[n] = "queued" <=> life[n] = "queued"
    BY <1>4, <1>5
  <2> QED BY <1>1, <1>3, <2>1, SameQueue
<1>10. \A u \in Threads, n \in Ops : RunsOp(u, n)' => RunsOp(u, n)
  <2>1. \A u \in Threads : pc'[u] \in {"handler", "push"} => pc'[u] = pc[u]
    BY <1>6, ActorFacts
  <2> QED BY <1>1, <2>1 DEF RunsOp
<1>11. ASSUME NEW u \in Threads, NEW n \in Ops, RunsOp(u, n)'
       PROVE  /\ life'[n] \in {"running", "done"}
              /\ pc'[u] \in {"handler", "push"} => life'[n] = "running"
  <2>1. RunsOp(u, n)
    BY <1>10, <1>11
  <2>2. CASE u = t
    <3>1. n = o
      BY <1>2, <2>1, <2>2, EntryFacts DEF RunsOp
    <3> QED BY <1>5, <1>6, <2>2, <3>1
  <2>3. CASE u # t
    <3>1. n # o
      BY <1>2, <1>3, <2>1, <2>3 DEF RunInv
    <3> QED BY <1>3, <1>5, <1>6, <2>1, <2>3, <3>1, ActorFacts DEF RunInv
  <2> QED BY <2>2, <2>3
<1>12. ASSUME NEW a \in Actors, pc'[a] = "push"
       PROVE  pc[a] = "push" /\ life'[arg[a]] = "pushing"
  <2>1. pc[a] = "push"
    BY <1>6, <1>12
  <2>2. arg[a] \in Ops /\ life[arg[a]] = "pushing"
    BY <1>3, <2>1 DEF TypeInv, PushType, RunInv
  <2> QED BY <1>4, <1>5, <2>1, <2>2
<1>13. RunInv'
  BY <1>1, <1>3, <1>10, <1>11, <1>12 DEF RunInv
<1> QED BY <1>7, <1>8, <1>9, <1>13 DEF PartsInv

LEMMA WorkCleanupParts ==
  ASSUME StateInv, NEW t \in Threads, WorkCleanup(t)
  PROVE  PartsInv'
<1>1. /\ pc[t] = "finish" /\ t \in Actors /\ UNCHANGED <<opq, priv, arg, life>>
      /\ cur' = [cur EXCEPT ![t] = None]
      /\ privWork' = [privWork EXCEPT ![t] = 0]
  BY ActorFacts DEF WorkCleanup, At
<1>2. PICK l \in {"last", "loop"} : Go(t, l) /\ (l = "last" => privWork[t] = 0)
  BY DEF WorkCleanup
<1>3. TypeInv /\ TaskInv /\ RunInv /\ QueueInv /\ PrivInv
  BY DEF StateInv
<1>4. pc'[t] = l /\ \A b \in Actors : b # t => pc'[b] = pc[b]
  BY <1>1, <1>2, <1>3, GoesTo
<1>5. TaskInv'
  BY <1>1, <1>2, <1>3, GoesTask DEF Holding
<1>6. /\ privWork'[t] = 0 /\ \A u \in Threads : u # t => privWork'[u] = privWork[u]
      /\ cur'[t] = None /\ \A u \in Threads : u # t => cur'[u] = cur[u]
  BY <1>1, <1>3 DEF TypeInv, WorkType, QueueType
<1>7. PrivInv'
  <2>1. l = "last" => priv[t] = <<>>
    <3>1. priv[t] \in Seq(Entries) /\ Len(priv[t]) = privWork[t]
      BY <1>1, <1>3 DEF TypeInv, QueueType, PrivInv
    <3> QED BY <1>2, <3>1, EmptySeq
  <2>2. \A u \in Threads : u # t => pc'[u] = pc[u]
    BY <1>4, ActorFacts
  <2> QED BY <1>1, <1>3, <1>4, <1>6, <2>1, <2>2 DEF PrivInv
<1>8. RunInv'
  <2>1. \A u \in Threads : pc'[u] \in {"handler", "push"} => pc'[u] = pc[u]
    BY <1>4, ActorFacts
  <2>2. \A o \in Ops : Op(o) # None /\ Io(o) # None
    BY EntryFacts
  <2>3. \A u \in Threads, o \in Ops : RunsOp(u, o)' => RunsOp(u, o)
    BY <1>6, <2>1, <2>2 DEF RunsOp
  <2>4. \A a \in Actors : pc'[a] = "push" => pc[a] = "push"
    BY <1>4
  <2> QED BY <1>1, <1>3, <2>1, <2>3, <2>4 DEF RunInv
<1> QED BY <1>1, <1>3, <1>5, <1>7, <1>8, SameQueue DEF PartsInv

LEMMA PushParts ==
  ASSUME StateInv, NEW a \in Actors, Push(a)
  PROVE  PartsInv'
<1>1. TypeInv /\ TaskInv /\ RunInv /\ QueueInv /\ PrivInv
  BY DEF StateInv
<1> DEFINE o == arg[a]
<1>2. /\ pc[a] = "push" /\ o \in Ops /\ life[o] = "pushing"
      /\ opq' = Append(opq, Op(o)) /\ life' = [life EXCEPT ![o] = "queued"]
      /\ arg' = [arg EXCEPT ![a] = None] /\ UNCHANGED <<cur, priv, privWork>>
  BY <1>1 DEF Push, At, TypeInv, PushType, RunInv
<1>3. PICK l \in {"out", "handler"} : Go(a, l) /\ (a # User => l = "handler")
  BY DEF Push
<1>4. /\ \A b \in Actors : b # a => arg'[b] = arg[b]
      /\ \A b \in Actors : b # a /\ pc[b] = "push" => arg[b] # o
  BY <1>1, <1>2 DEF TypeInv, PushType, RunInv
<1> HIDE DEF o
<1>5. QueueInv' /\ (Task \in Elems(opq') <=> Task \in Elems(opq))
  BY <1>2, AddsQueue
<1>6. pc'[a] = l /\ \A b \in Actors : b # a => pc'[b] = pc[b]
  BY <1>1, <1>3, GoesTo
<1>7. TaskInv'
  BY <1>1, <1>2, <1>3, <1>5, GoesTask DEF Holding
<1>8. PrivInv'
  BY <1>1, <1>2, <1>3, GoesPriv, ActorFacts
<1>9. life'[o] = "queued" /\ \A n \in Ops : n # o => life'[n] = life[n]
  BY <1>1, <1>2 DEF TypeInv, WorkType
<1>10. \A u \in Threads :
         pc'[u] \in {"handler", "push"} => pc[u] \in {"handler", "push"}
  BY <1>2, <1>6, ActorFacts
<1>11. \A u \in Threads, n \in Ops : RunsOp(u, n)' => RunsOp(u, n)
  BY <1>2, <1>10 DEF RunsOp
<1>12. \A u \in Threads, n \in Ops :
         RunsOp(u, n)' => /\ life'[n] \in {"running", "done"}
                          /\ pc'[u] \in {"handler", "push"} => life'[n] = "running"
  BY <1>1, <1>2, <1>9, <1>10, <1>11 DEF RunInv
<1>13. ASSUME NEW b \in Actors, pc'[b] = "push"
       PROVE  b # a /\ pc[b] = "push" /\ arg'[b] = arg[b] /\ life'[arg[b]] = "pushing"
  <2>1. b # a /\ pc[b] = "push"
    BY <1>3, <1>6, <1>13
  <2>2. arg[b] \in Ops /\ life[arg[b]] = "pushing" /\ arg[b] # o
    BY <1>1, <1>4, <2>1 DEF TypeInv, PushType, RunInv
  <2> QED BY <1>4, <1>9, <2>1, <2>2
<1>14. RunInv'
  BY <1>1, <1>11, <1>12, <1>13 DEF RunInv
<1> QED BY <1>5, <1>7, <1>8, <1>14 DEF PartsInv

LEMMA PostParts ==
  ASSUME StateInv, NEW a \in Actors, NEW o \in Ops, Post(a, o)
  PROVE  PartsInv'
<1>1. TypeInv /\ TaskInv /\ RunInv /\ QueueInv /\ PrivInv
  BY DEF StateInv
<1>2. /\ pc[a] = "handler" \/ (a = User /\ pc[a] = "out")
      /\ life[o] = "new" /\ life' = [life EXCEPT ![o] = "pushing"]
      /\ arg' = [arg EXCEPT ![a] = o] /\ Go(a, "push")
      /\ UNCHANGED <<opq, cur, priv, privWork>>
  BY DEF Post, Calls, At
<1>3. pc'[a] = "push" /\ \A b \in Actors : b # a => pc'[b] = pc[b]
  BY <1>1, <1>2, GoesTo
<1>4. arg'[a] = o /\ \A b \in Actors : b # a => arg'[b] = arg[b]
  BY <1>1, <1>2 DEF TypeInv, PushType
<1>5. life'[o] = "pushing" /\ \A n \in Ops : n # o => life'[n] = life[n]
  BY <1>1, <1>2 DEF TypeInv, WorkType
<1>6. TaskInv'
  BY <1>1, <1>2, GoesTask, ActorFacts DEF Holding
<1>7. PrivInv'
  BY <1>1, <1>2, GoesPriv, ActorFacts
<1>8. QueueInv'
  <2>1. \A n \in Ops : life'[n] = "queued" <=> life[n] = "queued"
    BY <1>2, <1>5
  <2> QED BY <1>1, <1>2, <2>1, SameQueue
<1>9. \A u \in Threads :
         pc'[u] \in {"handler", "push"} => pc[u] \in {"handler", "push"}
  BY <1>2, <1>3, ActorFacts
<1>10. \A u \in Threads, n \in Ops : RunsOp(u, n)' => RunsOp(u, n)
  BY <1>2, <1>9 DEF RunsOp
<1>11. \A u \in Threads, n \in Ops :
         RunsOp(u, n)' => /\ life'[n] \in {"running", "done"}
                          /\ pc'[u] \in {"handler", "push"} => life'[n] = "running"
  BY <1>1, <1>2, <1>5, <1>9, <1>10 DEF RunInv
<1>12. ASSUME NEW b \in Actors, pc'[b] = "push"
       PROVE  /\ life'[arg'[b]] = "pushing"
              /\ b # a => pc[b] = "push" /\ arg'[b] = arg[b] /\ arg[b] # o
  <2>1. CASE b = a
    BY <1>4, <1>5, <2>1
  <2>2. CASE b # a
    <3>1. pc[b] = "push" /\ arg[b] \in Ops /\ life[arg[b]] = "pushing"
      BY <1>1, <1>3, <1>12, <2>2 DEF TypeInv, PushType, RunInv
    <3> QED BY <1>2, <1>4, <1>5, <2>2, <3>1
  <2> QED BY <2>1, <2>2
<1>13. RunInv'
  BY <1>1, <1>4, <1>10, <1>11, <1>12 DEF RunInv
<1> QED BY <1>6, <1>7, <1>8, <1>13 DEF PartsInv

(* Steps that leave the threads where they are and what they run.          *)
LEMMA AddsRun ==
  ASSUME StateInv, UNCHANGED <<cur, arg, pc>>, NEW o \in Ops,
         life[o] \in {"new", "waiting"},
         \A n \in Ops : n # o => life'[n] = life[n]
  PROVE  RunInv'
<1>1. \A n \in Ops : life[n] \in {"running", "done", "pushing"} => life'[n] = life[n]
  OBVIOUS
<1> QED BY <1>1, SameRun

LEMMA CancelOpParts ==
  ASSUME StateInv, NEW a \in Actors, NEW o \in Ops, CancelOp(a, o)
  PROVE  PartsInv'
<1>1. TaskInv /\ PrivInv
  BY DEF StateInv
<1>2. /\ life[o] = "waiting" /\ opq' = Append(opq, Op(o))
      /\ life' = [life EXCEPT ![o] = "queued"]
      /\ UNCHANGED <<pc, cur, priv, privWork, arg>>
  BY DEF CancelOp, mine
<1>3. QueueInv' /\ (Task \in Elems(opq') <=> Task \in Elems(opq))
  BY <1>2, AddsQueue
<1>4. TaskInv' /\ PrivInv'
  BY <1>1, <1>2, <1>3, StaysTask, StaysPriv
<1>5. RunInv'
  <2>1. \A n \in Ops : n # o => life'[n] = life[n]
    BY <1>2 DEF StateInv, TypeInv, WorkType
  <2> QED BY <1>2, <2>1, AddsRun
<1> QED BY <1>3, <1>4, <1>5 DEF PartsInv

LEMMA StartOpParts ==
  ASSUME StateInv, NEW a \in Actors, NEW o \in Ops, StartOp(a, o)
  PROVE  PartsInv'
<1>1. TaskInv /\ PrivInv /\ QueueInv
  BY DEF StateInv
<1>2. /\ life[o] = "new" /\ life' = [life EXCEPT ![o] = "waiting"]
      /\ UNCHANGED <<opq, pc, cur, priv, privWork, arg>>
  BY DEF StartOp, mine
<1>3. \A n \in Ops : life'[n] = "queued" <=> life[n] = "queued"
  BY <1>2 DEF StateInv, TypeInv, WorkType
<1>4. TaskInv' /\ PrivInv' /\ QueueInv'
  BY <1>1, <1>2, <1>3, StaysTask, StaysPriv, SameQueue
<1>5. RunInv'
  <2>1. \A n \in Ops : n # o => life'[n] = life[n]
    BY <1>2 DEF StateInv, TypeInv, WorkType
  <2> QED BY <1>2, <2>1, AddsRun
<1> QED BY <1>4, <1>5 DEF PartsInv

LEMMA PostContinuationParts ==
  ASSUME StateInv, NEW t \in Threads, NEW o \in Ops, PostContinuation(t, o)
  PROVE  PartsInv'
<1>1. TypeInv /\ TaskInv /\ PrivInv /\ QueueInv
  BY DEF StateInv
<1> DEFINE r == Append(priv[t], Op(o))
<1>2. /\ pc[t] = "handler" /\ life[o] = "new"
      /\ life' = [life EXCEPT ![o] = "queued"]
      /\ UNCHANGED <<opq, pc, cur, arg>>
      /\ priv' = [priv EXCEPT ![t] = r]
      /\ privWork' = [privWork EXCEPT ![t] = privWork[t] + 1]
  BY DEF PostContinuation, At
<1>3. /\ priv[t] \in Seq(Entries) /\ Op(o) \in Entries
      /\ Op(o) \in Completions /\ Op(o) \notin Queued(opq, priv)
  BY <1>1, <1>2, EntryFacts DEF TypeInv, QueueType, QueueInv, Completions
<1>4. Op(o) \notin Elems(priv[t]) /\ Once(priv[t])
  BY <1>1, <1>3 DEF QueueInv, Apart, Queued
<1>5. /\ r \in Seq(Entries) /\ Elems(r) = Elems(priv[t]) \cup {Op(o)} /\ Once(r)
      /\ Len(r) = Len(priv[t]) + 1
  BY <1>3, <1>4, ElemsOfAppend
<1>6. priv'[t] = r /\ \A u \in Threads : u # t => priv'[u] = priv[u]
  BY <1>1, <1>2 DEF TypeInv, QueueType
<1>7. /\ privWork'[t] = privWork[t] + 1
      /\ \A u \in Threads : u # t => privWork'[u] = privWork[u]
  BY <1>1, <1>2 DEF TypeInv, WorkType
<1> HIDE DEF r
<1>8. /\ Apart(opq, priv')
      /\ Queued(opq, priv') = (Queued(opq, priv) \ Elems(priv[t])) \cup Elems(r)
  <2>1. Elems(r) \cap (Queued(opq, priv) \ Elems(priv[t])) = {}
    BY <1>3, <1>5
  <2>2. Replacing(opq, priv, t, r, priv')
    BY <1>1, <1>5, <1>6, <2>1 DEF Replacing, QueueInv
  <2> QED BY <2>2, ApartReplace
<1>9. QueueInv'
  <2>1. Elems(priv[t]) \subseteq Queued(opq, priv)
    BY DEF Queued
  <2>2. Queued(opq, priv') = Queued(opq, priv) \cup {Op(o)}
    BY <1>5, <1>8, <2>1
  <2>3. \A n \in Ops : life'[n] = "queued" <=> life[n] = "queued" \/ n = o
    BY <1>1, <1>2 DEF TypeInv, WorkType
  <2>4. \A n \in Ops : Op(n) = Op(o) => n = o
    BY EntryFacts
  <2> QED BY <1>1, <1>2, <1>8, <2>2, <2>3, <2>4 DEF QueueInv
<1>10. PrivInv'
  <2>1. /\ Elems(priv[t]) \subseteq Completions /\ privWork[t] = Len(priv[t])
    BY <1>1, <1>2 DEF PrivInv
  <2>2. Elems(priv'[t]) \subseteq Completions /\ privWork'[t] = Len(priv'[t])
    BY <1>3, <1>5, <1>6, <1>7, <2>1
  <2> QED BY <1>1, <1>2, <1>6, <1>7, <2>2 DEF PrivInv
<1>11. RunInv' /\ TaskInv'
  <2>1. \A n \in Ops : n # o => life'[n] = life[n]
    BY <1>1, <1>2 DEF TypeInv, WorkType
  <2> QED BY <1>1, <1>2, <2>1, AddsRun, StaysTask
<1> QED BY <1>9, <1>10, <1>11 DEF PartsInv

LEMMA ReleaseWorkParts ==
  ASSUME StateInv, WorkCounted, NEW a \in Actors, ReleaseWork(a)
  PROVE  PartsInv'
<1>1. TypeInv /\ TaskInv /\ PrivInv /\ QueueInv
  BY DEF StateInv
<1>2. UNCHANGED <<opq, cur, priv, privWork, arg, life>>
  BY DEF ReleaseWork, mine
<1>3. CASE pc' = pc
  BY <1>2, <1>3, StaysParts
<1>4. CASE pc' # pc
  <2>1. outstanding = 1 /\ keep /\ Go(a, "last") /\ Calls(a)
    BY <1>4 DEF ReleaseWork
  <2>2. a = User /\ pc[a] = "out"
    <3>1. a \in Threads => pc[a] = "handler"
      BY <2>1, ActorFacts DEF Calls, At
    <3>2. a \notin Threads
      BY <2>1, <3>1, WorkLeast
    <3> QED BY <2>1, <3>2, ActorFacts DEF Calls, At, StateInv, CurInv
  <2>3. pc'[a] = "last" /\ \A b \in Actors : b # a => pc'[b] = pc[b]
    BY <1>1, <2>1, GoesTo
  <2>4. TaskInv' /\ PrivInv'
    BY <1>1, <1>2, <2>1, <2>2, GoesTask, GoesPriv, ActorFacts
  <2>5. QueueInv'
    BY <1>1, <1>2, SameQueue
  <2>6. RunInv'
    <3>1. \A b \in Actors : pc'[b] \in {"handler", "push"} => pc'[b] = pc[b]
      BY <2>3
    <3> QED BY <1>2, <3>1, SameRun, ActorFacts
  <2> QED BY <2>4, <2>5, <2>6 DEF PartsInv
<1> QED BY <1>3, <1>4

LEMMA StateStep == WorkInv /\ [Next]_vars => StateInv'
<1> SUFFICES ASSUME WorkInv, [Next]_vars PROVE StateInv'
  OBVIOUS
<1>1. StateInv /\ WorkCounted /\ TypeInv /\ WaitInv
  BY DEF WorkInv, StateInv
<1>2. TypeInv' /\ WaitInv' /\ CurInv'
  BY <1>1, TypeStep, CurStep
<1>3. Quiet => PartsInv'
  BY <1>1, QuietFacts, QuietParts
<1>4. Passes => PartsInv'
  BY <1>1, PassesParts
<1>5. ASSUME NEW t \in Threads, Turns(t)
      PROVE  PartsInv'
  <2>1. pc[t] \in {"loop", "wait", "found"}
    BY <1>5 DEF Turns
  <2>2. PICK q \in Seq(Entries \cup {Task}) : Consistent(t, q) /\ Turn(t, q)
    BY <1>1, <1>5, TurnsConsistent
  <2>3. TaskInv' /\ QueueInv'
    BY <1>1, <2>2, TurnTask, TurnQueue
  <2>4. PrivInv' /\ RunInv'
    BY <1>1, <2>1, <2>2, TurnPriv, TurnRun
  <2> QED BY <2>3, <2>4 DEF PartsInv
<1>6. ASSUME NEW t \in Threads,
             \/ EpollWait(t) \/ PerformIo(t) \/ HandlerReturns(t)
             \/ WorkCleanup(t) \/ \E o \in Ops : PostContinuation(t, o)
      PROVE  PartsInv'
  BY <1>1, <1>6, EpollWaitParts, PerformIoParts, HandlerReturnsParts,
     WorkCleanupParts, PostContinuationParts
<1>7. ASSUME NEW a \in Actors,
             \/ Push(a) \/ ReleaseWork(a)
             \/ \E o \in Ops : Post(a, o) \/ StartOp(a, o) \/ CancelOp(a, o)
      PROVE  PartsInv'
  BY <1>1, <1>7, PushParts, ReleaseWorkParts, PostParts, StartOpParts,
     CancelOpParts
<1>8. PartsInv'
  BY <1>1, <1>3, <1>4, <1>5, <1>6, <1>7, Steps
<1> QED BY <1>2, <1>8 DEF PartsInv, StateInv

-----------------------------------------------------------------------------
(***************************************************************************)
(* The count of the work.                                                  *)
(***************************************************************************)

Count(S) == Cardinality(S)
KeepCount == IF keep THEN 1 ELSE 0

LEMMA CountsAs ==
  /\ WorkCounted <=> outstanding + Count(Private)
                       = KeepCount + Count(Live) + Count(Finished)
  /\ WorkCounted' <=> outstanding' + Count(Private')
                        = KeepCount' + Count(Live') + Count(Finished')
BY DEF WorkCounted, Private, Live, Finished, Count, KeepCount

LEMMA CountTypes ==
  ASSUME StateInv
  PROVE  /\ outstanding \in Int /\ KeepCount \in Int
         /\ Count(Private) \in Nat /\ IsFiniteSet(Private)
         /\ Count(Live) \in Nat /\ Count(Finished) \in Nat
<1>1. Live \in SUBSET Ops /\ \A o \in Ops : life[o] = "queued" => o \in Live
  BY DEF Live
<1>2. IsFiniteSet(Private) /\ Cardinality(Private) \in Nat
  BY <1>1, PrivateBound
<1> QED BY <1>2, Finite DEF StateInv, TypeInv, WorkType, KeepCount, Count

(* Operations that are begun and completed.                                *)
Same(o) == life'[o] \in {"new", "done"} <=> life[o] \in {"new", "done"}

LEMMA LiveCounts ==
  /\ (\A o \in Ops : Same(o)) => Live' = Live
  /\ \A o \in Ops : (\A n \in Ops : n # o => Same(n)) =>
       /\ life[o] \in {"new", "done"} /\ life'[o] \notin {"new", "done"}
            => Count(Live') = Count(Live) + 1
       /\ life[o] \notin {"new", "done"} /\ life'[o] \in {"new", "done"}
            => Count(Live') = Count(Live) - 1
<1>1. (\A o \in Ops : Same(o)) => Live' = Live
  BY DEF Live, Same
<1>2. ASSUME NEW o \in Ops, \A n \in Ops : n # o => Same(n),
             life[o] \in {"new", "done"}, life'[o] \notin {"new", "done"}
      PROVE  Count(Live') = Count(Live) + 1
  <2>1. Live' = Live \cup {o} /\ o \notin Live
    BY <1>2 DEF Live, Same
  <2> QED BY <2>1, Finite, FS_AddElement DEF Count
<1>3. ASSUME NEW o \in Ops, \A n \in Ops : n # o => Same(n),
             life[o] \notin {"new", "done"}, life'[o] \in {"new", "done"}
      PROVE  Count(Live') = Count(Live) - 1
  <2>1. Live' = Live \ {o} /\ o \in Live
    BY <1>3 DEF Live, Same
  <2> QED BY <2>1, Finite, FS_RemoveElement DEF Count
<1> QED BY <1>1, <1>2, <1>3

(* Threads that come to their clean-up and leave it.                       *)
LEMMA FinishedCounts ==
  ASSUME TypeInv, NEW a \in Actors, NEW l, Go(a, l)
  PROVE  /\ (a \in Threads => (l = "finish" <=> pc[a] = "finish"))
              => Finished' = Finished
         /\ a \in Threads /\ l = "finish" /\ pc[a] # "finish"
              => Count(Finished') = Count(Finished) + 1
         /\ a \in Threads /\ l # "finish" /\ pc[a] = "finish"
              => Count(Finished') = Count(Finished) - 1
<1>1. pc'[a] = l /\ \A b \in Actors : b # a => pc'[b] = pc[b]
  BY GoesTo
<1>2. \A t \in Threads : t # a => (t \in Finished' <=> t \in Finished)
  BY <1>1, ActorFacts DEF Finished
<1>3. /\ a \in Finished' <=> a \in Threads /\ l = "finish"
      /\ a \in Finished <=> a \in Threads /\ pc[a] = "finish"
      /\ Finished \subseteq Threads /\ Finished' \subseteq Threads
  BY <1>1 DEF Finished
<1>4. ASSUME a \in Threads => (l = "finish" <=> pc[a] = "finish")
      PROVE  Finished' = Finished
  BY <1>2, <1>3, <1>4
<1>5. ASSUME a \in Threads, l = "finish", pc[a] # "finish"
      PROVE  Count(Finished') = Count(Finished) + 1
  <2>1. Finished' = Finished \cup {a} /\ a \notin Finished
    BY <1>2, <1>3, <1>5
  <2> QED BY <2>1, Finite, FS_AddElement DEF Count
<1>6. ASSUME a \in Threads, l # "finish", pc[a] = "finish"
      PROVE  Count(Finished') = Count(Finished) - 1
  <2>1. Finished' = Finished \ {a} /\ a \in Finished
    BY <1>2, <1>3, <1>6
  <2> QED BY <2>1, Finite, FS_RemoveElement DEF Count
<1> QED BY <1>4, <1>5, <1>6

LEMMA SamePlace ==
  /\ pc' = pc => Finished' = Finished
  /\ privWork' = privWork => Private' = Private
  /\ keep' = keep => KeepCount' = KeepCount
BY DEF Finished, Private, KeepCount

LEMMA PrivateMore ==
  ASSUME StateInv, NEW t \in Threads, privWork'[t] = privWork[t] + 1,
         \A u \in Threads : u # t => privWork'[u] = privWork[u]
  PROVE  Count(Private') = Count(Private) + 1
<1> DEFINE n == privWork[t]
<1>1. n \in Nat
  BY DEF StateInv, TypeInv, WorkType
<1>2. \A p : p \in Private' <=> \E u \in Threads : \E i \in 1..privWork'[u] : p = <<u, i>>
  BY DEF Private
<1>3. 1..privWork'[t] = (1..n) \cup {n + 1}
  BY <1>1
<1> HIDE DEF n
<1>4. \A p : p \in Private' <=> p \in Private \/ p = <<t, n + 1>>
  <2>1. ASSUME NEW p
        PROVE  p \in Private' <=> p \in Private \/ p = <<t, n + 1>>
    <3>1. p \in Private' <=>
            \/ \E i \in 1..privWork'[t] : p = <<t, i>>
            \/ \E u \in Threads \ {t} : \E i \in 1..privWork[u] : p = <<u, i>>
      BY <1>2
    <3>2. p \in Private <=>
            \/ \E i \in 1..n : p = <<t, i>>
            \/ \E u \in Threads \ {t} : \E i \in 1..privWork[u] : p = <<u, i>>
      BY InPrivate DEF n
    <3>3. (\E i \in 1..privWork'[t] : p = <<t, i>>)
            <=> (\E i \in 1..n : p = <<t, i>>) \/ p = <<t, n + 1>>
      BY <1>3
    <3> QED BY <3>1, <3>2, <3>3
  <2> QED BY <2>1
<1>5. <<t, n + 1>> \notin Private
  <2>1. ASSUME <<t, n + 1>> \in Private
        PROVE  FALSE
    <3>1. PICK u \in Threads : \E i \in 1..privWork[u] : <<t, n + 1>> = <<u, i>>
      BY <2>1, InPrivate
    <3>2. PICK i \in 1..privWork[u] : <<t, n + 1>> = <<u, i>>
      BY <3>1
    <3>3. u = t /\ n + 1 \in 1..n
      BY <3>2 DEF n
    <3> QED BY <1>1, <3>3
  <2> QED BY <2>1
<1>6. Private' = Private \cup {<<t, n + 1>>}
  BY <1>4
<1> QED BY <1>5, <1>6, CountTypes, FS_AddElement DEF Count

LEMMA PrivateLess ==
  ASSUME StateInv, NEW t \in Threads, privWork'[t] = 0,
         \A u \in Threads : u # t => privWork'[u] = privWork[u]
  PROVE  Count(Private') = Count(Private) - privWork[t]
<1> DEFINE n == privWork[t]
           T == {t} \X (1..n)
<1>1. n \in Nat
  BY DEF StateInv, TypeInv, WorkType
<1>2. \A p : p \in Private' <=> \E u \in Threads : \E i \in 1..privWork'[u] : p = <<u, i>>
  BY DEF Private
<1>3. \A p : p \in T <=> \E i \in 1..n : p = <<t, i>>
  OBVIOUS
<1>4. IsFiniteSet(T) /\ Cardinality(T) = n
  <2>1. IsFiniteSet({t}) /\ Cardinality({t}) = 1
    BY FS_Singleton
  <2> DEFINE A == {t}  B == 1..n
  <2> HIDE DEF n
  <2>2. IsFiniteSet(B) /\ Cardinality(B) = IF 1 > n THEN 0 ELSE n - 1 + 1
    BY <1>1, FS_Interval
  <2>3. T = A \X B /\ IsFiniteSet(A) /\ Cardinality(A) = 1
    BY <2>1
  <2> HIDE DEF A, B, T
  <2>4. Cardinality(B) = n
    BY <1>1, <2>2
  <2>5. /\ Cardinality(A \X B) = Cardinality(A) * Cardinality(B)
        /\ IsFiniteSet(A \X B)
    BY <2>2, <2>3, FS_Product
  <2> QED BY <1>1, <2>3, <2>4, <2>5
<1> HIDE DEF T
<1>5. \A p : p \in Private' <=> p \in Private /\ p \notin T
  <2>1. ASSUME NEW p
        PROVE  p \in Private' <=> p \in Private /\ p \notin T
    <3>1. p \in Private' <=>
            \E u \in Threads \ {t} : \E i \in 1..privWork[u] : p = <<u, i>>
      <4>1. 1..privWork'[t] = {}
        OBVIOUS
      <4> QED BY <1>2, <4>1
    <3>2. p \in Private <=>
            \/ \E i \in 1..n : p = <<t, i>>
            \/ \E u \in Threads \ {t} : \E i \in 1..privWork[u] : p = <<u, i>>
      BY InPrivate
    <3>3. (\E u \in Threads \ {t} : \E i \in 1..privWork[u] : p = <<u, i>>)
             => p \notin T
      BY <1>3
    <3> QED BY <1>3, <3>1, <3>2, <3>3
  <2> QED BY <2>1
<1>6. T \subseteq Private
  BY <1>3, InPrivate
<1>7. Private' = Private \ T /\ Private \cap T = T
  BY <1>5, <1>6
<1>8. Cardinality(Private \ T) = Cardinality(Private) - Cardinality(Private \cap T)
  BY CountTypes, FS_Difference
<1> HIDE DEF n
<1> QED BY <1>4, <1>7, <1>8 DEF Count, n

(* Steps that lead an actor on and neither begin nor complete anything.    *)
LEMMA SameCount ==
  ASSUME StateInv, WorkCounted, UNCHANGED <<outstanding, keep, privWork>>,
         \A o \in Ops : Same(o), Finished' = Finished
  PROVE  WorkCounted'
<1>1. Live' = Live /\ Private' = Private /\ KeepCount' = KeepCount
  BY LiveCounts, SamePlace
<1> QED BY <1>1, CountsAs

LEMMA TurnsCount ==
  ASSUME StateInv, WorkCounted, NEW t \in Threads, Turns(t)
  PROVE  WorkCounted'
<1>1. TypeInv /\ pc[t] \in {"loop", "wait", "found"}
  BY DEF StateInv, Turns
<1>2. PICK q \in Seq(Entries \cup {Task}) : Consistent(t, q) /\ Turn(t, q)
  BY TurnsConsistent
<1>3. UNCHANGED <<outstanding, keep, privWork>>
  BY <1>2 DEF Turn
<1>4. Finished' = Finished
  <2>1. /\ \A b \in Actors : b # t => pc'[b] = pc[b]
        /\ pc'[t] # "finish" /\ pc[t] # "finish"
    BY <1>1, <1>2, TurnPc
  <2> QED BY <2>1, ActorFacts DEF Finished
<1>5. \A o \in Ops : Same(o)
  <2>1. CASE life' = life
    BY <2>1 DEF Same
  <2>2. CASE TakesEntry(t, q) /\ Head(q).kind = "op"
    <3>1. Head(q) \in Entries /\ Head(q) \in Elems(q)
      BY <1>2, <2>2, ElemsOfTail, HeadTailProperties DEF TakesEntry
    <3>2. PICK n \in Ops : Head(q) = Op(n) /\ Head(q).op = n
      BY <2>2, <3>1, EntryFacts
    <3>3. life[n] = "queued" /\ life' = [life EXCEPT ![n] = "running"]
      BY <1>2, <2>2, <3>1, <3>2 DEF Consistent, Queued, TakesEntry
    <3>4. life'[n] = "running" /\ \A o \in Ops : o # n => life'[o] = life[o]
      BY <1>1, <3>3 DEF TypeInv, WorkType
    <3> QED BY <3>3, <3>4 DEF Same
  <2> QED BY <1>2, <2>1, <2>2 DEF Turn, Leaves, Sleeps, TakesTask, TakesEntry
<1> QED BY <1>3, <1>4, <1>5, SameCount

LEMMA PerformIoCount ==
  ASSUME StateInv, WorkCounted, NEW t \in Threads, PerformIo(t)
  PROVE  WorkCounted'
<1> DEFINE o == cur[t].op
<1>1. /\ TypeInv /\ pc[t] = "io" /\ t \in Actors
      /\ keep' = keep /\ privWork' = privWork
  BY ActorFacts DEF StateInv, PerformIo, At, mine
<1>2. o \in Ops
  <2>1. pc[t] \in Busy
    BY <1>1 DEF Busy
  <2> QED BY <2>1, EntryOf
<1>3. CASE /\ life[o] = "waiting" /\ life' = [life EXCEPT ![o] = "running"]
           /\ Go(t, "handler") /\ outstanding' = outstanding
  <2>1. Finished' = Finished
    BY <1>1, <1>3, FinishedCounts
  <2>2. \A n \in Ops : Same(n)
    BY <1>1, <1>2, <1>3 DEF TypeInv, WorkType, Same
  <2> QED BY <1>1, <1>3, <2>1, <2>2, SameCount
<1>4. CASE outstanding' = outstanding + 1 /\ Go(t, "finish") /\ life' = life
  <2>1. Count(Finished') = Count(Finished) + 1
    BY <1>1, <1>4, FinishedCounts
  <2>2. Live' = Live
    BY <1>4, LiveCounts DEF Same
  <2> QED BY <1>1, <1>4, <2>1, <2>2, CountsAs, CountTypes, SamePlace
<1> QED BY <1>3, <1>4 DEF PerformIo

LEMMA HandlerReturnsCount ==
  ASSUME StateInv, WorkCounted, NEW t \in Threads, HandlerReturns(t)
  PROVE  WorkCounted'
<1> DEFINE o == cur[t].op
<1>1. /\ TypeInv /\ pc[t] = "handler" /\ t \in Actors /\ Go(t, "finish")
      /\ life' = [life EXCEPT ![o] = "done"]
      /\ UNCHANGED <<outstanding, keep, privWork>>
  BY ActorFacts DEF StateInv, HandlerReturns, At, mine
<1>2. o \in Ops /\ RunsOp(t, o)
  <2>1. pc[t] \in Busy
    BY <1>1 DEF Busy
  <2> QED BY <1>1, <2>1, EntryOf
<1>3. life[o] = "running"
  BY <1>1, <1>2 DEF StateInv, RunInv
<1> HIDE DEF o
<1>4. life'[o] = "done" /\ \A n \in Ops : n # o => Same(n)
  BY <1>1, <1>2 DEF TypeInv, WorkType, Same
<1>5. Count(Live') = Count(Live) - 1
  BY <1>2, <1>3, <1>4, LiveCounts
<1>6. Count(Finished') = Count(Finished) + 1
  BY <1>1, FinishedCounts
<1> QED BY <1>1, <1>5, <1>6, CountsAs, CountTypes, SamePlace

LEMMA WorkCleanupCount ==
  ASSUME StateInv, WorkCounted, NEW t \in Threads, WorkCleanup(t)
  PROVE  WorkCounted'
<1>1. /\ TypeInv /\ pc[t] = "finish" /\ t \in Actors /\ life' = life /\ keep' = keep
      /\ outstanding' = outstanding + privWork[t] - 1 /\ privWork[t] \in Nat
      /\ privWork' = [privWork EXCEPT ![t] = 0]
  BY ActorFacts DEF StateInv, TypeInv, WorkType, WorkCleanup, At
<1>2. PICK l \in {"last", "loop"} : Go(t, l)
  BY DEF WorkCleanup
<1>3. Count(Finished') = Count(Finished) - 1
  BY <1>1, <1>2, FinishedCounts
<1>4. Live' = Live
  BY <1>1, LiveCounts DEF Same
<1>5. privWork'[t] = 0 /\ \A u \in Threads : u # t => privWork'[u] = privWork[u]
  BY <1>1 DEF TypeInv, WorkType
<1>6. Count(Private') = Count(Private) - privWork[t]
  BY <1>5, PrivateLess
<1> QED BY <1>1, <1>3, <1>4, <1>6, CountsAs, CountTypes, SamePlace

LEMMA BeginsCount ==
  ASSUME StateInv, WorkCounted, NEW a \in Actors, NEW o \in Ops,
         Post(a, o) \/ StartOp(a, o)
  PROVE  WorkCounted'
<1>1. /\ TypeInv /\ life[o] = "new" /\ outstanding' = outstanding + 1
      /\ UNCHANGED <<keep, privWork>>
  BY DEF StateInv, Post, StartOp, mine
<1>2. PICK l \in {"pushing", "waiting"} : life' = [life EXCEPT ![o] = l]
  BY DEF Post, StartOp
<1>3. life'[o] \notin {"new", "done"} /\ \A n \in Ops : n # o => Same(n)
  BY <1>1, <1>2 DEF TypeInv, WorkType, Same
<1>4. Count(Live') = Count(Live) + 1
  BY <1>1, <1>3, LiveCounts
<1>5. Finished' = Finished
  <2>1. CASE pc' = pc
    BY <2>1, SamePlace
  <2>2. CASE pc' # pc
    <3>1. Go(a, "push") /\ pc[a] # "finish"
      BY <2>2 DEF Post, StartOp, Calls, At
    <3> QED BY <1>1, <3>1, FinishedCounts
  <2> QED BY <2>1, <2>2
<1> QED BY <1>1, <1>4, <1>5, CountsAs, CountTypes, SamePlace

LEMMA AddsCount ==
  ASSUME StateInv, WorkCounted, NEW a \in Actors,
         Push(a) \/ \E o \in Ops : CancelOp(a, o)
  PROVE  WorkCounted'
<1>1. TypeInv /\ UNCHANGED <<outstanding, keep, privWork>>
  BY DEF StateInv, Push, CancelOp, mine
<1>2. PICK o \in Ops : /\ life[o] \in {"pushing", "waiting"}
                       /\ life' = [life EXCEPT ![o] = "queued"]
  <2>1. CASE Push(a)
    <3>1. arg[a] \in Ops /\ life[arg[a]] = "pushing"
      BY <2>1 DEF Push, At, StateInv, TypeInv, PushType, RunInv
    <3> QED BY <2>1, <3>1 DEF Push
  <2>2. CASE \E o \in Ops : CancelOp(a, o)
    BY <2>2 DEF CancelOp
  <2> QED BY <2>1, <2>2
<1>3. \A n \in Ops : Same(n)
  BY <1>1, <1>2 DEF TypeInv, WorkType, Same
<1>4. Finished' = Finished
  <2>1. CASE Push(a)
    <3>1. PICK l \in {"out", "handler"} : Go(a, l) /\ pc[a] = "push"
      BY <2>1 DEF Push, At
    <3> QED BY <1>1, <3>1, FinishedCounts
  <2>2. CASE \E n \in Ops : CancelOp(a, n)
    BY <2>2, SamePlace DEF CancelOp
  <2> QED BY <2>1, <2>2
<1> QED BY <1>1, <1>3, <1>4, SameCount

LEMMA PostContinuationCount ==
  ASSUME StateInv, WorkCounted, NEW t \in Threads, NEW o \in Ops,
         PostContinuation(t, o)
  PROVE  WorkCounted'
<1>1. /\ TypeInv /\ life[o] = "new" /\ UNCHANGED <<outstanding, keep, pc>>
      /\ life' = [life EXCEPT ![o] = "queued"]
      /\ privWork' = [privWork EXCEPT ![t] = privWork[t] + 1]
  BY DEF StateInv, PostContinuation
<1>2. life'[o] \notin {"new", "done"} /\ \A n \in Ops : n # o => Same(n)
  BY <1>1 DEF TypeInv, WorkType, Same
<1>3. Count(Live') = Count(Live) + 1
  BY <1>1, <1>2, LiveCounts
<1>4. /\ privWork'[t] = privWork[t] + 1
      /\ \A u \in Threads : u # t => privWork'[u] = privWork[u]
  BY <1>1 DEF TypeInv, WorkType
<1>5. Count(Private') = Count(Private) + 1
  BY <1>4, PrivateMore
<1> QED BY <1>1, <1>3, <1>5, CountsAs, CountTypes, SamePlace

LEMMA ReleaseWorkCount ==
  ASSUME StateInv, WorkCounted, NEW a \in Actors, ReleaseWork(a)
  PROVE  WorkCounted'
<1>1. /\ TypeInv /\ life' = life /\ privWork' = privWork
      /\ outstanding' = outstanding - 1 /\ keep = TRUE /\ keep' = FALSE
  BY DEF StateInv, TypeInv, WakeType, ReleaseWork, mine
<1>2. KeepCount = 1 /\ KeepCount' = 0 /\ Live' = Live
  BY <1>1, LiveCounts DEF KeepCount, Same
<1>3. Finished' = Finished
  <2>1. CASE pc' = pc
    BY <2>1, SamePlace
  <2>2. CASE pc' # pc
    <3>1. Go(a, "last") /\ pc[a] # "finish"
      BY <2>2 DEF ReleaseWork, Calls, At
    <3> QED BY <1>1, <3>1, FinishedCounts
  <2> QED BY <2>1, <2>2
<1> QED BY <1>1, <1>2, <1>3, CountsAs, CountTypes, SamePlace

LEMMA CountStep == WorkInv /\ [Next]_vars => WorkCounted'
<1> SUFFICES ASSUME WorkInv, [Next]_vars PROVE WorkCounted'
  OBVIOUS
<1>1. StateInv /\ WorkCounted /\ TypeInv /\ WaitInv
  BY DEF WorkInv, StateInv
<1>2. Quiet => WorkCounted'
  <2>1. ASSUME Quiet
        PROVE  UNCHANGED <<outstanding, keep, privWork, life, pc>>
    BY <2>1, QuietFacts DEF core
  <2> QED BY <1>1, <2>1, SameCount, SamePlace DEF Same
<1>3. Passes => WorkCounted'
  <2>1. ASSUME Passes
        PROVE  Finished' = Finished
    <3>1. PICK a \in Actors : Passing(a)
      BY <2>1, PassesFacts
    <3>2. PICK l \in {"zero", "loop", "done", "out"} :
            Go(a, l) /\ pc[a] # "finish"
      BY <3>1 DEF Passing
    <3> QED BY <1>1, <3>2, FinishedCounts
  <2>2. ASSUME Passes
        PROVE  UNCHANGED <<outstanding, keep, privWork, life>>
    BY <2>2, PassesFacts DEF mine
  <2> QED BY <1>1, <2>1, <2>2, SameCount DEF Same
<1>4. ASSUME NEW t \in Threads, EpollWait(t)
      PROVE  WorkCounted'
  <2>1. /\ Go(t, "found") /\ pc[t] # "finish" /\ t \in Actors
        /\ UNCHANGED <<outstanding, keep, privWork, life>>
    BY <1>4, ActorFacts DEF EpollWait, At
  <2>2. Finished' = Finished
    BY <1>1, <2>1, FinishedCounts
  <2> QED BY <1>1, <2>1, <2>2, SameCount DEF Same
<1>5. ASSUME NEW t \in Threads,
             \/ Turns(t) \/ PerformIo(t) \/ HandlerReturns(t) \/ WorkCleanup(t)
             \/ \E o \in Ops : PostContinuation(t, o)
      PROVE  WorkCounted'
  BY <1>1, <1>5, TurnsCount, PerformIoCount, HandlerReturnsCount,
     WorkCleanupCount, PostContinuationCount
<1>6. ASSUME NEW a \in Actors,
             \/ Push(a) \/ ReleaseWork(a)
             \/ \E o \in Ops : Post(a, o) \/ StartOp(a, o) \/ CancelOp(a, o)
      PROVE  WorkCounted'
  <2>1. (Push(a) \/ \E o \in Ops : CancelOp(a, o)) => WorkCounted'
    BY <1>1, AddsCount
  <2>2. (\E o \in Ops : Post(a, o) \/ StartOp(a, o)) => WorkCounted'
    BY <1>1, BeginsCount
  <2>3. ReleaseWork(a) => WorkCounted'
    BY <1>1, ReleaseWorkCount
  <2> QED BY <1>6, <2>1, <2>2, <2>3
<1> QED BY <1>1, <1>2, <1>3, <1>4, <1>5, <1>6, Steps

LEMMA KeepStep == WorkInv /\ [Next]_vars => KeepInv'
<1> SUFFICES ASSUME WorkInv, [Next]_vars PROVE KeepInv'
  OBVIOUS
<1>1. StateInv /\ WorkCounted /\ KeepInv /\ TypeInv /\ WaitInv
  BY DEF WorkInv, StateInv
<1>2. ASSUME NEW a \in Actors, NEW l, Go(a, l), keep' => l \notin {"zero", "last"},
             UNCHANGED <<stopped, keep, halted>>
      PROVE  KeepInv'
  <2>1. pc'[a] = l /\ \A b \in Actors : b # a => pc'[b] = pc[b]
    BY <1>1, <1>2, GoesTo
  <2> QED BY <1>1, <1>2, <2>1 DEF KeepInv
<1>3. UNCHANGED <<pc, stopped, keep, halted>> => KeepInv'
  BY <1>1 DEF KeepInv
<1>4. Quiet => KeepInv'
  <2>1. SUFFICES ASSUME Quiet PROVE KeepInv'
    OBVIOUS
  <2>2. pc' = pc /\ keep' = keep
    BY <2>1, QuietFacts DEF core
  <2>3. (\E a \in Actors : Stop(a)) => KeepInv'
    BY <1>1, <2>2 DEF Stop, KeepInv
  <2>4. ~(\E a \in Actors : Stop(a)) => UNCHANGED <<stopped, halted>>
    BY <2>1 DEF Quiet, CondSignal, SpuriousWakeup, Wake, Ready, vars
  <2> QED BY <1>3, <2>2, <2>3, <2>4
<1>5. Passes => KeepInv'
  <2>1. SUFFICES ASSUME Passes PROVE KeepInv'
    OBVIOUS
  <2>2. PICK a \in Actors : Passing(a)
    BY <2>1, PassesFacts
  <2>3. keep' = keep /\ halted' = halted
    BY <2>1, PassesFacts
  <2>4. CASE /\ Go(a, "loop") \/ (Go(a, "zero") /\ outstanding = 0)
             /\ UNCHANGED <<stopped, event, task>>
    <3>1. Go(a, "zero") /\ outstanding = 0 => ~keep
      BY <1>1, WorkLeast
    <3> QED BY <1>2, <2>3, <2>4, <3>1
  <2>5. CASE pc[a] \in {"zero", "last"}
    <3>1. ~keep
      BY <1>1, <2>5 DEF KeepInv
    <3> QED BY <2>3, <3>1 DEF KeepInv
  <2> QED BY <2>2, <2>4, <2>5 DEF Passing
<1>6. ASSUME NEW t \in Threads, Turns(t)
      PROVE  KeepInv'
  <2>1. PICK q : Turn(t, q)
    BY <1>1, <1>6, TurnsQueue
  <2>2. UNCHANGED <<stopped, keep, halted>>
    BY <2>1 DEF Turn
  <2>3. /\ \A b \in Actors : b # t => pc'[b] = pc[b]
        /\ pc'[t] \notin {"zero", "last"}
    BY <1>1, <2>1, TurnPc
  <2> QED BY <1>1, <2>2, <2>3 DEF KeepInv
<1>7. ASSUME NEW t \in Threads,
             \/ EpollWait(t) \/ PerformIo(t) \/ HandlerReturns(t)
             \/ WorkCleanup(t) \/ \E o \in Ops : PostContinuation(t, o)
      PROVE  KeepInv'
  <2>1. t \in Actors /\ UNCHANGED <<stopped, keep, halted>>
    BY <1>7, ActorFacts DEF EpollWait, PerformIo, HandlerReturns, WorkCleanup,
                            PostContinuation
  <2>2. CASE EpollWait(t) \/ PerformIo(t) \/ HandlerReturns(t)
    <3>1. PICK l \in {"found", "handler", "finish"} : Go(t, l)
      BY <2>2 DEF EpollWait, PerformIo, HandlerReturns
    <3> QED BY <1>2, <2>1, <3>1
  <2>3. CASE WorkCleanup(t)
    <3>1. Go(t, "loop") \/ (Go(t, "last") /\ outstanding = 1)
      BY <2>3 DEF WorkCleanup
    <3>2. outstanding = 1 => ~keep
      BY <1>1, <2>3, WorkLeast DEF WorkCleanup, At
    <3> QED BY <1>2, <2>1, <3>1, <3>2
  <2>4. CASE \E o \in Ops : PostContinuation(t, o)
    BY <1>3, <2>1, <2>4 DEF PostContinuation
  <2> QED BY <1>7, <2>2, <2>3, <2>4
<1>8. ASSUME NEW a \in Actors, ReleaseWork(a)
      PROVE  KeepInv'
  BY <1>8 DEF ReleaseWork, KeepInv
<1>9. ASSUME NEW a \in Actors,
             Push(a) \/ \E o \in Ops : Post(a, o) \/ StartOp(a, o) \/ CancelOp(a, o)
      PROVE  KeepInv'
  <2>1. UNCHANGED <<stopped, keep, halted>>
    BY <1>9 DEF Push, Post, StartOp, CancelOp
  <2>2. pc' = pc \/ \E l \in {"out", "handler", "push"} : Go(a, l)
    BY <1>9 DEF Push, Post, StartOp, CancelOp, mine
  <2> QED BY <1>2, <1>3, <2>1, <2>2
<1> QED BY <1>1, <1>4, <1>5, <1>6, <1>7, <1>8, <1>9, Steps

LEMMA WorkInit == Init => WorkInv
<1> SUFFICES ASSUME Init PROVE WorkInv
  OBVIOUS
<1>1. TypeInv
  BY InitType
<1>2. /\ opq = <<Task>> /\ waiters = {}
      /\ \A a \in Actors : pc[a] = "out"
      /\ \A t \in Threads : cur[t] = None /\ priv[t] = <<>> /\ privWork[t] = 0
      /\ \A o \in Ops : life[o] = "new"
  BY DEF Init
<1>3. /\ Elems(opq) = {Task} /\ Once(opq)
      /\ \A t \in Threads : Elems(priv[t]) = {} /\ Once(priv[t])
  BY <1>2, ElemsOfEmpty, ElemsOfSingle
<1>4. WaitInv /\ CurInv /\ TaskInv
  BY <1>2, <1>3, ActorFacts DEF WaitInv, CurInv, TaskInv, Holding
<1>5. RunInv
  BY <1>2, EntryFacts DEF RunInv, RunsOp
<1>6. QueueInv
  <2>1. Apart(opq, priv) /\ Queued(opq, priv) = {Task}
    BY <1>3 DEF Apart, Queued
  <2>2. IosFirst(opq)
    BY <1>2, <1>3, KindsApart DEF IosFirst, Elems
  <2>3. \A o \in Ops : Op(o) # Task
    BY KindsApart DEF Completions
  <2> QED BY <1>2, <2>1, <2>2, <2>3 DEF QueueInv
<1>7. PrivInv
  BY <1>2, ActorFacts DEF PrivInv
<1>8. WorkCounted
  <2>1. Live = {} /\ Finished = {} /\ Private = {}
    BY <1>2, ActorFacts DEF Live, Finished, Private
  <2>2. Count(Live) = 0 /\ Count(Finished) = 0 /\ Count(Private) = 0
    BY <2>1, FS_EmptySet DEF Count
  <2>3. outstanding = KeepCount
    BY DEF Init, KeepCount
  <2> QED BY <2>2, <2>3, CountsAs DEF KeepCount
<1>9. KeepInv
  BY <1>2 DEF KeepInv, Init
<1> QED BY <1>1, <1>4, <1>5, <1>6, <1>7, <1>8, <1>9 DEF WorkInv, StateInv

LEMMA WorkAlways == Spec => []WorkInv
<1>1. WorkInv /\ [Next]_vars => WorkInv'
  BY StateStep, CountStep, KeepStep DEF WorkInv
<1> QED BY WorkInit, <1>1, PTL DEF Spec

-----------------------------------------------------------------------------
(***************************************************************************)
(* Theorems.                                                               *)
(***************************************************************************)

(* Every variable keeps the type its declaration in task_io_service.hpp    *)
(* gives it; in particular outstanding_work_, which is an atomic count     *)
(* without a sign check, never goes below zero, however the threads'       *)
(* private counts are deferred.                                            *)
THEOREM TypeCorrect == Spec => []TypeOK
<1>1. WorkInv => TypeOK
  BY WorkLeast, TypeParts DEF WorkInv, StateInv
<1> QED BY <1>1, WorkAlways, PTL

(* outstanding_work_ and the threads' private counts always add up to the  *)
(* work there is, through post(), start_op(), the compensation in          *)
(* descriptor_state::do_complete and work_cleanup.                         *)
THEOREM WorkIsCounted == Spec => []WorkCounted
<1>1. WorkInv => WorkCounted
  BY DEF WorkInv
<1> QED BY <1>1, WorkAlways, PTL

(* While the session's io_service::work exists and the application has not *)
(* called stop(), no thread finds run() out of work, nor brings the count  *)
(* to zero in work_finished().                                             *)
THEOREM WorkKeepsServiceRunning == Spec => []WorkKeepsRunning
<1>1. WorkInv => WorkKeepsRunning
  BY DEF WorkInv, KeepInv, WorkKeepsRunning
<1> QED BY <1>1, WorkAlways, PTL

LEMMA InPlaces ==
  ASSUME NEW o, NEW p
  PROVE  p \in Places(o) <=>
           \/ \E i \in 1..Len(opq) : opq[i] = Op(o) /\ p = <<"queue", i>>
           \/ \E t \in Threads : \E i \in 1..Len(priv[t]) :
                priv[t][i] = Op(o) /\ p = <<t, i>>
<1>1. p \in Places(o) <=>
        \/ \E i \in 1..Len(opq) : opq[i] = Op(o) /\ p = <<"queue", i>>
        \/ \E t \in Threads :
             p \in {t} \X (1..Len(priv[t])) /\ priv[p[1]][p[2]] = Op(o)
  BY DEF Places
<1>2. \A t \in Threads :
        p \in {t} \X (1..Len(priv[t])) /\ priv[p[1]][p[2]] = Op(o)
          <=> \E i \in 1..Len(priv[t]) : priv[t][i] = Op(o) /\ p = <<t, i>>
  OBVIOUS
<1> QED BY <1>1, <1>2

LEMMA RangeElems ==
  ASSUME NEW S, NEW s \in Seq(S)
  PROVE  Range(s) = Elems(s)
BY DEF Range, Elems

(* The queues' share of the invariant, in the words of the property.       *)
LEMMA QueuedOnce == StateInv => EachQueuedOnce
<1> SUFFICES ASSUME StateInv PROVE EachQueuedOnce
  OBVIOUS
<1>1. /\ Apart(opq, priv) /\ TaskInv /\ RunInv
      /\ \A o \in Ops : life[o] = "queued" <=> Op(o) \in Queued(opq, priv)
  BY DEF StateInv, QueueInv
<1>2. ASSUME NEW o \in Ops, life[o] = "queued"
      PROVE  \E p \in Places(o) : Places(o) = {p}
  <2>1. Op(o) \in Queued(opq, priv)
    BY <1>1, <1>2
  <2>2. CASE Op(o) \in Elems(opq)
    <3>1. PICK i \in 1..Len(opq) : opq[i] = Op(o)
      BY <2>2 DEF Elems
    <3>2. \A j \in 1..Len(opq) : opq[j] = Op(o) => j = i
      BY <1>1, <3>1 DEF Apart, Once
    <3>3. \A t \in Threads : \A j \in 1..Len(priv[t]) : priv[t][j] # Op(o)
      BY <1>1, <2>2 DEF Apart, Elems
    <3>4. \A p : p \in Places(o) <=> p = <<"queue", i>>
      BY <3>1, <3>2, <3>3, InPlaces
    <3>5. Places(o) = {<<"queue", i>>}
      BY <3>4
    <3> QED BY <3>5
  <2>3. CASE Op(o) \notin Elems(opq)
    <3>1. PICK t \in Threads : Op(o) \in Elems(priv[t])
      BY <2>1, <2>3 DEF Queued
    <3>2. PICK i \in 1..Len(priv[t]) : priv[t][i] = Op(o)
      BY <3>1 DEF Elems
    <3>3. \A j \in 1..Len(priv[t]) : priv[t][j] = Op(o) => j = i
      BY <1>1, <3>2 DEF Apart, Once
    <3>4. \A j \in 1..Len(opq) : opq[j] # Op(o)
      BY <2>3 DEF Elems
    <3>5. \A u \in Threads : u # t =>
            \A j \in 1..Len(priv[u]) : priv[u][j] # Op(o)
      BY <1>1, <3>1 DEF Apart, Elems
    <3>6. \A p : p \in Places(o) <=> p = <<t, i>>
      BY <3>2, <3>3, <3>4, <3>5, InPlaces
    <3>7. Places(o) = {<<t, i>>}
      BY <3>6
    <3> QED BY <3>7
  <2> QED BY <2>2, <2>3
<1>3. ASSUME NEW o \in Ops, life[o] # "queued"
      PROVE  Places(o) = {}
  <2>1. Op(o) \notin Queued(opq, priv)
    BY <1>1, <1>3
  <2>2. /\ \A i \in 1..Len(opq) : opq[i] # Op(o)
        /\ \A t \in Threads : \A i \in 1..Len(priv[t]) : priv[t][i] # Op(o)
    BY <2>1 DEF Queued, Elems
  <2>3. \A p : p \notin Places(o)
    BY <2>2, InPlaces
  <2> QED BY <2>3
<1>4. ASSUME NEW o \in Ops, NEW t \in Threads, NEW u \in Threads
      PROVE  /\ cur[t] = cur[u] /\ cur[t] = Op(o) => t = u
             /\ pc[t] = "found" /\ Io(o) \in Range(priv[t])
                  => Io(o) \notin Range(opq)
  <2>1. cur[t] = cur[u] /\ cur[t] = Op(o) => t = u
    <3>1. cur[t] = cur[u] /\ cur[t] = Op(o) => RunsOp(t, o) /\ RunsOp(u, o)
      BY DEF RunsOp
    <3> QED BY <1>1, <3>1 DEF RunInv
  <2>2. Range(priv[t]) = Elems(priv[t]) /\ Range(opq) = Elems(opq)
    BY RangeElems DEF StateInv, TypeInv, QueueType
  <2> QED BY <1>1, <2>1, <2>2 DEF Apart
<1> DEFINE queued == {i \in 1..Len(opq) : opq[i] = Task}
           held   == {t \in Threads : Holding(t)}
<1>5. Cardinality(queued) + Cardinality(held) = 1
  <2>1. CASE Task \in Elems(opq)
    <3>1. PICK i \in 1..Len(opq) : opq[i] = Task
      BY <2>1 DEF Elems
    <3>2. queued = {i}
      BY <1>1, <3>1 DEF Apart, Once
    <3>3. held = {}
      BY <1>1, <2>1 DEF TaskInv
    <3>4. Cardinality({i}) = 1 /\ Cardinality({}) = 0
      BY FS_Singleton, FS_EmptySet
    <3> HIDE DEF queued, held
    <3> QED BY <3>2, <3>3, <3>4
  <2>2. CASE Task \notin Elems(opq)
    <3>1. queued = {}
      BY <2>2 DEF Elems
    <3>2. PICK t \in Threads : Holding(t)
      BY <1>1, <2>2 DEF TaskInv
    <3>3. held = {t}
      BY <1>1, <3>2 DEF TaskInv
    <3>4. Cardinality({t}) = 1 /\ Cardinality({}) = 0
      BY FS_Singleton, FS_EmptySet
    <3> HIDE DEF queued, held
    <3> QED BY <3>1, <3>3, <3>4
  <2> QED BY <2>1, <2>2
<1> QED BY <1>2, <1>3, <1>4, <1>5 DEF EachQueuedOnce

(* No completion is queued twice, lost between op_queue_ and a private     *)
(* queue, or run by two threads, whatever is posted, cancelled or stopped  *)
(* meanwhile; a descriptor_state, which is linked into op_queue_ itself,   *)
(* is never linked a second time; and there is one reactor task.           *)
THEOREM QueuedAtMostOnce == Spec => []EachQueuedOnce
<1>1. WorkInv => EachQueuedOnce
  BY QueuedOnce DEF WorkInv
<1> QED BY <1>1, WorkAlways, PTL

=============================================================================
