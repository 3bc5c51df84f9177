---------------------- MODULE TaskIoServiceQueueProofs ----------------------
(***************************************************************************)
(* Proofs about what the threads of TaskIoService do for the queue: they   *)
(* wake one another for what is in it, and together they implement the     *)
(* queue of HandlerQueue.                                                  *)
(***************************************************************************)
EXTENDS TaskIoServiceProofs

-----------------------------------------------------------------------------
(***************************************************************************)
(* Wake-ups.                                                               *)
(***************************************************************************)

(* The bit of wakeup_event_ is set while there is something to wake for.   *)
BitInv == ~stopped /\ opq # <<>> /\ waiters # {} => bit

(* task_interrupted_ is true of a thread in epoll_wait only once the       *)
(* interrupter has been written to.                                        *)
PokeInv == \A t \in Threads : pc[t] = "block" /\ interrupted => poke

(* A signal that is owed helps while somebody waits for it.                *)
Coming == (owes # {} /\ waiters # {}) \/ \E t \in Threads : Comes(t)

ComeInv == ~stopped /\ opq # <<>> /\ (\E t \in Threads : Asleep(t)) => Coming

WakeInv == BitInv /\ PokeInv /\ ComeInv

LEMMA WakeInvImplies == WakeInv => NoLostWakeup
BY DEF WakeInv, ComeInv, Coming, NoLostWakeup

(* Nothing is left, or the service is stopped.                             *)
LEMMA NothingToWakeFor ==
  ASSUME PokeInv', opq' = <<>> \/ stopped' = TRUE
  PROVE  WakeInv'
BY DEF WakeInv, BitInv, ComeInv

(* An actor that comes to the queue will see what is in it.                *)
LEMMA ComesItself ==
  ASSUME PokeInv', BitInv', NEW t \in Threads, Comes(t)'
  PROVE  WakeInv'
BY DEF WakeInv, ComeInv, Coming

(* A step that wakes one waiting thread or else the task.                  *)
LEMMA WakesOne ==
  ASSUME TypeInv, WaitInv', NEW a \in Actors, NEW W, NEW i \in BOOLEAN,
         WakeOneThreadAndUnlock(a, W, i), waiters' = W,
         \A u \in Threads : pc'[u] = "block" /\ i => poke
  PROVE  WakeInv'
<1>1. /\ bit' = TRUE /\ (W # {} => owes' # {})
      /\ interrupted' = (i \/ W = {}) /\ poke' = (poke \/ (W = {} /\ ~i))
  BY DEF WakeOneThreadAndUnlock, UnlockAndSignalOne
<1>2. BitInv'
  BY <1>1 DEF BitInv
<1>3. ASSUME NEW u \in Threads, pc'[u] = "block"
      PROVE  (i => poke) /\ (interrupted' => poke') /\ (W = {} => poke')
  <2>1. i => poke
    BY <1>3
  <2> QED BY Zenon, <1>1, <2>1
<1>4. PokeInv'
  BY <1>3 DEF PokeInv
<1>5. ComeInv'
  <2>1. CASE W # {}
    BY <1>1, <2>1 DEF ComeInv, Coming
  <2>2. CASE W = {}
    <3>1. \A u \in Threads : pc'[u] # "wait"
      BY <2>2 DEF WaitInv
    <3>2. \A u \in Threads : ~Asleep(u)'
      BY <1>3, <2>2, <3>1 DEF Asleep
    <3> QED BY <3>2 DEF ComeInv
  <2> QED BY <2>1, <2>2
<1> QED BY <1>2, <1>4, <1>5 DEF WakeInv

(* A step that wakes nobody and puts nobody to sleep.                      *)
LEMMA WakesNobody ==
  ASSUME WakeInv, UNCHANGED <<opq, stopped, bit, owes, waiters, interrupted>>,
         \A t \in Threads : /\ pc'[t] = "block" => pc[t] = "block"
                            /\ Comes(t) => Comes(t)'
                            /\ Asleep(t)' => Asleep(t),
         poke' = poke
  PROVE  WakeInv'
<1>1. BitInv'
  BY DEF WakeInv, BitInv
<1>2. PokeInv'
  BY DEF WakeInv, PokeInv
<1>3. ComeInv'
  BY DEF WakeInv, ComeInv, Coming
<1> QED BY <1>1, <1>2, <1>3 DEF WakeInv

(* The same, of one actor that goes from one place to another.             *)
Restless == {"out", "zero", "io", "handler", "push", "done"}

LEMMA GoesWakingNobody ==
  ASSUME TypeInv, WakeInv, NEW a \in Actors, NEW l, Go(a, l),
         UNCHANGED <<opq, stopped, event, task, edge>>,
         l \in Restless \cup {"loop", "finish", "last"},
         pc[a] \in Restless \/ l \in {"loop", "last"},
         pc[a] \notin {"wait", "block"}
  PROVE  WakeInv'
<1>1. pc'[a] = l /\ \A b \in Actors : b # a => pc'[b] = pc[b]
  BY GoesTo
<1>2. UNCHANGED <<opq, stopped, bit, owes, waiters, signalled, interrupted, poke>>
  BY DEF event, task
<1>3. ASSUME NEW t \in Threads
      PROVE  /\ pc'[t] = "block" => pc[t] = "block"
             /\ Comes(t) => Comes(t)'
             /\ Asleep(t)' => Asleep(t)
  <2>1. CASE t # a
    <3>1. pc'[t] = pc[t]
      BY <1>1, <2>1, ActorFacts
    <3> QED BY <1>2, <3>1 DEF Comes, Asleep
  <2>2. CASE t = a
    BY <1>1, <1>2, <2>2 DEF Comes, Asleep, Restless
  <2> QED BY <2>1, <2>2
<1> QED BY <1>2, <1>3, WakesNobody

LEMMA StaysWakingNobody ==
  ASSUME WakeInv, UNCHANGED <<pc, opq, stopped, event, task, edge>>
  PROVE  WakeInv'
<1>1. UNCHANGED <<opq, stopped, bit, owes, waiters, signalled, interrupted, poke>>
  BY DEF event, task
<1>2. \A t \in Threads : /\ pc'[t] = "block" => pc[t] = "block"
                         /\ Comes(t) => Comes(t)'
                         /\ Asleep(t)' => Asleep(t)
  BY <1>1 DEF Comes, Asleep
<1> QED BY <1>1, <1>2, WakesNobody

-----------------------------------------------------------------------------
(***************************************************************************)
(* Turns.  No other thread is in epoll_wait unless the interrupter has     *)
(* been written to, if the turn takes task_interrupted_ to be i.           *)
(***************************************************************************)

Undisturbed(t, i) == \A u \in Threads : u # t /\ pc[u] = "block" /\ i => poke

LEMMA TakesHandlerWake ==
  ASSUME TypeInv, WaitInv', NEW t \in Threads, NEW q, NEW W, NEW i \in BOOLEAN,
         TakeHandler(t, q, W, i), waiters' = W, Undisturbed(t, i)
  PROVE  WakeInv'
<1>1. PICK l \in {"handler", "io"} : Go(t, l)
  BY DEF TakeHandler
<1>2. pc'[t] = l /\ \A b \in Actors : b # t => pc'[b] = pc[b]
  BY <1>1, GoesTo, ActorFacts
<1>3. \A u \in Threads : pc'[u] = "block" /\ i => poke
  BY <1>2, ActorFacts DEF Undisturbed
<1>4. CASE Tail(q) # <<>>
  <2>1. WakeOneThreadAndUnlock(t, W, i) /\ t \in Actors
    BY <1>4, ActorFacts DEF TakeHandler
  <2> QED BY <1>3, <2>1, WakesOne
<1>5. CASE Tail(q) = <<>>
  <2>1. opq' = <<>> /\ interrupted' = i /\ poke' = poke
    BY <1>5 DEF TakeHandler
  <2>2. PokeInv'
    BY <1>3, <2>1 DEF PokeInv
  <2> QED BY <2>1, <2>2, NothingToWakeFor
<1> QED BY <1>4, <1>5

LEMMA DoRunOneWake ==
  ASSUME StateInv, WaitInv', TaskInv', WakeInv, NEW t \in Runners, NEW q,
         NEW i \in BOOLEAN, DoRunOne(t, q, waiters \ {t}, i), Undisturbed(t, i)
  PROVE  WakeInv'
<1>1. TypeInv /\ t \in Threads /\ t \in Actors /\ stopped \in BOOLEAN
  BY ActorFacts DEF StateInv, TypeInv, WakeType, Threads
<1>2. CASE stopped
  <2>1. /\ stopped' = stopped /\ interrupted' = i /\ poke' = poke /\ Return(t)
    BY <1>2 DEF DoRunOne
  <2>2. PICK l \in {"done", "out"} : Go(t, l)
    BY <2>1 DEF Return
  <2>3. pc'[t] = l /\ \A b \in Actors : b # t => pc'[b] = pc[b]
    BY <1>1, <2>2, GoesTo
  <2>4. PokeInv'
    BY <2>1, <2>3, ActorFacts DEF PokeInv, Undisturbed
  <2>5. stopped' = TRUE
    BY <1>1, <1>2, <2>1
  <2> QED BY <2>4, <2>5, NothingToWakeFor
<1>3. CASE ~stopped /\ q # <<>> /\ Head(q) = Task
  <2>1. /\ opq' = Tail(q) /\ interrupted' = (Tail(q) # <<>>)
        /\ IF Tail(q) # <<>> THEN UnlockAndSignalOne(t, waiters \ {t})
                             ELSE UNCHANGED <<bit, owes>>
        /\ Go(t, IF Tail(q) = <<>> THEN "block" ELSE "scan")
    BY <1>3 DEF DoRunOne, TakeHandler
  <2>2. CASE Tail(q) = <<>>
    <3>1. interrupted' = FALSE
      BY <2>1, <2>2
    <3>2. PokeInv'
      BY <3>1 DEF PokeInv
    <3> QED BY <2>1, <2>2, <3>2, NothingToWakeFor
  <2>3. CASE Tail(q) # <<>>
    <3>1. bit' = TRUE /\ Go(t, "scan")
      BY <2>1, <2>3 DEF UnlockAndSignalOne
    <3>2. pc'[t] = "scan"
      BY <1>1, <3>1, GoesTo
    <3>3. PokeInv'
      <4>1. \A u \in Threads : pc'[u] # "block"
        BY <1>1, <3>2 DEF TaskInv, Holding
      <4> QED BY <4>1 DEF PokeInv
    <3>4. BitInv' /\ Comes(t)'
      BY <3>1, <3>2 DEF BitInv, Comes
    <3> QED BY <1>1, <3>3, <3>4, ComesItself
  <2> QED BY <2>2, <2>3
<1>4. CASE ~stopped /\ q # <<>> /\ Head(q) # Task
  <2>1. TakeHandler(t, q, waiters \ {t}, i) /\ waiters' = waiters \ {t}
    BY <1>4 DEF DoRunOne
  <2> QED BY <1>1, <2>1, TakesHandlerWake
<1>5. CASE ~stopped /\ q = <<>>
  <2>1. opq' = <<>> /\ interrupted' = i /\ poke' = poke /\ Go(t, "wait")
    BY <1>5 DEF DoRunOne
  <2>2. pc'[t] = "wait" /\ \A b \in Actors : b # t => pc'[b] = pc[b]
    BY <1>1, <2>1, GoesTo
  <2>3. PokeInv'
    BY <2>1, <2>2, ActorFacts DEF PokeInv, Undisturbed
  <2> QED BY <2>1, <2>3, NothingToWakeFor
<1> QED BY <1>2, <1>3, <1>4, <1>5

LEMMA DoPollOneWake ==
  ASSUME StateInv, WaitInv', WakeInv, NEW t \in Threads, pc[t] = "loop",
         DoPollOne(t, opq \o priv[t])
  PROVE  WakeInv'
<1> DEFINE q == opq \o priv[t]
<1>1. /\ TypeInv /\ t \in Actors /\ stopped \in BOOLEAN
      /\ interrupted \in BOOLEAN /\ Undisturbed(t, interrupted)
  BY ActorFacts DEF StateInv, TypeInv, WakeType, WakeInv, PokeInv, Undisturbed
<1>2. CASE TakeHandler(t, q, waiters, interrupted)
  <2>1. waiters' = waiters
    BY DEF DoPollOne
  <2> HIDE DEF q
  <2> QED BY <1>1, <1>2, <2>1, TakesHandlerWake
<1>3. ASSUME UNCHANGED <<stopped, bit, waiters, owes, task>>, NEW l, Go(t, l),
             l # "block"
      PROVE  PokeInv'
  <2>1. pc'[t] = l /\ \A b \in Actors : b # t => pc'[b] = pc[b]
    BY <1>1, <1>3, GoesTo
  <2> QED BY <1>3, <2>1, ActorFacts DEF WakeInv, PokeInv, task
<1>4. CASE /\ stopped \/ q = <<>>
           /\ opq' = q /\ Return(t)
           /\ UNCHANGED <<stopped, bit, waiters, owes, task>>
  <2>1. PICK l \in {"done", "out"} : Go(t, l)
    BY <1>4 DEF Return
  <2>2. PokeInv'
    BY <1>3, <1>4, <2>1
  <2>3. opq' = <<>> \/ stopped' = TRUE
    BY <1>1, <1>4
  <2> QED BY <2>2, <2>3, NothingToWakeFor
<1>5. CASE /\ ~stopped /\ q # <<>> /\ Head(q) = Task /\ Go(t, "scan")
           /\ UNCHANGED <<stopped, bit, waiters, owes, task>>
  <2>1. PokeInv'
    BY <1>3, <1>5
  <2>2. pc'[t] = "scan"
    BY <1>1, <1>5, GoesTo
  <2>3. opq # <<>>
    <3>1. Elems(priv[t]) \subseteq Completions /\ priv[t] \in Seq(Entries)
          /\ priv[t] \in Seq(Entries \cup {Task})
      BY QueueTypes DEF StateInv, PrivInv, TypeInv
    <3>2. priv[t] # <<>> => Head(priv[t]) \in Completions
      BY <3>1, ElemsOfTail
    <3>3. opq = <<>> => q = priv[t]
      BY <3>1, ConcatEmptySeq
    <3> QED BY <1>5, <3>2, <3>3, KindsApart
  <2>4. BitInv'
    BY <1>5, <2>3 DEF WakeInv, BitInv
  <2>5. Comes(t)'
    BY <2>2 DEF Comes
  <2> QED BY <2>1, <2>4, <2>5, ComesItself
<1> QED BY <1>2, <1>4, <1>5 DEF DoPollOne

LEMMA PollAfterTaskWake ==
  ASSUME StateInv, WaitInv', WakeInv, NEW t \in Threads, pc[t] = "found",
         NEW q, PollAfterTask(t, q)
  PROVE  WakeInv'
<1>1. /\ TypeInv /\ t \in Actors /\ waiters' = waiters
      /\ \A u \in Threads : u # t => pc[u] # "block"
  BY ActorFacts DEF StateInv, TaskInv, Holding, PollAfterTask
<1>2. CASE TakeHandler(t, q, waiters, TRUE)
  <2>1. Undisturbed(t, TRUE)
    BY <1>1 DEF Undisturbed
  <2> QED BY <1>1, <1>2, <2>1, TakesHandlerWake
<1>3. CASE Return(t) /\ UnlockAndSignalOne(t, waiters)
  <2>1. PICK l \in {"done", "out"} : Go(t, l)
    BY <1>3 DEF Return
  <2>2. pc'[t] = l /\ \A b \in Actors : b # t => pc'[b] = pc[b]
    BY <1>1, <2>1, GoesTo
  <2>3. \A u \in Threads : pc'[u] # "block"
    BY <1>1, <2>2, ActorFacts
  <2>4. bit' = TRUE /\ (waiters # {} => owes' # {})
    BY <1>3 DEF UnlockAndSignalOne
  <2>5. PokeInv' /\ BitInv'
    BY <2>3, <2>4 DEF PokeInv, BitInv
  <2>6. ComeInv'
    <3>1. CASE waiters # {}
      BY <1>1, <2>4, <3>1 DEF ComeInv, Coming
    <3>2. CASE waiters = {}
      <4>1. \A u \in Threads : pc'[u] # "wait"
        BY <1>1, <3>2 DEF WaitInv
      <4>2. \A u \in Threads : ~Asleep(u)'
        BY <2>3, <4>1 DEF Asleep
      <4> QED BY <4>2 DEF ComeInv
    <3> QED BY <3>1, <3>2
  <2> QED BY <2>5, <2>6 DEF WakeInv
<1> QED BY <1>2, <1>3 DEF PollAfterTask

LEMMA TurnsWake ==
  ASSUME StateInv, StateInv', WakeInv, NEW t \in Threads,
         Loop(t) \/ (Wake(t) /\ bit) \/ TaskCleanup(t)
  PROVE  WakeInv'
<1>1. /\ WaitInv /\ WaitInv' /\ TaskInv' /\ interrupted \in BOOLEAN
      /\ Undisturbed(t, interrupted)
  BY DEF StateInv, TypeInv, WakeType, WakeInv, PokeInv, Undisturbed
<1>2. pc[t] # "wait" => waiters \ {t} = waiters
  BY <1>1 DEF WaitInv
<1>3. CASE Loop(t)
  <2>1. pc[t] = "loop"
    BY <1>3 DEF Loop, At
  <2>2. CASE t \in Runners
    BY <1>1, <1>2, <1>3, <2>1, <2>2, DoRunOneWake DEF Loop
  <2>3. CASE t \notin Runners
    BY <1>1, <1>3, <2>1, <2>3, DoPollOneWake DEF Loop
  <2> QED BY <2>2, <2>3
<1>4. CASE Wake(t) /\ bit
  <2>1. t \in Runners /\ DoRunOne(t, opq, waiters \ {t}, interrupted)
    BY <1>1, <1>4 DEF Wake, At, WaitInv
  <2> QED BY <1>1, <2>1, DoRunOneWake
<1>5. CASE TaskCleanup(t)
  <2> DEFINE q == opq \o priv[t] \o <<Task>>
  <2>1. pc[t] = "found" /\ (IF t \in Runners THEN DoRunOne(t, q, waiters, TRUE)
                                            ELSE PollAfterTask(t, q))
    BY <1>5 DEF TaskCleanup, At
  <2> HIDE DEF q
  <2>2. Undisturbed(t, TRUE)
    BY <2>1 DEF StateInv, TaskInv, Holding, Undisturbed
  <2>3. CASE t \in Runners
    BY <1>1, <1>2, <2>1, <2>2, <2>3, DoRunOneWake
  <2>4. CASE t \notin Runners
    BY <1>1, <2>1, <2>4, PollAfterTaskWake
  <2> QED BY <2>3, <2>4
<1> QED BY <1>3, <1>4, <1>5

-----------------------------------------------------------------------------
(***************************************************************************)
(* The other steps.                                                        *)
(***************************************************************************)

LEMMA CondSignalWake ==
  ASSUME StateInv, WakeInv, NEW a \in Actors, CondSignal(a)
  PROVE  WakeInv'
<1>1. /\ UNCHANGED <<opq, stopped, bit, waiters, interrupted, poke, edge, pc>>
      /\ signalled \subseteq signalled' /\ signalled \subseteq waiters
      /\ waiters = {t \in Threads : pc[t] = "wait"}
  BY DEF CondSignal, task, kernel, StateInv, TypeInv, WakeType, WaitInv
<1>2. BitInv' /\ PokeInv'
  BY <1>1 DEF WakeInv, BitInv, PokeInv
<1>3. \A t \in Threads : (Asleep(t)' => Asleep(t)) /\ (Comes(t) => Comes(t)')
  BY <1>1 DEF Asleep, Comes
<1>4. waiters # {} => \E t \in Threads : Comes(t)'
  <2>1. ASSUME waiters # {}
        PROVE  \E w \in waiters : w \in signalled'
    BY <1>1, <2>1 DEF CondSignal
  <2> QED BY <1>1, <2>1 DEF Comes
<1>5. ComeInv'
  BY <1>1, <1>3, <1>4 DEF WakeInv, ComeInv, Coming
<1> QED BY <1>2, <1>5 DEF WakeInv

(* Threads that come through no push: a spurious wake-up, and one that     *)
(* finds the bit cleared and waits again.                                  *)
LEMMA WaitersWake ==
  ASSUME StateInv, WakeInv, NEW t \in Threads,
         SpuriousWakeup(t) \/ (Wake(t) /\ ~bit)
  PROVE  WakeInv'
<1>1. /\ UNCHANGED <<opq, stopped, bit, owes, waiters, interrupted, poke, edge, pc>>
      /\ waiters = {u \in Threads : pc[u] = "wait"} /\ stopped \in BOOLEAN
      /\ signalled \subseteq waiters
  BY DEF SpuriousWakeup, Wake, task, kernel, StateInv, TypeInv, WakeType, WaitInv
<1>2. BitInv' /\ PokeInv'
  BY <1>1 DEF WakeInv, BitInv, PokeInv
<1>3. CASE SpuriousWakeup(t)
  <2>1. signalled' = signalled \cup {t} /\ pc'[t] = "wait"
    BY <1>1, <1>3 DEF SpuriousWakeup
  <2>2. Comes(t)'
    BY <2>1 DEF Comes
  <2> QED BY <1>2, <2>2, ComesItself
<1>4. CASE Wake(t) /\ ~bit
  <2>1. waiters # {}
    BY <1>1, <1>4 DEF Wake
  <2>2. opq' = <<>> \/ stopped' = TRUE
    BY <1>1, <1>4, <2>1 DEF WakeInv, BitInv
  <2> QED BY <1>2, <2>2, NothingToWakeFor
<1> QED BY <1>3, <1>4

LEMMA ReadyWake ==
  ASSUME WakeInv, NEW o \in Ops, Ready(o)
  PROVE  WakeInv'
<1>1. /\ UNCHANGED <<opq, stopped, bit, owes, waiters, signalled, interrupted,
                     poke, pc>>
      /\ edge' = edge \cup {o}
  BY DEF Ready, event, task
<1>2. \A t \in Threads : /\ pc'[t] = "block" => pc[t] = "block"
                         /\ Comes(t) => Comes(t)'
                         /\ Asleep(t)' => Asleep(t)
  BY <1>1 DEF Comes, Asleep
<1> QED BY <1>1, <1>2, WakesNobody

LEMMA StopsWake ==
  ASSUME WakeInv, interrupted \in BOOLEAN, StopAllThreads,
         \A u \in Threads : pc'[u] = "block" => pc[u] = "block"
  PROVE  WakeInv'
<1>1. poke' = (poke \/ ~interrupted) /\ stopped' = TRUE
  BY DEF StopAllThreads
<1>2. ASSUME NEW u \in Threads, pc'[u] = "block"
      PROVE  poke'
  <2>1. interrupted => poke
    BY <1>2 DEF WakeInv, PokeInv
  <2> QED BY Zenon, <1>1, <2>1
<1>3. PokeInv'
  BY <1>2 DEF PokeInv
<1> QED BY <1>1, <1>3, NothingToWakeFor

LEMMA QuietWake ==
  ASSUME StateInv, WakeInv, Quiet
  PROVE  WakeInv'
<1>1. pc' = pc
  BY QuietFacts DEF core
<1>2. ASSUME NEW a \in Actors, Stop(a)
      PROVE  WakeInv'
  BY <1>1, <1>2, StopsWake DEF Stop, StateInv, TypeInv, WakeType
<1>3. UNCHANGED vars => WakeInv'
  BY StaysWakingNobody DEF vars, kernel
<1> QED BY <1>2, <1>3, CondSignalWake, WaitersWake, ReadyWake DEF Quiet

LEMMA PassesWake ==
  ASSUME StateInv, WakeInv, Passes
  PROVE  WakeInv'
<1>1. TypeInv /\ interrupted \in BOOLEAN /\ UNCHANGED <<opq, edge>>
  BY PassesFacts DEF StateInv, TypeInv, WakeType, kernel
<1>2. PICK a \in Actors : Passing(a)
  BY PassesFacts
<1>3. CASE /\ pc[a] = "out" /\ UNCHANGED <<stopped, event, task>>
           /\ Go(a, "loop") \/ Go(a, "zero")
  BY <1>1, <1>3, GoesWakingNobody DEF Restless
<1>4. CASE StopAllThreads
  <2>1. PICK l \in {"done", "out", "loop", "zero"} : Go(a, l)
    BY <1>2 DEF Passing
  <2>2. pc'[a] = l /\ \A b \in Actors : b # a => pc'[b] = pc[b]
    BY <1>1, <2>1, GoesTo
  <2>3. \A u \in Threads : pc'[u] = "block" => pc[u] = "block"
    BY <2>2, ActorFacts
  <2> QED BY <1>1, <1>4, <2>3, StopsWake
<1> QED BY <1>2, <1>3, <1>4 DEF Passing

LEMMA EpollWaitWake ==
  ASSUME StateInv, WakeInv, NEW t \in Threads, EpollWait(t)
  PROVE  WakeInv'
<1>1. /\ TypeInv /\ t \in Actors /\ Go(t, "found") /\ Holding(t)
      /\ UNCHANGED <<opq, stopped, bit, waiters>>
  BY ActorFacts DEF StateInv, EpollWait, At, Holding, event
<1>2. pc'[t] = "found" /\ \A b \in Actors : b # t => pc'[b] = pc[b]
  BY <1>1, GoesTo
<1>3. \A u \in Threads : pc'[u] # "block"
  BY <1>1, <1>2, ActorFacts DEF StateInv, TaskInv, Holding
<1>4. PokeInv' /\ BitInv' /\ Comes(t)'
  BY <1>1, <1>2, <1>3 DEF PokeInv, WakeInv, BitInv, Comes
<1> QED BY <1>4, ComesItself

LEMMA RunWake ==
  ASSUME StateInv, WakeInv, NEW t \in Threads,
         PerformIo(t) \/ HandlerReturns(t) \/ WorkCleanup(t)
  PROVE  WakeInv'
<1>1. /\ TypeInv /\ t \in Actors
      /\ UNCHANGED <<opq, stopped, event, task, edge>>
  BY ActorFacts DEF StateInv, PerformIo, HandlerReturns, WorkCleanup, kernel
<1>2. CASE PerformIo(t) \/ HandlerReturns(t)
  <2>1. PICK l \in {"handler", "finish"} : Go(t, l) /\ pc[t] \in {"io", "handler"}
    BY <1>2 DEF PerformIo, HandlerReturns, At
  <2> QED BY <1>1, <2>1, GoesWakingNobody DEF Restless
<1>3. CASE WorkCleanup(t)
  <2>1. PICK l \in {"last", "loop"} : Go(t, l) /\ pc[t] = "finish"
    BY <1>3 DEF WorkCleanup, At
  <2> QED BY <1>1, <2>1, GoesWakingNobody
<1> QED BY <1>2, <1>3

LEMMA AddsWake ==
  ASSUME StateInv, WaitInv', WakeInv, NEW a \in Actors,
         Push(a) \/ \E o \in Ops : CancelOp(a, o)
  PROVE  WakeInv'
<1>1. /\ TypeInv /\ interrupted \in BOOLEAN /\ waiters' = waiters
      /\ WakeOneThreadAndUnlock(a, waiters, interrupted)
  BY DEF StateInv, TypeInv, WakeType, Push, CancelOp
<1>2. pc' = pc \/ \E l \in {"out", "handler"} : Go(a, l)
  BY DEF Push, CancelOp
<1>3. \A u \in Threads : pc'[u] = "block" => pc[u] = "block"
  <2>1. ASSUME NEW l \in {"out", "handler"}, Go(a, l)
        PROVE  \A u \in Threads : pc'[u] = "block" => pc[u] = "block"
    <3>1. pc'[a] = l /\ \A b \in Actors : b # a => pc'[b] = pc[b]
      BY <1>1, <2>1, GoesTo
    <3> QED BY <3>1, ActorFacts
  <2> QED BY <1>2, <2>1
<1>4. \A u \in Threads : pc'[u] = "block" /\ interrupted => poke
  BY <1>3 DEF WakeInv, PokeInv
<1> QED BY <1>1, <1>4, WakesOne

LEMMA CallsWake ==
  ASSUME StateInv, WakeInv, NEW a \in Actors,
         \/ ReleaseWork(a)
         \/ \E o \in Ops : Post(a, o) \/ StartOp(a, o)
         \/ a \in Threads /\ \E o \in Ops : PostContinuation(a, o)
  PROVE  WakeInv'
<1>1. TypeInv /\ UNCHANGED <<opq, stopped, event, task, edge>>
  BY DEF StateInv, ReleaseWork, Post, StartOp, PostContinuation, kernel
<1>2. CASE pc' = pc
  BY <1>1, <1>2, StaysWakingNobody
<1>3. CASE pc' # pc
  <2>1. PICK l \in {"last", "push"} : Go(a, l) /\ pc[a] \in {"handler", "out"}
    BY <1>3 DEF ReleaseWork, Post, StartOp, PostContinuation, Calls, At
  <2> QED BY <1>1, <2>1, GoesWakingNobody DEF Restless
<1> QED BY <1>2, <1>3

LEMMA WakeStep == WorkInv /\ WakeInv /\ [Next]_vars => WakeInv'
<1> SUFFICES ASSUME WorkInv, WakeInv, [Next]_vars PROVE WakeInv'
  OBVIOUS
<1>1. StateInv /\ TypeInv /\ WaitInv
  BY DEF WorkInv, StateInv
<1>2. StateInv' /\ WaitInv'
  BY StateStep DEF StateInv
<1>3. Quiet \/ Passes => WakeInv'
  BY <1>1, QuietWake, PassesWake
<1>4. ASSUME NEW t \in Threads, Loop(t) \/ (Wake(t) /\ bit) \/ TaskCleanup(t)
      PROVE  WakeInv'
  BY <1>1, <1>2, <1>4, TurnsWake
<1>5. ASSUME NEW t \in Threads,
             EpollWait(t) \/ PerformIo(t) \/ HandlerReturns(t) \/ WorkCleanup(t)
      PROVE  WakeInv'
  BY <1>1, <1>5, EpollWaitWake, RunWake
<1>6. ASSUME NEW a \in Actors, Push(a) \/ \E o \in Ops : CancelOp(a, o)
      PROVE  WakeInv'
  BY <1>1, <1>2, <1>6, AddsWake
<1>7. ASSUME NEW a \in Actors,
             ReleaseWork(a) \/ \E o \in Ops : Post(a, o) \/ StartOp(a, o)
      PROVE  WakeInv'
  BY <1>1, <1>7, CallsWake
<1>8. ASSUME NEW t \in Threads, \E o \in Ops : PostContinuation(t, o)
      PROVE  WakeInv'
  BY <1>1, <1>8, CallsWake, ActorFacts
<1> QED BY <1>1, <1>3, <1>4, <1>5, <1>6, <1>7, <1>8, Steps

LEMMA WakeInit == Init => WakeInv
BY ActorFacts DEF Init, WakeInv, BitInv, PokeInv, ComeInv, Asleep

(* A thread that task_io_service puts to sleep, on wakeup_event_ or in     *)
(* epoll_wait, is not left there while op_queue_ holds something, unless a *)
(* thread is on its way to the queue or about to be signalled: neither     *)
(* wake_one_thread_and_unlock, nor the signal after the unlock, nor        *)
(* task_interrupted_ loses a wake-up, with any number of threads.          *)
THEOREM WakeupNotLost == Spec => []NoLostWakeup
<1>1. Spec => []WakeInv
  <2>1. Init => WakeInv
    BY WakeInit
  <2>2. WorkInv /\ WakeInv /\ [Next]_vars => WakeInv'
    BY WakeStep
  <2> QED BY <2>1, <2>2, WorkAlways, PTL DEF Spec
<1>2. WakeInv => NoLostWakeup
  BY WakeInvImplies
<1> QED BY <1>1, <1>2, PTL

-----------------------------------------------------------------------------
(***************************************************************************)
(* The queue without the task.                                             *)
(***************************************************************************)

Rest(s) == RemoveFirst(s, Task)

LEMMA RestSame ==
  ASSUME NEW s, Task \notin Elems(s)
  PROVE  Rest(s) = s
BY DEF Rest, RemoveFirst, Elems

LEMMA MinOfOne ==
  ASSUME NEW n \in Int
  PROVE  Min({n}) = n
BY DEF Min

LEMMA RestAt ==
  ASSUME NEW s, Once(s), NEW i \in 1..Len(s), s[i] = Task
  PROVE  Rest(s) = RemoveAt(s, i)
<1>1. {j \in 1..Len(s) : s[j] = Task} = {i}
  BY DEF Once
<1>2. SelectInSeq(s, LAMBDA v : v = Task) = Min({i})
  BY <1>1 DEF SelectInSeq
<1>3. SelectInSeq(s, LAMBDA v : v = Task) = i
  BY <1>2, MinOfOne
<1> QED BY <1>3 DEF Rest, RemoveFirst

(* r is s without its i-th element.                                        *)
Without(S, s, i, r) ==
  /\ r \in Seq(S) /\ Len(r) = Len(s) - 1
  /\ \A j \in 1..(Len(s) - 1) : r[j] = IF j < i THEN s[j] ELSE s[j + 1]

LEMMA RemoveAtIs ==
  ASSUME NEW S, NEW s \in Seq(S), NEW i \in 1..Len(s)
  PROVE  Without(S, s, i, RemoveAt(s, i))
<1> DEFINE a == SubSeq(s, 1, i - 1)
           b == SubSeq(s, i + 1, Len(s))
<1>1. i \in Nat \ {0} /\ Len(s) \in Nat /\ i <= Len(s)
      /\ \A j \in 1..Len(s) : s[j] \in S
  OBVIOUS
<1>2. /\ a \in Seq(S) /\ Len(a) = i - 1
      /\ \A j \in 1..(i - 1) : a[j] = s[j]
  <2>1. 1 \in Int /\ i - 1 \in Int /\ \A j \in 1..(i - 1) : s[j] \in S
    BY <1>1
  <2>2. /\ a \in Seq(S) /\ Len(a) = IF 1 <= i - 1 THEN (i - 1) - 1 + 1 ELSE 0
        /\ \A j \in 1..(i - 1) - 1 + 1 : a[j] = s[1 + j - 1]
    BY <2>1, SubSeqProperties
  <2> HIDE DEF a
  <2> QED BY <1>1, <2>2
<1>3. /\ b \in Seq(S) /\ Len(b) = Len(s) - i
      /\ \A j \in 1..(Len(s) - i) : b[j] = s[i + j]
  <2>1. i + 1 \in Int /\ Len(s) \in Int /\ \A j \in (i + 1)..Len(s) : s[j] \in S
    BY <1>1
  <2>2. /\ b \in Seq(S) /\ Len(b) = IF i + 1 <= Len(s) THEN Len(s) - (i + 1) + 1 ELSE 0
        /\ \A j \in 1..Len(s) - (i + 1) + 1 : b[j] = s[(i + 1) + j - 1]
    BY <2>1, SubSeqProperties
  <2> HIDE DEF b
  <2>3. \A j \in 1..(Len(s) - i) : b[j] = s[i + j]
    <3>1. SUFFICES ASSUME NEW j \in 1..(Len(s) - i)
                   PROVE  b[j] = s[i + j]
      OBVIOUS
    <3>2. j \in 1..Len(s) - (i + 1) + 1 /\ (i + 1) + j - 1 = i + j
      BY <1>1
    <3> QED BY <2>2, <3>2
  <2> QED BY <1>1, <2>2, <2>3
<1> HIDE DEF a, b
<1> DEFINE r == a \o b
<1>4. /\ r \in Seq(S) /\ Len(r) = Len(a) + Len(b)
      /\ \A j \in 1..Len(a) + Len(b) :
           r[j] = IF j <= Len(a) THEN a[j] ELSE b[j - Len(a)]
  BY <1>2, <1>3, ConcatProperties
<1> HIDE DEF r
<1>5. ASSUME NEW j \in 1..(Len(s) - 1)
      PROVE  r[j] = IF j < i THEN s[j] ELSE s[j + 1]
  <2>1. j \in 1..Len(a) + Len(b)
    BY <1>1, <1>2, <1>3
  <2>2. CASE j < i
    BY <1>1, <1>2, <1>4, <2>1, <2>2
  <2>3. CASE j >= i
    <3>1. j - (i - 1) \in 1..(Len(s) - i) /\ i + (j - (i - 1)) = j + 1
      BY <1>1, <2>3
    <3>2. ~(j <= Len(a)) /\ j - Len(a) = j - (i - 1)
      BY <1>1, <1>2, <2>3
    <3>3. r[j] = b[j - Len(a)]
      BY <1>4, <2>1, <3>2
    <3>4. b[j - (i - 1)] = s[i + (j - (i - 1))]
      BY <1>3, <3>1
    <3> QED BY <1>1, <2>3, <3>1, <3>2, <3>3, <3>4
  <2> QED BY <1>1, <2>2, <2>3
<1>6. r \in Seq(S) /\ Len(r) = Len(s) - 1
  BY <1>1, <1>2, <1>3, <1>4
<1>7. RemoveAt(s, i) = r
  BY DEF RemoveAt, r, a, b
<1>8. Without(S, s, i, r)
  BY <1>5, <1>6 DEF Without
<1> QED BY <1>7, <1>8

LEMMA RestIs ==
  ASSUME NEW S, NEW s \in Seq(S), Once(s)
  PROVE  /\ Rest(s) \in Seq(S)
         /\ \A i \in 1..Len(s) : s[i] = Task => Without(S, s, i, Rest(s))
<1>1. \A i \in 1..Len(s) : s[i] = Task => Without(S, s, i, Rest(s))
  BY RestAt, RemoveAtIs
<1>2. Task \notin Elems(s) => Rest(s) = s
  BY RestSame
<1>3. Task \in Elems(s) => \E i \in 1..Len(s) : s[i] = Task
  BY DEF Elems
<1> QED BY <1>1, <1>2, <1>3 DEF Without

LEMMA RestOfHead ==
  ASSUME NEW S, NEW s \in Seq(S), s # <<>>, Once(s), Head(s) = Task
  PROVE  Rest(s) = Tail(s) /\ Rest(Tail(s)) = Tail(s)
<1> DEFINE r == Rest(s)
           a == Tail(s)
<1>1. /\ Len(s) \in Nat \ {0} /\ a \in Seq(S) /\ Len(a) = Len(s) - 1
      /\ \A j \in 1..Len(a) : a[j] = s[j + 1]
      /\ s[1] = Task
  BY HeadTailProperties, EmptySeq
<1>2. 1 \in 1..Len(s)
  BY <1>1
<1>3. Without(S, s, 1, r)
  BY <1>1, <1>2, RestIs
<1>4. Task \notin Elems(a)
  BY ElemsOfTail
<1>5. Rest(a) = a
  BY <1>4, RestSame
<1> HIDE DEF r, a
<1>6. r \in Seq(S) /\ Len(r) = Len(a) /\ \A j \in 1..Len(r) : r[j] = a[j]
  <2>1. r \in Seq(S) /\ Len(r) = Len(a)
    BY <1>1, <1>3 DEF Without
  <2>2. \A j \in 1..(Len(s) - 1) : r[j] = IF j < 1 THEN s[j] ELSE s[j + 1]
    BY <1>3 DEF Without
  <2> QED BY <1>1, <2>1, <2>2
<1>7. r = a
  BY <1>1, <1>6, SeqEqual
<1> QED BY <1>5, <1>7 DEF r, a

LEMMA HeadAndTail ==
  ASSUME NEW S, NEW s \in Seq(S), s # <<>>
  PROVE  <<Head(s)>> \o Tail(s) = s
<1> DEFINE h == <<Head(s)>>
           a == Tail(s)
<1>1. /\ Len(s) \in Nat \ {0} /\ a \in Seq(S) /\ Len(a) = Len(s) - 1
      /\ \A j \in 1..Len(a) : a[j] = s[j + 1]
      /\ h \in Seq(S) /\ Len(h) = 1 /\ h[1] = s[1]
  <2>1. /\ Len(s) \in Nat \ {0} /\ a \in Seq(S) /\ Len(a) = Len(s) - 1
        /\ \A j \in 1..Len(a) : a[j] = s[j + 1]
        /\ Head(s) = s[1] /\ Head(s) \in S
    BY HeadTailProperties, EmptySeq
  <2> HIDE DEF a
  <2> QED BY <2>1
<1> HIDE DEF h, a
<1> DEFINE c == h \o a
<1>2. /\ c \in Seq(S) /\ Len(c) = 1 + Len(a)
      /\ \A j \in 1..1 + Len(a) : c[j] = IF j <= 1 THEN h[j] ELSE a[j - 1]
  <2>1. /\ c \in Seq(S) /\ Len(c) = Len(h) + Len(a)
        /\ \A j \in 1..Len(h) + Len(a) :
             c[j] = IF j <= Len(h) THEN h[j] ELSE a[j - Len(h)]
    BY <1>1, ConcatProperties
  <2> HIDE DEF c
  <2> QED BY <1>1, <2>1
<1> HIDE DEF c
<1>3. ASSUME NEW j \in 1..Len(c)
      PROVE  c[j] = s[j]
  <2>1. CASE j = 1
    BY <1>1, <1>2, <2>1
  <2>2. CASE j # 1
    <3>1. j - 1 \in 1..Len(a) /\ (j - 1) + 1 = j
      BY <1>1, <1>2, <2>2
    <3>2. c[j] = a[j - 1] /\ a[j - 1] = s[(j - 1) + 1]
      BY <1>1, <1>2, <2>2, <3>1
    <3> QED BY <3>1, <3>2
  <2> QED BY <2>1, <2>2
<1>4. Len(c) = Len(s)
  BY <1>1, <1>2
<1>5. c = s
  BY <1>2, <1>3, <1>4, SeqEqual
<1> QED BY <1>5 DEF c, h, a

LEMMA RestOfTail ==
  ASSUME NEW S, NEW s \in Seq(S), s # <<>>, Once(s), Head(s) # Task
  PROVE  <<Head(s)>> \o Rest(Tail(s)) = Rest(s)
<1> DEFINE a == Tail(s)
           h == <<Head(s)>>
<1>1. /\ Len(s) \in Nat \ {0} /\ a \in Seq(S) /\ Len(a) = Len(s) - 1
      /\ \A j \in 1..Len(a) : a[j] = s[j + 1]
      /\ Head(s) = s[1] /\ Head(s) \in S
      /\ Elems(s) = Elems(a) \cup {Head(s)} /\ Once(a)
      /\ h \in Seq(S) /\ Len(h) = 1 /\ h[1] = s[1]
  <2>1. /\ Len(s) \in Nat \ {0} /\ a \in Seq(S) /\ Len(a) = Len(s) - 1
        /\ \A j \in 1..Len(a) : a[j] = s[j + 1]
        /\ Head(s) = s[1] /\ Head(s) \in S
    BY HeadTailProperties, EmptySeq
  <2>2. Elems(s) = Elems(a) \cup {Head(s)} /\ Once(a)
    BY ElemsOfTail
  <2> HIDE DEF a
  <2> QED BY <2>1, <2>2
<1>2. h \o a = s
  BY HeadAndTail
<1>3. CASE Task \notin Elems(s)
  BY <1>1, <1>2, <1>3, RestSame
<1>4. CASE Task \in Elems(s)
  <2>1. PICK i \in 1..Len(s) : s[i] = Task
    BY <1>4 DEF Elems
  <2>2. i # 1
    BY <1>1, <2>1
  <2> DEFINE k == i - 1
             r == Rest(s)
             b == Rest(a)
             c == h \o b
  <2>3. k \in 1..Len(a) /\ a[k] = Task /\ i = k + 1
    BY <1>1, <2>1, <2>2
  <2>4. Without(S, a, k, b)
    BY <1>1, <2>3, RestIs
  <2>5. Without(S, s, i, r)
    BY <2>1, RestIs
  <2> HIDE DEF a, h, b, r, k
  <2>6. /\ c \in Seq(S) /\ Len(c) = 1 + Len(b)
        /\ \A j \in 1..1 + Len(b) : c[j] = IF j <= 1 THEN h[j] ELSE b[j - 1]
    <3>1. b \in Seq(S) /\ h \in Seq(S)
      BY <1>1, <2>4 DEF Without
    <3>2. /\ c \in Seq(S) /\ Len(c) = Len(h) + Len(b)
          /\ \A j \in 1..Len(h) + Len(b) :
               c[j] = IF j <= Len(h) THEN h[j] ELSE b[j - Len(h)]
      BY <3>1, ConcatProperties
    <3> HIDE DEF c
    <3> QED BY <1>1, <3>2
  <2> HIDE DEF c
  <2>7. Len(b) = Len(a) - 1 /\ Len(c) = Len(r) /\ Len(r) = Len(s) - 1 /\ r \in Seq(S)
    BY <1>1, <2>4, <2>5, <2>6 DEF Without
  <2>8. ASSUME NEW j \in 1..Len(c)
        PROVE  c[j] = r[j]
    <3>1. j \in 1..(Len(s) - 1) /\ j \in 1..1 + Len(b)
      BY <1>1, <2>6, <2>7
    <3>2. r[j] = IF j < i THEN s[j] ELSE s[j + 1]
      BY <2>5, <3>1 DEF Without
    <3>3. CASE j = 1
      BY <1>1, <2>3, <2>6, <3>1, <3>2, <3>3
    <3>4. CASE j # 1
      <4>1. j - 1 \in 1..(Len(a) - 1) /\ (j - 1) + 1 = j
        BY <1>1, <2>7, <3>1, <3>4
      <4>2. c[j] = b[j - 1]
        BY <2>6, <3>1, <3>4
      <4>3. b[j - 1] = IF j - 1 < k THEN a[j - 1] ELSE a[(j - 1) + 1]
        BY <2>4, <4>1 DEF Without
      <4>4. a[j - 1] = s[j] /\ a[j] = s[j + 1]
        BY <1>1, <4>1
      <4> QED BY <2>3, <3>2, <4>1, <4>2, <4>3, <4>4
    <3> QED BY <3>3, <3>4
  <2>9. c = r
    BY <2>6, <2>7, <2>8, SeqEqual
  <2> QED BY <2>9 DEF c, r, b, h, a
<1> QED BY <1>3, <1>4

LEMMA RestOfConcat ==
  ASSUME NEW S, NEW s \in Seq(S), NEW t \in Seq(S), Once(s), Once(s \o t),
         Task \notin Elems(t)
  PROVE  Rest(s \o t) = Rest(s) \o t
<1> DEFINE a == s \o t
<1>1. /\ a \in Seq(S) /\ Len(a) = Len(s) + Len(t)
      /\ Len(s) \in Nat /\ Len(t) \in Nat
      /\ \A j \in 1..Len(s) + Len(t) :
           a[j] = IF j <= Len(s) THEN s[j] ELSE t[j - Len(s)]
      /\ Elems(a) = Elems(s) \cup Elems(t) /\ Once(a)
  BY ConcatProperties, ElemsOfConcat
<1>2. CASE Task \notin Elems(s)
  BY <1>1, <1>2, RestSame
<1>3. CASE Task \in Elems(s)
  <2>1. PICK i \in 1..Len(s) : s[i] = Task
    BY <1>3 DEF Elems
  <2> DEFINE b == Rest(s)
             r == Rest(a)
             c == b \o t
  <2> HIDE DEF a
  <2>2. i \in 1..Len(a) /\ a[i] = Task
    BY <1>1, <2>1
  <2>3. Without(S, a, i, r) /\ Without(S, s, i, b)
    BY <1>1, <2>1, <2>2, RestIs
  <2> HIDE DEF b, r
  <2>4. /\ c \in Seq(S) /\ Len(c) = Len(b) + Len(t)
        /\ \A j \in 1..Len(b) + Len(t) :
             c[j] = IF j <= Len(b) THEN b[j] ELSE t[j - Len(b)]
    BY <2>3, ConcatProperties DEF Without
  <2> HIDE DEF c
  <2>5. Len(b) = Len(s) - 1 /\ Len(c) = Len(r) /\ Len(r) = Len(a) - 1 /\ r \in Seq(S)
    BY <1>1, <2>3, <2>4 DEF Without
  <2>6. ASSUME NEW j \in 1..Len(c)
        PROVE  c[j] = r[j]
    <3>1. j \in 1..(Len(a) - 1) /\ j \in 1..Len(b) + Len(t)
      BY <2>4, <2>5
    <3>2. r[j] = IF j < i THEN a[j] ELSE a[j + 1]
      BY <2>3, <3>1 DEF Without
    <3>3. CASE j <= Len(b)
      <4>1. c[j] = b[j] /\ j \in 1..(Len(s) - 1)
        BY <2>4, <2>5, <3>1, <3>3
      <4>2. b[j] = IF j < i THEN s[j] ELSE s[j + 1]
        BY <2>3, <4>1 DEF Without
      <4>3. a[j] = s[j] /\ a[j + 1] = s[j + 1]
        BY <1>1, <4>1
      <4> QED BY <3>2, <4>1, <4>2, <4>3
    <3>4. CASE j > Len(b)
      <4>1. c[j] = t[j - Len(b)] /\ j >= Len(s) /\ j >= i
        BY <1>1, <2>4, <2>5, <3>1, <3>4
      <4>2. j + 1 \in 1..Len(s) + Len(t) /\ j + 1 > Len(s)
            /\ (j + 1) - Len(s) = j - Len(b)
        BY <1>1, <2>5, <3>1, <4>1
      <4>3. a[j + 1] = t[(j + 1) - Len(s)]
        BY <1>1, <4>2
      <4>4. r[j] = a[j + 1]
        BY <3>2, <4>1
      <4> QED BY <4>1, <4>2, <4>3, <4>4
    <3> QED BY <2>5, <3>3, <3>4
  <2>7. c = r
    BY <2>4, <2>5, <2>6, SeqEqual
  <2> QED BY <2>7 DEF c, r, b, a
<1> QED BY <1>2, <1>3

LEMMA RestOfEnd ==
  ASSUME NEW S, NEW s \in Seq(S), Task \in S, Once(s), Task \notin Elems(s)
  PROVE  Rest(Append(s, Task)) = s
<1> DEFINE a == Append(s, Task)
           r == Rest(a)
<1>1. /\ Len(s) \in Nat /\ a \in Seq(S) /\ Len(a) = Len(s) + 1 /\ Once(a)
      /\ a[Len(s) + 1] = Task /\ \A j \in 1..Len(s) : a[j] = s[j]
  BY AppendProperties, ElemsOfAppend
<1> DEFINE n == Len(s) + 1
<1>2. Without(S, a, n, r)
  <2>1. n \in 1..Len(a) /\ a[n] = Task
    BY <1>1
  <2> HIDE DEF a, n
  <2> QED BY <1>1, <2>1, RestIs
<1> HIDE DEF a, r
<1>3. r \in Seq(S) /\ Len(r) = Len(s) /\ \A j \in 1..Len(r) : r[j] = s[j]
  BY <1>1, <1>2 DEF Without
<1>4. r = s
  BY <1>3, SeqEqual
<1> QED BY <1>4 DEF r, a

(* Prefixes.                                                               *)
LEMMA PrefixOfConcat ==
  ASSUME NEW S, NEW s \in Seq(S), NEW t \in Seq(S)
  PROVE  /\ IsPrefix(s, s \o t)
         /\ t # <<>> => IsStrictPrefix(s, s \o t)
<1> DEFINE c == s \o t
<1>1. /\ c \in Seq(S) /\ Len(c) = Len(s) + Len(t)
      /\ Len(s) \in Nat /\ Len(t) \in Nat
      /\ \A j \in 1..Len(s) + Len(t) :
           c[j] = IF j <= Len(s) THEN s[j] ELSE t[j - Len(s)]
  BY ConcatProperties
<1>2. SubSeq(s, 1, Len(s)) = s
  BY SubSeqFull
<1> HIDE DEF c
<1> DEFINE d == SubSeq(c, 1, Len(s))
<1>3. /\ d \in Seq(S) /\ Len(d) = Len(s) /\ \A j \in 1..Len(d) : d[j] = s[j]
  <2>1. 1 \in Int /\ Len(s) \in Int /\ \A j \in 1..Len(s) : c[j] \in S /\ c[j] = s[j]
    BY <1>1
  <2>2. /\ d \in Seq(S) /\ Len(d) = IF 1 <= Len(s) THEN Len(s) - 1 + 1 ELSE 0
        /\ \A j \in 1..Len(s) - 1 + 1 : d[j] = c[1 + j - 1]
    BY <2>1, SubSeqProperties
  <2> HIDE DEF d
  <2> QED BY <1>1, <2>1, <2>2
<1> HIDE DEF d
<1>4. d = s
  BY <1>3, SeqEqual
<1>5. IsPrefix(s, c)
  BY <1>1, <1>2, <1>4 DEF IsPrefix, d
<1>6. t # <<>> => s # c
  <2>1. t # <<>> => Len(t) # 0
    BY EmptySeq
  <2> QED BY <1>1, <2>1
<1> QED BY <1>5, <1>6 DEF IsStrictPrefix, c

-----------------------------------------------------------------------------
(***************************************************************************)
(* Every step is one of HandlerQueue, or changes nothing of it.            *)
(***************************************************************************)

hvars == <<Rest(opq), cur, stopped>>

LEMMA AbstractPrefix ==
  ASSUME NEW r, NEW s
  PROVE  /\ H!IsPrefix(r, s) <=> IsPrefix(r, s)
         /\ H!IsStrictPrefix(r, s) <=> IsStrictPrefix(r, s)
BY DEF H!IsPrefix, IsPrefix, H!IsStrictPrefix, IsStrictPrefix

LEMMA AbstractInit ==
  /\ H!Init <=> /\ Rest(opq) = <<>> /\ cur = [t \in Threads |-> None]
                /\ stopped = FALSE
BY DEF H!Init, Rest

LEMMA AbstractEnqueue ==
  ASSUME IsStrictPrefix(Rest(opq), Rest(opq')), UNCHANGED <<cur, stopped>>
  PROVE  H!Enqueue
BY AbstractPrefix DEF H!Enqueue, Rest

LEMMA AbstractStop ==
  ASSUME stopped' = TRUE, UNCHANGED <<opq, cur>>
  PROVE  H!Stop
BY DEF H!Stop, Rest

LEMMA AbstractTake ==
  ASSUME NEW t \in Threads, ~stopped \/ t \in Pollers,
         cur[t] = None, NEW e, e # None, cur'[t] = e,
         cur' = [cur EXCEPT ![t] = e],
         IsPrefix(Rest(opq), <<e>> \o Rest(opq')), UNCHANGED stopped
  PROVE  H!Take(t)
BY AbstractPrefix DEF H!Take, Rest

LEMMA AbstractFinish ==
  ASSUME NEW t \in Threads, cur[t] # None, cur' = [cur EXCEPT ![t] = None],
         UNCHANGED <<opq, stopped>>
  PROVE  H!Finish(t)
BY DEF H!Finish, Rest

(* What a turn finds in the queue: what there was, then what the thread    *)
(* has to add.                                                             *)
LEMMA TurnAdds ==
  ASSUME StateInv, NEW t \in Threads, Turns(t)
  PROVE  \E q \in Seq(Entries \cup {Task}) :
           /\ Turn(t, q) /\ Once(q)
           /\ Rest(q) = Rest(opq) \o priv[t]
<1> DEFINE S == Entries \cup {Task}
           p == priv[t]
           r == opq \o p
<1>1. /\ opq \in Seq(S) /\ p \in Seq(S) /\ p \in Seq(Entries) /\ r \in Seq(S)
      /\ Task \in S /\ Once(opq) /\ Once(p) /\ Elems(opq) \cap Elems(p) = {}
  BY QueueTypes DEF StateInv, TypeInv, QueueType, QueueInv, Apart
<1>2. Task \notin Elems(p)
  BY <1>1, ElemsType, EntryFacts
<1> HIDE DEF S, p
<1>3. Once(r) /\ Elems(r) = Elems(opq) \cup Elems(p)
  BY <1>1, ElemsOfConcat
<1>4. Rest(r) = Rest(opq) \o p
  BY <1>1, <1>2, <1>3, RestOfConcat
<1>5. CASE pc[t] = "loop"
  BY <1>1, <1>3, <1>4, <1>5 DEF Turns, p, S
<1>6. CASE pc[t] = "wait"
  <2>1. p = <<>> /\ Turn(t, opq)
    BY <1>6 DEF Turns, StateInv, PrivInv, p
  <2>2. r = opq
    BY <1>1, <2>1, ConcatEmptySeq
  <2> HIDE DEF r
  <2> QED BY <1>1, <1>4, <2>1, <2>2 DEF p, S
<1>7. CASE pc[t] = "found"
  <2>1. Turn(t, r \o <<Task>>)
    BY <1>7 DEF Turns, p
  <2>2. Task \notin Elems(opq)
    BY <1>7 DEF StateInv, TaskInv, Holding
  <2>3. Rest(opq) = opq
    BY <2>2, RestSame
  <2>4. Rest(opq) \o p = r
    BY <2>3
  <2> HIDE DEF r
  <2>5. r \o <<Task>> = Append(r, Task)
    BY <1>1, AppendIsConcat
  <2>6. Task \notin Elems(r)
    BY <1>2, <1>3, <2>2
  <2>7. Append(r, Task) \in Seq(S) /\ Once(Append(r, Task))
    BY <1>1, <1>3, <2>6, ElemsOfAppend
  <2>8. Rest(Append(r, Task)) = r
    BY <1>1, <1>3, <2>6, RestOfEnd
  <2> QED BY <2>1, <2>4, <2>5, <2>7, <2>8 DEF p, S
<1> QED BY <1>5, <1>6, <1>7 DEF Turns

(* A thread inside run() that finds the service stopped takes nothing.     *)
LEMMA StoppedReturns ==
  ASSUME TypeInv, NEW t \in Runners, stopped,
         Loop(t) \/ (Wake(t) /\ bit) \/ TaskCleanup(t)
  PROVE  pc'[t] = "done"
<1>1. ASSUME NEW q, NEW W, NEW i, DoRunOne(t, q, W, i)
      PROVE  Go(t, "done")
  BY <1>1 DEF DoRunOne, Return
<1>2. (Wake(t) /\ bit) => Go(t, "done")
  <2>1. (Wake(t) /\ bit) => DoRunOne(t, opq, waiters \ {t}, interrupted)
    BY DEF Wake
  <2> QED BY <1>1, <2>1
<1>3. Loop(t) => Go(t, "done")
  <2>1. Loop(t) => DoRunOne(t, opq \o priv[t], waiters, interrupted)
    BY DEF Loop
  <2> QED BY <1>1, <2>1
<1>4. TaskCleanup(t) => Go(t, "done")
  <2>1. TaskCleanup(t)
          => DoRunOne(t, opq \o priv[t] \o <<Task>>, waiters, TRUE)
    BY DEF TaskCleanup
  <2> QED BY <1>1, <2>1
<1>5. t \in Actors /\ Go(t, "done")
  BY <1>2, <1>3, <1>4 DEF Actors, Threads
<1> QED BY <1>5, GoesTo

LEMMA TurnImplements ==
  ASSUME StateInv, NEW t \in Threads, Turns(t),
         Loop(t) \/ (Wake(t) /\ bit) \/ TaskCleanup(t)
  PROVE  H!Take(t) \/ H!Enqueue \/ UNCHANGED hvars
<1> DEFINE S == Entries \cup {Task}
<1>1. PICK q \in Seq(S) :
        /\ Turn(t, q) /\ Once(q)
        /\ Rest(q) = Rest(opq) \o priv[t]
  BY TurnAdds
<1>2. /\ opq \in Seq(S) /\ priv[t] \in Seq(S) /\ Once(opq)
      /\ stopped' = stopped /\ pc[t] \notin Busy /\ cur[t] = None
  BY <1>1, QueueTypes DEF StateInv, TypeInv, QueueType, QueueInv, Apart, Turn,
                          Turns, CurInv, Busy
<1>3. Rest(opq) \in Seq(S)
  BY <1>2, RestIs
<1> HIDE DEF S
<1>4. Rest(opq') = Rest(q) /\ cur' = cur
        => H!Enqueue \/ UNCHANGED hvars
  <2>1. SUFFICES ASSUME Rest(opq') = Rest(q), cur' = cur
                 PROVE  H!Enqueue \/ UNCHANGED hvars
    OBVIOUS
  <2>2. CASE priv[t] = <<>>
    <3>1. Rest(opq) \o priv[t] = Rest(opq)
      BY <1>3, <2>2, ConcatEmptySeq
    <3>2. Rest(opq') = Rest(opq)
      BY <1>1, <2>1, <3>1
    <3> QED BY <1>2, <2>1, <3>2 DEF hvars, Rest
  <2>3. CASE priv[t] # <<>>
    <3>1. IsStrictPrefix(Rest(opq), Rest(opq'))
      BY <1>1, <1>2, <1>3, <2>1, <2>3, PrefixOfConcat
    <3> QED BY <1>2, <2>1, <3>1, AbstractEnqueue
  <2> QED BY <2>2, <2>3
<1>5. CASE Leaves(t, q) \/ Sleeps(t, q)
  <2>1. opq' = q /\ cur' = cur
    BY <1>5 DEF Leaves, Sleeps
  <2>2. Rest(opq') = Rest(q)
    BY <2>1 DEF Rest
  <2> QED BY <1>4, <2>1, <2>2
<1>6. CASE TakesTask(t, q)
  <2>1. q # <<>> /\ Head(q) = Task /\ opq' = Tail(q) /\ cur' = cur
    BY <1>6 DEF TakesTask
  <2>2. Rest(Tail(q)) = Rest(q)
    BY <1>1, <2>1, RestOfHead
  <2>3. Rest(opq') = Rest(Tail(q))
    BY <2>1 DEF Rest
  <2> QED BY <1>4, <2>1, <2>2, <2>3
<1>7. CASE TakesEntry(t, q)
  <2> DEFINE e == Head(q)
  <2>1. q # <<>> /\ e # Task /\ opq' = Tail(q) /\ cur' = [cur EXCEPT ![t] = e]
    BY <1>7 DEF TakesEntry
  <2>2. <<e>> \o Rest(Tail(q)) = Rest(q)
    BY <1>1, <2>1, RestOfTail
  <2>3. Rest(opq') = Rest(Tail(q))
    BY <2>1 DEF Rest
  <2>4. e \in Entries
    BY <1>1, <2>1, HeadTailProperties DEF S
  <2> HIDE DEF e
  <2>5. e # None
    BY <2>4, EntryFacts
  <2>6. cur'[t] = e
    BY <2>1 DEF StateInv, TypeInv, QueueType
  <2>7. IsPrefix(Rest(opq), <<e>> \o Rest(opq'))
    BY <1>1, <1>2, <1>3, <2>2, <2>3, PrefixOfConcat
  <2>8. ~stopped \/ t \in Pollers
    <3>1. SUFFICES ASSUME stopped, t \notin Pollers PROVE FALSE
      OBVIOUS
    <3>2. t \in Runners /\ TypeInv
      BY <3>1 DEF Threads, StateInv
    <3>3. pc'[t] = "done"
      BY <3>1, <3>2, StoppedReturns
    <3>4. t \in Actors
      BY ActorFacts
    <3>5. Go(t, "handler") \/ Go(t, "io")
      BY <1>7 DEF TakesEntry
    <3>6. pc'[t] \in {"handler", "io"}
      BY <3>2, <3>4, <3>5, GoesTo
    <3> QED BY <3>3, <3>6
  <2>9. H!Take(t)
    BY <1>2, <2>1, <2>5, <2>6, <2>7, <2>8, AbstractTake
  <2> QED BY <2>9
<1> QED BY <1>1, <1>5, <1>6, <1>7 DEF Turn

(* A completion is pushed, or one is cancelled.                            *)
LEMMA AddsImplements ==
  ASSUME StateInv, NEW a \in Actors, Push(a) \/ \E o \in Ops : CancelOp(a, o)
  PROVE  H!Enqueue
<1> DEFINE S == Entries \cup {Task}
<1>1. PICK o \in Ops : /\ life[o] # "queued" /\ opq' = Append(opq, Op(o))
                       /\ life' = [life EXCEPT ![o] = "queued"]
  <2>1. Push(a) => /\ arg[a] \in Ops /\ life[arg[a]] # "queued"
                   /\ opq' = Append(opq, Op(arg[a]))
                   /\ life' = [life EXCEPT ![arg[a]] = "queued"]
    BY DEF Push, At, StateInv, TypeInv, PushType, RunInv
  <2>2. ASSUME NEW o \in Ops, CancelOp(a, o)
        PROVE  /\ life[o] # "queued" /\ opq' = Append(opq, Op(o))
               /\ life' = [life EXCEPT ![o] = "queued"]
    BY <2>2 DEF CancelOp
  <2> QED BY <2>1, <2>2
<1>2. UNCHANGED <<cur, priv, stopped>>
  BY DEF Push, CancelOp, mine, WakeOneThreadAndUnlock
<1> DEFINE r == <<Op(o)>>
<1>3. /\ opq \in Seq(S) /\ Op(o) \in S /\ Op(o) # Task /\ Once(opq)
      /\ r \in Seq(S)
  BY EntryFacts DEF StateInv, TypeInv, QueueType, QueueInv, Apart
<1>4. opq' = opq \o r
  BY <1>1, <1>3, AppendIsConcat
<1>5. Once(opq')
  BY <1>1, <1>2, AddsQueue DEF QueueInv, Apart
<1>6. Task \notin Elems(r) /\ r # <<>>
  BY <1>3, ElemsOfSingle
<1>7. Rest(opq) \in Seq(S)
  BY <1>3, RestIs
<1> HIDE DEF r, S
<1>8. Rest(opq \o r) = Rest(opq) \o r
  BY <1>3, <1>4, <1>5, <1>6, RestOfConcat
<1>9. Rest(opq') = Rest(opq \o r)
  BY <1>4 DEF Rest
<1>10. IsStrictPrefix(Rest(opq), Rest(opq'))
  BY <1>3, <1>6, <1>7, <1>8, <1>9, PrefixOfConcat
<1> QED BY <1>2, <1>10, AbstractEnqueue

LEMMA StepImplements == WorkInv /\ [Next]_vars => [H!Next]_hvars
<1> SUFFICES ASSUME WorkInv, [Next]_vars PROVE H!Next \/ UNCHANGED hvars
  OBVIOUS
<1>1. StateInv /\ TypeInv /\ WaitInv /\ CurInv
  BY DEF WorkInv, StateInv
<1>2. UNCHANGED <<opq, cur, stopped>> => UNCHANGED hvars
  BY DEF hvars, Rest
<1>3. Quiet => H!Stop \/ UNCHANGED hvars
  <2>1. SUFFICES ASSUME Quiet PROVE H!Stop \/ UNCHANGED hvars
    OBVIOUS
  <2>2. UNCHANGED <<opq, cur>>
    BY <2>1, QuietFacts DEF core
  <2>3. (\E a \in Actors : Stop(a)) => H!Stop
    BY <2>2, AbstractStop DEF Stop, StopAllThreads
  <2>4. ~(\E a \in Actors : Stop(a)) => stopped' = stopped
    BY <2>1 DEF Quiet, CondSignal, SpuriousWakeup, Wake, Ready, vars
  <2> QED BY <1>2, <2>2, <2>3, <2>4
<1>4. Passes => H!Stop \/ UNCHANGED hvars
  <2>1. SUFFICES ASSUME Passes PROVE H!Stop \/ UNCHANGED hvars
    OBVIOUS
  <2>2. UNCHANGED <<opq, cur>>
    BY <2>1, PassesFacts DEF mine
  <2>3. stopped' = stopped \/ stopped' = TRUE
    BY <2>1, PassesFacts DEF Passing, StopAllThreads
  <2> QED BY <1>2, <2>2, <2>3, AbstractStop
<1>5. ASSUME NEW t \in Threads, Turns(t),
             Loop(t) \/ (Wake(t) /\ bit) \/ TaskCleanup(t)
      PROVE  H!Take(t) \/ H!Enqueue \/ UNCHANGED hvars
  BY <1>1, <1>5, TurnImplements
<1>6. ASSUME NEW t \in Threads, WorkCleanup(t)
      PROVE  H!Finish(t)
  <2>1. cur[t] # None
    BY <1>1, <1>6 DEF WorkCleanup, At, CurInv
  <2>2. cur' = [cur EXCEPT ![t] = None] /\ UNCHANGED <<opq, stopped>>
    BY <1>6 DEF WorkCleanup
  <2> QED BY <2>1, <2>2, AbstractFinish
<1>7. ASSUME NEW t \in Threads,
             \/ EpollWait(t) \/ PerformIo(t) \/ HandlerReturns(t)
             \/ \E o \in Ops : PostContinuation(t, o)
      PROVE  UNCHANGED hvars
  <2>1. UNCHANGED <<opq, cur, stopped>>
    BY <1>7 DEF EpollWait, PerformIo, HandlerReturns, PostContinuation, mine
  <2> QED BY <1>2, <2>1
<1>8. ASSUME NEW a \in Actors,
             ReleaseWork(a) \/ \E o \in Ops : Post(a, o) \/ StartOp(a, o)
      PROVE  UNCHANGED hvars
  <2>1. UNCHANGED <<opq, cur, stopped>>
    BY <1>8 DEF ReleaseWork, Post, StartOp, mine
  <2> QED BY <1>2, <2>1
<1>9. ASSUME NEW a \in Actors, Push(a) \/ \E o \in Ops : CancelOp(a, o)
      PROVE  H!Enqueue
  BY <1>1, <1>9, AddsImplements
<1>10. \/ H!Enqueue \/ H!Stop \/ \E t \in Threads : H!Take(t) \/ H!Finish(t)
       \/ UNCHANGED hvars
  BY <1>1, <1>3, <1>4, <1>5, <1>6, <1>7, <1>8, <1>9, Steps
<1> QED BY <1>10 DEF H!Next

LEMMA InitImplements == Init => H!Init
<1> SUFFICES ASSUME Init PROVE H!Init
  OBVIOUS
<1>1. opq = <<Task>> /\ cur = [t \in Threads |-> None] /\ stopped = FALSE
  BY DEF Init
<1> DEFINE s == <<Task>>
<1>2. s \in Seq({Task}) /\ s # <<>> /\ Once(s) /\ Head(s) = Task /\ Tail(s) = <<>>
  BY ElemsOfSingle
<1> HIDE DEF s
<1>3. Rest(s) = <<>>
  BY <1>2, RestOfHead
<1>4. Rest(opq) = <<>>
  BY <1>1, <1>3 DEF s, Rest
<1> QED BY <1>1, <1>4, AbstractInit

(* The threads, the reactor among them, the private queues and the wake-ups *)
(* make of op_queue_ what the rest of the program relies on: a first-in     *)
(* first-out queue of completions, to which everything is appended, from    *)
(* which each thread takes the first, and of which nothing is taken after   *)
(* stop() but by a poll() under way.                                        *)
THEOREM QueueImplemented == Spec => ImplementsHandlerQueue
<1>1. hvars = <<RemoveFirst(opq, Task), cur, stopped>>
  BY DEF hvars, Rest
<1>2. WorkInv /\ [Next]_vars => [H!Next]_<<RemoveFirst(opq, Task), cur, stopped>>
  BY StepImplements DEF hvars, Rest
<1> QED BY InitImplements, <1>2, WorkAlways, PTL
        DEF Spec, H!Spec, ImplementsHandlerQueue
=============================================================================
