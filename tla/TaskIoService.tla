---------------------------- MODULE TaskIoService ----------------------------
(***************************************************************************)
(* The io_service behind cq_irc_service: asio::detail::task_io_service     *)
(* with its posix_event, and the run() and interrupt() of epoll_reactor.   *)
(*                                                                         *)
(* Threads inside run() (cq_irc_service_attach) and poll()                 *)
(* (cq_irc_service_poll) share op_queue_ under mutex_.  One entry of the   *)
(* queue is the reactor itself, the task: the thread that takes it waits   *)
(* in epoll_wait, without the mutex, and puts what it found and the task   *)
(* back at the end.  A thread that finds the queue empty waits on          *)
(* wakeup_event_.  Whoever adds to the queue wakes such a thread or, if    *)
(* there is none, interrupts the task.                                     *)
(*                                                                         *)
(* A step is one section under the mutex, or one atomic operation, system  *)
(* call or part of a handler outside it.                                   *)
(***************************************************************************)
EXTENDS Integers, Sequences, FiniteSets, SequencesExt

CONSTANTS
  Runners,   (* threads that call run()                                    *)
  Pollers,   (* threads that call poll(), any number of times              *)
  User,      (* a thread that only uses the io_service                     *)
  Ops        (* operations; each is started at most once                   *)

Threads == Runners \cup Pollers
Actors  == Threads \cup {User}

ASSUME ServiceAssumption ==
  /\ Runners \cap Pollers = {} /\ User \notin Threads
  /\ IsFiniteSet(Threads) /\ IsFiniteSet(Ops)

VARIABLES
  opq,          (* op_queue_                                               *)
  outstanding,  (* outstanding_work_                                       *)
  stopped,      (* stopped_                                                *)
  interrupted,  (* task_interrupted_                                       *)
  bit,          (* wakeup_event_: the lowest bit of state_                 *)
  waiters,      (* wakeup_event_: the threads the rest of state_ counts    *)
  signalled,    (* those of them that have been woken                      *)
  owes,         (* actors that have set the bit and released the mutex and *)
                (* are about to call pthread_cond_signal                   *)
  poke,         (* epoll: an event of the interrupter is pending           *)
  edge,         (* epoll: operations whose descriptor has an event pending *)
  avail,        (* operations that would not block any more                *)
  pc,           (* what each actor is doing, see PcValues                  *)
  cur,          (* the entry each thread has taken from the queue          *)
  priv,         (* thread_info::private_op_queue                           *)
  privWork,     (* thread_info::private_outstanding_work                   *)
  life,         (* each operation, see Lives                               *)
  arg,          (* the operation an actor is about to push                 *)
  keep,         (* an io_service::work exists: a session lives             *)
  halted        (* history: the application called stop()                  *)

event  == <<bit, waiters, signalled, owes>>
task   == <<interrupted, poke>>
kernel == <<edge, avail>>
mine   == <<cur, priv, privWork, arg>>
vars == <<opq, outstanding, stopped, event, task, kernel, pc, mine, life,
          keep, halted>>

(* "out": outside the io_service; "zero": run() or poll() found no work;   *)
(* "loop": before a section of do_run_one or do_poll_one; "wait": in       *)
(* pthread_cond_wait; "block", "scan": in epoll_wait, with and without     *)
(* waiting; "found": before task_cleanup; "io": before perform_io;         *)
(* "handler"; "push": in a handler, before a section that adds to the      *)
(* queue; "finish": before work_cleanup; "last": work_finished() has       *)
(* reached zero; "done": run() has returned.                               *)
PcValues == {"out", "zero", "loop", "wait", "block", "scan", "found", "io",
             "handler", "push", "finish", "last", "done"}

(* "waiting": in the reactor; "queued": in op_queue_ or a private queue.   *)
Lives == {"new", "pushing", "waiting", "queued", "running", "done"}

Task == [kind |-> "task"]
Op(o) == [kind |-> "op", op |-> o]
Io(o) == [kind |-> "io", op |-> o]     (* the descriptor_state of o        *)
None == [kind |-> "none"]
Entries == [kind : {"op", "io"}, op : Ops]

Go(t, l) == pc' = [pc EXCEPT ![t] = l]

(* An actor that owes a signal does nothing else first.                    *)
At(a, l) == pc[a] = l /\ a \notin owes

-----------------------------------------------------------------------------
(***************************************************************************)
(* Waking threads.  W is the set of waiting threads.                       *)
(***************************************************************************)

(* posix_event::unlock_and_signal_one.                                     *)
UnlockAndSignalOne(a, W) ==
  /\ bit' = TRUE
  /\ owes' = IF W = {} THEN owes ELSE owes \cup {a}

(* Variant: nobody in epoll_wait is interrupted.                           *)
WakeWaitersOnly(a, W, i) ==
  /\ UnlockAndSignalOne(a, W)
  /\ interrupted' = i /\ UNCHANGED poke

(* wake_one_thread_and_unlock, with task_interrupted_ = i: a waiting       *)
(* thread or else the task.                                                *)
WakeOneThreadAndUnlock(a, W, i) ==
  /\ UnlockAndSignalOne(a, W)
  /\ interrupted' = (i \/ W = {})
  /\ poke' = (poke \/ (W = {} /\ ~i))

(* Variant: the task is not interrupted.                                   *)
StopWaitersOnly ==
  /\ stopped' = TRUE
  /\ bit' = TRUE /\ signalled' = waiters
  /\ UNCHANGED <<waiters, owes, task>>

(* stop_all_threads.                                                       *)
StopAllThreads ==
  /\ stopped' = TRUE
  /\ bit' = TRUE /\ signalled' = waiters
  /\ interrupted' = TRUE /\ poke' = (poke \/ ~interrupted)
  /\ UNCHANGED <<waiters, owes>>

(* pthread_cond_signal wakes a waiting thread that has not been woken.     *)
CondSignal(a) ==
  /\ a \in owes
  /\ owes' = owes \ {a}
  /\ IF waiters \subseteq signalled THEN UNCHANGED signalled
     ELSE \E w \in waiters \ signalled : signalled' = signalled \cup {w}
  /\ UNCHANGED <<opq, outstanding, stopped, bit, waiters, task, kernel, pc,
                 mine, life, keep, halted>>

(* POSIX lets pthread_cond_wait return for no reason.                      *)
SpuriousWakeup(t) ==
  /\ t \in waiters \ signalled
  /\ signalled' = signalled \cup {t}
  /\ UNCHANGED <<opq, outstanding, stopped, bit, waiters, owes, task, kernel,
                 pc, mine, life, keep, halted>>

-----------------------------------------------------------------------------
(***************************************************************************)
(* run() and poll().                                                       *)
(***************************************************************************)

(* Variant: the test counts the caller itself.                             *)
EnterOffByOne(t) ==
  /\ At(t, "out") /\ t \in Threads
  /\ Go(t, IF outstanding <= 1 THEN "zero" ELSE "loop")
  /\ UNCHANGED <<opq, outstanding, stopped, event, task, kernel, mine, life,
                 keep, halted>>

(* The test of outstanding_work_ is made before the mutex is taken.        *)
Enter(t) ==
  /\ At(t, "out") /\ t \in Threads
  /\ Go(t, IF outstanding = 0 THEN "zero" ELSE "loop")
  /\ UNCHANGED <<opq, outstanding, stopped, event, task, kernel, mine, life,
                 keep, halted>>

Return(t) == Go(t, IF t \in Runners THEN "done" ELSE "out")

(* stop() and return.                                                      *)
NoWorkLeft(t) ==
  /\ At(t, "zero")
  /\ StopAllThreads
  /\ Return(t)
  /\ UNCHANGED <<opq, outstanding, kernel, mine, life, keep, halted>>

(* Variant: what is left in the queue is left to whoever comes by.         *)
TakeHandlerQuiet(t, q, W, i) ==
  LET e == Head(q) IN
  /\ e # Task
  /\ opq' = Tail(q)
  /\ cur' = [cur EXCEPT ![t] = e]
  /\ life' = IF e.kind = "op" THEN [life EXCEPT ![e.op] = "running"] ELSE life
  /\ Go(t, IF e.kind = "op" THEN "handler" ELSE "io")
  /\ interrupted' = i /\ UNCHANGED <<bit, owes, poke>>

(* t takes the first entry of q, which is not the task, and wakes another  *)
(* thread if more is left.                                                 *)
TakeHandler(t, q, W, i) ==
  LET e == Head(q) IN
  /\ e # Task
  /\ opq' = Tail(q)
  /\ cur' = [cur EXCEPT ![t] = e]
  /\ life' = IF e.kind = "op" THEN [life EXCEPT ![e.op] = "running"] ELSE life
  /\ Go(t, IF e.kind = "op" THEN "handler" ELSE "io")
  /\ IF Tail(q) # <<>> THEN WakeOneThreadAndUnlock(t, W, i)
     ELSE interrupted' = i /\ UNCHANGED <<bit, owes, poke>>

(* One turn of the loop of do_run_one, the mutex held, op_queue_ being q,  *)
(* the other waiting threads W and task_interrupted_ being i.              *)
DoRunOne(t, q, W, i) ==
  /\ signalled' = signalled \ {t}
  /\ priv' = [priv EXCEPT ![t] = <<>>]
  /\ UNCHANGED <<outstanding, stopped, kernel, privWork, arg, keep, halted>>
  /\ \/ /\ stopped
        /\ Return(t)
        /\ opq' = q /\ waiters' = W /\ interrupted' = i
        /\ UNCHANGED <<bit, owes, poke, cur, life>>
     \/ /\ ~stopped /\ q # <<>> /\ Head(q) = Task
        /\ opq' = Tail(q) /\ waiters' = W
        /\ interrupted' = (Tail(q) # <<>>)
        /\ IF Tail(q) # <<>> THEN UnlockAndSignalOne(t, W)
                             ELSE UNCHANGED <<bit, owes>>
        /\ Go(t, IF Tail(q) = <<>> THEN "block" ELSE "scan")
        /\ UNCHANGED <<poke, cur, life>>
     \/ /\ ~stopped /\ q # <<>>
        /\ TakeHandler(t, q, W, i)
        /\ waiters' = W
     \/ /\ ~stopped /\ q = <<>>
        /\ opq' = q /\ bit' = FALSE
        /\ waiters' = W \cup {t}
        /\ interrupted' = i
        /\ Go(t, "wait")
        /\ UNCHANGED <<owes, poke, cur, life>>

(* The beginning of do_poll_one.                                           *)
DoPollOne(t, q) ==
  /\ priv' = [priv EXCEPT ![t] = <<>>]
  /\ UNCHANGED <<outstanding, stopped, waiters, signalled, kernel, privWork,
                 arg, keep, halted>>
  /\ \/ /\ stopped \/ q = <<>>
        /\ Return(t)
        /\ opq' = q
        /\ UNCHANGED <<bit, owes, task, cur, life>>
     \/ /\ ~stopped /\ q # <<>> /\ Head(q) = Task
        /\ opq' = Tail(q)
        /\ Go(t, "scan")
        /\ UNCHANGED <<bit, owes, task, cur, life>>
     \/ /\ ~stopped /\ q # <<>>
        /\ TakeHandler(t, q, waiters, interrupted)

(* The rest of do_poll_one after it has run the task: stopped_ is not      *)
(* tested again.                                                           *)
PollAfterTask(t, q) ==
  /\ priv' = [priv EXCEPT ![t] = <<>>]
  /\ UNCHANGED <<outstanding, stopped, waiters, signalled, kernel, privWork,
                 arg, keep, halted>>
  /\ \/ /\ Head(q) = Task
        /\ opq' = q
        /\ Return(t)
        /\ UnlockAndSignalOne(t, waiters)
        /\ interrupted' = TRUE
        /\ UNCHANGED <<poke, cur, life>>
     \/ TakeHandler(t, q, waiters, TRUE)

(* Variant: continuations go before what is queued.                        *)
LoopContinuationsFirst(t) ==
  /\ At(t, "loop")
  /\ IF t \in Runners THEN DoRunOne(t, priv[t] \o opq, waiters, interrupted)
                      ELSE DoPollOne(t, priv[t] \o opq)

(* A thread enters its loop, after work_cleanup has pushed the private     *)
(* queue of the handler before.                                            *)
Loop(t) ==
  /\ At(t, "loop")
  /\ IF t \in Runners THEN DoRunOne(t, opq \o priv[t], waiters, interrupted)
                      ELSE DoPollOne(t, opq \o priv[t])

(* posix_event::wait returns to do_run_one, or waits again.                *)
Wake(t) ==
  /\ At(t, "wait") /\ t \in signalled
  /\ \/ bit /\ DoRunOne(t, opq, waiters \ {t}, interrupted)
     \/ /\ ~bit
        /\ signalled' = signalled \ {t}
        /\ UNCHANGED <<opq, outstanding, stopped, bit, waiters, owes, task,
                       kernel, pc, mine, life, keep, halted>>

(* epoll_reactor::run.                                                     *)
EpollWait(t) ==
  /\ At(t, "scan") \/ (At(t, "block") /\ (poke \/ edge # {}))
  /\ \E s \in SetToSeqs(edge) :
       priv' = [priv EXCEPT ![t] = [i \in 1..Len(s) |-> Io(s[i])]]
  /\ edge' = {} /\ poke' = FALSE
  /\ Go(t, "found")
  /\ UNCHANGED <<opq, outstanding, stopped, event, interrupted, avail, cur,
                 privWork, arg, life, keep, halted>>

(* task_cleanup and what follows it under the same lock.                   *)
TaskCleanup(t) ==
  /\ At(t, "found")
  /\ LET q == opq \o priv[t] \o <<Task>> IN
     IF t \in Runners THEN DoRunOne(t, q, waiters, TRUE)
                      ELSE PollAfterTask(t, q)

(* Variant: no compensation for the work_finished() that will follow.      *)
PerformIoUncounted(t) ==
  /\ At(t, "io")
  /\ LET o == cur[t].op IN
     \/ /\ life[o] = "waiting" /\ o \in avail
        /\ life' = [life EXCEPT ![o] = "running"]
        /\ avail' = avail \ {o}
        /\ Go(t, "handler")
        /\ UNCHANGED outstanding
     \/ /\ ~(life[o] = "waiting" /\ o \in avail)
        /\ Go(t, "finish")
        /\ UNCHANGED <<life, outstanding, avail>>
  /\ UNCHANGED <<opq, stopped, event, task, edge, mine, keep, halted>>

(* descriptor_state::do_complete: the operation is completed in this       *)
(* thread, or there is nothing to complete.                                *)
PerformIo(t) ==
  /\ At(t, "io")
  /\ LET o == cur[t].op IN
     \/ /\ life[o] = "waiting" /\ o \in avail
        /\ life' = [life EXCEPT ![o] = "running"]
        /\ avail' = avail \ {o}
        /\ Go(t, "handler")
        /\ UNCHANGED outstanding
     \/ /\ ~(life[o] = "waiting" /\ o \in avail)
        /\ outstanding' = outstanding + 1
        /\ Go(t, "finish")
        /\ UNCHANGED <<life, avail>>
  /\ UNCHANGED <<opq, stopped, event, task, edge, mine, keep, halted>>

HandlerReturns(t) ==
  /\ At(t, "handler")
  /\ life' = [life EXCEPT ![cur[t].op] = "done"]
  /\ Go(t, "finish")
  /\ UNCHANGED <<opq, outstanding, stopped, event, task, kernel, mine, keep,
                 halted>>

(* Variant: continuations are not counted.                                 *)
WorkCleanupForgets(t) ==
  /\ At(t, "finish")
  /\ outstanding' = outstanding - 1
  /\ privWork' = [privWork EXCEPT ![t] = 0]
  /\ cur' = [cur EXCEPT ![t] = None]
  /\ Go(t, IF outstanding = 1 THEN "last" ELSE "loop")
  /\ UNCHANGED <<opq, stopped, event, task, kernel, priv, arg, life, keep,
                 halted>>

(* work_cleanup up to the push of the private queue.                       *)
WorkCleanup(t) ==
  /\ At(t, "finish")
  /\ outstanding' = outstanding + privWork[t] - 1
  /\ privWork' = [privWork EXCEPT ![t] = 0]
  /\ cur' = [cur EXCEPT ![t] = None]
  /\ Go(t, IF privWork[t] = 0 /\ outstanding = 1 THEN "last" ELSE "loop")
  /\ UNCHANGED <<opq, stopped, event, task, kernel, priv, arg, life, keep,
                 halted>>

(* work_finished() calls stop(), after others may have added work.         *)
LastWork(a) ==
  /\ At(a, "last")
  /\ StopAllThreads
  /\ Go(a, IF a = User THEN "out" ELSE "loop")
  /\ UNCHANGED <<opq, outstanding, kernel, mine, life, keep, halted>>

-----------------------------------------------------------------------------
(***************************************************************************)
(* What handlers and other threads of the program ask for.                 *)
(***************************************************************************)

Calls(a) == At(a, "handler") \/ (a = User /\ At(a, "out"))

(* post_immediate_completion: work_started() ...                           *)
Post(a, o) ==
  /\ Calls(a) /\ life[o] = "new"
  /\ outstanding' = outstanding + 1
  /\ life' = [life EXCEPT ![o] = "pushing"]
  /\ arg' = [arg EXCEPT ![a] = o]
  /\ Go(a, "push")
  /\ UNCHANGED <<opq, stopped, event, task, kernel, cur, priv, privWork,
                 keep, halted>>

(* ... and then the push.                                                  *)
Push(a) ==
  /\ At(a, "push")
  /\ opq' = Append(opq, Op(arg[a]))
  /\ life' = [life EXCEPT ![arg[a]] = "queued"]
  /\ arg' = [arg EXCEPT ![a] = None]
  /\ WakeOneThreadAndUnlock(a, waiters, interrupted)
  /\ Go(a, IF a = User THEN "out" ELSE "handler")
  /\ UNCHANGED <<outstanding, stopped, waiters, signalled, kernel, cur, priv,
                 privWork, keep, halted>>

(* post_immediate_completion of a continuation by a handler.               *)
PostContinuation(t, o) ==
  /\ At(t, "handler") /\ life[o] = "new"
  /\ priv' = [priv EXCEPT ![t] = Append(@, Op(o))]
  /\ privWork' = [privWork EXCEPT ![t] = @ + 1]
  /\ life' = [life EXCEPT ![o] = "queued"]
  /\ UNCHANGED <<opq, outstanding, stopped, event, task, kernel, pc, cur, arg,
                 keep, halted>>

(* epoll_reactor::start_op for an operation that would block.              *)
StartOp(a, o) ==
  /\ Calls(a) /\ life[o] = "new"
  /\ life' = [life EXCEPT ![o] = "waiting"]
  /\ outstanding' = outstanding + 1
  /\ UNCHANGED <<opq, stopped, event, task, kernel, pc, mine, keep, halted>>

(* Variant: the operation stays in the reactor as well.                    *)
CancelOpKeeps(a, o) ==
  /\ Calls(a) /\ life[o] = "waiting"
  /\ opq' = Append(opq, Op(o))
  /\ UNCHANGED <<life, avail>>
  /\ WakeOneThreadAndUnlock(a, waiters, interrupted)
  /\ UNCHANGED <<outstanding, stopped, waiters, signalled, edge, pc, mine,
                 keep, halted>>

(* deregister_descriptor: a waiting operation is aborted and posted; its   *)
(* work has been counted.                                                  *)
CancelOp(a, o) ==
  /\ Calls(a) /\ life[o] = "waiting"
  /\ opq' = Append(opq, Op(o))
  /\ life' = [life EXCEPT ![o] = "queued"]
  /\ avail' = avail \ {o}
  /\ WakeOneThreadAndUnlock(a, waiters, interrupted)
  /\ UNCHANGED <<outstanding, stopped, waiters, signalled, edge, pc, mine,
                 keep, halted>>

(* stop() by the application.                                              *)
Stop(a) ==
  /\ Calls(a) /\ ~halted
  /\ halted' = TRUE
  /\ StopAllThreads
  /\ UNCHANGED <<opq, outstanding, kernel, pc, mine, life, keep>>

(* ~io_service::work, when the session is deleted.                         *)
ReleaseWork(a) ==
  /\ Calls(a) /\ keep
  /\ keep' = FALSE
  /\ outstanding' = outstanding - 1
  /\ IF outstanding = 1 THEN Go(a, "last") ELSE UNCHANGED pc
  /\ UNCHANGED <<opq, stopped, event, task, kernel, mine, life, halted>>

(* The kernel: a descriptor becomes ready, or has an event of another kind.*)
Ready(o) ==
  /\ life[o] = "waiting" /\ o \notin avail
  /\ edge' = edge \cup {o}
  /\ avail' \in {avail, avail \cup {o}}
  /\ UNCHANGED <<opq, outstanding, stopped, event, task, pc, mine, life, keep,
                 halted>>

-----------------------------------------------------------------------------
Init ==
  /\ opq = <<Task>> /\ stopped = FALSE
  /\ interrupted = TRUE /\ poke = TRUE
  /\ bit = FALSE /\ waiters = {} /\ signalled = {} /\ owes = {}
  /\ edge = {} /\ avail = {}
  /\ pc = [a \in Actors |-> "out"]
  /\ cur = [t \in Threads |-> None]
  /\ priv = [t \in Threads |-> <<>>] /\ privWork = [t \in Threads |-> 0]
  /\ life = [o \in Ops |-> "new"]
  /\ arg = [a \in Actors |-> None]
  /\ keep \in BOOLEAN /\ outstanding = IF keep THEN 1 ELSE 0
  /\ halted = FALSE

(* A thread of the io_service by itself.                                   *)
Service(t) ==
  \/ Loop(t) \/ Wake(t) \/ EpollWait(t) \/ TaskCleanup(t)
  \/ PerformIo(t) \/ WorkCleanup(t) \/ NoWorkLeft(t)

(* What every actor does once it has begun.                                *)
Proceeds(a) == CondSignal(a) \/ Push(a) \/ LastWork(a)

Program(a) ==
  \/ \E o \in Ops : Post(a, o) \/ StartOp(a, o) \/ CancelOp(a, o)
  \/ Stop(a) \/ ReleaseWork(a)

Next ==
  \/ \E a \in Actors : Proceeds(a) \/ Program(a)
  \/ \E t \in Threads :
       \/ Enter(t) \/ Service(t) \/ SpuriousWakeup(t) \/ HandlerReturns(t)
       \/ \E o \in Ops : PostContinuation(t, o)
  \/ \E o \in Ops : Ready(o)

Spec == Init /\ [][Next]_vars

(* Threads that have been lent to run() enter it, threads inside run() and *)
(* poll() go on, handlers return.  Nothing is assumed of further calls.    *)
FairSpec ==
  /\ Spec
  /\ \A a \in Actors : WF_vars(Proceeds(a))
  /\ \A t \in Threads : WF_vars(Service(t)) /\ WF_vars(HandlerReturns(t))
  /\ \A t \in Runners : WF_vars(Enter(t))

-----------------------------------------------------------------------------
(***************************************************************************)
(* Properties.                                                             *)
(***************************************************************************)

TypeOK ==
  /\ opq \in Seq(Entries \cup {Task})
  /\ outstanding \in Nat
  /\ {stopped, interrupted, bit, poke, keep, halted} \subseteq BOOLEAN
  /\ waiters \subseteq Runners /\ signalled \subseteq waiters
  /\ owes \subseteq Actors
  /\ edge \subseteq Ops /\ avail \subseteq Ops
  /\ pc \in [Actors -> PcValues]
  /\ cur \in [Threads -> Entries \cup {None}]
  /\ priv \in [Threads -> Seq(Entries)] /\ privWork \in [Threads -> Nat]
  /\ life \in [Ops -> Lives] /\ arg \in [Actors -> Ops \cup {None}]

Holding(t) == pc[t] \in {"block", "scan", "found"}

(* outstanding_work_ and the counts the threads keep for themselves add up *)
(* to the work there is: the session's io_service::work, each operation    *)
(* that has been started and not completed, and each handler that has      *)
(* returned and not been cleaned up after.  Were it less, run() would      *)
(* return with work left; were it more, it would never return.             *)
WorkCounted ==
  outstanding + Cardinality(UNION {{t} \X (1..privWork[t]) : t \in Threads})
    = (IF keep THEN 1 ELSE 0)
      + Cardinality({o \in Ops : life[o] \notin {"new", "done"}})
      + Cardinality({t \in Threads : pc[t] = "finish"})

(* The places an operation is queued in.                                   *)
Places(o) ==
  {<<"queue", i>> : i \in {j \in 1..Len(opq) : opq[j] = Op(o)}}
  \cup {p \in UNION {{t} \X (1..Len(priv[t])) : t \in Threads} :
           priv[p[1]][p[2]] = Op(o)}

(* No operation is queued twice, lost from the queues, or run by two       *)
(* threads; the reactor is run by at most one thread and never drops out   *)
(* of the queue; a descriptor's own entry, which is linked into the queue  *)
(* itself, is never put there while it is still in it.                     *)
EachQueuedOnce ==
  /\ \A o \in Ops :
       /\ life[o] = "queued" => \E p \in Places(o) : Places(o) = {p}
       /\ life[o] # "queued" => Places(o) = {}
  /\ \A o \in Ops, t, u \in Threads :
       /\ cur[t] = cur[u] /\ cur[t] = Op(o) => t = u
       /\ pc[t] = "found" /\ Io(o) \in Range(priv[t]) => Io(o) \notin Range(opq)
  /\ LET queued == {i \in 1..Len(opq) : opq[i] = Task}
         held   == {t \in Threads : Holding(t)} IN
     Cardinality(queued) + Cardinality(held) = 1

(* A thread that nothing will wake.                                        *)
Asleep(t) ==
  \/ pc[t] = "wait" /\ t \notin signalled
  \/ pc[t] = "block" /\ ~poke /\ edge = {}

(* A thread on its way to the queue.                                       *)
Comes(t) ==
  \/ pc[t] \in {"loop", "scan", "found", "finish", "last"}
  \/ pc[t] = "wait" /\ t \in signalled
  \/ pc[t] = "block" /\ (poke \/ edge # {})

(* No wake-up is lost: while something is in the queue and a thread of the *)
(* service sleeps, another is on its way to the queue or about to be       *)
(* woken.  It is not enough that a busy thread will come back, which may   *)
(* be inside a callback of the application for long.                       *)
NoLostWakeup ==
  ~stopped /\ opq # <<>> /\ (\E t \in Threads : Asleep(t))
    => owes # {} \/ \E t \in Threads : Comes(t)

(* While a session holds its io_service::work and the application has not  *)
(* called stop(), no thread stops the service or is about to.              *)
WorkKeepsRunning ==
  keep /\ ~halted => ~stopped /\ \A a \in Actors : pc[a] \notin {"zero", "last"}

(* The queue the rest of the program is written against: op_queue_, less   *)
(* the task.                                                               *)
H == INSTANCE HandlerQueue WITH
       Nothing <- None,
       queue   <- RemoveFirst(opq, Task),
       running <- cur

ImplementsHandlerQueue == H!Spec

(* What is queued is run, and an operation whose descriptor is ready is    *)
(* completed, unless the service stops; this with one thread in run() and  *)
(* whatever others do in poll().                                           *)
QueuedIsRun ==
  \A o \in Ops :
    life[o] = "queued" \/ (life[o] = "waiting" /\ o \in avail)
      ~> life[o] \in {"running", "done"} \/ stopped

(* After stop(), every thread returns from run().                          *)
StopReleasesAll == stopped ~> \A t \in Runners : pc[t] = "done"
=============================================================================
