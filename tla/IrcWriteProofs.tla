--------------------------- MODULE IrcWriteProofs ---------------------------
(***************************************************************************)
(* Proofs about IrcWrite, for any number of writes and threads, any sizes  *)
(* and any room in the kernel's send buffer: types, and what a success     *)
(* means (TypeInv); the strand (StrandInv) and the owner of each buffer    *)
(* (OwnInv), which need each other; what a write harms that outlives its   *)
(* session (HarmInv); lines in one piece (LineInv); and the order in which *)
(* writes begin (OrderInv).  The owner's proof sees the queue, the reactor,*)
(* the strand and the threads as places between which operations move.     *)
(***************************************************************************)
EXTENDS IrcWrite, SequenceElements, TLAPS

-----------------------------------------------------------------------------
(***************************************************************************)
(* Types, and what a success means.                                        *)
(***************************************************************************)

(* The parts of TypeOK.                                                    *)
SizeType ==
  /\ space \in 0..Window /\ wire \in Seq(Writes)
  /\ size \in [Writes -> 0..(MaxSize + 1)]
  /\ sent \in [Writes -> 0..(MaxSize + 1)]
  /\ \A w \in Writes : sent[w] <= size[w]

CodeType ==
  /\ buf \in [Writes -> {"none", "held", "freed", "leaked"}]
  /\ ec \in [Writes -> {"ok", "error"}]
  /\ result \in [Writes -> {"none", "ignored", "ok", "error"}]

QueueType ==
  /\ queue \in Seq(Async \cup {Strand})
  /\ own \in [Threads -> Seq(Async)]
  /\ blocked \in Seq(Async)

StrandType ==
  /\ waiting \in Seq(Async) /\ ready \in Seq(Async)
  /\ locked \in BOOLEAN /\ inside \subseteq Threads
  /\ todo \in [Threads -> Seq(Async)]

RestType ==
  /\ svc \in {"live", "freed"} /\ sess \in {"live", "freed"}
  /\ sock \in {"unopened", "connected", "shut", "closed"}
  /\ calls \in Seq(Writes) /\ overlap \in BOOLEAN
  /\ fate \in {"run", "exception", "use_after_free"}

LEMMA TypeParts ==
  /\ TypeOK <=> SizeType /\ CodeType /\ QueueType /\ StrandType /\ RestType
  /\ TypeOK' <=>
       SizeType' /\ CodeType' /\ QueueType' /\ StrandType' /\ RestType'
BY Zenon DEF TypeOK, SizeType, CodeType, QueueType, StrandType, RestType

(* A write that has not been called has no size; so nothing of it is sent. *)
SizeInv == \A w \in Writes : buf[w] = "none" => size[w] = 0

TypeInv == TypeOK /\ SizeInv /\ SentWhenOk

(* What a send of n units does to the kernel.                              *)
Sends(w, n) ==
  \E k \in 0..n :
    /\ sent' = [sent EXCEPT ![w] = sent[w] + k]
    /\ wire' \in Seq(Writes) /\ space' \in 0..Window

LEMMA SendFacts ==
  ASSUME TypeOK, NEW w \in Writes, NEW n \in Nat, Send(w, n)
  PROVE  Sends(w, n)
<1> DEFINE k == Least(space, n)
           r == [i \in 1..k |-> w]
<1>1. k \in 0..n /\ k <= space /\ space \in 0..Window /\ Window \in Nat
  BY WriteAssumption DEF TypeOK, Least
<1>2. wire' = wire \o r /\ sent' = [sent EXCEPT ![w] = sent[w] + k]
      /\ space' = space - k
  BY DEF Send
<1>3. r \in Seq(Writes)
  <2>1. r \in [1..k -> Writes] /\ k \in Nat
    BY <1>1
  <2> QED BY <2>1, SeqDef
<1> HIDE DEF k, r
<1>4. wire' \in Seq(Writes)
  BY <1>2, <1>3, ConcatProperties DEF TypeOK
<1>5. space' \in 0..Window
  BY <1>1, <1>2
<1> QED BY <1>1, <1>2, <1>4, <1>5 DEF Sends

LEMMA SameKernel ==
  ASSUME TypeOK, NEW w \in Writes, NEW n \in Nat, UNCHANGED kernel
  PROVE  Sends(w, n)
<1>1. sent' = [sent EXCEPT ![w] = sent[w] + 0] /\ 0 \in 0..n
  BY DEF TypeOK, kernel
<1> QED BY <1>1 DEF TypeOK, kernel, Sends

LEMMA AsyncWriteSomeFacts ==
  ASSUME TypeOK, NEW w \in Async, NEW n \in Nat, AsyncWriteSome(w, n)
  PROVE  /\ Sends(w, n)
         /\ ec' \in [Writes -> {"ok", "error"}]
         /\ blocked' = blocked \/ blocked' = Append(blocked, w)
         /\ blocked' \in Seq(Async)
<1>1. w \in Writes
  BY DEF Writes
<1>2. Send(w, n) => Sends(w, n)
  BY <1>1, SendFacts
<1>3. UNCHANGED kernel => Sends(w, n)
  BY <1>1, SameKernel
<1>4. \/ ec' = Put(ec, w, "error") /\ UNCHANGED kernel /\ blocked' = blocked
      \/ Send(w, n) /\ ec' = Put(ec, w, "ok") /\ blocked' = blocked
      \/ UNCHANGED kernel /\ ec' = ec /\ blocked' = Append(blocked, w)
  BY DEF AsyncWriteSome, kernel
<1>5. ec' \in [Writes -> {"ok", "error"}]
  BY <1>1, <1>4 DEF TypeOK, Put
<1>6. blocked' \in Seq(Async)
  <2>1. blocked \in Seq(Async)
    BY DEF TypeOK
  <2> QED BY <1>4, <2>1, ElemsOfAppend
<1> QED BY <1>2, <1>3, <1>4, <1>5, <1>6

(* Sends of no more than what is left keep the counts in order.            *)
LEMMA SendsLeft ==
  ASSUME TypeInv, NEW w \in Writes, Sends(w, Left(w)), size' = size
  PROVE  /\ sent' \in [Writes -> 0..(MaxSize + 1)]
         /\ \A v \in Writes : sent'[v] <= size'[v]
         /\ \A v \in Writes : sent[v] = size[v] => sent'[v] = size'[v]
         /\ wire' \in Seq(Writes) /\ space' \in 0..Window
<1>1. PICK k \in 0..Left(w) : sent' = [sent EXCEPT ![w] = sent[w] + k]
  BY DEF Sends
<1>2. MaxSize \in Nat
  BY WriteAssumption
<1>3. ASSUME NEW v \in Writes
      PROVE  /\ sent[v] \in Nat /\ size[v] \in Nat /\ sent[v] <= size[v]
             /\ size[v] <= MaxSize + 1
             /\ sent'[v] = IF v = w THEN sent[w] + k ELSE sent[v]
  BY <1>1, <1>2 DEF TypeInv, TypeOK
<1>4. sent[w] + k <= size[w] /\ k \in Nat
  BY <1>1, <1>3 DEF Left
<1>5. ASSUME NEW v \in Writes
      PROVE  /\ sent'[v] \in 0..(MaxSize + 1) /\ sent'[v] <= size'[v]
             /\ sent[v] = size[v] => sent'[v] = size'[v]
  BY <1>2, <1>3, <1>4
<1>6. sent' \in [Writes -> 0..(MaxSize + 1)]
  BY <1>1, <1>5 DEF TypeInv, TypeOK
<1> QED BY <1>5, <1>6 DEF Sends

LEMMA InitType == Init => TypeInv
<1> SUFFICES ASSUME Init PROVE TypeInv
  OBVIOUS
<1>1. MaxSize \in Nat /\ Window \in Nat
  BY WriteAssumption
<1>2. TypeOK
  <2>1. <<>> \in Seq(Writes) /\ <<>> \in Seq(Async)
        /\ <<>> \in Seq(Async \cup {Strand})
    BY EmptySeq
  <2>2. /\ size \in [Writes -> 0..(MaxSize + 1)] /\ sent = size
        /\ \A w \in Writes : sent[w] <= size[w]
    BY <1>1 DEF Init
  <2>3. /\ buf \in [Writes -> {"none", "held", "freed", "leaked"}]
        /\ ec \in [Writes -> {"ok", "error"}]
        /\ result \in [Writes -> {"none", "ignored", "ok", "error"}]
    BY DEF Init
  <2>4. own \in [Threads -> Seq(Async)] /\ todo \in [Threads -> Seq(Async)]
    BY <2>1 DEF Init
  <2>5. /\ queue \in Seq(Async \cup {Strand}) /\ blocked \in Seq(Async)
        /\ waiting \in Seq(Async) /\ ready \in Seq(Async)
        /\ wire \in Seq(Writes) /\ calls \in Seq(Writes)
    BY <2>1 DEF Init
  <2>6. space \in 0..Window /\ inside \subseteq Threads
    BY <1>1 DEF Init
  <2>8. locked \in BOOLEAN /\ overlap \in BOOLEAN
    <3>1. locked = FALSE /\ overlap = FALSE
      BY DEF Init
    <3> QED BY <3>1
  <2>7. /\ svc \in {"live", "freed"} /\ sess \in {"live", "freed"}
        /\ sock \in {"unopened", "connected", "shut", "closed"}
        /\ fate \in {"run", "exception", "use_after_free"}
    BY DEF Init
  <2> QED BY <2>2, <2>3, <2>4, <2>5, <2>6, <2>7, <2>8 DEF TypeOK
<1>3. SizeInv /\ SentWhenOk
  BY DEF Init, SizeInv, SentWhenOk
<1> QED BY <1>2, <1>3 DEF TypeInv

(* The parts that an action leaves alone.                                  *)
LEMMA Unchanged ==
  /\ SizeType /\ UNCHANGED <<kernel, size>> => SizeType'
  /\ CodeType /\ UNCHANGED <<buf, ec, result>> => CodeType'
  /\ QueueType /\ UNCHANGED <<queue, own, blocked>> => QueueType'
  /\ StrandType /\ UNCHANGED strand => StrandType'
  /\ RestType /\ UNCHANGED <<svc, sess, sock, history, fate>> => RestType'
<1>1. SizeType /\ UNCHANGED <<kernel, size>> => SizeType'
  BY DEF SizeType, kernel
<1>2. CodeType /\ UNCHANGED <<buf, ec, result>> => CodeType'
  BY DEF CodeType
<1>3. QueueType /\ UNCHANGED <<queue, own, blocked>> => QueueType'
  BY DEF QueueType
<1>4. StrandType /\ UNCHANGED strand => StrandType'
  BY Zenon DEF StrandType, strand
<1>5. RestType /\ UNCHANGED <<svc, sess, sock, history, fate>> => RestType'
  BY Zenon DEF RestType, history
<1> QED BY <1>1, <1>2, <1>3, <1>4, <1>5

LEMMA DispatchType ==
  ASSUME StrandType, NEW t \in Threads, NEW w \in Async, Dispatch(t, w)
  PROVE  StrandType'
<1>1. CASE ~locked
  <2>1. /\ waiting' \in Seq(Async) /\ ready' \in Seq(Async)
        /\ inside' \subseteq Threads
    BY <1>1 DEF StrandType, Dispatch
  <2>2. <<w>> \in Seq(Async)
    OBVIOUS
  <2>3. todo' \in [Threads -> Seq(Async)]
    BY <1>1, <2>2 DEF StrandType, Dispatch, Put
  <2>4. locked' = TRUE
    BY <1>1 DEF Dispatch
  <2> QED BY <2>1, <2>3, <2>4 DEF StrandType
<1>2. CASE locked
  <2>1. waiting' \in Seq(Async)
    <3>1. waiting' = Append(waiting, w) /\ waiting \in Seq(Async)
      BY <1>2 DEF StrandType, Dispatch
    <3> QED BY <3>1, ElemsOfAppend
  <2>2. UNCHANGED <<locked, ready, inside, todo>>
    BY <1>2 DEF Dispatch
  <2> QED BY <2>1, <2>2 DEF StrandType
<1> QED BY <1>1, <1>2

(* cq_irc_session_write and cq_irc_session_write_sync.                     *)
LEMMA WriteType ==
  ASSUME TypeInv, NEW w \in Writes, NEW n \in 1..MaxSize,
         cq_irc_session_write(w, n) \/ cq_irc_session_write_sync(w, n)
  PROVE  TypeInv'
<1>1. /\ SizeType /\ CodeType /\ QueueType /\ StrandType /\ RestType
      /\ TypeOK /\ n \in Nat /\ n + 1 \in 0..(MaxSize + 1) /\ MaxSize \in Nat
  BY TypeParts, WriteAssumption DEF TypeInv
<1>2. /\ buf[w] = "none" /\ result[w] = "none"
      /\ buf' = Put(buf, w, "held") /\ size' = Put(size, w, n + 1)
      /\ calls' = Append(calls, w)
      /\ overlap' = (overlap \/ Outstanding # {})
      /\ UNCHANGED <<svc, sess, sock, result, own, strand>>
      /\ fate' = "run"
  BY DEF cq_irc_session_write, cq_irc_session_write_sync, NewBuffer, Callable,
         Runs
<1>3. sent[w] = 0
  <2>1. size[w] = 0 /\ sent[w] \in Nat /\ sent[w] <= size[w]
    BY <1>1, <1>2 DEF TypeInv, SizeInv, SizeType
  <2> QED BY <2>1
<1>4. Sends(w, n + 1) /\ ec' \in [Writes -> {"ok", "error"}] /\ QueueType'
  <2>1. CASE cq_irc_session_write(w, n)
    <3>1. w \in Async /\ AsyncWriteSome(w, n + 1) /\ queue' = Posted(queue, w)
      BY <2>1 DEF cq_irc_session_write
    <3>2. /\ Sends(w, n + 1) /\ ec' \in [Writes -> {"ok", "error"}]
          /\ blocked' \in Seq(Async)
      BY <1>1, <3>1, AsyncWriteSomeFacts
    <3>3. queue' \in Seq(Async \cup {Strand})
      BY <1>1, <3>1, ElemsOfAppend DEF Posted, QueueType
    <3> QED BY <1>1, <1>2, <3>2, <3>3 DEF QueueType
  <2>2. CASE cq_irc_session_write_sync(w, n)
    <3>1. UNCHANGED <<kernel, ec, queue, blocked>>
      BY <2>2 DEF cq_irc_session_write_sync
    <3>2. Sends(w, n + 1)
      BY <1>1, <3>1, SameKernel
    <3> QED BY <1>1, <1>2, <3>1, <3>2 DEF QueueType, CodeType
  <2> QED BY <2>1, <2>2
<1>5. SizeType' /\ SizeInv' /\ SentWhenOk'
  <2>1. PICK k \in 0..(n + 1) : sent' = [sent EXCEPT ![w] = sent[w] + k]
    BY <1>4 DEF Sends
  <2>2. ASSUME NEW v \in Writes
        PROVE  /\ size'[v] = IF v = w THEN n + 1 ELSE size[v]
               /\ sent'[v] = IF v = w THEN k ELSE sent[v]
               /\ buf'[v] = IF v = w THEN "held" ELSE buf[v]
    BY <1>1, <1>2, <1>3, <2>1 DEF SizeType, CodeType, Put
  <2>3. /\ size' \in [Writes -> 0..(MaxSize + 1)]
        /\ sent' \in [Writes -> 0..(MaxSize + 1)]
    BY <1>1, <1>2, <1>3, <2>1 DEF SizeType, Put
  <2>4. \A v \in Writes : sent'[v] <= size'[v]
    BY <1>1, <2>1, <2>2 DEF SizeType
  <2>5. SizeInv'
    BY <2>2 DEF SizeInv, TypeInv
  <2>6. SentWhenOk'
    BY <1>2, <2>2 DEF SentWhenOk, TypeInv
  <2> QED BY <1>4, <2>3, <2>4, <2>5, <2>6 DEF SizeType, Sends
<1>6. CodeType'
  BY <1>1, <1>2, <1>4 DEF CodeType, Put
<1>7. StrandType'
  BY <1>1, <1>2, Unchanged
<1>8. RestType'
  <2>1. overlap' \in BOOLEAN
    BY <1>1, <1>2 DEF RestType
  <2>2. calls' \in Seq(Writes)
    BY <1>1, <1>2, ElemsOfAppend DEF RestType
  <2>3. /\ svc' \in {"live", "freed"} /\ sess' \in {"live", "freed"}
        /\ sock' \in {"unopened", "connected", "shut", "closed"}
        /\ fate' \in {"run", "exception", "use_after_free"}
    BY <1>1, <1>2 DEF RestType
  <2> QED BY Zenon, <2>1, <2>2, <2>3 DEF RestType
<1> QED BY <1>4, <1>5, <1>6, <1>7, <1>8, TypeParts DEF TypeInv

(* The steps of cq_irc_session_write_sync.                                 *)
LEMMA SyncType ==
  ASSUME TypeInv, NEW w \in Sync, SyncSend(w) \/ SyncDone(w) \/ SyncThrows(w)
  PROVE  TypeInv'
<1>1. /\ SizeType /\ CodeType /\ QueueType /\ StrandType /\ RestType
      /\ TypeOK /\ w \in Writes
  BY TypeParts DEF TypeInv, Writes
<1>2. \A v \in Writes :
        sent[v] \in Nat /\ size[v] \in Nat /\ sent[v] <= size[v]
  BY <1>1, WriteAssumption DEF SizeType
<1>3. CASE SyncSend(w)
  <2>1. /\ UNCHANGED <<buf, ec, result>> /\ size' = size
        /\ UNCHANGED <<queue, own, blocked>> /\ UNCHANGED strand
        /\ UNCHANGED <<svc, sess, sock, history, fate>> /\ Send(w, Left(w))
    BY <1>3 DEF SyncSend, Runs, buffers
  <2>2. CodeType' /\ QueueType' /\ StrandType' /\ RestType'
    BY <1>1, <2>1, Unchanged
  <2>3. Sends(w, Left(w))
    <3>1. Left(w) \in Nat
      BY <1>1, <1>2 DEF Left
    <3> QED BY <1>1, <2>1, <3>1, SendFacts
  <2>4. SizeType' /\ SizeInv' /\ SentWhenOk'
    BY <1>1, <2>1, <2>3, SendsLeft DEF SizeType, SizeInv, SentWhenOk, TypeInv
  <2> QED BY <2>2, <2>4, TypeParts DEF TypeInv
<1>4. CASE SyncDone(w)
  <2>1. /\ Left(w) = 0 /\ buf' = Put(buf, w, "freed")
        /\ result' = Put(result, w, "ok")
        /\ UNCHANGED <<kernel, size>> /\ ec' = ec
        /\ UNCHANGED <<queue, own, blocked>> /\ UNCHANGED strand
        /\ UNCHANGED <<svc, sess, sock, history, fate>>
    BY <1>4 DEF SyncDone, Runs
  <2>2. SizeType' /\ QueueType' /\ StrandType' /\ RestType'
    BY <1>1, <2>1, Unchanged
  <2>3. CodeType'
    BY <1>1, <2>1 DEF CodeType, Put
  <2>4. SizeInv'
    BY <1>1, <2>1 DEF CodeType, SizeInv, TypeInv, Put
  <2>5. SentWhenOk'
    <3>1. sent' = sent /\ size' = size
      BY <2>1 DEF kernel
    <3>2. sent[w] = size[w]
      BY <1>1, <1>2, <2>1 DEF Left
    <3> QED BY <1>1, <2>1, <3>1, <3>2 DEF CodeType, SentWhenOk, TypeInv, Put
  <2> QED BY <2>2, <2>3, <2>4, <2>5, TypeParts DEF TypeInv
<1>5. CASE SyncThrows(w)
  <2>1. /\ buf' = Put(buf, w, "leaked") /\ fate' = "exception"
        /\ UNCHANGED <<kernel, size>> /\ ec' = ec /\ result' = result
        /\ UNCHANGED <<queue, own, blocked>> /\ UNCHANGED strand
        /\ UNCHANGED <<svc, sess, sock, history>>
    BY <1>5 DEF SyncThrows
  <2>2. SizeType' /\ QueueType' /\ StrandType'
    BY <1>1, <2>1, Unchanged
  <2>3. CodeType'
    BY <1>1, <2>1 DEF CodeType, Put
  <2>4. SizeInv' /\ SentWhenOk'
    BY <1>1, <2>1 DEF CodeType, SizeInv, SentWhenOk, TypeInv, Put, kernel
  <2>5. RestType'
    BY Zenon, <1>1, <2>1 DEF RestType, history
  <2> QED BY <2>2, <2>3, <2>4, <2>5, TypeParts DEF TypeInv
<1> QED BY <1>3, <1>4, <1>5

(* A thread takes the head of the queue.                                   *)
LEMMA TakeType ==
  ASSUME TypeInv, NEW t \in Threads, RunCompletion(t) \/ RunStrand(t)
  PROVE  TypeInv'
<1>1. /\ SizeType /\ CodeType /\ QueueType /\ StrandType /\ RestType
  BY TypeParts DEF TypeInv
<1>2. /\ UNCHANGED <<kernel, size>> /\ UNCHANGED <<buf, ec, result>>
      /\ UNCHANGED <<svc, sess, sock, history, fate>>
      /\ UNCHANGED <<own, blocked>> /\ queue # <<>> /\ queue' = Tail(queue)
  BY DEF RunCompletion, RunStrand, Runs, buffers
<1>3. SizeType' /\ CodeType' /\ RestType'
  BY <1>1, <1>2, Unchanged
<1>4. Head(queue) \in Async \cup {Strand} /\ QueueType'
  BY <1>1, <1>2, ElemsOfTail DEF QueueType
<1>5. StrandType'
  <2>1. CASE RunCompletion(t)
    <3>1. Head(queue) \in Async /\ Dispatch(t, Head(queue))
      BY <1>4, <2>1 DEF RunCompletion
    <3> QED BY <1>1, <3>1, DispatchType
  <2>2. CASE RunStrand(t)
    <3>1. /\ inside' = inside \cup {t} /\ todo' = Put(todo, t, ready)
          /\ ready' = <<>> /\ locked' = locked /\ waiting' = waiting
      BY <2>2 DEF RunStrand
    <3>2. ready' \in Seq(Async)
      BY <3>1, EmptySeq
    <3>3. todo' \in [Threads -> Seq(Async)] /\ inside' \subseteq Threads
          /\ waiting' \in Seq(Async)
      BY <1>1, <3>1 DEF StrandType, Put
    <3> QED BY Zenon, <1>1, <3>1, <3>2, <3>3 DEF StrandType
  <2> QED BY <2>1, <2>2
<1>6. SizeInv' /\ SentWhenOk'
  BY <1>2 DEF SizeInv, SentWhenOk, TypeInv, kernel
<1> QED BY <1>3, <1>4, <1>5, <1>6, TypeParts DEF TypeInv

LEMMA WritableType ==
  ASSUME TypeInv, NEW t \in Threads, Writable(t)
  PROVE  TypeInv'
<1> DEFINE w == Head(blocked)
<1>1. /\ SizeType /\ CodeType /\ QueueType /\ StrandType /\ RestType /\ TypeOK
  BY TypeParts DEF TypeInv
<1>2. /\ blocked # <<>> /\ blocked' = Tail(blocked)
      /\ UNCHANGED <<svc, sess, sock, history, fate>>
      /\ own' = own /\ UNCHANGED <<size, buf, result>>
  BY DEF Writable, Runs, buffers
<1>3. w \in Async /\ w \in Writes /\ blocked' \in Seq(Async)
  BY <1>1, <1>2, ElemsOfTail DEF QueueType, Writes
<1>4. /\ \/ Send(w, Left(w)) /\ ec' = Put(ec, w, "ok")
         \/ ec' = Put(ec, w, "error") /\ UNCHANGED kernel
      /\ \/ Dispatch(t, w) /\ queue' = queue
         \/ queue' = Append(queue, w) /\ UNCHANGED strand
  BY DEF Writable
<1> HIDE DEF w
<1>5. Sends(w, Left(w))
  <2>1. Left(w) \in Nat
    BY <1>1, <1>3, WriteAssumption DEF SizeType, Left
  <2> QED BY <1>1, <1>3, <1>4, <2>1, SendFacts, SameKernel
<1>6. SizeType' /\ SentWhenOk'
  BY <1>1, <1>2, <1>3, <1>5, SendsLeft DEF SizeType, SentWhenOk, TypeInv
<1>7. CodeType' /\ SizeInv'
  BY <1>1, <1>2, <1>3, <1>4 DEF CodeType, SizeInv, TypeInv, Put
<1>8. StrandType'
  BY <1>1, <1>3, <1>4, DispatchType, Unchanged
<1>9. QueueType'
  <2>1. queue \in Seq(Async \cup {Strand}) /\ w \in Async \cup {Strand}
    BY <1>1, <1>3 DEF QueueType
  <2>2. Append(queue, w) \in Seq(Async \cup {Strand})
    BY <2>1, ElemsOfAppend
  <2>3. queue' = queue \/ queue' = Append(queue, w)
    BY <1>4
  <2>4. queue' \in Seq(Async \cup {Strand})
    BY <2>1, <2>2, <2>3
  <2> QED BY <1>1, <1>2, <1>3, <2>4 DEF QueueType
<1>10. RestType'
  BY <1>1, <1>2, Unchanged
<1> QED BY <1>6, <1>7, <1>8, <1>9, <1>10, TypeParts DEF TypeInv

(* What a thread runs in the strand, and what it has left.                 *)
LEMMA ResumesType ==
  ASSUME StrandType, NEW t \in Threads, NEW w \in Async, Resumes(t, w),
         todo' = Put(todo, t, Tail(todo[t])),
         UNCHANGED <<locked, waiting, ready, inside>>
  PROVE  StrandType'
<1>1. todo[t] \in Seq(Async) /\ todo[t] # <<>>
  BY DEF StrandType, Resumes
<1>2. Tail(todo[t]) \in Seq(Async)
  BY <1>1, ElemsOfTail
<1>3. todo' \in [Threads -> Seq(Async)]
  BY <1>2 DEF StrandType, Put
<1> QED BY Zenon, <1>3 DEF StrandType

LEMMA ResumeType ==
  ASSUME TypeInv, NEW t \in Threads, NEW w \in Async,
         WriteMore(t, w) \/ WriteMoreFreed(t, w) \/ on_write(t, w)
  PROVE  TypeInv'
<1>1. /\ SizeType /\ CodeType /\ QueueType /\ StrandType /\ RestType
      /\ TypeOK /\ w \in Writes
  BY TypeParts DEF TypeInv, Writes
<1>2. CASE WriteMore(t, w)
  <2>1. /\ Resumes(t, w) /\ AsyncWriteSome(w, Left(w))
        /\ own' = Put(own, t, Posted(own[t], w))
        /\ todo' = Put(todo, t, Tail(todo[t]))
        /\ UNCHANGED <<svc, sess, sock, history, fate>>
        /\ UNCHANGED <<size, buf, result>> /\ queue' = queue
        /\ UNCHANGED <<locked, waiting, ready, inside>>
    BY <1>2 DEF WriteMore, Runs, buffers
  <2>2. /\ Sends(w, Left(w)) /\ ec' \in [Writes -> {"ok", "error"}]
        /\ blocked' \in Seq(Async)
    <3>1. Left(w) \in Nat
      BY <1>1, WriteAssumption DEF SizeType, Left
    <3> QED BY <1>1, <2>1, <3>1, AsyncWriteSomeFacts
  <2>3. SizeType' /\ SentWhenOk'
    BY <1>1, <2>1, <2>2, SendsLeft DEF SizeType, SentWhenOk, TypeInv
  <2>4. CodeType' /\ SizeInv'
    BY <1>1, <2>1, <2>2 DEF CodeType, SizeInv, TypeInv
  <2>5. StrandType' /\ RestType'
    BY <1>1, <2>1, ResumesType, Unchanged
  <2>6. QueueType'
    <3>1. own[t] \in Seq(Async)
      BY <1>1 DEF QueueType
    <3>2. Posted(own[t], w) \in Seq(Async)
      BY <3>1, ElemsOfAppend DEF Posted
    <3>3. own' \in [Threads -> Seq(Async)]
      BY <1>1, <2>1, <3>2 DEF QueueType, Put
    <3> QED BY <1>1, <2>1, <2>2, <3>3 DEF QueueType
  <2> QED BY <2>3, <2>4, <2>5, <2>6, TypeParts DEF TypeInv
<1>3. CASE WriteMoreFreed(t, w)
  <2>1. /\ UNCHANGED <<kernel, size>> /\ UNCHANGED <<buf, ec, result>>
        /\ UNCHANGED <<queue, own, blocked>> /\ UNCHANGED strand
        /\ UNCHANGED <<svc, sess, sock, history>> /\ fate' = "use_after_free"
    BY <1>3 DEF WriteMoreFreed, buffers
  <2>2. SizeType' /\ CodeType' /\ QueueType' /\ StrandType'
    BY <1>1, <2>1, Unchanged
  <2>3. RestType'
    BY Zenon, <1>1, <2>1 DEF RestType, history
  <2>4. SizeInv' /\ SentWhenOk'
    BY <2>1 DEF SizeInv, SentWhenOk, TypeInv, kernel
  <2> QED BY <2>2, <2>3, <2>4, TypeParts DEF TypeInv
<1>4. CASE on_write(t, w)
  <2>1. /\ Resumes(t, w) /\ Finished(w) /\ buf' = Put(buf, w, "freed")
        /\ result' = Put(result, w, ec[w])
        /\ todo' = Put(todo, t, Tail(todo[t]))
        /\ UNCHANGED <<kernel, size>> /\ ec' = ec
        /\ UNCHANGED <<queue, own, blocked>>
        /\ UNCHANGED <<svc, sess, sock, history, fate>>
        /\ UNCHANGED <<locked, waiting, ready, inside>>
    BY <1>4 DEF on_write, Runs
  <2>2. SizeType' /\ QueueType' /\ StrandType' /\ RestType'
    BY <1>1, <2>1, ResumesType, Unchanged
  <2>3. CodeType' /\ SizeInv'
    BY <1>1, <2>1 DEF CodeType, SizeInv, TypeInv, Put
  <2>4. SentWhenOk'
    <3>1. sent' = sent /\ size' = size
      BY <2>1 DEF kernel
    <3>2. ec[w] = "ok" => sent[w] = size[w]
      BY <1>1, <2>1, WriteAssumption DEF Finished, Left, SizeType
    <3> QED BY <1>1, <2>1, <3>1, <3>2 DEF CodeType, SentWhenOk, TypeInv, Put
  <2> QED BY <2>2, <2>3, <2>4, TypeParts DEF TypeInv
<1> QED BY <1>2, <1>3, <1>4

LEMMA LeaveType ==
  ASSUME TypeInv, NEW t \in Threads, LeaveStrand(t)
  PROVE  TypeInv'
<1> DEFINE again == IF waiting = <<>> THEN <<>> ELSE <<Strand>>
<1>1. SizeType /\ CodeType /\ QueueType /\ StrandType /\ RestType
  BY TypeParts DEF TypeInv
<1>2. /\ UNCHANGED <<kernel, size>> /\ UNCHANGED <<buf, ec, result>>
      /\ UNCHANGED <<svc, sess, sock, history, fate>>
      /\ blocked' = blocked /\ todo' = todo
      /\ inside' = inside \ {t} /\ ready' = waiting /\ waiting' = <<>>
      /\ locked' = (waiting # <<>>) /\ own' = Put(own, t, <<>>)
      /\ queue' \in {queue \o again \o own[t], queue \o own[t] \o again}
  BY DEF LeaveStrand, Runs, buffers
<1>3. SizeType' /\ CodeType' /\ RestType'
  BY <1>1, <1>2, Unchanged
<1>4. StrandType'
  <2>1. waiting' \in Seq(Async) /\ ready' \in Seq(Async)
    BY <1>1, <1>2, EmptySeq DEF StrandType
  <2>2. inside' \subseteq Threads /\ locked' \in BOOLEAN
    BY <1>1, <1>2 DEF StrandType
  <2> QED BY Zenon, <1>1, <1>2, <2>1, <2>2 DEF StrandType
<1>5. QueueType'
  <2> DEFINE S == Async \cup {Strand}
  <2>1. own[t] \in Seq(S) /\ queue \in Seq(S) /\ again \in Seq(S)
    <3>1. own[t] \in Seq(Async) /\ Async \subseteq S
      BY <1>1 DEF QueueType
    <3>2. own[t] \in Seq(S)
      BY <3>1, SeqMonotonic
    <3>3. again \in Seq(S)
      <4>1. <<>> \in Seq(S) /\ Strand \in S
        BY EmptySeq
      <4>2. <<Strand>> \in Seq(S)
        BY <4>1, ElemsOfAppend
      <4> QED BY <4>1, <4>2
    <3> QED BY <1>1, <3>2, <3>3 DEF QueueType
  <2> HIDE DEF S, again
  <2>2. queue \o again \in Seq(S) /\ queue \o own[t] \in Seq(S)
    BY <2>1, ElemsOfConcat
  <2>3. queue' \in Seq(S)
    <3>1. /\ (queue \o again) \o own[t] \in Seq(S)
          /\ (queue \o own[t]) \o again \in Seq(S)
      BY <2>1, <2>2, ElemsOfConcat
    <3> QED BY <1>2, <3>1
  <2>4. own' \in [Threads -> Seq(Async)]
    BY <1>1, <1>2, EmptySeq DEF QueueType, Put
  <2> QED BY <1>1, <1>2, <2>3, <2>4 DEF QueueType, S
<1>6. SizeInv' /\ SentWhenOk'
  BY <1>2 DEF SizeInv, SentWhenOk, TypeInv, kernel
<1> QED BY <1>3, <1>4, <1>5, <1>6, TypeParts DEF TypeInv

LEMMA NothingType ==
  ASSUME TypeInv, NEW w \in Writes, WriteNothing(w)
  PROVE  TypeInv'
<1>1. SizeType /\ CodeType /\ QueueType /\ StrandType /\ RestType
  BY TypeParts DEF TypeInv
<1>2. /\ result' = Put(result, w, "ignored")
      /\ UNCHANGED <<kernel, size>> /\ buf' = buf /\ ec' = ec
      /\ UNCHANGED <<queue, own, blocked>> /\ UNCHANGED strand
      /\ UNCHANGED <<svc, sess, sock, history, fate>>
  BY DEF WriteNothing, Runs
<1>3. SizeType' /\ QueueType' /\ StrandType' /\ RestType'
  BY <1>1, <1>2, Unchanged
<1>4. CodeType' /\ SizeInv' /\ SentWhenOk'
  BY <1>1, <1>2 DEF CodeType, SizeInv, SentWhenOk, TypeInv, Put, kernel
<1> QED BY <1>3, <1>4, TypeParts DEF TypeInv

LEMMA KernelType ==
  ASSUME TypeInv, Connects \/ Drains \/ Breaks
  PROVE  TypeInv'
<1>1. SizeType /\ CodeType /\ QueueType /\ StrandType /\ RestType
  BY TypeParts DEF TypeInv
<1>2. /\ UNCHANGED <<buf, ec, result, size, sent, wire>>
      /\ UNCHANGED <<queue, own, blocked>> /\ UNCHANGED strand
      /\ UNCHANGED <<svc, sess, calls, overlap>> /\ fate' = fate
      /\ space' = space \/ (space < Window /\ space' = space + 1)
      /\ sock' \in {sock, "connected", "shut"}
  BY DEF Connects, Drains, Breaks, Runs, buffers, kernel, history
<1>3. CodeType' /\ QueueType' /\ StrandType'
  BY <1>1, <1>2, Unchanged
<1>4. SizeType'
  <2>1. space' \in 0..Window
    BY <1>1, <1>2, WriteAssumption DEF SizeType
  <2> QED BY <1>1, <1>2, <2>1 DEF SizeType
<1>5. RestType'
  <2>1. sock' \in {"unopened", "connected", "shut", "closed"}
    BY <1>1, <1>2 DEF RestType
  <2> QED BY Zenon, <1>1, <1>2, <2>1 DEF RestType
<1>6. SizeInv' /\ SentWhenOk'
  BY <1>2 DEF SizeInv, SentWhenOk, TypeInv
<1> QED BY <1>3, <1>4, <1>5, <1>6, TypeParts DEF TypeInv

LEMMA CloseType ==
  ASSUME TypeInv, Disconnect \/ Destroy
  PROVE  TypeInv'
<1>1. SizeType /\ CodeType /\ QueueType /\ StrandType /\ RestType
  BY TypeParts DEF TypeInv
<1>2. /\ sock' = "closed" /\ queue' = queue \o blocked /\ blocked' = <<>>
      /\ ec' = [w \in Writes |-> IF \E i \in 1..Len(blocked) : blocked[i] = w
                                 THEN "error" ELSE ec[w]]
      /\ UNCHANGED <<kernel, size>> /\ buf' = buf /\ result' = result
      /\ UNCHANGED <<svc, calls, overlap>> /\ own' = own /\ UNCHANGED strand
      /\ fate' = fate
      /\ sess' = sess \/ sess' = "freed"
  BY DEF Disconnect, Destroy, Close, Runs, buffers, history
<1>3. SizeType' /\ StrandType'
  BY <1>1, <1>2, Unchanged
<1>4. CodeType'
  <2>1. ec' \in [Writes -> {"ok", "error"}]
    BY <1>1, <1>2 DEF CodeType
  <2> QED BY <1>1, <1>2, <2>1 DEF CodeType
<1>5. QueueType'
  <2> DEFINE S == Async \cup {Strand}
  <2>1. queue \in Seq(S) /\ blocked \in Seq(Async) /\ Async \subseteq S
    BY <1>1 DEF QueueType
  <2> HIDE DEF S
  <2>2. blocked \in Seq(S)
    BY <2>1, SeqMonotonic
  <2>3. queue' \in Seq(S) /\ blocked' \in Seq(Async)
    BY <1>2, <2>1, <2>2, ElemsOfConcat, EmptySeq
  <2> QED BY <1>1, <1>2, <2>3 DEF QueueType, S
<1>6. RestType'
  <2>1. sess' \in {"live", "freed"}
        /\ sock' \in {"unopened", "connected", "shut", "closed"}
    BY <1>1, <1>2 DEF RestType
  <2> QED BY Zenon, <1>1, <1>2, <2>1 DEF RestType
<1>7. SizeInv' /\ SentWhenOk'
  BY <1>2 DEF SizeInv, SentWhenOk, TypeInv, kernel
<1> QED BY <1>3, <1>4, <1>5, <1>6, <1>7, TypeParts DEF TypeInv

LEMMA DestroyType ==
  ASSUME TypeInv, DestroyService
  PROVE  TypeInv'
<1>1. SizeType /\ CodeType /\ QueueType /\ StrandType /\ RestType
  BY TypeParts DEF TypeInv
<1>2. /\ svc' = "freed"
      /\ queue' = <<>> /\ blocked' = <<>> /\ waiting' = <<>> /\ ready' = <<>>
      /\ buf' = [w \in Writes |-> IF buf[w] = "held" THEN "leaked" ELSE buf[w]]
      /\ UNCHANGED <<kernel, size>> /\ ec' = ec /\ result' = result
      /\ UNCHANGED <<sess, sock, calls, overlap>> /\ own' = own /\ fate' = fate
      /\ locked' = locked /\ inside' = inside /\ todo' = todo
  BY DEF DestroyService, Runs, history
<1>3. <<>> \in Seq(Async) /\ <<>> \in Seq(Async \cup {Strand})
  BY EmptySeq
<1>4. SizeType'
  BY <1>1, <1>2, Unchanged
<1>5. CodeType' /\ SizeInv' /\ SentWhenOk'
  BY <1>1, <1>2 DEF CodeType, SizeInv, SentWhenOk, TypeInv, kernel
<1>6. QueueType'
  BY <1>1, <1>2, <1>3 DEF QueueType
<1>7. StrandType'
  BY Zenon, <1>1, <1>2, <1>3 DEF StrandType
<1>8. RestType'
  <2>1. svc' \in {"live", "freed"}
    BY <1>2
  <2> QED BY Zenon, <1>1, <1>2, <2>1 DEF RestType
<1> QED BY <1>4, <1>5, <1>6, <1>7, <1>8, TypeParts DEF TypeInv

LEMMA StutterType == TypeInv /\ UNCHANGED vars => TypeInv'
<1> SUFFICES ASSUME TypeInv, UNCHANGED vars PROVE TypeInv'
  OBVIOUS
<1>1. /\ UNCHANGED <<kernel, size>> /\ UNCHANGED <<buf, ec, result>>
      /\ UNCHANGED <<queue, own, blocked>> /\ UNCHANGED strand
      /\ UNCHANGED <<svc, sess, sock, history, fate>>
  BY DEF vars, kernel, strand, history
<1>2. SizeInv' /\ SentWhenOk'
  BY <1>1 DEF TypeInv, SizeInv, SentWhenOk, kernel
<1> QED BY <1>1, <1>2, Unchanged, TypeParts DEF TypeInv

LEMMA TypeStep == TypeInv /\ [Next]_vars => TypeInv'
<1> SUFFICES ASSUME TypeInv, [Next]_vars PROVE TypeInv'
  OBVIOUS
<1>1. CASE \E w \in Writes : WriteNothing(w)
  BY <1>1, NothingType
<1>2. CASE \E w \in Writes, n \in 1..MaxSize :
             cq_irc_session_write(w, n) \/ cq_irc_session_write_sync(w, n)
  BY <1>2, WriteType
<1>3. CASE \E w \in Sync : SyncSend(w) \/ SyncDone(w) \/ SyncThrows(w)
  BY <1>3, SyncType
<1>4. CASE \E t \in Threads : Service(t)
  BY <1>4, TakeType, WritableType, LeaveType, ResumeType DEF Service
<1>5. CASE Connects \/ Drains \/ Breaks
  BY <1>5, KernelType
<1>6. CASE Disconnect \/ Destroy
  BY <1>6, CloseType
<1>7. CASE DestroyService
  BY <1>7, DestroyType
<1>8. CASE UNCHANGED vars
  BY <1>8, StutterType
<1> QED BY <1>1, <1>2, <1>3, <1>4, <1>5, <1>6, <1>7, <1>8 DEF Next

(* Whatever the application, the kernel and the peer do, the variables     *)
(* keep their types; no more of a buffer is sent than it holds.            *)
THEOREM TypeCorrect == Spec => []TypeOK
<1>1. TypeInv => TypeOK
  BY DEF TypeInv
<1> QED BY <1>1, InitType, TypeStep, PTL DEF Spec

(* on_write is told of success, and cq_irc_session_write_sync returns,     *)
(* only when the whole line has been sent, however the sends were cut.     *)
THEOREM SuccessMeansSent == Spec => []SentWhenOk
<1>1. TypeInv => SentWhenOk
  BY DEF TypeInv
<1> QED BY <1>1, InitType, TypeStep, PTL DEF Spec

-----------------------------------------------------------------------------
(***************************************************************************)
(* The places where an operation may be: what is in which, and an          *)
(* operation that goes from one to another.                                *)
(***************************************************************************)

Places == ({"queue", "blocked", "waiting", "ready"} \X {0})
            \cup ({"own", "todo"} \X Threads)

Holds == [p \in Places |-> CASE p[1] = "queue"   -> queue
                             [] p[1] = "blocked" -> blocked
                             [] p[1] = "waiting" -> waiting
                             [] p[1] = "ready"   -> ready
                             [] p[1] = "own"     -> own[p[2]]
                             [] p[1] = "todo"    -> todo[p[2]]]

Queue   == <<"queue", 0>>
Blocked == <<"blocked", 0>>
Waiting == <<"waiting", 0>>
Ready   == <<"ready", 0>>
Own(t)  == <<"own", t>>
Todo(t) == <<"todo", t>>

(* Nothing is in two places, nor twice in one.                             *)
Apart(f) ==
  /\ \A p \in Places : Once(f[p])
  /\ \A p, q \in Places : p # q => Elems(f[p]) \cap Elems(f[q]) = {}

Somewhere(f) == UNION {Elems(f[p]) : p \in Places}

LEMMA PlaceFacts ==
  /\ Queue \in Places /\ Blocked \in Places /\ Waiting \in Places
  /\ Ready \in Places
  /\ \A t \in Threads : Own(t) \in Places /\ Todo(t) \in Places
  /\ \A p \in Places : p \in {Queue, Blocked, Waiting, Ready}
                         \/ \E t \in Threads : p \in {Own(t), Todo(t)}
BY DEF Places, Queue, Blocked, Waiting, Ready, Own, Todo

LEMMA PlacesDiffer ==
  /\ Queue # Blocked /\ Queue # Waiting /\ Queue # Ready
  /\ Blocked # Waiting /\ Blocked # Ready /\ Waiting # Ready
  /\ \A t \in Threads : /\ Own(t) # Queue /\ Own(t) # Blocked
                        /\ Own(t) # Waiting /\ Own(t) # Ready
                        /\ Todo(t) # Queue /\ Todo(t) # Blocked
                        /\ Todo(t) # Waiting /\ Todo(t) # Ready
  /\ \A t, u \in Threads : /\ Own(t) # Todo(u)
                           /\ Own(t) = Own(u) => t = u
                           /\ Todo(t) = Todo(u) => t = u
BY DEF Queue, Blocked, Waiting, Ready, Own, Todo

LEMMA HoldsAt ==
  /\ Holds[Queue] = queue /\ Holds[Blocked] = blocked
  /\ Holds[Waiting] = waiting /\ Holds[Ready] = ready
  /\ \A t \in Threads : Holds[Own(t)] = own[t] /\ Holds[Todo(t)] = todo[t]
BY PlaceFacts DEF Holds, Queue, Blocked, Waiting, Ready, Own, Todo

LEMMA HoldsAtNext ==
  /\ Holds'[Queue] = queue' /\ Holds'[Blocked] = blocked'
  /\ Holds'[Waiting] = waiting' /\ Holds'[Ready] = ready'
  /\ \A t \in Threads : Holds'[Own(t)] = own'[t] /\ Holds'[Todo(t)] = todo'[t]
BY PlaceFacts DEF Holds, Queue, Blocked, Waiting, Ready, Own, Todo

(* At most two places change: what they hold afterwards is what they held, *)
(* with what is new and without what is gone.                              *)
Change(f, g, p, q, new, gone) ==
  /\ p \in Places /\ q \in Places /\ Apart(f)
  /\ \A r \in Places : r # p /\ r # q => g[r] = f[r]
  /\ Once(g[p]) /\ Once(g[q])
  /\ p # q => Elems(g[p]) \cap Elems(g[q]) = {}
  /\ new \cap Somewhere(f) = {} /\ gone \subseteq Elems(f[p]) \cup Elems(f[q])
  /\ Elems(g[p]) \cup Elems(g[q])
       = (Elems(f[p]) \cup Elems(f[q]) \cup new) \ gone

LEMMA Transfer ==
  ASSUME NEW f, NEW g, NEW p, NEW q, NEW new, NEW gone,
         Change(f, g, p, q, new, gone)
  PROVE  Apart(g) /\ Somewhere(g) = (Somewhere(f) \cup new) \ gone
<1> USE DEF Change
<1>1. ASSUME NEW r \in Places, r # p, r # q
      PROVE  /\ g[r] = f[r] /\ Once(g[r])
             /\ Elems(g[r]) \subseteq Somewhere(f)
             /\ Elems(g[r]) \cap Elems(f[p]) = {}
             /\ Elems(g[r]) \cap Elems(f[q]) = {}
             /\ Elems(g[r]) \cap Elems(g[p]) = {}
             /\ Elems(g[r]) \cap Elems(g[q]) = {}
  <2>1. g[r] = f[r] /\ Once(g[r]) /\ Elems(g[r]) \subseteq Somewhere(f)
    BY <1>1 DEF Apart, Somewhere
  <2>2. /\ Elems(f[r]) \cap Elems(f[p]) = {}
        /\ Elems(f[r]) \cap Elems(f[q]) = {}
    BY <1>1 DEF Apart
  <2> QED BY <2>1, <2>2
<1>2. Apart(g)
  <2>1. \A r \in Places : Once(g[r])
    BY <1>1
  <2>2. ASSUME NEW r \in Places, NEW s \in Places, r # s
        PROVE  Elems(g[r]) \cap Elems(g[s]) = {}
    <3>1. CASE r \notin {p, q} /\ s \notin {p, q}
      <4>1. Elems(f[r]) \cap Elems(f[s]) = {}
        BY <2>2 DEF Apart
      <4> QED BY <1>1, <3>1, <4>1
    <3>2. CASE r \in {p, q} /\ s \notin {p, q}
      BY <1>1, <3>2
    <3>3. CASE r \notin {p, q} /\ s \in {p, q}
      BY <1>1, <3>3
    <3>4. CASE r \in {p, q} /\ s \in {p, q}
      BY <2>2, <3>4
    <3> QED BY <3>1, <3>2, <3>3, <3>4
  <2> QED BY <2>1, <2>2 DEF Apart
<1>3. ASSUME NEW x \in Somewhere(g)
      PROVE  x \in (Somewhere(f) \cup new) \ gone
  <2>1. PICK r \in Places : x \in Elems(g[r])
    BY <1>3 DEF Somewhere
  <2>2. CASE r \in {p, q}
    <3>1. x \in (Elems(f[p]) \cup Elems(f[q]) \cup new) \ gone
      BY <2>1, <2>2
    <3> QED BY <3>1 DEF Somewhere
  <2>3. CASE r \notin {p, q}
    BY <1>1, <2>1, <2>3
  <2> QED BY <2>2, <2>3
<1>4. ASSUME NEW x \in (Somewhere(f) \cup new) \ gone
      PROVE  x \in Somewhere(g)
  <2>1. CASE x \in Elems(f[p]) \cup Elems(f[q]) \cup new
    <3>1. x \in Elems(g[p]) \cup Elems(g[q])
      BY <1>4, <2>1
    <3> QED BY <3>1 DEF Somewhere
  <2>2. CASE x \notin Elems(f[p]) \cup Elems(f[q]) \cup new
    <3>1. PICK r \in Places : x \in Elems(f[r])
      BY <1>4, <2>2 DEF Somewhere
    <3>2. g[r] = f[r]
      BY <2>2, <3>1
    <3> QED BY <3>1, <3>2 DEF Somewhere
  <2> QED BY <2>1, <2>2
<1> QED BY <1>2, <1>3, <1>4

(* An operation is added behind the others of a place.                     *)
Adding(f, g, p, S, w) ==
  /\ p \in Places /\ f[p] \in Seq(S) /\ w \in S
  /\ Apart(f) /\ w \notin Somewhere(f) /\ g[p] = Append(f[p], w)
  /\ \A r \in Places : r # p => g[r] = f[r]

LEMMA Adds ==
  ASSUME NEW f, NEW g, NEW p, NEW S, NEW w,
         Adding(f, g, p, S, w)
  PROVE  Apart(g) /\ Somewhere(g) = Somewhere(f) \cup {w}
<1> USE DEF Adding
<1>1. w \notin Elems(f[p]) /\ Once(f[p])
  BY DEF Somewhere, Apart
<1>2. Once(g[p]) /\ Elems(g[p]) = Elems(f[p]) \cup {w}
  BY <1>1, ElemsOfAppend
<1>3. Change(f, g, p, p, {w}, {})
  BY <1>2 DEF Change
<1>4. Apart(g) /\ Somewhere(g) = (Somewhere(f) \cup {w}) \ {}
  BY <1>3, Transfer
<1> QED BY <1>4

(* The first operation of a place is taken.                                *)
Removing(f, g, p, S) ==
  /\ p \in Places /\ f[p] \in Seq(S) /\ f[p] # <<>>
  /\ Apart(f) /\ g[p] = Tail(f[p])
  /\ \A r \in Places : r # p => g[r] = f[r]

LEMMA Removes ==
  ASSUME NEW f, NEW g, NEW p, NEW S,
         Removing(f, g, p, S)
  PROVE  Apart(g) /\ Somewhere(g) = Somewhere(f) \ {Head(f[p])}
<1> USE DEF Removing
<1> DEFINE h == Head(f[p])
<1>1. Once(f[p])
  BY DEF Apart
<1>2. Once(g[p]) /\ h \notin Elems(g[p]) /\ Elems(f[p]) = Elems(g[p]) \cup {h}
  BY <1>1, ElemsOfTail
<1> HIDE DEF h
<1>3. Change(f, g, p, p, {}, {h})
  BY <1>2 DEF Change
<1>4. Apart(g) /\ Somewhere(g) = (Somewhere(f) \cup {}) \ {h}
  BY <1>3, Transfer
<1> QED BY <1>4 DEF h

(* The first operation of one place goes behind those of another.          *)
MovingHead(f, g, p, q, S) ==
  /\ p \in Places /\ q \in Places /\ p # q
  /\ f[p] \in Seq(S) /\ f[q] \in Seq(S) /\ f[p] # <<>>
  /\ Apart(f) /\ g[p] = Tail(f[p]) /\ g[q] = Append(f[q], Head(f[p]))
  /\ \A r \in Places : r # p /\ r # q => g[r] = f[r]

LEMMA MovesHead ==
  ASSUME NEW f, NEW g, NEW p, NEW q, NEW S,
         MovingHead(f, g, p, q, S)
  PROVE  Apart(g) /\ Somewhere(g) = Somewhere(f)
<1> USE DEF MovingHead
<1> DEFINE w == Head(f[p])
           h == [r \in Places |-> IF r = p THEN Tail(f[p]) ELSE f[r]]
<1>1. w \in S /\ w \in Somewhere(f)
  <2>1. w \in S /\ w \in Elems(f[p])
    BY ElemsOfTail
  <2> QED BY <2>1 DEF Somewhere
<1>2. h[p] = Tail(f[p]) /\ (\A r \in Places : r # p => h[r] = f[r])
  OBVIOUS
<1>3. h[q] \in Seq(S) /\ g[q] = Append(h[q], w)
      /\ (\A r \in Places : r # q => g[r] = h[r])
  OBVIOUS
<1> HIDE DEF h
<1>4. Apart(h) /\ Somewhere(h) = Somewhere(f) \ {w}
  <2>1. Removing(f, h, p, S)
    BY <1>2 DEF Removing
  <2> QED BY <2>1, Removes
<1> HIDE DEF w
<1>5. w \notin Somewhere(h)
  BY <1>4
<1>6. Apart(g) /\ Somewhere(g) = Somewhere(h) \cup {w}
  <2>1. Adding(h, g, q, S, w)
    BY <1>1, <1>3, <1>4, <1>5 DEF Adding
  <2> QED BY <2>1, Adds
<1> QED BY <1>1, <1>4, <1>6

(* All operations of one place go behind those of another.                 *)
MovingAll(f, g, p, q, S) ==
  /\ p \in Places /\ q \in Places /\ p # q
  /\ f[p] \in Seq(S) /\ f[q] \in Seq(S)
  /\ Apart(f) /\ g[p] = <<>> /\ g[q] = f[q] \o f[p]
  /\ \A r \in Places : r # p /\ r # q => g[r] = f[r]

LEMMA MovesAll ==
  ASSUME NEW f, NEW g, NEW p, NEW q, NEW S,
         MovingAll(f, g, p, q, S)
  PROVE  Apart(g) /\ Somewhere(g) = Somewhere(f)
<1> USE DEF MovingAll
<1>1. Once(f[p]) /\ Once(f[q]) /\ Elems(f[q]) \cap Elems(f[p]) = {}
  BY DEF Apart
<1>2. Elems(g[p]) = {} /\ Once(g[p])
  BY ElemsOfEmpty
<1>3. Once(g[q]) /\ Elems(g[q]) = Elems(f[q]) \cup Elems(f[p])
  <2> DEFINE a == f[q]
             b == f[p]
  <2>1. /\ a \in Seq(S) /\ b \in Seq(S) /\ g[q] = a \o b
        /\ Once(a) /\ Once(b) /\ Elems(a) \cap Elems(b) = {}
    BY <1>1
  <2> HIDE DEF a, b
  <2>2. Once(a \o b) /\ Elems(a \o b) = Elems(a) \cup Elems(b)
    BY <2>1, ElemsOfConcat
  <2> QED BY <2>1, <2>2 DEF a, b
<1>4. Change(f, g, p, q, {}, {})
  <2>1. /\ p \in Places /\ q \in Places /\ Apart(f)
        /\ \A r \in Places : r # p /\ r # q => g[r] = f[r]
    OBVIOUS
  <2>2. /\ {} \cap Somewhere(f) = {}
        /\ {} \subseteq Elems(f[p]) \cup Elems(f[q])
        /\ Elems(g[p]) \cup Elems(g[q])
             = (Elems(f[p]) \cup Elems(f[q]) \cup {}) \ {}
        /\ Elems(g[p]) \cap Elems(g[q]) = {} /\ Once(g[p]) /\ Once(g[q])
    BY <1>2, <1>3
  <2> HIDE DEF MovingAll
  <2> QED BY <2>1, <2>2 DEF Change
<1> HIDE DEF MovingAll
<1>5. Apart(g) /\ Somewhere(g) = (Somewhere(f) \cup {}) \ {}
  BY <1>4, Transfer
<1> QED BY <1>5

-----------------------------------------------------------------------------
(***************************************************************************)
(* The inductive invariant.                                                *)
(***************************************************************************)

(* The strand: at most one thread is inside, and only it has something to  *)
(* run or to publish.  While the service lives, the strand is locked when  *)
(* a thread is inside or it is scheduled, never both.                      *)
StrandInv ==
  /\ \A t, u \in inside : t = u
  /\ \A t \in Threads \ inside : own[t] = <<>> /\ todo[t] = <<>>
  /\ svc = "live" => (locked <=> inside # {} \/ Strand \in Elems(queue))
  /\ inside # {} => Strand \notin Elems(queue) /\ ready = <<>>
  /\ ~locked => waiting = <<>> /\ ready = <<>>

(* The owner: an operation is in one place at most, and in one while the   *)
(* buffer of its write is held.  Only the end of the service and an        *)
(* exception leak a buffer.                                                *)
OwnInv ==
  /\ Apart(Holds)
  /\ \A w \in Async : buf[w] = "held" <=> w \in Somewhere(Holds)

LeakInv ==
  \A w \in Writes : buf[w] = "leaked" =>
    IF w \in Async THEN svc = "freed" ELSE fate = "exception"

WriteInv == TypeInv /\ StrandInv /\ OwnInv /\ LeakInv

Scheduled == Strand \in Elems(queue)

(* The sequences that hold operations.                                     *)
LEMMA SeqTypes ==
  ASSUME TypeOK
  PROVE  /\ queue \in Seq(Async \cup {Strand}) /\ blocked \in Seq(Async)
         /\ waiting \in Seq(Async) /\ ready \in Seq(Async)
         /\ \A t \in Threads : own[t] \in Seq(Async) /\ todo[t] \in Seq(Async)
         /\ Strand \notin Async /\ inside \subseteq Threads
BY WriteAssumption DEF TypeOK, Writes

LEMMA AppendToQueue ==
  ASSUME TypeOK, NEW w \in Async
  PROVE  /\ w # Strand /\ Elems(Append(queue, w)) = Elems(queue) \cup {w}
         /\ Once(queue) /\ w \notin Elems(queue) => Once(Append(queue, w))
<1>1. queue \in Seq(Async \cup {Strand}) /\ w \in Async \cup {Strand}
  BY SeqTypes
<1>2. w # Strand
  BY SeqTypes
<1> QED BY <1>1, <1>2, ElemsOfAppend

LEMMA InitInv == Init => StrandInv /\ OwnInv /\ LeakInv
<1> SUFFICES ASSUME Init PROVE StrandInv /\ OwnInv /\ LeakInv
  OBVIOUS
<1>1. /\ inside = {} /\ locked = FALSE /\ svc = "live"
      /\ queue = <<>> /\ blocked = <<>> /\ waiting = <<>> /\ ready = <<>>
      /\ \A t \in Threads : own[t] = <<>> /\ todo[t] = <<>>
      /\ \A w \in Writes : buf[w] = "none"
  BY DEF Init
<1>2. StrandInv
  BY <1>1, ElemsOfEmpty DEF StrandInv
<1>3. \A p \in Places : Holds[p] = <<>>
  BY <1>1, PlaceFacts, HoldsAt
<1>4. OwnInv
  <2>1. \A p \in Places : Once(Holds[p]) /\ Elems(Holds[p]) = {}
    BY <1>3, ElemsOfEmpty
  <2>2. Apart(Holds) /\ Somewhere(Holds) = {}
    BY <2>1 DEF Apart, Somewhere
  <2> QED BY <1>1, <2>2 DEF OwnInv, Writes
<1>5. LeakInv
  BY <1>1 DEF LeakInv
<1> QED BY <1>2, <1>4, <1>5

-----------------------------------------------------------------------------
(***************************************************************************)
(* The strand is sound.                                                    *)
(***************************************************************************)

(* Steps that touch neither the strand nor its place in the queue.         *)
LEMMA StrandSame ==
  ASSUME StrandInv, UNCHANGED strand, own' = own, svc' = svc,
         Scheduled' <=> Scheduled
  PROVE  StrandInv'
<1>1. inside' = inside /\ todo' = todo /\ ready' = ready /\ waiting' = waiting
      /\ locked' = locked
  BY DEF strand
<1> QED BY Zenon, <1>1 DEF StrandInv, Scheduled

LEMMA WriteStrand ==
  ASSUME WriteInv, NEW w \in Writes, NEW n \in 1..MaxSize,
         cq_irc_session_write(w, n) \/ cq_irc_session_write_sync(w, n)
  PROVE  StrandInv'
<1>1. UNCHANGED strand /\ own' = own /\ svc' = svc
  BY DEF cq_irc_session_write, cq_irc_session_write_sync, NewBuffer
<1>2. Scheduled' <=> Scheduled
  <2>1. CASE queue' = queue
    BY <2>1 DEF Scheduled
  <2>2. CASE w \in Async /\ queue' = Append(queue, w)
    <3>1. w # Strand /\ Elems(Append(queue, w)) = Elems(queue) \cup {w}
      BY <2>2, AppendToQueue DEF WriteInv, TypeInv
    <3> QED BY <2>2, <3>1 DEF Scheduled
  <2>3. queue' = queue \/ (w \in Async /\ queue' = Append(queue, w))
    BY DEF cq_irc_session_write, cq_irc_session_write_sync, Posted
  <2> QED BY <2>1, <2>2, <2>3
<1> QED BY <1>1, <1>2, StrandSame DEF WriteInv

LEMMA DispatchStrand ==
  ASSUME WriteInv, NEW t \in Threads, NEW w \in Async, Idle(t),
         Dispatch(t, w), own' = own, svc' = svc, Scheduled' <=> Scheduled
  PROVE  StrandInv'
<1>1. t \notin inside /\ svc = "live"
  BY DEF Idle
<1>2. CASE ~locked
  <2>1. inside = {} /\ ~Scheduled /\ waiting = <<>> /\ ready = <<>>
    BY Zenon, <1>1, <1>2 DEF WriteInv, StrandInv, Scheduled
  <2>2. locked' = TRUE /\ inside' = {t} /\ todo' = Put(todo, t, <<w>>)
        /\ waiting' = waiting /\ ready' = ready
    BY <1>2, <2>1 DEF Dispatch
  <2>3. \A u \in Threads \ {t} : own'[u] = <<>> /\ todo'[u] = <<>>
    <3>1. todo \in [Threads -> Seq(Async)]
      BY DEF WriteInv, TypeInv, TypeOK
    <3>2. \A u \in Threads : own[u] = <<>> /\ todo[u] = <<>>
      BY <2>1 DEF WriteInv, StrandInv
    <3> QED BY <2>2, <3>1, <3>2 DEF Put
  <2>4. ~Scheduled'
    BY <2>1
  <2>5. locked' /\ (\A u, v \in inside' : u = v)
    BY <2>2
  <2> QED BY Zenon, <2>1, <2>2, <2>3, <2>4, <2>5 DEF StrandInv, Scheduled
<1>3. CASE locked
  <2>1. UNCHANGED <<locked, ready, inside, todo>>
    BY <1>3 DEF Dispatch
  <2>2. locked'
    BY <1>3, <2>1
  <2> QED BY Zenon, <2>1, <2>2 DEF WriteInv, StrandInv, Scheduled
<1> QED BY <1>2, <1>3

LEMMA CompletionStrand ==
  ASSUME WriteInv, NEW t \in Threads, RunCompletion(t)
  PROVE  StrandInv'
<1> DEFINE w == Head(queue)
<1>1. /\ Idle(t) /\ queue # <<>> /\ w # Strand /\ queue' = Tail(queue)
      /\ Dispatch(t, w) /\ own' = own /\ svc' = svc
  BY DEF RunCompletion
<1>2. w \in Async /\ Elems(queue) = Elems(queue') \cup {w}
  BY <1>1, SeqTypes, ElemsOfTail DEF WriteInv, TypeInv
<1>3. Scheduled' <=> Scheduled
  BY <1>1, <1>2 DEF Scheduled
<1> HIDE DEF w
<1> QED BY <1>1, <1>2, <1>3, DispatchStrand

LEMMA RunStrandStrand ==
  ASSUME WriteInv, NEW t \in Threads, RunStrand(t)
  PROVE  StrandInv'
<1>1. /\ Idle(t) /\ queue # <<>> /\ Head(queue) = Strand
      /\ queue' = Tail(queue) /\ inside' = inside \cup {t}
      /\ todo' = Put(todo, t, ready) /\ ready' = <<>>
      /\ UNCHANGED <<svc, own, locked, waiting>>
  BY DEF RunStrand
<1>2. Scheduled /\ ~Scheduled'
  <2>1. Once(queue)
    BY PlaceFacts, HoldsAt DEF WriteInv, OwnInv, Apart
  <2>2. /\ Elems(queue) = Elems(queue') \cup {Strand}
        /\ Strand \notin Elems(queue')
    BY <1>1, <2>1, SeqTypes, ElemsOfTail DEF WriteInv, TypeInv
  <2> QED BY <2>2 DEF Scheduled
<1>3. inside = {} /\ inside' = {t}
  BY <1>1, <1>2 DEF WriteInv, StrandInv, Scheduled
<1>4. locked /\ locked'
  BY Zenon, <1>1, <1>2 DEF WriteInv, StrandInv, Scheduled, Idle
<1>5. \A u \in Threads \ {t} : own'[u] = <<>> /\ todo'[u] = <<>>
  <2>1. todo \in [Threads -> Seq(Async)]
    BY DEF WriteInv, TypeInv, TypeOK
  <2>2. \A u \in Threads : own[u] = <<>> /\ todo[u] = <<>>
    BY <1>3 DEF WriteInv, StrandInv
  <2> QED BY <1>1, <2>1, <2>2 DEF Put
<1>6. \A u, v \in inside' : u = v
  BY <1>3
<1> QED BY Zenon, <1>1, <1>2, <1>3, <1>4, <1>5, <1>6 DEF StrandInv, Scheduled

LEMMA WritableStrand ==
  ASSUME WriteInv, NEW t \in Threads, Writable(t)
  PROVE  StrandInv'
<1> DEFINE w == Head(blocked)
<1>1. /\ Idle(t) /\ blocked # <<>> /\ own' = own /\ svc' = svc
      /\ \/ Dispatch(t, w) /\ queue' = queue
         \/ queue' = Append(queue, w) /\ UNCHANGED strand
  BY DEF Writable
<1>2. w \in Async
  BY <1>1, SeqTypes, ElemsOfTail DEF WriteInv, TypeInv
<1> HIDE DEF w
<1>3. CASE Dispatch(t, w) /\ queue' = queue
  <2>1. Scheduled' <=> Scheduled
    BY <1>3 DEF Scheduled
  <2> QED BY <1>1, <1>2, <1>3, <2>1, DispatchStrand
<1>4. CASE queue' = Append(queue, w) /\ UNCHANGED strand
  <2>1. w # Strand /\ Elems(Append(queue, w)) = Elems(queue) \cup {w}
    BY <1>2, AppendToQueue DEF WriteInv, TypeInv
  <2>2. Scheduled' <=> Scheduled
    BY <1>4, <2>1 DEF Scheduled
  <2> QED BY <1>1, <1>4, <2>2, StrandSame DEF WriteInv
<1> QED BY <1>1, <1>3, <1>4

LEMMA ResumeStrand ==
  ASSUME WriteInv, NEW t \in Threads, NEW w \in Async,
         WriteMore(t, w) \/ WriteMoreFreed(t, w) \/ on_write(t, w)
  PROVE  StrandInv'
<1>1. CASE WriteMore(t, w) \/ on_write(t, w)
  <2>1. /\ t \in inside /\ UNCHANGED <<svc, locked, waiting, ready, inside>>
        /\ queue' = queue
        /\ todo' = Put(todo, t, Tail(todo[t]))
        /\ \/ own' = own
           \/ own' = Put(own, t, Posted(own[t], w))
    BY <1>1 DEF WriteMore, on_write, Resumes
  <2>2. \A u \in Threads \ inside : own'[u] = <<>> /\ todo'[u] = <<>>
    <3>1. todo \in [Threads -> Seq(Async)] /\ own \in [Threads -> Seq(Async)]
      BY DEF WriteInv, TypeInv, TypeOK
    <3>2. \A u \in Threads \ inside : own'[u] = own[u] /\ todo'[u] = todo[u]
      BY <2>1, <3>1 DEF Put
    <3> QED BY <3>2 DEF WriteInv, StrandInv
  <2> QED BY Zenon, <2>1, <2>2 DEF WriteInv, StrandInv
<1>2. CASE WriteMoreFreed(t, w)
  <2>1. UNCHANGED strand /\ own' = own /\ svc' = svc /\ queue' = queue
    BY <1>2 DEF WriteMoreFreed
  <2> QED BY <2>1, StrandSame DEF WriteInv, Scheduled
<1> QED BY <1>1, <1>2

LEMMA LeaveStrandStrand ==
  ASSUME WriteInv, NEW t \in Threads, LeaveStrand(t)
  PROVE  StrandInv'
<1> DEFINE again == IF waiting = <<>> THEN <<>> ELSE <<Strand>>
           S == Async \cup {Strand}
<1>1. /\ t \in inside /\ todo[t] = <<>> /\ todo' = todo /\ svc' = svc
      /\ inside' = inside \ {t} /\ ready' = waiting /\ waiting' = <<>>
      /\ locked' = (waiting # <<>>) /\ own' = Put(own, t, <<>>)
      /\ queue' \in {queue \o again \o own[t], queue \o own[t] \o again}
  BY DEF LeaveStrand
<1>2. inside' = {} /\ ~Scheduled
  BY <1>1 DEF WriteInv, StrandInv, Scheduled
<1>3. Scheduled' <=> waiting # <<>>
  <2>1. /\ queue \in Seq(S) /\ own[t] \in Seq(S)
        /\ Strand \notin Elems(own[t])
    <3>1. own[t] \in Seq(Async) /\ queue \in Seq(S) /\ Strand \notin Async
      BY SeqTypes DEF WriteInv, TypeInv
    <3>2. own[t] \in Seq(S)
      BY <3>1, SeqMonotonic
    <3> QED BY <3>1, <3>2, ElemsType
  <2>2. again \in Seq(S) /\ (Strand \in Elems(again) <=> waiting # <<>>)
    <3>1. <<>> \in Seq(S) /\ Strand \in S
      BY EmptySeq
    <3>2. <<Strand>> \in Seq(S)
      BY <3>1, ElemsOfAppend
    <3> QED BY <3>1, <3>2, ElemsOfEmpty, ElemsOfSingle
  <2> HIDE DEF again, S
  <2>3. /\ queue \o again \in Seq(S) /\ queue \o own[t] \in Seq(S)
        /\ Elems(queue \o again) = Elems(queue) \cup Elems(again)
        /\ Elems(queue \o own[t]) = Elems(queue) \cup Elems(own[t])
    BY <2>1, <2>2, ElemsOfConcat
  <2>4. Elems(queue') = Elems(queue) \cup Elems(again) \cup Elems(own[t])
    <3>1. CASE queue' = queue \o again \o own[t]
      <4> DEFINE q == queue \o again
      <4>1. q \in Seq(S) /\ queue' = q \o own[t]
        BY <2>3, <3>1
      <4> HIDE DEF q
      <4>2. Elems(queue') = Elems(q) \cup Elems(own[t])
        BY <2>1, <4>1, ElemsOfConcat
      <4> QED BY <2>3, <4>2 DEF q
    <3>2. CASE queue' = queue \o own[t] \o again
      <4> DEFINE q == queue \o own[t]
      <4>1. q \in Seq(S) /\ queue' = q \o again
        BY <2>3, <3>2
      <4> HIDE DEF q
      <4>2. Elems(queue') = Elems(q) \cup Elems(again)
        BY <2>2, <4>1, ElemsOfConcat
      <4> QED BY <2>3, <4>2 DEF q
    <3> QED BY <1>1, <3>1, <3>2
  <2> QED BY <1>2, <2>1, <2>2, <2>4 DEF Scheduled
<1>4. \A u \in Threads : own'[u] = <<>> /\ todo'[u] = <<>>
  <2>1. own \in [Threads -> Seq(Async)]
    BY DEF WriteInv, TypeInv, TypeOK
  <2>2. \A u \in Threads \ {t} : own[u] = <<>> /\ todo[u] = <<>>
    BY <1>1 DEF WriteInv, StrandInv
  <2> QED BY <1>1, <2>1, <2>2 DEF Put
<1>5. locked' <=> waiting # <<>>
  BY <1>1
<1> QED BY Zenon, <1>1, <1>2, <1>3, <1>4, <1>5 DEF StrandInv, Scheduled

LEMMA CloseStrand ==
  ASSUME WriteInv, Disconnect \/ Destroy
  PROVE  StrandInv'
<1>1. queue' = queue \o blocked /\ UNCHANGED strand /\ own' = own /\ svc' = svc
  BY DEF Disconnect, Destroy, Close
<1>2. Scheduled' <=> Scheduled
  <2> DEFINE S == Async \cup {Strand}
  <2>1. queue \in Seq(S) /\ blocked \in Seq(Async) /\ Strand \notin Async
    BY SeqTypes DEF WriteInv, TypeInv
  <2>2. blocked \in Seq(S) /\ Strand \notin Elems(blocked)
    BY <2>1, SeqMonotonic, ElemsType
  <2> HIDE DEF S
  <2>3. Elems(queue \o blocked) = Elems(queue) \cup Elems(blocked)
    BY <2>1, <2>2, ElemsOfConcat
  <2> QED BY <1>1, <2>2, <2>3 DEF Scheduled
<1> QED BY <1>1, <1>2, StrandSame DEF WriteInv

LEMMA DestroyServiceStrand ==
  ASSUME WriteInv, DestroyService
  PROVE  StrandInv'
<1>1. /\ inside = {} /\ inside' = {} /\ svc' = "freed"
      /\ waiting' = <<>> /\ ready' = <<>> /\ own' = own /\ todo' = todo
  BY DEF DestroyService
<1> QED BY <1>1 DEF WriteInv, StrandInv

(* The remaining steps.                                                    *)
LEMMA OtherStrand ==
  ASSUME WriteInv,
         UNCHANGED strand /\ own' = own /\ svc' = svc /\ queue' = queue
  PROVE  StrandInv'
BY StrandSame DEF WriteInv, Scheduled

LEMMA StrandStep == WriteInv /\ [Next]_vars => StrandInv'
<1> SUFFICES ASSUME WriteInv, [Next]_vars PROVE StrandInv'
  OBVIOUS
<1>1. CASE \E w \in Writes : WriteNothing(w)
  BY <1>1, OtherStrand DEF WriteNothing
<1>2. CASE \E w \in Writes, n \in 1..MaxSize :
             cq_irc_session_write(w, n) \/ cq_irc_session_write_sync(w, n)
  BY <1>2, WriteStrand
<1>3. CASE \E w \in Sync : SyncSend(w) \/ SyncDone(w) \/ SyncThrows(w)
  BY <1>3, OtherStrand DEF SyncSend, SyncDone, SyncThrows
<1>4. CASE \E t \in Threads : Service(t)
  BY <1>4, CompletionStrand, RunStrandStrand, WritableStrand,
     LeaveStrandStrand, ResumeStrand DEF Service
<1>5. CASE Connects \/ Drains \/ Breaks
  BY <1>5, OtherStrand DEF Connects, Drains, Breaks
<1>6. CASE Disconnect \/ Destroy
  BY <1>6, CloseStrand
<1>7. CASE DestroyService
  BY <1>7, DestroyServiceStrand
<1>8. CASE UNCHANGED vars
  BY <1>8, OtherStrand DEF vars, strand
<1> QED BY <1>1, <1>2, <1>3, <1>4, <1>5, <1>6, <1>7, <1>8 DEF Next

-----------------------------------------------------------------------------
(***************************************************************************)
(* Every buffer has one owner.                                             *)
(***************************************************************************)

(* Where the places are the same, so is what they hold.                    *)
LEMMA SamePlaces ==
  ASSUME NEW f, NEW g, Apart(f), \A p \in Places : g[p] = f[p]
  PROVE  Apart(g) /\ Somewhere(g) = Somewhere(f)
BY DEF Apart, Somewhere

(* Operations move, and no asynchronous write begins or ends.              *)
LEMMA OwnMoved ==
  ASSUME OwnInv, Apart(Holds'),
         Somewhere(Holds') \cap Async = Somewhere(Holds) \cap Async,
         \A w \in Async : buf'[w] = "held" <=> buf[w] = "held"
  PROVE  OwnInv'
BY DEF OwnInv

LEMMA OwnSame ==
  ASSUME OwnInv, UNCHANGED <<queue, own, blocked, waiting, ready, todo>>,
         \A w \in Async : buf'[w] = "held" <=> buf[w] = "held"
  PROVE  OwnInv'
<1>1. \A p \in Places : Holds'[p] = Holds[p]
  BY PlaceFacts, HoldsAt, HoldsAtNext
<1>2. Apart(Holds') /\ Somewhere(Holds') = Somewhere(Holds)
  BY <1>1, SamePlaces DEF OwnInv
<1> QED BY <1>2, OwnMoved

(* The invariant, as the steps use it.                                     *)
LEMMA InvFacts ==
  ASSUME WriteInv
  PROVE  /\ TypeOK /\ StrandInv /\ OwnInv /\ Apart(Holds)
         /\ \A w \in Async :
              (buf[w] = "held" <=> w \in Somewhere(Holds)) /\ w \in Writes
BY DEF WriteInv, TypeInv, OwnInv, Writes

(* A send that has to wait is in the reactor, any other is posted.         *)
LEMMA PostedFacts ==
  ASSUME TypeOK, NEW w \in Async, NEW n \in Nat, AsyncWriteSome(w, n), NEW q
  PROVE  \/ blocked' = blocked /\ Posted(q, w) = Append(q, w)
         \/ blocked' = Append(blocked, w) /\ Posted(q, w) = q
<1>1. Append(blocked, w) # blocked
  <2>1. blocked \in Seq(Async)
    BY SeqTypes
  <2>2. Len(Append(blocked, w)) = Len(blocked) + 1 /\ Len(blocked) \in Nat
    BY <2>1
  <2> QED BY <2>2
<1>2. blocked' = blocked \/ blocked' = Append(blocked, w)
  BY AsyncWriteSomeFacts
<1> QED BY <1>1, <1>2 DEF Posted

LEMMA WriteOwn ==
  ASSUME WriteInv, NEW w \in Writes, NEW n \in 1..MaxSize,
         cq_irc_session_write(w, n) \/ cq_irc_session_write_sync(w, n)
  PROVE  OwnInv'
<1>1. /\ buf[w] = "none" /\ buf' = Put(buf, w, "held")
      /\ UNCHANGED <<own, waiting, ready, todo>>
  BY DEF cq_irc_session_write, cq_irc_session_write_sync, NewBuffer, Callable,
         strand
<1>2. buf \in [Writes -> {"none", "held", "freed", "leaked"}]
  BY DEF WriteInv, TypeInv, TypeOK
<1>3. CASE cq_irc_session_write_sync(w, n)
  <2>1. w \in Sync /\ UNCHANGED <<queue, blocked>>
    BY <1>3 DEF cq_irc_session_write_sync
  <2>2. \A v \in Async : buf'[v] = buf[v]
    BY <1>1, <1>2, <2>1, WriteAssumption DEF Put, Writes
  <2> QED BY <1>1, <2>1, <2>2, OwnSame, InvFacts
<1>4. CASE cq_irc_session_write(w, n)
  <2>1. /\ w \in Async /\ AsyncWriteSome(w, n + 1)
        /\ queue' = Posted(queue, w) /\ n + 1 \in Nat
    BY <1>4, WriteAssumption DEF cq_irc_session_write
  <2>2. \/ blocked' = blocked /\ queue' = Append(queue, w)
        \/ blocked' = Append(blocked, w) /\ queue' = queue
    BY <2>1, PostedFacts, InvFacts
  <2>3. Apart(Holds) /\ w \notin Somewhere(Holds)
    BY <1>1, <2>1, InvFacts
  <2>4. Apart(Holds') /\ Somewhere(Holds') = Somewhere(Holds) \cup {w}
    <3>1. CASE blocked' = blocked /\ queue' = Append(queue, w)
      <4>1. \A r \in Places : r # Queue => Holds'[r] = Holds[r]
        BY <1>1, <3>1, PlaceFacts, HoldsAt, HoldsAtNext
      <4>2. /\ Queue \in Places /\ Holds[Queue] \in Seq(Async \cup {Strand})
            /\ w \in Async \cup {Strand}
            /\ Holds'[Queue] = Append(Holds[Queue], w)
        BY <2>1, <3>1, PlaceFacts, HoldsAt, HoldsAtNext, SeqTypes, InvFacts
      <4>3. Adding(Holds, Holds', Queue, Async \cup {Strand}, w)
        BY <2>3, <4>1, <4>2 DEF Adding
      <4> QED BY <4>3, Adds
    <3>2. CASE blocked' = Append(blocked, w) /\ queue' = queue
      <4>1. \A r \in Places : r # Blocked => Holds'[r] = Holds[r]
        BY <1>1, <3>2, PlaceFacts, HoldsAt, HoldsAtNext
      <4>2. /\ Blocked \in Places /\ Holds[Blocked] \in Seq(Async)
            /\ Holds'[Blocked] = Append(Holds[Blocked], w)
        BY <2>1, <3>2, PlaceFacts, HoldsAt, HoldsAtNext, SeqTypes, InvFacts
      <4>3. Adding(Holds, Holds', Blocked, Async, w)
        BY <2>1, <2>3, <4>1, <4>2 DEF Adding
      <4> QED BY <4>3, Adds
    <3> QED BY <2>2, <3>1, <3>2
  <2>5. \A v \in Async : buf'[v] = IF v = w THEN "held" ELSE buf[v]
    BY <1>1, <1>2 DEF Put, Writes
  <2>6. \A v \in Async : buf'[v] = "held" <=> v \in Somewhere(Holds')
    BY <2>4, <2>5, InvFacts
  <2> QED BY <2>4, <2>6 DEF OwnInv
<1> QED BY <1>3, <1>4

(* From the head of the place p, p = Queue or Blocked, into the strand.    *)
LEMMA DispatchOwn ==
  ASSUME WriteInv, NEW t \in Threads, NEW w \in Async, Idle(t),
         Dispatch(t, w), own' = own, buf' = buf,
         NEW S, Async \subseteq S, NEW p \in {Queue, Blocked},
         Holds[p] \in Seq(S), Holds[p] # <<>>, w = Head(Holds[p]),
         Holds'[p] = Tail(Holds[p]),
         \A r \in {Queue, Blocked} : r # p => Holds'[r] = Holds[r]
  PROVE  OwnInv'
<1>1. t \notin inside /\ todo[t] = <<>>
  BY InvFacts DEF StrandInv, Idle
<1>2. Apart(Holds') /\ Somewhere(Holds') = Somewhere(Holds)
  <2>1. CASE ~locked
    <3>1. todo' = Put(todo, t, <<w>>) /\ UNCHANGED <<waiting, ready>>
      BY <2>1 DEF Dispatch
    <3>2. todo'[t] = <<w>> /\ (\A u \in Threads : u # t => todo'[u] = todo[u])
      BY <3>1, InvFacts DEF Put, TypeOK
    <3>3. \A r \in Places : r # p /\ r # Todo(t) => Holds'[r] = Holds[r]
      BY <3>1, <3>2, PlaceFacts, HoldsAt, HoldsAtNext
    <3>4. /\ p \in Places /\ Todo(t) \in Places /\ p # Todo(t)
          /\ Holds[Todo(t)] \in Seq(S)
          /\ Holds'[Todo(t)] = Append(Holds[Todo(t)], w)
      <4>1. Holds[Todo(t)] = <<>> /\ Holds'[Todo(t)] = <<w>>
        BY <1>1, <3>2, HoldsAt, HoldsAtNext
      <4>2. Append(<<>>, w) = <<w>> /\ <<>> \in Seq(S)
        BY EmptySeq
      <4> QED BY <4>1, <4>2, PlaceFacts, PlacesDiffer
    <3>5. MovingHead(Holds, Holds', p, Todo(t), S)
      BY <3>3, <3>4, InvFacts DEF MovingHead
    <3> QED BY <3>5, MovesHead
  <2>2. CASE locked
    <3>1. waiting' = Append(waiting, w) /\ UNCHANGED <<ready, todo>>
      BY <2>2 DEF Dispatch
    <3>2. \A r \in Places : r # p /\ r # Waiting => Holds'[r] = Holds[r]
      BY <3>1, PlaceFacts, HoldsAt, HoldsAtNext
    <3>3. /\ p \in Places /\ Waiting \in Places /\ p # Waiting
          /\ Holds[Waiting] \in Seq(S)
          /\ Holds'[Waiting] = Append(Holds[Waiting], w)
      <4>1. waiting \in Seq(S)
        BY SeqTypes, SeqMonotonic, InvFacts
      <4> QED BY <3>1, <4>1, HoldsAt, HoldsAtNext, PlaceFacts, PlacesDiffer
    <3>4. MovingHead(Holds, Holds', p, Waiting, S)
      BY <3>2, <3>3, InvFacts DEF MovingHead
    <3> QED BY <3>4, MovesHead
  <2> QED BY <2>1, <2>2
<1> QED BY <1>2, OwnMoved, InvFacts

LEMMA CompletionOwn ==
  ASSUME WriteInv, NEW t \in Threads, RunCompletion(t)
  PROVE  OwnInv'
<1> DEFINE w == Head(queue)
           S == Async \cup {Strand}
<1>1. /\ Idle(t) /\ queue # <<>> /\ w # Strand /\ queue' = Tail(queue)
      /\ Dispatch(t, w) /\ own' = own /\ buf' = buf /\ blocked' = blocked
  BY DEF RunCompletion, buffers
<1>2. queue \in Seq(S) /\ w \in Async /\ Async \subseteq S
  BY <1>1, SeqTypes, ElemsOfTail, InvFacts
<1>3. /\ Holds[Queue] = queue /\ Holds'[Queue] = Tail(queue)
      /\ Holds'[Blocked] = Holds[Blocked]
  BY <1>1, HoldsAt, HoldsAtNext
<1> HIDE DEF S
<1> QED BY <1>1, <1>2, <1>3, DispatchOwn

LEMMA RunStrandOwn ==
  ASSUME WriteInv, NEW t \in Threads, RunStrand(t)
  PROVE  OwnInv'
<1> DEFINE S == Async \cup {Strand}
           h == [r \in Places |-> IF r = Queue THEN Tail(queue) ELSE Holds[r]]
<1>1. /\ Idle(t) /\ queue # <<>> /\ Head(queue) = Strand
      /\ queue' = Tail(queue) /\ todo' = Put(todo, t, ready) /\ ready' = <<>>
      /\ UNCHANGED <<buf, own, blocked, waiting>>
  BY DEF RunStrand, buffers
<1>2. todo[t] = <<>> /\ queue \in Seq(S) /\ ready \in Seq(Async)
  BY <1>1, SeqTypes, InvFacts DEF StrandInv, Idle
<1>3. Apart(h) /\ Somewhere(h) = Somewhere(Holds) \ {Strand}
  <2>1. /\ Queue \in Places /\ Holds[Queue] = queue /\ h[Queue] = Tail(queue)
        /\ \A r \in Places : r # Queue => h[r] = Holds[r]
    BY PlaceFacts, HoldsAt
  <2> HIDE DEF h, S
  <2>2. Removing(Holds, h, Queue, S)
    BY <1>1, <1>2, <2>1, InvFacts DEF Removing
  <2> QED BY <1>1, <2>1, <2>2, Removes
<1>4. Apart(Holds') /\ Somewhere(Holds') = Somewhere(h)
  <2>1. todo'[t] = ready /\ (\A u \in Threads : u # t => todo'[u] = todo[u])
    BY <1>1, InvFacts DEF Put, TypeOK
  <2>2. /\ h[Queue] = Tail(queue) /\ h[Ready] = ready /\ h[Todo(t)] = <<>>
        /\ \A r \in Places : r # Queue => h[r] = Holds[r]
    BY <1>2, PlaceFacts, PlacesDiffer, HoldsAt
  <2> HIDE DEF h
  <2>9. ASSUME NEW r \in Places, r # Ready, r # Todo(t)
        PROVE  Holds'[r] = h[r]
    <3>1. CASE r = Queue
      BY <1>1, <2>2, <3>1, HoldsAtNext
    <3>2. CASE r # Queue
      <4>1. h[r] = Holds[r]
        BY <2>2, <3>2
      <4>2. CASE r \in {Blocked, Waiting}
        BY <1>1, <4>1, <4>2, HoldsAt, HoldsAtNext
      <4>3. CASE \E u \in Threads : r = Own(u)
        BY <1>1, <4>1, <4>3, HoldsAt, HoldsAtNext
      <4>4. CASE \E u \in Threads : r = Todo(u)
        <5>1. PICK u \in Threads : r = Todo(u)
          BY <4>4
        <5>2. u # t
          BY <2>9, <5>1
        <5>3. todo'[u] = todo[u]
          BY <2>1, <5>2
        <5> QED BY <4>1, <5>1, <5>3, HoldsAt, HoldsAtNext
      <4> QED BY <2>9, <3>2, <4>2, <4>3, <4>4, PlaceFacts
    <3> QED BY <3>1, <3>2
  <2>3. \A r \in Places : r # Ready /\ r # Todo(t) => Holds'[r] = h[r]
    BY <2>9
  <2>4. /\ Ready \in Places /\ Todo(t) \in Places /\ Ready # Todo(t)
        /\ Holds'[Ready] = <<>> /\ Holds'[Todo(t)] = ready
    BY <1>1, <2>1, PlaceFacts, PlacesDiffer, HoldsAtNext
  <2>5. <<>> \in Seq(Async) /\ ready = <<>> \o ready
    BY <1>2, EmptySeq
  <2>6. MovingAll(h, Holds', Ready, Todo(t), Async)
    BY <1>2, <1>3, <2>2, <2>3, <2>4, <2>5 DEF MovingAll
  <2> QED BY <2>6, MovesAll
<1>5. Somewhere(Holds') \cap Async = Somewhere(Holds) \cap Async
  BY <1>3, <1>4, SeqTypes, InvFacts
<1> QED BY <1>1, <1>4, <1>5, OwnMoved, InvFacts

LEMMA WritableOwn ==
  ASSUME WriteInv, NEW t \in Threads, Writable(t)
  PROVE  OwnInv'
<1> DEFINE w == Head(blocked)
           S == Async \cup {Strand}
<1>1. /\ Idle(t) /\ blocked # <<>> /\ blocked' = Tail(blocked)
      /\ own' = own /\ buf' = buf
      /\ \/ Dispatch(t, w) /\ queue' = queue
         \/ queue' = Append(queue, w) /\ UNCHANGED strand
  BY DEF Writable, buffers
<1>2. w \in Async /\ blocked \in Seq(Async) /\ queue \in Seq(S)
  BY <1>1, SeqTypes, ElemsOfTail, InvFacts
<1>3. Holds[Blocked] = blocked /\ Holds'[Blocked] = Tail(blocked)
  BY <1>1, HoldsAt, HoldsAtNext
<1>4. CASE Dispatch(t, w) /\ queue' = queue
  <2>1. Holds'[Queue] = Holds[Queue]
    BY <1>4, HoldsAt, HoldsAtNext
  <2> QED BY <1>1, <1>2, <1>3, <1>4, <2>1, DispatchOwn
<1>5. CASE queue' = Append(queue, w) /\ UNCHANGED strand
  <2>1. \A r \in Places : r # Blocked /\ r # Queue => Holds'[r] = Holds[r]
    BY <1>1, <1>5, PlaceFacts, HoldsAt, HoldsAtNext DEF strand
  <2>2. /\ Blocked \in Places /\ Queue \in Places /\ Blocked # Queue
        /\ Holds[Queue] = queue /\ Holds'[Queue] = Append(queue, w)
    BY <1>5, PlaceFacts, PlacesDiffer, HoldsAt, HoldsAtNext
  <2>3. blocked \in Seq(S)
    BY <1>2, SeqMonotonic
  <2> HIDE DEF S
  <2>4. MovingHead(Holds, Holds', Blocked, Queue, S)
    BY <1>1, <1>2, <1>3, <2>1, <2>2, <2>3, InvFacts DEF MovingHead
  <2>5. Apart(Holds') /\ Somewhere(Holds') = Somewhere(Holds)
    BY <2>4, MovesHead
  <2> QED BY <1>1, <2>5, OwnMoved, InvFacts
<1> QED BY <1>1, <1>4, <1>5

LEMMA WriteMoreOwn ==
  ASSUME WriteInv, NEW t \in Threads, NEW w \in Async, WriteMore(t, w)
  PROVE  OwnInv'
<1>1. /\ todo[t] # <<>> /\ w = Head(todo[t]) /\ AsyncWriteSome(w, Left(w))
      /\ own' = Put(own, t, Posted(own[t], w))
      /\ todo' = Put(todo, t, Tail(todo[t]))
      /\ UNCHANGED <<buf, queue, waiting, ready>>
  BY DEF WriteMore, Resumes, buffers
<1>2. Left(w) \in Nat
  <2>1. w \in Writes /\ MaxSize \in Nat
    BY WriteAssumption DEF Writes
  <2>2. size[w] \in Nat /\ sent[w] \in Nat /\ sent[w] <= size[w]
    BY <2>1, InvFacts DEF TypeOK
  <2> QED BY <2>2 DEF Left
<1>3. /\ todo'[t] = Tail(todo[t]) /\ own'[t] = Posted(own[t], w)
      /\ \A u \in Threads : u # t => todo'[u] = todo[u] /\ own'[u] = own[u]
  <2>1. todo \in [Threads -> Seq(Async)] /\ own \in [Threads -> Seq(Async)]
    BY InvFacts DEF TypeOK
  <2> QED BY <1>1, <2>1 DEF Put
<1>4. /\ Todo(t) \in Places /\ Own(t) \in Places /\ Blocked \in Places
      /\ Todo(t) # Own(t) /\ Todo(t) # Blocked
      /\ Holds[Todo(t)] = todo[t] /\ Holds'[Todo(t)] = Tail(todo[t])
      /\ Holds[Own(t)] = own[t] /\ Holds[Blocked] = blocked
      /\ todo[t] \in Seq(Async) /\ own[t] \in Seq(Async)
      /\ blocked \in Seq(Async)
  BY <1>3, PlaceFacts, PlacesDiffer, HoldsAt, HoldsAtNext, SeqTypes,
     InvFacts
<1>5. \/ blocked' = blocked /\ own'[t] = Append(own[t], w)
      \/ blocked' = Append(blocked, w) /\ own'[t] = own[t]
  BY <1>1, <1>2, <1>3, PostedFacts, InvFacts
<1>6. Apart(Holds') /\ Somewhere(Holds') = Somewhere(Holds)
  <2>1. CASE blocked' = blocked /\ own'[t] = Append(own[t], w)
    <3>1. \A r \in Places : r # Todo(t) /\ r # Own(t) => Holds'[r] = Holds[r]
      BY <1>1, <1>3, <2>1, PlaceFacts, HoldsAt, HoldsAtNext
    <3>2. Holds'[Own(t)] = Append(own[t], w)
      BY <2>1, HoldsAtNext
    <3>3. MovingHead(Holds, Holds', Todo(t), Own(t), Async)
      BY <1>1, <1>4, <3>1, <3>2, InvFacts DEF MovingHead
    <3> QED BY <3>3, MovesHead
  <2>2. CASE blocked' = Append(blocked, w) /\ own'[t] = own[t]
    <3>1. \A r \in Places : r # Todo(t) /\ r # Blocked => Holds'[r] = Holds[r]
      BY <1>1, <1>3, <2>2, PlaceFacts, HoldsAt, HoldsAtNext
    <3>2. Holds'[Blocked] = Append(blocked, w)
      BY <2>2, HoldsAtNext
    <3>3. MovingHead(Holds, Holds', Todo(t), Blocked, Async)
      BY <1>1, <1>4, <3>1, <3>2, InvFacts DEF MovingHead
    <3> QED BY <3>3, MovesHead
  <2> QED BY <1>5, <2>1, <2>2
<1> QED BY <1>1, <1>6, OwnMoved, InvFacts

LEMMA OnWriteOwn ==
  ASSUME WriteInv, NEW t \in Threads, NEW w \in Async, on_write(t, w)
  PROVE  OwnInv'
<1>1. /\ todo[t] # <<>> /\ w = Head(todo[t]) /\ buf' = Put(buf, w, "freed")
      /\ todo' = Put(todo, t, Tail(todo[t]))
      /\ UNCHANGED <<queue, own, blocked, waiting, ready>>
  BY DEF on_write, Resumes
<1>2. /\ todo'[t] = Tail(todo[t])
      /\ \A u \in Threads : u # t => todo'[u] = todo[u]
  BY <1>1, InvFacts DEF Put, TypeOK
<1>3. \A r \in Places : r # Todo(t) => Holds'[r] = Holds[r]
  BY <1>1, <1>2, PlaceFacts, HoldsAt, HoldsAtNext
<1>4. /\ Todo(t) \in Places /\ todo[t] \in Seq(Async)
      /\ Holds[Todo(t)] = todo[t] /\ Holds'[Todo(t)] = Tail(todo[t])
  BY <1>2, PlaceFacts, HoldsAt, HoldsAtNext, SeqTypes, InvFacts
<1>5. Apart(Holds') /\ Somewhere(Holds') = Somewhere(Holds) \ {w}
  <2>1. Removing(Holds, Holds', Todo(t), Async)
    BY <1>1, <1>3, <1>4, InvFacts DEF Removing
  <2> QED BY <1>1, <1>4, <2>1, Removes
<1>6. \A v \in Async : buf'[v] = IF v = w THEN "freed" ELSE buf[v]
  <2>1. buf \in [Writes -> {"none", "held", "freed", "leaked"}]
    BY InvFacts DEF TypeOK
  <2> QED BY <1>1, <2>1, InvFacts DEF Put
<1>7. \A v \in Async : buf'[v] = "held" <=> v \in Somewhere(Holds')
  BY <1>5, <1>6, InvFacts
<1> QED BY <1>5, <1>7 DEF OwnInv

(* The strand's own entry is put behind a place, or is not.                *)
LEMMA Schedules ==
  ASSUME NEW f, NEW g, NEW p \in Places, NEW again \in {<<>>, <<Strand>>},
         f[p] \in Seq(Async \cup {Strand}), Strand \notin Async,
         Apart(f), Strand \notin Somewhere(f), g[p] = f[p] \o again,
         \A r \in Places : r # p => g[r] = f[r]
  PROVE  Apart(g) /\ Somewhere(g) \cap Async = Somewhere(f) \cap Async
<1> DEFINE S == Async \cup {Strand}
           s == f[p]
<1>1. s \in Seq(S) /\ g[p] = s \o again /\ Strand \in S
  OBVIOUS
<1> HIDE DEF S
<1>2. CASE again = <<>>
  <2>1. s \o <<>> = s
    BY <1>1
  <2>2. \A r \in Places : g[r] = f[r]
    BY <1>1, <1>2, <2>1
  <2> QED BY <2>2, SamePlaces
<1>3. CASE again = <<Strand>>
  <2>1. s \o <<Strand>> = Append(s, Strand)
    BY <1>1
  <2>2. g[p] = Append(f[p], Strand)
    BY <1>1, <1>3, <2>1
  <2>3. Adding(f, g, p, S, Strand)
    BY <1>1, <2>2 DEF Adding
  <2>4. Apart(g) /\ Somewhere(g) = Somewhere(f) \cup {Strand}
    BY <2>3, Adds
  <2> QED BY <2>4
<1> QED BY <1>2, <1>3

LEMMA LeaveOwn ==
  ASSUME WriteInv, NEW t \in Threads, LeaveStrand(t)
  PROVE  OwnInv'
<1> DEFINE again == IF waiting = <<>> THEN <<>> ELSE <<Strand>>
           S == Async \cup {Strand}
           f == [r \in Places |-> IF r = Waiting THEN <<>>
                                  ELSE IF r = Ready THEN waiting
                                  ELSE Holds[r]]
<1>1. /\ t \in inside /\ todo' = todo /\ UNCHANGED <<buf, blocked>>
      /\ ready' = waiting /\ waiting' = <<>> /\ own' = Put(own, t, <<>>)
      /\ queue' \in {queue \o again \o own[t], queue \o own[t] \o again}
  BY DEF LeaveStrand, buffers
<1>2. /\ queue \in Seq(S) /\ own[t] \in Seq(S) /\ waiting \in Seq(Async)
      /\ Strand \notin Async /\ ready = <<>> /\ Strand \notin Elems(queue)
  <2>1. own[t] \in Seq(S)
    BY SeqTypes, SeqMonotonic, InvFacts
  <2> QED BY <1>1, <2>1, SeqTypes, InvFacts DEF StrandInv
<1>3. again \in {<<>>, <<Strand>>}
  OBVIOUS
<1>4. Strand \notin Somewhere(Holds)
  <2>1. ASSUME NEW r \in Places
        PROVE  Strand \notin Elems(Holds[r])
    <3>1. CASE r = Queue
      BY <1>2, <3>1, HoldsAt
    <3>2. CASE r # Queue
      <4>1. Holds[r] \in Seq(Async)
        BY <3>2, PlaceFacts, HoldsAt, SeqTypes, InvFacts
      <4> QED BY <1>2, <4>1, ElemsType
    <3> QED BY <3>1, <3>2
  <2> QED BY <2>1 DEF Somewhere
<1>5. /\ f[Queue] = queue /\ f[Own(t)] = own[t] /\ f[Waiting] = <<>>
      /\ f[Ready] = waiting
      /\ \A r \in Places : r # Waiting /\ r # Ready => f[r] = Holds[r]
  BY PlaceFacts, PlacesDiffer, HoldsAt
<1> HIDE DEF again, S, f
<1>6. Apart(f) /\ Somewhere(f) = Somewhere(Holds)
  <2>1. /\ Waiting \in Places /\ Ready \in Places /\ Waiting # Ready
        /\ Holds[Waiting] = waiting /\ Holds[Ready] = <<>>
        /\ <<>> \in Seq(Async) /\ waiting = <<>> \o waiting
    BY <1>2, PlaceFacts, PlacesDiffer, HoldsAt, EmptySeq
  <2>2. MovingAll(Holds, f, Waiting, Ready, Async)
    BY <1>2, <1>5, <2>1, InvFacts DEF MovingAll
  <2> QED BY <2>2, MovesAll
<1>7. /\ Queue \in Places /\ Own(t) \in Places /\ Queue # Own(t)
      /\ Holds'[Queue] = queue' /\ Holds'[Own(t)] = <<>>
      /\ \A r \in Places : r # Queue /\ r # Own(t) => Holds'[r] = f[r]
  <2>1. own'[t] = <<>> /\ (\A u \in Threads : u # t => own'[u] = own[u])
    BY <1>1, InvFacts DEF Put, TypeOK
  <2> QED BY <1>1, <1>5, <2>1, PlaceFacts, PlacesDiffer, HoldsAt, HoldsAtNext
<1>8. Apart(Holds') /\ Somewhere(Holds') \cap Async = Somewhere(f) \cap Async
  <2>1. CASE queue' = queue \o again \o own[t]
    <3> DEFINE q == queue \o again
               g == [r \in Places |-> IF r = Queue THEN q ELSE f[r]]
    <3>1. /\ g[Queue] = q /\ queue' = q \o own[t] /\ g[Own(t)] = own[t]
          /\ \A r \in Places : r # Queue => g[r] = f[r]
      BY <1>5, <1>7, <2>1
    <3>2. q \in Seq(S)
      <4>1. <<>> \in Seq(S) /\ <<Strand>> \in Seq(S)
        BY DEF S
      <4> QED BY <1>2, <1>3, <4>1, ElemsOfConcat
    <3>3. g[Queue] = f[Queue] \o again
      BY <1>5, <3>1
    <3> HIDE DEF q, g
    <3>4. Apart(g) /\ Somewhere(g) \cap Async = Somewhere(f) \cap Async
      BY <1>2, <1>3, <1>4, <1>5, <1>6, <1>7, <3>1, <3>3, Schedules DEF S
    <3>5. MovingAll(g, Holds', Own(t), Queue, S)
      BY <1>2, <1>7, <3>1, <3>2, <3>4 DEF MovingAll
    <3> QED BY <3>4, <3>5, MovesAll
  <2>2. CASE queue' = queue \o own[t] \o again
    <3> DEFINE q == queue \o own[t]
               g == [r \in Places |-> IF r = Queue THEN q
                                      ELSE IF r = Own(t) THEN <<>> ELSE f[r]]
    <3>1. /\ g[Queue] = q /\ queue' = q \o again /\ g[Own(t)] = <<>>
          /\ \A r \in Places : r # Queue /\ r # Own(t) => g[r] = f[r]
      BY <1>7, <2>2
    <3>2. q \in Seq(S) /\ g[Queue] = f[Queue] \o f[Own(t)]
      BY <1>2, <1>5, <3>1, ElemsOfConcat
    <3> HIDE DEF q, g
    <3>3. MovingAll(f, g, Own(t), Queue, S)
      BY <1>2, <1>5, <1>6, <1>7, <3>1, <3>2 DEF MovingAll
    <3>4. Apart(g) /\ Somewhere(g) = Somewhere(f)
      BY <3>3, MovesAll
    <3>5. /\ \A r \in Places : r # Queue => Holds'[r] = g[r]
          /\ Holds'[Queue] = g[Queue] \o again /\ g[Queue] \in Seq(S)
          /\ Strand \notin Somewhere(g)
      BY <1>4, <1>6, <1>7, <3>1, <3>2, <3>4
    <3>6. /\ Queue \in Places /\ Apart(g)
          /\ g[Queue] \in Seq(Async \cup {Strand})
      BY <1>7, <3>4, <3>5 DEF S
    <3>7. /\ Apart(Holds')
          /\ Somewhere(Holds') \cap Async = Somewhere(g) \cap Async
      BY <1>2, <1>3, <3>5, <3>6, Schedules
    <3> QED BY <3>4, <3>7
  <2> QED BY <1>1, <2>1, <2>2
<1> QED BY <1>1, <1>6, <1>8, OwnMoved, InvFacts

LEMMA CloseOwn ==
  ASSUME WriteInv, Disconnect \/ Destroy
  PROVE  OwnInv'
<1> DEFINE S == Async \cup {Strand}
<1>1. /\ queue' = queue \o blocked /\ blocked' = <<>>
      /\ UNCHANGED <<buf, own, waiting, ready, todo>>
  BY DEF Disconnect, Destroy, Close, buffers, strand
<1>2. \A r \in Places : r # Blocked /\ r # Queue => Holds'[r] = Holds[r]
  BY <1>1, PlaceFacts, HoldsAt, HoldsAtNext
<1>3. /\ Blocked \in Places /\ Queue \in Places /\ Blocked # Queue
      /\ Holds[Queue] = queue /\ Holds[Blocked] = blocked
      /\ Holds'[Queue] = queue \o blocked /\ Holds'[Blocked] = <<>>
  BY <1>1, PlaceFacts, PlacesDiffer, HoldsAt, HoldsAtNext
<1>4. queue \in Seq(S) /\ blocked \in Seq(S)
  BY SeqTypes, SeqMonotonic, InvFacts
<1> HIDE DEF S
<1>5. MovingAll(Holds, Holds', Blocked, Queue, S)
  BY <1>2, <1>3, <1>4, InvFacts DEF MovingAll
<1>6. Apart(Holds') /\ Somewhere(Holds') = Somewhere(Holds)
  BY <1>5, MovesAll
<1> QED BY <1>1, <1>6, OwnMoved, InvFacts

LEMMA DestroyServiceOwn ==
  ASSUME WriteInv, DestroyService
  PROVE  OwnInv'
<1>1. /\ inside = {} /\ own' = own /\ todo' = todo
      /\ queue' = <<>> /\ blocked' = <<>> /\ waiting' = <<>> /\ ready' = <<>>
      /\ buf' = [w \in Writes |-> IF buf[w] = "held" THEN "leaked" ELSE buf[w]]
  BY DEF DestroyService
<1>2. \A t \in Threads : own'[t] = <<>> /\ todo'[t] = <<>>
  BY <1>1, InvFacts DEF StrandInv
<1>3. \A p \in Places : Holds'[p] = <<>>
  BY <1>1, <1>2, PlaceFacts, HoldsAtNext
<1>4. \A p \in Places : Once(Holds'[p]) /\ Elems(Holds'[p]) = {}
  BY <1>3, ElemsOfEmpty
<1>5. Apart(Holds') /\ Somewhere(Holds') = {}
  BY <1>4 DEF Apart, Somewhere
<1>6. \A w \in Async : buf'[w] # "held"
  BY <1>1 DEF Writes
<1> QED BY <1>5, <1>6 DEF OwnInv

LEMMA SyncOwn ==
  ASSUME WriteInv, NEW w \in Sync, SyncSend(w) \/ SyncDone(w) \/ SyncThrows(w)
  PROVE  OwnInv'
<1>1. /\ UNCHANGED <<queue, own, blocked, waiting, ready, todo>>
      /\ buf' \in {buf, Put(buf, w, "freed"), Put(buf, w, "leaked")}
  BY DEF SyncSend, SyncDone, SyncThrows, buffers, strand
<1>2. \A v \in Async : buf'[v] = buf[v]
  <2>1. buf \in [Writes -> {"none", "held", "freed", "leaked"}]
    BY InvFacts DEF TypeOK
  <2> QED BY <1>1, <2>1, WriteAssumption DEF Put, Writes
<1> QED BY <1>1, <1>2, OwnSame, InvFacts

(* The remaining steps.                                                    *)
LEMMA OtherOwn ==
  ASSUME WriteInv,
         UNCHANGED <<queue, own, blocked, waiting, ready, todo, buf>>
  PROVE  OwnInv'
BY OwnSame, InvFacts

LEMMA OwnStep == WriteInv /\ [Next]_vars => OwnInv'
<1> SUFFICES ASSUME WriteInv, [Next]_vars PROVE OwnInv'
  OBVIOUS
<1>1. CASE \E w \in Writes : WriteNothing(w)
  BY <1>1, OtherOwn DEF WriteNothing, strand
<1>2. CASE \E w \in Writes, n \in 1..MaxSize :
             cq_irc_session_write(w, n) \/ cq_irc_session_write_sync(w, n)
  BY <1>2, WriteOwn
<1>3. CASE \E w \in Sync : SyncSend(w) \/ SyncDone(w) \/ SyncThrows(w)
  BY <1>3, SyncOwn
<1>4. CASE \E t \in Threads : Service(t)
  <2>1. \A t \in Threads, w \in Async : WriteMoreFreed(t, w) => OwnInv'
    BY OtherOwn DEF WriteMoreFreed, buffers, strand
  <2> QED BY <1>4, <2>1, CompletionOwn, RunStrandOwn, WritableOwn, LeaveOwn,
             WriteMoreOwn, OnWriteOwn DEF Service
<1>5. CASE Connects \/ Drains \/ Breaks
  BY <1>5, OtherOwn DEF Connects, Drains, Breaks, buffers, strand
<1>6. CASE Disconnect \/ Destroy
  BY <1>6, CloseOwn
<1>7. CASE DestroyService
  BY <1>7, DestroyServiceOwn
<1>8. CASE UNCHANGED vars
  BY <1>8, OtherOwn DEF vars
<1> QED BY <1>1, <1>2, <1>3, <1>4, <1>5, <1>6, <1>7, <1>8 DEF Next

(* The name that Owners gives to a place.                                  *)
NameOf(p) == IF p[1] \in {"own", "todo"} THEN p ELSE p[1]

LEMMA OwnersArePlaces ==
  ASSUME NEW w
  PROVE  Owners(w)
           = UNION {{<<NameOf(p), i>> :
                       i \in {j \in 1..Len(Holds[p]) : Holds[p][j] = w}}
                      : p \in Places}
<1> DEFINE At(p) == {<<NameOf(p), i>> :
                        i \in {j \in 1..Len(Holds[p]) : Holds[p][j] = w}}
           In(name, s) == {<<name, i>> : i \in {j \in 1..Len(s) : s[j] = w}}
<1>1. /\ At(Queue) = In("queue", queue) /\ At(Blocked) = In("blocked", blocked)
      /\ At(Waiting) = In("waiting", waiting) /\ At(Ready) = In("ready", ready)
      /\ \A t \in Threads : /\ At(Own(t)) = In(<<"own", t>>, own[t])
                            /\ At(Todo(t)) = In(<<"todo", t>>, todo[t])
  <2>1. /\ NameOf(Queue) = "queue" /\ NameOf(Blocked) = "blocked"
        /\ NameOf(Waiting) = "waiting" /\ NameOf(Ready) = "ready"
        /\ \A t \in Threads : NameOf(Own(t)) = <<"own", t>>
                              /\ NameOf(Todo(t)) = <<"todo", t>>
    BY DEF NameOf, Queue, Blocked, Waiting, Ready, Own, Todo
  <2> QED BY <2>1, HoldsAt
<1>2. Owners(w) = In("queue", queue) \cup In("blocked", blocked)
                    \cup In("waiting", waiting) \cup In("ready", ready)
                    \cup UNION {In(<<"own", t>>, own[t])
                                  \cup In(<<"todo", t>>, todo[t]) :
                                  t \in Threads}
  BY DEF Owners
<1> HIDE DEF In, At
<1>3. ASSUME NEW o \in Owners(w)
      PROVE  \E p \in Places : o \in At(p)
  <2>1. CASE o \in In("queue", queue) \cup In("blocked", blocked)
                     \cup In("waiting", waiting) \cup In("ready", ready)
    BY <1>1, <2>1, PlaceFacts
  <2>2. CASE \E t \in Threads : o \in In(<<"own", t>>, own[t])
                                        \cup In(<<"todo", t>>, todo[t])
    BY <1>1, <2>2, PlaceFacts
  <2> QED BY <1>2, <1>3, <2>1, <2>2
<1>4. ASSUME NEW p \in Places, NEW o \in At(p)
      PROVE  o \in Owners(w)
  <2>1. CASE p \in {Queue, Blocked, Waiting, Ready}
    BY <1>1, <1>2, <1>4, <2>1
  <2>2. ASSUME NEW t \in Threads, p \in {Own(t), Todo(t)}
        PROVE  o \in Owners(w)
    BY <1>1, <1>2, <1>4, <2>2
  <2> QED BY <2>1, <2>2, PlaceFacts
<1>5. Owners(w) = UNION {At(p) : p \in Places}
  BY <1>3, <1>4
<1> QED BY <1>5 DEF At

LEMMA OneOwnerHolds == WriteInv => OneOwner
<1> SUFFICES ASSUME WriteInv PROVE OneOwner
  OBVIOUS
<1>1. ASSUME NEW w \in Async, buf[w] = "held"
      PROVE  \E o \in Owners(w) : Owners(w) = {o}
  <2>1. PICK p \in Places : w \in Elems(Holds[p])
    BY <1>1, InvFacts DEF Somewhere
  <2>2. PICK i \in 1..Len(Holds[p]) : Holds[p][i] = w
    BY <2>1 DEF Elems
  <2>3. ASSUME NEW q \in Places, NEW j \in 1..Len(Holds[q]), Holds[q][j] = w
        PROVE  q = p /\ j = i
    <3>1. w \in Elems(Holds[q])
      BY <2>3 DEF Elems
    <3>2. q = p
      BY <2>1, <3>1, InvFacts DEF Apart
    <3>3. Once(Holds[p])
      BY InvFacts DEF Apart
    <3> QED BY <2>2, <2>3, <3>2, <3>3 DEF Once
  <2>4. Owners(w) = {<<NameOf(p), i>>}
    BY <2>2, <2>3, OwnersArePlaces
  <2> QED BY <2>4
<1>2. ASSUME NEW w \in Async, buf[w] # "held"
      PROVE  Owners(w) = {}
  <2>1. ASSUME NEW q \in Places, NEW j \in 1..Len(Holds[q]), Holds[q][j] = w
        PROVE  FALSE
    BY <1>2, <2>1, InvFacts DEF Somewhere, Elems
  <2> QED BY <2>1, OwnersArePlaces
<1>3. LeakInv
  BY DEF WriteInv
<1> QED BY <1>1, <1>2, <1>3 DEF OneOwner, LeakInv

LEMMA StrandSoundHolds == WriteInv => StrandSound
<1> SUFFICES ASSUME WriteInv PROVE StrandSound
  OBVIOUS
<1> DEFINE scheduled == {i \in 1..Len(queue) : queue[i] = Strand}
<1>1. Once(queue)
  BY PlaceFacts, HoldsAt, InvFacts DEF Apart
<1>2. \A i, j \in scheduled : i = j
  BY <1>1 DEF Once
<1>3. Strand \in Elems(queue) <=> scheduled # {}
  BY DEF Elems
<1>4. StrandInv
  BY InvFacts
<1> QED BY Zenon, <1>2, <1>3, <1>4 DEF StrandInv, StrandSound

-----------------------------------------------------------------------------
(***************************************************************************)
(* Which writes a deleted session harms.                                   *)
(***************************************************************************)

(* A send that waits in the reactor has something left to send; one that   *)
(* completed without an error has sent something.                          *)
HarmInv ==
  /\ \A w \in Elems(blocked) : sent[w] < size[w]
  /\ \A w \in Async : buf[w] = "held" /\ w \notin Elems(blocked)
                        /\ ec[w] = "ok" => sent[w] > 0
  /\ DestroyHarmsOnlyPartial

(* The kernel takes at least one unit when it has room.                    *)
LEMMA SendGrows ==
  ASSUME TypeOK, NEW w \in Async, NEW n \in Nat \ {0}, Send(w, n), space > 0
  PROVE  /\ sent'[w] > sent[w] /\ sent'[w] > 0
         /\ \A v \in Writes : v # w => sent'[v] = sent[v]
<1> DEFINE k == Least(space, n)
<1>1. k \in Nat \ {0}
  BY WriteAssumption DEF TypeOK, Least
<1>2. sent' = [sent EXCEPT ![w] = sent[w] + k]
  BY DEF Send
<1> HIDE DEF k
<1>3. sent \in [Writes -> 0..(MaxSize + 1)] /\ w \in Writes /\ MaxSize \in Nat
  BY WriteAssumption DEF TypeOK, Writes
<1> QED BY <1>1, <1>2, <1>3

(* The operations that wait are asynchronous writes.                       *)
LEMMA BlockedFacts ==
  ASSUME WriteInv
  PROVE  /\ blocked \in Seq(Async) /\ Elems(blocked) \subseteq Async
         /\ Elems(blocked) \subseteq Somewhere(Holds) /\ Once(blocked)
<1>1. blocked \in Seq(Async)
  BY SeqTypes, InvFacts
<1>2. Holds[Blocked] = blocked /\ Blocked \in Places
  BY HoldsAt, PlaceFacts
<1>3. Elems(blocked) \subseteq Somewhere(Holds) /\ Once(blocked)
  BY <1>2, InvFacts DEF Somewhere, Apart
<1> QED BY <1>1, <1>3, ElemsType

(* A try for n units of w, which does not wait and of which nothing, or    *)
(* not all, has been sent.                                                 *)
LEMMA TryHarm ==
  ASSUME WriteInv, HarmInv, NEW w \in Async, NEW n \in Nat \ {0},
         w \notin Elems(blocked), AsyncWriteSome(w, n),
         buf' = buf \/ buf' = Put(buf, w, "held"),
         \A v \in Writes : v # w => size'[v] = size[v],
         sent[w] < size'[w], fate' = "run"
  PROVE  HarmInv'
<1>1. \/ ec' = Put(ec, w, "error") /\ sent' = sent /\ blocked' = blocked
      \/ Send(w, n) /\ space > 0 /\ ec' = Put(ec, w, "ok")
           /\ blocked' = blocked
      \/ sent' = sent /\ ec' = ec /\ blocked' = Append(blocked, w)
  BY DEF AsyncWriteSome, kernel
<1>2. /\ Elems(blocked') = Elems(blocked)
           \/ (Elems(blocked') = Elems(blocked) \cup {w} /\ sent' = sent)
      /\ w \in Elems(blocked') \/ ec'[w] = "error" \/ sent'[w] > 0
      /\ \A v \in Writes : v # w => sent'[v] = sent[v] /\ ec'[v] = ec[v]
  <2>1. ec \in [Writes -> {"ok", "error"}] /\ w \in Writes
    BY InvFacts DEF TypeOK
  <2>2. CASE ec' = Put(ec, w, "error") /\ sent' = sent /\ blocked' = blocked
    BY <2>1, <2>2 DEF Put
  <2>3. CASE Send(w, n) /\ space > 0 /\ ec' = Put(ec, w, "ok")
               /\ blocked' = blocked
    <3>1. /\ sent'[w] > 0 /\ (\A v \in Writes : v # w => sent'[v] = sent[v])
      BY <2>3, SendGrows, InvFacts
    <3> QED BY <2>1, <2>3, <3>1 DEF Put
  <2>4. CASE sent' = sent /\ ec' = ec /\ blocked' = Append(blocked, w)
    <3>1. Elems(blocked') = Elems(blocked) \cup {w}
      BY <2>4, BlockedFacts, ElemsOfAppend
    <3> QED BY <2>4, <3>1
  <2> QED BY <1>1, <2>2, <2>3, <2>4
<1>3. \A v \in Async : v # w => (buf'[v] = buf[v] /\ v \in Writes)
  BY InvFacts DEF Put, TypeOK
<1>4. \A v \in Elems(blocked') : sent'[v] < size'[v]
  <2>1. ASSUME NEW v \in Elems(blocked')
        PROVE  sent'[v] < size'[v]
    <3>1. CASE v = w
      BY <1>2, <2>1, <3>1
    <3>2. CASE v # w
      <4>1. v \in Elems(blocked) /\ v \in Writes
        BY <1>2, <2>1, <3>2, BlockedFacts, InvFacts
      <4> QED BY <1>2, <3>2, <4>1 DEF HarmInv
    <3> QED BY <3>1, <3>2
  <2> QED BY <2>1
<1>5. ASSUME NEW v \in Async, buf'[v] = "held", v \notin Elems(blocked'),
             ec'[v] = "ok"
      PROVE  sent'[v] > 0
  <2>1. CASE v = w
    BY <1>2, <1>5, <2>1
  <2>2. CASE v # w
    BY <1>2, <1>3, <1>5, <2>2 DEF HarmInv
  <2> QED BY <2>1, <2>2
<1>6. DestroyHarmsOnlyPartial'
  BY DEF DestroyHarmsOnlyPartial
<1> QED BY <1>4, <1>5, <1>6 DEF HarmInv

LEMMA WriteHarm ==
  ASSUME WriteInv, HarmInv, NEW w \in Writes, NEW n \in 1..MaxSize,
         cq_irc_session_write(w, n) \/ cq_irc_session_write_sync(w, n)
  PROVE  HarmInv'
<1>1. /\ buf[w] = "none" /\ buf' = Put(buf, w, "held")
      /\ size' = Put(size, w, n + 1) /\ fate' = "run"
  BY DEF cq_irc_session_write, cq_irc_session_write_sync, NewBuffer, Callable,
         Runs
<1>2. /\ n + 1 \in Nat \ {0}
      /\ size'[w] = n + 1 /\ (\A v \in Writes : v # w => size'[v] = size[v])
      /\ \A v \in Writes : v # w => buf'[v] = buf[v]
  BY <1>1, WriteAssumption, InvFacts DEF TypeOK, Put
<1>3. CASE cq_irc_session_write(w, n)
  <2>1. w \in Async /\ AsyncWriteSome(w, n + 1)
    BY <1>3 DEF cq_irc_session_write
  <2>2. w \notin Elems(blocked)
    BY <1>1, <2>1, BlockedFacts, InvFacts
  <2>3. sent[w] = 0
    <3>1. size[w] = 0
      BY <1>1 DEF WriteInv, TypeInv, SizeInv
    <3>2. sent[w] \in Nat /\ sent[w] <= size[w]
      BY WriteAssumption, InvFacts DEF TypeOK
    <3> QED BY <3>1, <3>2
  <2>4. sent[w] < size'[w]
    BY <1>2, <2>3
  <2> QED BY <1>1, <1>2, <2>1, <2>2, <2>4, TryHarm
<1>4. CASE cq_irc_session_write_sync(w, n)
  <2>1. w \in Sync /\ w \notin Async
        /\ UNCHANGED <<sent, ec, blocked>>
    BY <1>4, WriteAssumption DEF cq_irc_session_write_sync, kernel
  <2>2. \A v \in Elems(blocked) : v # w /\ v \in Writes
    BY <2>1, BlockedFacts, InvFacts
  <2>3. \A v \in Elems(blocked') : sent'[v] < size'[v]
    BY <1>2, <2>1, <2>2 DEF HarmInv
  <2>4. \A v \in Async : buf'[v] = buf[v]
    BY <1>2, <2>1, InvFacts
  <2>5. DestroyHarmsOnlyPartial'
    BY <1>1 DEF DestroyHarmsOnlyPartial
  <2> QED BY <2>1, <2>3, <2>4, <2>5 DEF HarmInv
<1> QED BY <1>3, <1>4

LEMMA WritableHarm ==
  ASSUME WriteInv, HarmInv, NEW t \in Threads, Writable(t)
  PROVE  HarmInv'
<1> DEFINE w == Head(blocked)
<1>1. /\ blocked # <<>> /\ blocked' = Tail(blocked)
      /\ space > 0 \/ sock # "connected"
      /\ \/ sock = "connected" /\ Send(w, Left(w)) /\ ec' = Put(ec, w, "ok")
         \/ ec' = Put(ec, w, "error") /\ sent' = sent
      /\ buf' = buf /\ size' = size /\ fate' = "run"
  BY DEF Writable, Runs, buffers, kernel
<1>2. /\ w \in Async /\ w \in Elems(blocked)
      /\ w \notin Elems(blocked') /\ Elems(blocked') \subseteq Elems(blocked)
      /\ Elems(blocked) = Elems(blocked') \cup {w}
      /\ Elems(blocked) \subseteq Writes
  BY <1>1, BlockedFacts, ElemsOfTail, InvFacts
<1> HIDE DEF w
<1>3. Left(w) \in Nat \ {0} /\ w \in Writes
  <2>1. sent[w] < size[w] /\ w \in Writes
    BY <1>2, InvFacts DEF HarmInv
  <2>2. sent[w] \in Nat /\ size[w] \in Nat
    BY <2>1, WriteAssumption, InvFacts DEF TypeOK
  <2> QED BY <2>1, <2>2 DEF Left
<1>4. /\ ec'[w] = "error" \/ sent'[w] > 0
      /\ \A v \in Writes : v # w => sent'[v] = sent[v] /\ ec'[v] = ec[v]
  <2>1. ec \in [Writes -> {"ok", "error"}]
    BY InvFacts DEF TypeOK
  <2>2. CASE space > 0 /\ Send(w, Left(w)) /\ ec' = Put(ec, w, "ok")
    <3>1. sent'[w] > 0 /\ (\A v \in Writes : v # w => sent'[v] = sent[v])
      BY <1>2, <1>3, <2>2, SendGrows, InvFacts
    <3> QED BY <2>1, <2>2, <3>1 DEF Put
  <2>3. CASE ec' = Put(ec, w, "error") /\ sent' = sent
    BY <1>3, <2>1, <2>3 DEF Put
  <2> QED BY <1>1, <2>2, <2>3
<1>5. \A v \in Elems(blocked') : sent'[v] < size'[v]
  BY <1>1, <1>2, <1>4 DEF HarmInv
<1>6. ASSUME NEW v \in Async, buf'[v] = "held", v \notin Elems(blocked'),
             ec'[v] = "ok"
      PROVE  sent'[v] > 0
  <2>1. CASE v = w
    BY <1>4, <1>6, <2>1
  <2>2. CASE v # w
    BY <1>1, <1>2, <1>4, <1>6, <2>2, InvFacts DEF HarmInv
  <2> QED BY <2>1, <2>2
<1>7. DestroyHarmsOnlyPartial'
  BY <1>1 DEF DestroyHarmsOnlyPartial
<1> QED BY <1>5, <1>6, <1>7 DEF HarmInv

LEMMA ResumeHarm ==
  ASSUME WriteInv, HarmInv, NEW t \in Threads, NEW w \in Async,
         WriteMore(t, w) \/ WriteMoreFreed(t, w) \/ on_write(t, w)
  PROVE  HarmInv'
<1>1. w \in Elems(todo[t]) /\ w \in Somewhere(Holds) /\ w \notin Elems(blocked)
  <2>1. todo[t] \in Seq(Async) /\ todo[t] # <<>> /\ w = Head(todo[t])
    BY SeqTypes, InvFacts DEF WriteMore, WriteMoreFreed, on_write, Resumes
  <2>2. w \in Elems(todo[t])
    BY <2>1, ElemsOfTail
  <2>3. /\ Todo(t) \in Places /\ Blocked \in Places /\ Todo(t) # Blocked
        /\ Holds[Todo(t)] = todo[t] /\ Holds[Blocked] = blocked
    BY PlaceFacts, PlacesDiffer, HoldsAt
  <2>4. Elems(Holds[Todo(t)]) \cap Elems(Holds[Blocked]) = {}
    BY <2>3, InvFacts DEF Apart
  <2> QED BY <2>2, <2>3, <2>4 DEF Somewhere
<1>2. buf[w] = "held" /\ w \in Writes
  BY <1>1, InvFacts
<1>3. /\ ec[w] \in {"ok", "error"} /\ sent[w] \in Nat /\ size[w] \in Nat
      /\ sent[w] <= size[w]
  BY <1>2, WriteAssumption, InvFacts DEF TypeOK
<1>4. ASSUME ~Finished(w)
      PROVE  ec[w] = "ok" /\ Left(w) \in Nat \ {0} /\ sent[w] < size[w]
  BY <1>3, <1>4 DEF Finished, Left
<1>5. CASE WriteMore(t, w)
  <2>1. /\ ~Finished(w) /\ AsyncWriteSome(w, Left(w))
        /\ buf' = buf /\ size' = size /\ fate' = "run"
    BY <1>5 DEF WriteMore, Runs, buffers
  <2> QED BY <1>1, <1>4, <2>1, TryHarm
<1>6. CASE WriteMoreFreed(t, w)
  <2>1. /\ ~Finished(w) /\ UNCHANGED <<sent, size, buf, ec, blocked>>
    BY <1>6 DEF WriteMoreFreed, buffers, kernel
  <2>2. ec'[w] = "ok" /\ sent'[w] \in 1..(size'[w] - 1)
    <3>1. sent[w] > 0
      BY <1>1, <1>2, <1>4, <2>1 DEF HarmInv
    <3> QED BY <1>3, <1>4, <2>1, <3>1
  <2>3. DestroyHarmsOnlyPartial'
    BY <2>2 DEF DestroyHarmsOnlyPartial
  <2> QED BY <2>1, <2>3 DEF HarmInv
<1>7. CASE on_write(t, w)
  <2>1. /\ buf' = Put(buf, w, "freed") /\ fate' = "run"
        /\ UNCHANGED <<sent, size, ec, blocked>>
    BY <1>7 DEF on_write, Runs, kernel
  <2>2. \A v \in Async : buf'[v] = "held" => buf[v] = "held"
    BY <1>2, <2>1, InvFacts DEF Put, TypeOK
  <2>3. DestroyHarmsOnlyPartial'
    BY <2>1 DEF DestroyHarmsOnlyPartial
  <2> QED BY <2>1, <2>2, <2>3 DEF HarmInv
<1> QED BY <1>5, <1>6, <1>7

LEMMA CloseHarm ==
  ASSUME WriteInv, HarmInv, Disconnect \/ Destroy
  PROVE  HarmInv'
<1>1. /\ blocked' = <<>> /\ UNCHANGED <<sent, size, buf>> /\ fate' = "run"
      /\ ec' = [w \in Writes |-> IF \E i \in 1..Len(blocked) : blocked[i] = w
                                 THEN "error" ELSE ec[w]]
  BY DEF Disconnect, Destroy, Close, Runs, buffers, kernel
<1>2. \A w \in Async : ec'[w] = IF w \in Elems(blocked) THEN "error" ELSE ec[w]
  BY <1>1, InvFacts DEF Elems
<1>3. Elems(blocked') = {}
  BY <1>1, ElemsOfEmpty
<1>4. DestroyHarmsOnlyPartial'
  BY <1>1 DEF DestroyHarmsOnlyPartial
<1> QED BY <1>1, <1>2, <1>3, <1>4 DEF HarmInv

(* Steps that send nothing of an asynchronous write.                       *)
LEMMA OtherHarm ==
  ASSUME WriteInv, HarmInv, UNCHANGED <<size, ec>>, fate' # "use_after_free",
         \A w \in Async : sent'[w] = sent[w],
         \A w \in Async : buf'[w] = "held" => buf[w] = "held",
         blocked' = blocked
           \/ (blocked' = <<>> /\ \A w \in Async : buf'[w] # "held")
  PROVE  HarmInv'
<1>1. DestroyHarmsOnlyPartial'
  BY DEF DestroyHarmsOnlyPartial
<1>2. Elems(<<>>) = {}
  BY ElemsOfEmpty
<1> QED BY <1>1, <1>2, BlockedFacts DEF HarmInv

LEMMA HarmStep == WriteInv /\ HarmInv /\ [Next]_vars => HarmInv'
<1> SUFFICES ASSUME WriteInv, HarmInv, [Next]_vars PROVE HarmInv'
  OBVIOUS
<1>1. CASE \E w \in Writes : WriteNothing(w)
  BY <1>1, OtherHarm DEF WriteNothing, Runs, kernel
<1>2. CASE \E w \in Writes, n \in 1..MaxSize :
             cq_irc_session_write(w, n) \/ cq_irc_session_write_sync(w, n)
  BY <1>2, WriteHarm
<1>3. CASE \E w \in Sync : SyncSend(w) \/ SyncDone(w) \/ SyncThrows(w)
  <2>1. PICK w \in Sync : SyncSend(w) \/ SyncDone(w) \/ SyncThrows(w)
    BY <1>3
  <2>2. /\ UNCHANGED <<size, ec, blocked>> /\ fate' # "use_after_free"
        /\ buf' \in {buf, Put(buf, w, "freed"), Put(buf, w, "leaked")}
        /\ sent' = sent \/ \E k \in Int : sent' = [sent EXCEPT ![w] = k]
    <3>1. CASE SyncSend(w)
      <4>1. Left(w) \in Nat
        BY WriteAssumption, InvFacts DEF TypeOK, Left, Writes
      <4>2. sent' = [sent EXCEPT ![w] = sent[w] + Least(space, Left(w))]
        BY <3>1 DEF SyncSend, Send
      <4>3. sent[w] + Least(space, Left(w)) \in Int
        BY <4>1, WriteAssumption, InvFacts DEF TypeOK, Least, Writes
      <4> QED BY <3>1, <4>2, <4>3 DEF SyncSend, Runs, buffers
    <3>2. CASE SyncDone(w) \/ SyncThrows(w)
      BY <3>2 DEF SyncDone, SyncThrows, Runs, kernel
    <3> QED BY <2>1, <3>1, <3>2
  <2>3. \A v \in Async : sent'[v] = sent[v] /\ buf'[v] = buf[v]
    <3>1. /\ w \notin Async /\ sent \in [Writes -> 0..(MaxSize + 1)]
          /\ buf \in [Writes -> {"none", "held", "freed", "leaked"}]
      BY WriteAssumption, InvFacts DEF TypeOK
    <3> QED BY <2>2, <3>1, InvFacts DEF Put
  <2> QED BY <2>2, <2>3, OtherHarm
<1>4. CASE \E t \in Threads : Service(t)
  <2>1. \A t \in Threads :
          RunCompletion(t) \/ RunStrand(t) \/ LeaveStrand(t) => HarmInv'
    BY OtherHarm DEF RunCompletion, RunStrand, LeaveStrand, Runs, buffers,
                     kernel
  <2> QED BY <1>4, <2>1, WritableHarm, ResumeHarm DEF Service
<1>5. CASE Connects \/ Drains \/ Breaks
  BY <1>5, OtherHarm DEF Connects, Drains, Breaks, Runs, buffers, kernel
<1>6. CASE Disconnect \/ Destroy
  BY <1>6, CloseHarm
<1>7. CASE DestroyService
  <2>1. /\ UNCHANGED <<size, ec, sent>> /\ fate' = "run" /\ blocked' = <<>>
        /\ buf' = [w \in Writes |->
                     IF buf[w] = "held" THEN "leaked" ELSE buf[w]]
    BY <1>7 DEF DestroyService, Runs, kernel
  <2>2. \A w \in Async : buf'[w] # "held"
    BY <2>1, InvFacts
  <2> QED BY <2>1, <2>2, OtherHarm
<1>8. CASE UNCHANGED vars
  BY <1>8 DEF vars, HarmInv, DestroyHarmsOnlyPartial
<1> QED BY <1>1, <1>2, <1>3, <1>4, <1>5, <1>6, <1>7, <1>8 DEF Next

-----------------------------------------------------------------------------
(***************************************************************************)
(* Who leaks, and the theorems.                                            *)
(***************************************************************************)

LEMMA LeakStep == WriteInv /\ [Next]_vars => LeakInv'
<1> SUFFICES ASSUME WriteInv, [Next]_vars, NEW w \in Writes,
                    buf'[w] = "leaked"
             PROVE  IF w \in Async THEN svc' = "freed" ELSE fate' = "exception"
  BY DEF LeakInv
<1>1. /\ buf \in [Writes -> {"none", "held", "freed", "leaked"}]
      /\ Async \cap Sync = {} /\ w \in Async \cup Sync
      /\ svc \in {"live", "freed"}
      /\ buf[w] = "leaked" =>
           IF w \in Async THEN svc = "freed" ELSE fate = "exception"
  BY WriteAssumption, InvFacts DEF TypeOK, Writes, WriteInv, LeakInv
<1>2. CASE \E v \in Writes : WriteNothing(v)
  BY <1>1, <1>2 DEF WriteNothing, Runs
<1>3. CASE \E v \in Writes, n \in 1..MaxSize :
             cq_irc_session_write(v, n) \/ cq_irc_session_write_sync(v, n)
  BY <1>1, <1>3 DEF cq_irc_session_write, cq_irc_session_write_sync,
                    NewBuffer, Put, Runs
<1>4. CASE \E v \in Sync : SyncSend(v) \/ SyncDone(v) \/ SyncThrows(v)
  BY <1>1, <1>4 DEF SyncSend, SyncDone, SyncThrows, Put, Runs, buffers
<1>5. CASE \E t \in Threads : Service(t)
  <2>1. PICK t \in Threads : Service(t)
    BY <1>5
  <2>2. CASE RunCompletion(t) \/ RunStrand(t) \/ Writable(t) \/ LeaveStrand(t)
    BY <1>1, <2>2 DEF RunCompletion, RunStrand, Writable, LeaveStrand, Runs,
                      buffers
  <2>3. CASE \E v \in Async :
               WriteMore(t, v) \/ WriteMoreFreed(t, v) \/ on_write(t, v)
    BY <1>1, <2>3 DEF WriteMore, WriteMoreFreed, on_write, Put, Runs, buffers
  <2> QED BY <2>1, <2>2, <2>3 DEF Service
<1>6. CASE Connects \/ Drains \/ Breaks
  BY <1>1, <1>6 DEF Connects, Drains, Breaks, Runs, buffers
<1>7. CASE Disconnect \/ Destroy
  BY <1>1, <1>7 DEF Disconnect, Destroy, Close, Runs, buffers
<1>8. CASE DestroyService
  BY <1>1, <1>8 DEF DestroyService, Runs
<1>9. CASE UNCHANGED vars
  BY <1>1, <1>9 DEF vars
<1> QED BY <1>2, <1>3, <1>4, <1>5, <1>6, <1>7, <1>8, <1>9 DEF Next

LEMMA WriteInvInductive == Spec => []WriteInv
<1>1. Init => WriteInv
  BY InitType, InitInv DEF WriteInv
<1>2. WriteInv /\ [Next]_vars => WriteInv'
  <2>1. WriteInv => TypeInv
    BY DEF WriteInv
  <2> QED BY <2>1, TypeStep, StrandStep, OwnStep, LeakStep DEF WriteInv
<1> QED BY <1>1, <1>2, PTL DEF Spec

(* At most one thread runs completions of writes, and the strand is never  *)
(* forgotten while something is left to it, for any number of threads.     *)
THEOREM StrandCorrect == Spec => []StrandSound
BY WriteInvInductive, StrandSoundHolds, PTL

(* Exactly one operation owns the buffer of an outstanding asynchronous    *)
(* write, so it is deleted once, after its last send, unless the service   *)
(* is deleted first; no other buffer is leaked but by an exception.        *)
THEOREM OwnerCorrect == Spec => []OneOwner
BY WriteInvInductive, OneOwnerHolds, PTL

(* Deleting a session under its writes makes the library use freed memory  *)
(* only for a write of which a part has been sent and which has not        *)
(* failed: none that has not begun, has ended or waits in the reactor.     *)
THEOREM DestroyHarmsFew == Spec => []DestroyHarmsOnlyPartial
<1>1. Init => HarmInv
  <2>1. ASSUME Init
        PROVE  HarmInv
    <3>1. Elems(blocked) = {} /\ fate = "run"
          /\ \A w \in Async : buf[w] = "none"
      BY <2>1, ElemsOfEmpty DEF Init, Writes
    <3> QED BY <3>1 DEF HarmInv, DestroyHarmsOnlyPartial
  <2> QED BY <2>1
<1>2. HarmInv => DestroyHarmsOnlyPartial
  BY DEF HarmInv
<1> QED BY <1>1, <1>2, HarmStep, WriteInvInductive, PTL DEF Spec

-----------------------------------------------------------------------------
(***************************************************************************)
(* Whole lines.                                                            *)
(***************************************************************************)

(* Only writes that were called are on the wire.  While no two overlap,    *)
(* one is outstanding, and from its first unit on the wire holds nothing   *)
(* else: what it sends next continues its line.                            *)
LineInv ==
  /\ \A i \in 1..Len(wire) : buf[wire[i]] # "none"
  /\ ~overlap =>
       /\ \A v, w \in Outstanding : v = w
       /\ \A w \in Outstanding : \A i, j \in 1..Len(wire) :
            wire[i] = w /\ i <= j => wire[j] = w
       /\ \A w \in Writes : Contiguous(w)

(* Nothing is sent but units of w.                                         *)
Grows(w) ==
  /\ wire \in Seq(Writes) /\ wire' \in Seq(Writes) /\ Len(wire) <= Len(wire')
  /\ \A i \in 1..Len(wire') :
       wire'[i] = IF i <= Len(wire) THEN wire[i] ELSE w

LEMMA SendExtends ==
  ASSUME TypeOK, NEW w \in Writes, NEW n \in Nat, Send(w, n)
  PROVE  Grows(w)
<1> DEFINE k == Least(space, n)
           r == [i \in 1..k |-> w]
<1>1. k \in Nat /\ wire' = wire \o r /\ wire \in Seq(Writes)
  BY WriteAssumption DEF TypeOK, Least, Send
<1>2. r \in Seq(Writes) /\ Len(r) = k /\ \A i \in 1..k : r[i] = w
  <2>0. k \in Nat
    BY <1>1
  <2> HIDE DEF k
  <2>1. /\ r \in [1..k -> Writes] /\ \A i \in 1..k : r[i] = w
        /\ DOMAIN r = 1..k
    OBVIOUS
  <2> HIDE DEF r
  <2>2. r \in Seq(Writes)
    BY <2>0, <2>1, SeqDef
  <2>3. Len(r) = k
    BY <2>0, <2>1, <2>2
  <2> QED BY <2>1, <2>2, <2>3
<1> HIDE DEF k, r
<1>3. /\ wire' \in Seq(Writes) /\ Len(wire') = Len(wire) + k
      /\ \A i \in 1..Len(wire) + k :
           wire'[i] = IF i <= Len(wire) THEN wire[i] ELSE r[i - Len(wire)]
  BY <1>1, <1>2, ConcatProperties
<1>4. Len(wire) \in Nat
  BY <1>1, LenProperties
<1>5. ASSUME NEW i \in 1..Len(wire'), ~(i <= Len(wire))
      PROVE  i - Len(wire) \in 1..k
  BY <1>1, <1>3, <1>4, <1>5
<1> QED BY <1>1, <1>2, <1>3, <1>4, <1>5 DEF Grows

LEMMA SameExtends ==
  ASSUME TypeOK, NEW w \in Writes, UNCHANGED kernel
  PROVE  Grows(w)
<1>1. wire' = wire /\ wire \in Seq(Writes)
  BY DEF TypeOK, kernel
<1>2. Len(wire) \in Nat
  BY <1>1, LenProperties
<1> QED BY <1>1, <1>2 DEF Grows

LEMMA TryExtends ==
  ASSUME TypeOK, NEW w \in Async, NEW n \in Nat, AsyncWriteSome(w, n)
  PROVE  Grows(w)
<1>1. w \in Writes
  BY DEF Writes
<1>2. Send(w, n) \/ UNCHANGED kernel
  BY DEF AsyncWriteSome, kernel
<1> QED BY <1>1, <1>2, SendExtends, SameExtends

(* Steps that call nothing and send nothing.                               *)
LEMMA QuietLine ==
  ASSUME LineInv, wire' = wire, overlap' = overlap,
         \A w \in Writes : buf'[w] = "held" => buf[w] = "held",
         \A i \in 1..Len(wire) : buf'[wire[i]] = "none" => buf[wire[i]] = "none"
  PROVE  LineInv'
<1>1. Outstanding' \subseteq Outstanding
  BY DEF Outstanding
<1>2. \A w \in Writes : Contiguous(w) => Contiguous(w)'
  BY DEF Contiguous
<1>3. \A i \in 1..Len(wire') : buf'[wire'[i]] # "none"
  BY DEF LineInv
<1>4. ASSUME ~overlap'
      PROVE  /\ \A v, w \in Outstanding' : v = w
             /\ \A w \in Outstanding' : \A i, j \in 1..Len(wire') :
                  wire'[i] = w /\ i <= j => wire'[j] = w
             /\ \A w \in Writes : Contiguous(w)'
  BY <1>1, <1>2, <1>4 DEF LineInv
<1> QED BY <1>3, <1>4 DEF LineInv

(* Units of w sent after others of w, or before any of it, keep all lines  *)
(* in one piece.                                                           *)
LEMMA GrowsWhole ==
  ASSUME NEW w \in Writes, Grows(w), \A v \in Writes : Contiguous(v),
         \A i, j \in 1..Len(wire) : wire[i] = w /\ i <= j => wire[j] = w
  PROVE  /\ \A i, j \in 1..Len(wire') : wire'[i] = w /\ i <= j => wire'[j] = w
         /\ \A v \in Writes : Contiguous(v)'
<1>1. /\ Len(wire) \in Nat /\ Len(wire') \in Nat /\ Len(wire) <= Len(wire')
      /\ \A i \in 1..Len(wire') :
           wire'[i] = IF i <= Len(wire) THEN wire[i] ELSE w
  BY LenProperties DEF Grows
<1>2. \A i, j \in 1..Len(wire') : wire'[i] = w /\ i <= j => wire'[j] = w
  BY <1>1
<1>3. ASSUME NEW v \in Writes
      PROVE  Contiguous(v)'
  <2>1. SUFFICES ASSUME NEW i \in 1..Len(wire'), NEW m \in 1..Len(wire'),
                        wire'[i] = v, wire'[m] = v, NEW j \in i..m
                 PROVE  wire'[j] = v
    BY DEF Contiguous
  <2>2. j \in 1..Len(wire') /\ i <= j /\ j <= m
    BY <1>1
  <2>3. CASE v = w
    BY <1>2, <2>1, <2>2, <2>3
  <2>4. CASE v # w
    <3>1. m <= Len(wire) /\ i <= Len(wire)
      BY <1>1, <2>1, <2>4
    <3>2. i \in 1..Len(wire) /\ m \in 1..Len(wire) /\ j <= Len(wire)
          /\ wire[i] = v /\ wire[m] = v
      BY <1>1, <2>1, <2>2, <3>1
    <3>3. wire[j] = v
      BY <3>2 DEF Contiguous
    <3> QED BY <1>1, <2>2, <3>2, <3>3
  <2> QED BY <2>3, <2>4
<1> QED BY <1>2, <1>3

(* A step that sends units of an outstanding write.                        *)
LEMMA SendLine ==
  ASSUME LineInv, NEW w \in Writes, buf[w] = "held", Grows(w), buf' = buf,
         overlap' = overlap
  PROVE  LineInv'
<1>1. Outstanding' = Outstanding /\ w \in Outstanding
  BY DEF Outstanding
<1>2. \A i \in 1..Len(wire') : buf'[wire'[i]] # "none"
  BY LenProperties DEF Grows, LineInv
<1>3. ASSUME ~overlap'
      PROVE  /\ \A v, u \in Outstanding' : v = u
             /\ \A v \in Outstanding' : \A i, j \in 1..Len(wire') :
                  wire'[i] = v /\ i <= j => wire'[j] = v
             /\ \A v \in Writes : Contiguous(v)'
  <2>1. /\ \A v \in Outstanding : v = w
        /\ \A i, j \in 1..Len(wire) : wire[i] = w /\ i <= j => wire[j] = w
        /\ \A v \in Writes : Contiguous(v)
    BY <1>1, <1>3 DEF LineInv
  <2>2. /\ \A i, j \in 1..Len(wire') :
             wire'[i] = w /\ i <= j => wire'[j] = w
        /\ \A v \in Writes : Contiguous(v)'
    BY <2>1, GrowsWhole
  <2> QED BY <1>1, <2>1, <2>2
<1> QED BY <1>2, <1>3 DEF LineInv

(* A call, and what it sends at once.                                      *)
LEMMA CallLine ==
  ASSUME TypeOK, LineInv, NEW w \in Writes, buf[w] = "none", Grows(w),
         buf' = Put(buf, w, "held"), overlap' = (overlap \/ Outstanding # {})
  PROVE  LineInv'
<1>1. /\ Len(wire) \in Nat /\ Len(wire') \in Nat /\ Len(wire) <= Len(wire')
      /\ \A i \in 1..Len(wire') :
           wire'[i] = IF i <= Len(wire) THEN wire[i] ELSE w
  BY LenProperties DEF Grows
<1>2. /\ buf'[w] = "held" /\ \A v \in Writes : v # w => buf'[v] = buf[v]
  BY DEF TypeOK, Put
<1>3. /\ \A i \in 1..Len(wire) : wire[i] \in Writes /\ wire[i] # w
      /\ \A i \in 1..Len(wire') : buf'[wire'[i]] # "none"
  <2>1. \A i \in 1..Len(wire) : wire[i] \in Writes
    BY ElementOfSeq DEF Grows
  <2>2. \A i \in 1..Len(wire) : wire[i] # w /\ buf[wire[i]] # "none"
    BY DEF LineInv
  <2> QED BY <1>1, <1>2, <2>1, <2>2
<1>4. ASSUME ~overlap'
      PROVE  /\ \A v, u \in Outstanding' : v = u
             /\ \A v \in Outstanding' : \A i, j \in 1..Len(wire') :
                  wire'[i] = v /\ i <= j => wire'[j] = v
             /\ \A v \in Writes : Contiguous(v)'
  <2>1. Outstanding = {} /\ ~overlap
    BY <1>4
  <2>2. \A v \in Outstanding' : v = w
    BY <1>2, <2>1 DEF Outstanding
  <2>3. /\ \A i, j \in 1..Len(wire) : wire[i] = w /\ i <= j => wire[j] = w
        /\ \A v \in Writes : Contiguous(v)
    BY <1>3, <2>1 DEF LineInv
  <2>4. /\ \A i, j \in 1..Len(wire') :
             wire'[i] = w /\ i <= j => wire'[j] = w
        /\ \A v \in Writes : Contiguous(v)'
    BY <2>3, GrowsWhole
  <2> QED BY <2>2, <2>4
<1> QED BY <1>3, <1>4 DEF LineInv

(* What waits in a place of the service is held.                           *)
LEMMA QueuedIsHeld ==
  ASSUME WriteInv
  PROVE  /\ \A w \in Elems(blocked) : w \in Async /\ buf[w] = "held"
         /\ \A t \in Threads : \A w \in Elems(todo[t]) :
              w \in Async => buf[w] = "held" /\ w \notin Elems(blocked)
<1>1. \A w \in Elems(blocked) : w \in Async /\ buf[w] = "held"
  BY BlockedFacts, InvFacts
<1>2. ASSUME NEW t \in Threads
      PROVE  /\ Elems(todo[t]) \subseteq Somewhere(Holds)
             /\ Elems(todo[t]) \cap Elems(blocked) = {}
  <2>1. /\ Todo(t) \in Places /\ Blocked \in Places /\ Todo(t) # Blocked
        /\ Holds[Todo(t)] = todo[t] /\ Holds[Blocked] = blocked
    BY PlaceFacts, PlacesDiffer, HoldsAt
  <2> QED BY <2>1, InvFacts DEF Apart, Somewhere
<1> QED BY <1>1, <1>2, InvFacts

(* The write that a thread resumes.                                        *)
LEMMA ResumesHeld ==
  ASSUME WriteInv, NEW t \in Threads, NEW w \in Async, Resumes(t, w)
  PROVE  buf[w] = "held" /\ w \notin Elems(blocked) /\ w \in Writes
<1>1. todo[t] \in Seq(Async) /\ todo[t] # <<>> /\ w = Head(todo[t])
  BY SeqTypes, InvFacts DEF Resumes
<1>2. w \in Elems(todo[t])
  BY <1>1, ElemsOfTail
<1> QED BY <1>2, QueuedIsHeld, InvFacts

LEMMA ServiceLine ==
  ASSUME WriteInv, LineInv, NEW t \in Threads, Service(t)
  PROVE  LineInv'
<1>1. CASE RunCompletion(t) \/ RunStrand(t) \/ LeaveStrand(t)
  BY <1>1, QuietLine DEF RunCompletion, RunStrand, LeaveStrand, Runs, buffers,
                         kernel, history
<1>2. CASE Writable(t)
  <2> DEFINE w == Head(blocked)
  <2>1. /\ blocked # <<>> /\ buf' = buf /\ overlap' = overlap
        /\ Send(w, Left(w)) \/ UNCHANGED kernel
    BY <1>2 DEF Writable, buffers, history, kernel
  <2>2. w \in Elems(blocked)
    BY <2>1, BlockedFacts, ElemsOfTail
  <2> HIDE DEF w
  <2>3. w \in Async /\ w \in Writes /\ buf[w] = "held"
    BY <2>2, QueuedIsHeld, InvFacts
  <2>4. Left(w) \in Nat
    BY <2>3, WriteAssumption, InvFacts DEF TypeOK, Left
  <2>5. Grows(w)
    BY <2>1, <2>3, <2>4, SendExtends, SameExtends, InvFacts
  <2> QED BY <2>1, <2>3, <2>5, SendLine
<1>3. CASE \E w \in Async :
             WriteMore(t, w) \/ WriteMoreFreed(t, w) \/ on_write(t, w)
  <2>1. PICK w \in Async :
               WriteMore(t, w) \/ WriteMoreFreed(t, w) \/ on_write(t, w)
    BY <1>3
  <2>2. CASE WriteMore(t, w)
    <3>1. /\ Resumes(t, w) /\ AsyncWriteSome(w, Left(w))
          /\ buf' = buf /\ overlap' = overlap
      BY <2>2 DEF WriteMore, buffers, history
    <3>2. buf[w] = "held" /\ w \in Writes
      BY <3>1, ResumesHeld
    <3>3. Left(w) \in Nat
      BY <3>2, WriteAssumption, InvFacts DEF TypeOK, Left
    <3>4. Grows(w)
      BY <3>1, <3>3, TryExtends, InvFacts
    <3> QED BY <3>1, <3>2, <3>4, SendLine
  <2>3. CASE WriteMoreFreed(t, w)
    BY <2>3, QuietLine DEF WriteMoreFreed, buffers, kernel, history
  <2>4. CASE on_write(t, w)
    <3>1. /\ buf' = Put(buf, w, "freed") /\ wire' = wire /\ overlap' = overlap
      BY <2>4 DEF on_write, kernel, history
    <3>2. \A v \in Writes : buf'[v] = buf[v] \/ buf'[v] = "freed"
      BY <3>1, InvFacts DEF Put, TypeOK
    <3>3. \A i \in 1..Len(wire) : wire[i] \in Writes
      BY InvFacts, ElementOfSeq DEF TypeOK
    <3> QED BY <3>1, <3>2, <3>3, QuietLine
  <2> QED BY <2>1, <2>2, <2>3, <2>4
<1> QED BY <1>1, <1>2, <1>3 DEF Service

LEMMA SyncLine ==
  ASSUME WriteInv, LineInv, NEW w \in Sync,
         SyncSend(w) \/ SyncDone(w) \/ SyncThrows(w)
  PROVE  LineInv'
<1>1. w \in Writes /\ TypeOK
  BY InvFacts DEF Writes
<1>2. CASE SyncSend(w)
  <2>1. /\ buf[w] = "held" /\ Send(w, Left(w)) /\ buf' = buf
        /\ overlap' = overlap
    BY <1>2 DEF SyncSend, buffers, history
  <2>2. Left(w) \in Nat
    BY <1>1, WriteAssumption DEF TypeOK, Left
  <2>3. Grows(w)
    BY <1>1, <2>1, <2>2, SendExtends
  <2> QED BY <1>1, <2>1, <2>3, SendLine
<1>3. CASE SyncDone(w) \/ SyncThrows(w)
  <2>1. /\ wire' = wire /\ overlap' = overlap
        /\ buf' = Put(buf, w, "freed") \/ buf' = Put(buf, w, "leaked")
    BY <1>3 DEF SyncDone, SyncThrows, kernel, history
  <2>2. \A v \in Writes :
          buf'[v] = buf[v] \/ buf'[v] = "freed" \/ buf'[v] = "leaked"
    BY <1>1, <2>1 DEF Put, TypeOK
  <2>3. \A i \in 1..Len(wire) : wire[i] \in Writes
    BY <1>1, ElementOfSeq DEF TypeOK
  <2> QED BY <2>1, <2>2, <2>3, QuietLine
<1> QED BY <1>2, <1>3

LEMMA LineStep == WriteInv /\ LineInv /\ [Next]_vars => LineInv'
<1> SUFFICES ASSUME WriteInv, LineInv, [Next]_vars PROVE LineInv'
  OBVIOUS
<1>1. CASE \E w \in Writes : WriteNothing(w)
  BY <1>1, QuietLine DEF WriteNothing, kernel, history
<1>2. CASE \E w \in Writes, n \in 1..MaxSize :
             cq_irc_session_write(w, n) \/ cq_irc_session_write_sync(w, n)
  <2>1. PICK w \in Writes, n \in 1..MaxSize :
               cq_irc_session_write(w, n) \/ cq_irc_session_write_sync(w, n)
    BY <1>2
  <2>2. /\ buf[w] = "none" /\ buf' = Put(buf, w, "held")
        /\ overlap' = (overlap \/ Outstanding # {})
        /\ TypeOK /\ n + 1 \in Nat
    BY <2>1, InvFacts DEF cq_irc_session_write, cq_irc_session_write_sync,
                          NewBuffer, Callable
  <2>3. Grows(w)
    BY <2>1, <2>2, TryExtends, SameExtends
       DEF cq_irc_session_write, cq_irc_session_write_sync, kernel
  <2> QED BY <2>2, <2>3, CallLine
<1>3. CASE \E w \in Sync : SyncSend(w) \/ SyncDone(w) \/ SyncThrows(w)
  BY <1>3, SyncLine
<1>4. CASE \E t \in Threads : Service(t)
  BY <1>4, ServiceLine
<1>5. CASE Connects \/ Drains \/ Breaks
  BY <1>5, QuietLine DEF Connects, Drains, Breaks, buffers, kernel, history
<1>6. CASE Disconnect \/ Destroy
  BY <1>6, QuietLine DEF Disconnect, Destroy, Close, buffers, kernel, history
<1>7. CASE DestroyService
  <2>1. /\ wire' = wire /\ overlap' = overlap
        /\ buf' = [w \in Writes |->
                     IF buf[w] = "held" THEN "leaked" ELSE buf[w]]
    BY <1>7 DEF DestroyService, kernel, history
  <2>2. \A i \in 1..Len(wire) : wire[i] \in Writes
    BY InvFacts, ElementOfSeq DEF TypeOK
  <2> QED BY <2>1, <2>2, QuietLine
<1>8. CASE UNCHANGED vars
  BY <1>8, QuietLine DEF vars
<1> QED BY <1>1, <1>2, <1>3, <1>4, <1>5, <1>6, <1>7, <1>8 DEF Next

(* An application that starts no write before the previous one has ended   *)
(* never has one line inside another, however the kernel cuts them up.     *)
THEOREM LinesWhole == Spec => []ContiguousUnlessOverlapping
<1>1. Init => LineInv
  BY DEF Init, LineInv, Outstanding, Contiguous
<1>2. LineInv => ContiguousUnlessOverlapping
  BY DEF LineInv, ContiguousUnlessOverlapping
<1> QED BY <1>1, <1>2, LineStep, WriteInvInductive, PTL DEF Spec

-----------------------------------------------------------------------------
(***************************************************************************)
(* The order in which writes begin.                                        *)
(***************************************************************************)

(* The writes of which nothing is sent and which have not failed.          *)
Unbegun == {w \in Async : sent[w] = 0 /\ ec[w] = "ok"}

(* u was called before v, when c are the calls.                            *)
Earlier(c, u, v) ==
  \A p, q \in 1..Len(c) : c[p] = u /\ c[q] = v => p < q

(* The writes of s that are in U are in the order of the calls c.          *)
InOrder(s, U, c) ==
  \A i, j \in 1..Len(s) :
    i < j /\ s[i] \in U /\ s[j] \in U => Earlier(c, s[i], s[j])

(* BegunInCallOrder, read as what has not begun.                           *)
BegunOrder ==
  \A i, j \in 1..Len(calls) :
    i < j /\ calls[j] \in Async /\ sent[calls[j]] > 0 => calls[i] \notin Unbegun

(* calls has every write once that was called.  While the service exists   *)
(* those that have not begun wait in the reactor, in the order of the      *)
(* calls, whatever waits between them.  Nothing that waits has failed.     *)
OrderInv ==
  /\ calls \in Seq(Writes) /\ Once(calls)
  /\ \A w \in Writes : w \in Elems(calls) <=> buf[w] # "none"
  /\ svc = "freed" => inside = {}
  /\ svc = "live" => /\ Elems(calls) \cap Unbegun \subseteq Elems(blocked)
                     /\ InOrder(blocked, Unbegun, calls)
  /\ \A w \in Async : buf[w] = "none" \/ w \in Elems(blocked) => ec[w] = "ok"
  /\ BegunOrder

LEMMA BegunOrderMeans ==
  ASSUME TypeOK, BegunOrder
  PROVE  BegunInCallOrder
<1>1. \A w \in Async : sent[w] \in Nat /\ ec[w] \in {"ok", "error"}
  BY WriteAssumption DEF TypeOK, Writes
<1>2. \A w \in Async : w \in Unbegun <=> ~(sent[w] > 0 \/ ec[w] = "error")
  BY <1>1 DEF Unbegun
<1> QED BY <1>2 DEF BegunInCallOrder, BegunOrder

(* What waits stays in order, when less of it is to begin: as it is,       *)
(* without its head, or with something behind it that has begun.           *)
LEMMA StaysInOrder ==
  ASSUME NEW s \in Seq(Async), NEW r, NEW U, NEW V \in SUBSET U, NEW c,
         NEW w \in Async, w \notin V, InOrder(s, U, c),
         r = s \/ (s # <<>> /\ r = Tail(s)) \/ r = Append(s, w)
  PROVE  InOrder(r, V, c)
<1>1. Len(s) \in Nat /\ V \subseteq U
  BY LenProperties
<1>2. CASE r = s
  BY <1>1, <1>2 DEF InOrder
<1>3. CASE s # <<>> /\ r = Tail(s)
  <2>1. /\ Len(r) = Len(s) - 1
        /\ \A i \in 1..Len(r) : r[i] = s[i + 1]
    BY <1>3, HeadTailProperties
  <2>2. \A i \in 1..Len(r) : i + 1 \in 1..Len(s) /\ i \in Int
    BY <1>1, <2>1
  <2>3. SUFFICES ASSUME NEW i \in 1..Len(r), NEW j \in 1..Len(r),
                        i < j, r[i] \in V, r[j] \in V
                 PROVE  Earlier(c, r[i], r[j])
    BY DEF InOrder
  <2>4. i + 1 < j + 1 /\ s[i + 1] \in U /\ s[j + 1] \in U
    BY <1>1, <2>1, <2>2, <2>3
  <2>5. Earlier(c, s[i + 1], s[j + 1])
    BY <2>2, <2>4 DEF InOrder
  <2> QED BY <2>1, <2>5
<1>4. CASE r = Append(s, w)
  <2>1. /\ Len(r) = Len(s) + 1
        /\ \A i \in 1..Len(s) : r[i] = s[i]
        /\ r[Len(s) + 1] = w
    BY <1>4, AppendProperties
  <2>2. SUFFICES ASSUME NEW i \in 1..Len(r), NEW j \in 1..Len(r),
                        i < j, r[i] \in V, r[j] \in V
                 PROVE  Earlier(c, r[i], r[j])
    BY DEF InOrder
  <2>3. i \in 1..Len(s) /\ j \in 1..Len(s)
    <3>1. i # Len(s) + 1 /\ j # Len(s) + 1
      BY <2>1, <2>2
    <3> QED BY <1>1, <2>1, <3>1
  <2>4. Earlier(c, s[i], s[j])
    BY <1>1, <2>1, <2>2, <2>3 DEF InOrder
  <2> QED BY <2>1, <2>3, <2>4
<1> QED BY <1>2, <1>3, <1>4

(* Steps that change nothing of an asynchronous write but who owns it, or  *)
(* that end the service.                                                   *)
LEMMA QuietOrder ==
  ASSUME OrderInv, calls' = calls,
         \A w \in Writes : buf'[w] = "none" <=> buf[w] = "none",
         \A w \in Async : sent'[w] = sent[w] /\ ec'[w] = ec[w],
         svc' = "freed" => inside' = {},
         svc' = "live" => svc = "live" /\ blocked' = blocked,
         Elems(blocked') \subseteq Elems(blocked)
  PROVE  OrderInv'
<1>1. calls' \in Seq(Writes) /\ Once(calls')
  BY DEF OrderInv
<1>2. \A w \in Writes : w \in Elems(calls') <=> buf'[w] # "none"
  BY DEF OrderInv
<1>3. Unbegun' = Unbegun
  BY DEF Unbegun
<1>4. ASSUME svc' = "live"
      PROVE  /\ Elems(calls') \cap Unbegun' \subseteq Elems(blocked')
             /\ InOrder(blocked', Unbegun', calls')
  BY <1>3, <1>4 DEF OrderInv
<1>5. BegunOrder'
  BY <1>3 DEF OrderInv, BegunOrder
<1>6. \A w \in Async :
        buf'[w] = "none" \/ w \in Elems(blocked') => ec'[w] = "ok"
  BY DEF OrderInv, Writes
<1> QED BY <1>1, <1>2, <1>4, <1>5, <1>6 DEF OrderInv

(* An attempt to send w, of a thread or of the reactor: it has begun then, *)
(* or failed.  If it begins, nothing that was called before waits.         *)
LEMMA TryOrder ==
  ASSUME TypeOK, OrderInv, calls' = calls, buf' = buf,
         svc = "live", svc' = "live", NEW w \in Async,
         \A v \in Async : v # w => sent'[v] = sent[v] /\ ec'[v] = ec[v],
         w \notin Unbegun',
         sent'[w] > 0 =>
           \/ sent[w] > 0
           \/ \A v \in Elems(calls) \cap Unbegun : v = w \/ Earlier(calls, w, v),
         \/ blocked' = blocked
         \/ blocked # <<>> /\ blocked' = Tail(blocked) /\ w = Head(blocked)
         \/ blocked' = Append(blocked, w) /\ ec'[w] = "ok",
         buf[w] # "none", w \notin Elems(blocked') \/ ec'[w] = "ok"
  PROVE  OrderInv'
<1>1. calls' \in Seq(Writes) /\ Once(calls')
  BY DEF OrderInv
<1>2. \A v \in Writes : v \in Elems(calls') <=> buf'[v] # "none"
  BY DEF OrderInv
<1>3. Unbegun' \subseteq Unbegun \ {w}
  BY DEF Unbegun
<1>4. blocked \in Seq(Async)
  BY SeqTypes
<1>5. /\ Elems(calls) \cap Unbegun \subseteq Elems(blocked)
      /\ InOrder(blocked, Unbegun, calls)
  BY DEF OrderInv
<1>6. InOrder(blocked', Unbegun', calls')
  BY <1>3, <1>4, <1>5, StaysInOrder
<1>7. Elems(blocked) \subseteq Elems(blocked') \cup {w}
  <2>1. Elems(Append(blocked, w)) = Elems(blocked) \cup {w}
    BY <1>4, ElemsOfAppend
  <2>2. blocked # <<>> =>
          Elems(blocked) = Elems(Tail(blocked)) \cup {Head(blocked)}
    BY <1>4, ElemsOfTail
  <2> QED BY <2>1, <2>2
<1>8. Elems(calls') \cap Unbegun' \subseteq Elems(blocked')
  BY <1>3, <1>5, <1>7
<1>10. \A v \in Async :
         buf'[v] = "none" \/ v \in Elems(blocked') => ec'[v] = "ok"
  <2>1. Elems(blocked') \subseteq Elems(blocked) \cup {w}
    <3>1. Elems(Append(blocked, w)) = Elems(blocked) \cup {w}
      BY <1>4, ElemsOfAppend
    <3>2. blocked # <<>> =>
            Elems(blocked) = Elems(Tail(blocked)) \cup {Head(blocked)}
      BY <1>4, ElemsOfTail
    <3> QED BY <3>1, <3>2
  <2>2. \A v \in Async : buf[v] = "none" \/ v \in Elems(blocked) => ec[v] = "ok"
    BY DEF OrderInv
  <2> QED BY <2>1, <2>2
<1>9. BegunOrder'
  <2>1. SUFFICES ASSUME NEW i \in 1..Len(calls), NEW j \in 1..Len(calls),
                        i < j, calls[j] \in Async, sent'[calls[j]] > 0,
                        calls[i] \in Unbegun'
                 PROVE  FALSE
    BY DEF BegunOrder
  <2>2. calls[i] \in Unbegun /\ calls[i] # w
    BY <1>3, <2>1
  <2>3. ~(sent[calls[j]] > 0)
    BY <2>1, <2>2 DEF OrderInv, BegunOrder
  <2>4. calls[j] = w
    BY <2>1, <2>3
  <2>5. Earlier(calls, w, calls[i])
    <3>1. calls[i] \in Elems(calls)
      BY DEF Elems
    <3> QED BY <2>1, <2>2, <2>3, <2>4, <3>1
  <2>6. j < i
    BY <2>4, <2>5 DEF Earlier
  <2> QED BY <2>1, <2>6, LenProperties DEF TypeOK
<1> QED BY <1>1, <1>2, <1>6, <1>8, <1>9, <1>10 DEF OrderInv

(* A call: the new write is the last of the calls.  It begins at once only *)
(* if nothing waits, and waits behind everything else if it does not fail. *)
LEMMA CallOrder ==
  ASSUME TypeOK, OrderInv, NEW w \in Writes, buf[w] = "none",
         w \notin Elems(blocked),
         svc = "live", svc' = "live", calls' = Append(calls, w),
         buf' = Put(buf, w, "held"),
         \A v \in Async : v # w => sent'[v] = sent[v] /\ ec'[v] = ec[v],
         w \in Async /\ sent'[w] > 0 => blocked = <<>>,
         w \in Unbegun' => blocked' = Append(blocked, w),
         \/ blocked' = blocked
         \/ w \in Async /\ blocked' = Append(blocked, w) /\ ec'[w] = ec[w]
  PROVE  OrderInv'
<1>1. /\ calls \in Seq(Writes) /\ Once(calls) /\ w \notin Elems(calls)
      /\ Elems(calls) \cap Unbegun \subseteq Elems(blocked)
      /\ InOrder(blocked, Unbegun, calls) /\ BegunOrder
      /\ \A v \in Writes : v \in Elems(calls) <=> buf[v] # "none"
  BY DEF OrderInv
<1>2. /\ calls' \in Seq(Writes) /\ Once(calls')
      /\ Elems(calls') = Elems(calls) \cup {w}
  BY <1>1, ElemsOfAppend
<1>3. \A v \in Writes : v \in Elems(calls') <=> buf'[v] # "none"
  <2>1. \A v \in Writes : buf'[v] = IF v = w THEN "held" ELSE buf[v]
    BY DEF Put, TypeOK
  <2> QED BY <1>1, <1>2, <2>1
<1>4. Unbegun' \subseteq Unbegun \cup {w}
  BY DEF Unbegun
<1>5. blocked \in Seq(Async) /\ Len(blocked) \in Nat
  BY SeqTypes, LenProperties
<1>6. Elems(calls') \cap Unbegun' \subseteq Elems(blocked')
  <2>1. w \in Async => Elems(Append(blocked, w)) = Elems(blocked) \cup {w}
    BY <1>5, ElemsOfAppend
  <2>2. w \in Unbegun' => w \in Async
    BY DEF Unbegun
  <2> QED BY <1>1, <1>2, <1>4, <2>1, <2>2
<1>7. /\ Len(calls) \in Nat /\ Len(calls') = Len(calls) + 1
      /\ \A i \in 1..Len(calls) : calls'[i] = calls[i] /\ calls[i] # w
      /\ calls'[Len(calls) + 1] = w
  <2>1. \A i \in 1..Len(calls) : calls[i] # w
    BY <1>1 DEF Elems
  <2> QED BY <1>1, <2>1, AppendProperties, LenProperties
<1>8. InOrder(blocked', Unbegun', calls')
  <2>1. ASSUME NEW u, NEW v, u # w, v # w, Earlier(calls, u, v)
        PROVE  Earlier(calls', u, v)
    <3>1. SUFFICES ASSUME NEW p \in 1..Len(calls'), NEW q \in 1..Len(calls'),
                          calls'[p] = u, calls'[q] = v
                   PROVE  p < q
      BY DEF Earlier
    <3>2. p \in 1..Len(calls) /\ q \in 1..Len(calls)
      BY <1>7, <2>1, <3>1
    <3> QED BY <1>7, <2>1, <3>1, <3>2 DEF Earlier
  <2>2. ASSUME NEW u, u # w
        PROVE  Earlier(calls', u, w)
    <3>1. SUFFICES ASSUME NEW p \in 1..Len(calls'), NEW q \in 1..Len(calls'),
                          calls'[p] = u, calls'[q] = w
                   PROVE  p < q
      BY DEF Earlier
    <3>2. p \in 1..Len(calls) /\ q = Len(calls) + 1
      BY <1>7, <2>2, <3>1
    <3> QED BY <1>7, <3>2
  <2>3. \A i \in 1..Len(blocked) : blocked[i] # w
    BY DEF Elems
  <2>4. CASE blocked' = blocked
    <3>1. SUFFICES ASSUME NEW i \in 1..Len(blocked), NEW j \in 1..Len(blocked),
                          i < j, blocked[i] \in Unbegun', blocked[j] \in Unbegun'
                   PROVE  Earlier(calls', blocked[i], blocked[j])
      BY <2>4 DEF InOrder
    <3>2. blocked[i] # w /\ blocked[j] # w
      BY <2>3
    <3>3. Earlier(calls, blocked[i], blocked[j])
      BY <1>1, <1>4, <3>1, <3>2 DEF InOrder
    <3> QED BY <2>1, <3>2, <3>3
  <2>5. CASE w \in Async /\ blocked' = Append(blocked, w)
    <3>1. /\ Len(blocked') = Len(blocked) + 1
          /\ \A i \in 1..Len(blocked) : blocked'[i] = blocked[i]
          /\ blocked'[Len(blocked) + 1] = w
      BY <1>5, <2>5, AppendProperties
    <3>2. SUFFICES ASSUME NEW i \in 1..Len(blocked'),
                          NEW j \in 1..Len(blocked'), i < j,
                          blocked'[i] \in Unbegun', blocked'[j] \in Unbegun'
                   PROVE  Earlier(calls', blocked'[i], blocked'[j])
      BY DEF InOrder
    <3>3. i \in 1..Len(blocked) /\ blocked'[i] = blocked[i] /\ blocked[i] # w
      BY <1>5, <2>3, <3>1, <3>2
    <3>4. CASE j = Len(blocked) + 1
      BY <2>2, <3>1, <3>3, <3>4
    <3>5. CASE j # Len(blocked) + 1
      <4>1. j \in 1..Len(blocked) /\ blocked'[j] = blocked[j] /\ blocked[j] # w
        BY <1>5, <2>3, <3>1, <3>5
      <4>2. Earlier(calls, blocked[i], blocked[j])
        BY <1>1, <1>4, <3>2, <3>3, <4>1 DEF InOrder
      <4> QED BY <2>1, <3>3, <4>1, <4>2
    <3> QED BY <3>4, <3>5
  <2> QED BY <2>4, <2>5
<1>9. BegunOrder'
  <2>1. SUFFICES ASSUME NEW i \in 1..Len(calls'), NEW j \in 1..Len(calls'),
                        i < j, calls'[j] \in Async, sent'[calls'[j]] > 0,
                        calls'[i] \in Unbegun'
                 PROVE  FALSE
    BY DEF BegunOrder
  <2>2. i \in 1..Len(calls) /\ calls'[i] = calls[i] /\ calls[i] # w
    BY <1>7, <2>1
  <2>3. calls[i] \in Unbegun /\ calls[i] \in Elems(calls)
    BY <1>4, <2>1, <2>2 DEF Elems
  <2>4. CASE j = Len(calls) + 1
    <3>1. blocked = <<>>
      BY <1>7, <2>1, <2>4
    <3> QED BY <1>1, <2>3, <3>1, ElemsOfEmpty
  <2>5. CASE j # Len(calls) + 1
    <3>1. j \in 1..Len(calls) /\ calls'[j] = calls[j] /\ calls[j] # w
      BY <1>7, <2>5
    <3>2. sent[calls[j]] > 0 /\ calls[j] \in Async
      BY <2>1, <3>1
    <3> QED BY <1>1, <2>1, <2>2, <2>3, <3>1, <3>2 DEF BegunOrder
  <2> QED BY <2>4, <2>5
<1>10. \A v \in Async :
         buf'[v] = "none" \/ v \in Elems(blocked') => ec'[v] = "ok"
  <2>1. \A v \in Async : buf[v] = "none" \/ v \in Elems(blocked) => ec[v] = "ok"
    BY DEF OrderInv
  <2>2. \A v \in Async : buf'[v] = "none" => v # w /\ buf[v] = "none"
    BY DEF Put, TypeOK, Writes
  <2>3. CASE blocked' = blocked
    BY <2>1, <2>2, <2>3
  <2>4. CASE w \in Async /\ blocked' = Append(blocked, w) /\ ec'[w] = ec[w]
    <3>1. Elems(blocked') = Elems(blocked) \cup {w}
      BY <1>5, <2>4, ElemsOfAppend
    <3> QED BY <2>1, <2>2, <2>4, <3>1
  <2> QED BY <2>3, <2>4
<1> QED BY <1>2, <1>3, <1>6, <1>8, <1>9, <1>10 DEF OrderInv

LEMMA LenOfEmpty == 1..Len(<<>>) = {}
OBVIOUS

(* close(): what waits fails.                                              *)
LEMMA CloseOrder ==
  ASSUME WriteInv, OrderInv, Disconnect \/ Destroy
  PROVE  OrderInv'
<1>1. /\ blocked' = <<>> /\ sent' = sent /\ buf' = buf /\ calls' = calls
      /\ svc' = svc /\ inside' = inside
      /\ ec' = [w \in Writes |-> IF \E i \in 1..Len(blocked) : blocked[i] = w
                                 THEN "error" ELSE ec[w]]
  BY DEF Disconnect, Destroy, Close, buffers, kernel, strand, history
<1>2. \A w \in Async : ec'[w] = IF w \in Elems(blocked) THEN "error" ELSE ec[w]
  BY <1>1, InvFacts DEF Elems
<1>3. Unbegun' \subseteq Unbegun \ Elems(blocked)
  <2>1. \A w \in Async : sent'[w] = sent[w]
    BY <1>1
  <2>2. SUFFICES ASSUME NEW w \in Async, sent'[w] = 0, ec'[w] = "ok"
                 PROVE  sent[w] = 0 /\ ec[w] = "ok" /\ w \notin Elems(blocked)
    BY DEF Unbegun
  <2>3. w \notin Elems(blocked)
    BY <1>2, <2>2
  <2> QED BY <1>2, <2>1, <2>2, <2>3
<1>4. svc' = "live" => Elems(calls') \cap Unbegun' \subseteq Elems(blocked')
  BY <1>1, <1>3 DEF OrderInv
<1>5. InOrder(blocked', Unbegun', calls')
  BY <1>1, LenOfEmpty DEF InOrder
<1>6. BegunOrder'
  BY <1>1, <1>3 DEF OrderInv, BegunOrder
<1>7. /\ calls' \in Seq(Writes) /\ Once(calls')
      /\ \A w \in Writes : w \in Elems(calls') <=> buf'[w] # "none"
      /\ svc' = "freed" => inside' = {}
  BY <1>1 DEF OrderInv
<1>8. \A w \in Async :
        buf'[w] = "none" \/ w \in Elems(blocked') => ec'[w] = "ok"
  <2>1. Elems(blocked') = {}
    BY <1>1, ElemsOfEmpty
  <2>2. \A w \in Elems(blocked) : buf[w] = "held"
    BY QueuedIsHeld
  <2>3. \A w \in Async : buf[w] = "none" => ec[w] = "ok"
    BY DEF OrderInv
  <2> SUFFICES ASSUME NEW w \in Async,
                      buf'[w] = "none" \/ w \in Elems(blocked')
               PROVE  ec'[w] = "ok"
    OBVIOUS
  <2>4. buf[w] = "none"
    BY <1>1, <2>1
  <2>5. w \notin Elems(blocked) /\ ec[w] = "ok"
    BY <2>2, <2>3, <2>4
  <2> QED BY <1>2, <2>5
<1> QED BY <1>4, <1>5, <1>6, <1>7, <1>8 DEF OrderInv

(* async_write_some: with room nothing waits; else the write waits or      *)
(* fails.                                                                  *)
LEMMA TryEffect ==
  ASSUME TypeOK, NEW w \in Async, NEW n \in Nat \ {0}, AsyncWriteSome(w, n)
  PROVE  /\ \A v \in Async : v # w => sent'[v] = sent[v] /\ ec'[v] = ec[v]
         /\ \/ /\ ec'[w] = "error" /\ sent'[w] = sent[w] /\ blocked' = blocked
            \/ /\ sent'[w] > 0 /\ blocked = <<>> /\ blocked' = blocked
            \/ /\ ec'[w] = ec[w] /\ sent'[w] = sent[w]
               /\ blocked' = Append(blocked, w)
<1>1. /\ ec \in [Writes -> {"ok", "error"}] /\ w \in Writes
      /\ Async \subseteq Writes
  BY DEF TypeOK, Writes
<1>2. \/ ec' = Put(ec, w, "error") /\ UNCHANGED kernel /\ blocked' = blocked
      \/ /\ Send(w, n) /\ space > 0 /\ ec' = Put(ec, w, "ok")
         /\ blocked = <<>> /\ blocked' = blocked
      \/ UNCHANGED kernel /\ ec' = ec /\ blocked' = Append(blocked, w)
  BY DEF AsyncWriteSome, kernel
<1>3. CASE UNCHANGED kernel
  <2>1. sent' = sent /\ \A v \in Async : sent'[v] = sent[v]
    BY <1>3 DEF kernel
  <2>2. CASE ec' = Put(ec, w, "error") /\ blocked' = blocked
    <3>1. ec'[w] = "error" /\ \A v \in Async : v # w => ec'[v] = ec[v]
      BY <1>1, <2>2 DEF Put
    <3> QED BY <2>1, <2>2, <3>1
  <2>3. CASE ec' = ec /\ blocked' = Append(blocked, w)
    BY <2>1, <2>3
  <2>4. CASE Send(w, n) /\ space > 0 /\ ec' = Put(ec, w, "ok")
               /\ blocked = <<>> /\ blocked' = blocked
    <3>1. /\ sent'[w] > 0
          /\ \A v \in Writes : v # w => sent'[v] = sent[v]
      BY <2>4, SendGrows
    <3> QED BY <1>1, <2>4, <3>1 DEF Put
  <2> QED BY <1>2, <2>2, <2>3, <2>4
<1>4. CASE Send(w, n) /\ space > 0 /\ ec' = Put(ec, w, "ok")
             /\ blocked = <<>> /\ blocked' = blocked
  <2>1. /\ sent'[w] > 0
        /\ \A v \in Writes : v # w => sent'[v] = sent[v]
    BY <1>4, SendGrows
  <2> QED BY <1>1, <1>4, <2>1 DEF Put
<1> QED BY <1>2, <1>3, <1>4

LEMMA WriteOrder ==
  ASSUME WriteInv, OrderInv, NEW w \in Writes, NEW n \in 1..MaxSize,
         cq_irc_session_write(w, n) \/ cq_irc_session_write_sync(w, n)
  PROVE  OrderInv'
<1>1. /\ buf[w] = "none" /\ svc = "live" /\ svc' = "live"
      /\ calls' = Append(calls, w) /\ buf' = Put(buf, w, "held")
  BY DEF cq_irc_session_write, cq_irc_session_write_sync, NewBuffer, Callable
<1>2. w \notin Elems(blocked) /\ TypeOK
  BY <1>1, QueuedIsHeld, InvFacts
<1>3. CASE cq_irc_session_write(w, n)
  <2>1. w \in Async /\ AsyncWriteSome(w, n + 1) /\ n + 1 \in Nat \ {0}
    BY <1>3 DEF cq_irc_session_write
  <2>2. sent[w] = 0
    <3>1. size[w] = 0
      BY <1>1 DEF WriteInv, TypeInv, SizeInv
    <3>2. sent[w] \in Nat /\ sent[w] <= size[w]
      BY <1>2, WriteAssumption DEF TypeOK
    <3> QED BY <3>1, <3>2
  <2>3. /\ \A v \in Async : v # w => sent'[v] = sent[v] /\ ec'[v] = ec[v]
        /\ \/ /\ ec'[w] = "error" /\ sent'[w] = sent[w] /\ blocked' = blocked
           \/ /\ sent'[w] > 0 /\ blocked = <<>> /\ blocked' = blocked
           \/ /\ ec'[w] = ec[w] /\ sent'[w] = sent[w]
              /\ blocked' = Append(blocked, w)
    BY <1>2, <2>1, TryEffect
  <2>4. /\ sent'[w] > 0 => blocked = <<>>
        /\ w \in Unbegun' => blocked' = Append(blocked, w)
        /\ blocked' = blocked \/ blocked' = Append(blocked, w)
    BY <2>2, <2>3 DEF Unbegun
  <2> QED BY <1>1, <1>2, <2>1, <2>3, <2>4, CallOrder
<1>4. CASE cq_irc_session_write_sync(w, n)
  <2>1. w \notin Async /\ UNCHANGED <<sent, ec, blocked>>
    BY <1>4, WriteAssumption DEF cq_irc_session_write_sync, kernel
  <2>2. w \notin Unbegun'
    BY <2>1 DEF Unbegun
  <2> QED BY <1>1, <1>2, <2>1, <2>2, CallOrder
<1> QED BY <1>3, <1>4

LEMMA WritableOrder ==
  ASSUME WriteInv, HarmInv, OrderInv, NEW t \in Threads, Writable(t)
  PROVE  OrderInv'
<1> DEFINE w == Head(blocked)
<1>1. /\ blocked # <<>> /\ blocked' = Tail(blocked)
      /\ \/ space > 0 /\ Send(w, Left(w)) /\ ec' = Put(ec, w, "ok")
         \/ ec' = Put(ec, w, "error") /\ sent' = sent
      /\ buf' = buf /\ calls' = calls /\ svc = "live" /\ svc' = "live"
  BY DEF Writable, Idle, buffers, kernel, history
<1>2. w \in Async /\ w \in Elems(blocked) /\ w = blocked[1]
      /\ blocked \in Seq(Async) /\ Len(blocked) \in Nat \ {0}
  BY <1>1, BlockedFacts, ElemsOfTail, HeadTailProperties, LenProperties
<1>3. w = Head(blocked)
  OBVIOUS
<1> HIDE DEF w
<1>4. TypeOK /\ w \in Writes /\ ec \in [Writes -> {"ok", "error"}]
      /\ Async \subseteq Writes
  BY <1>2, InvFacts DEF TypeOK
<1>5. Left(w) \in Nat \ {0}
  <2>1. sent[w] < size[w]
    BY <1>2 DEF HarmInv
  <2>2. sent[w] \in Nat /\ size[w] \in Nat
    BY <1>4, WriteAssumption DEF TypeOK
  <2> QED BY <2>1, <2>2 DEF Left
<1>6. /\ (ec'[w] = "error" /\ sent'[w] = sent[w]) \/ sent'[w] > 0
      /\ \A v \in Async : v # w => sent'[v] = sent[v] /\ ec'[v] = ec[v]
  <2>1. CASE space > 0 /\ Send(w, Left(w)) /\ ec' = Put(ec, w, "ok")
    <3>1. sent'[w] > 0 /\ \A v \in Writes : v # w => sent'[v] = sent[v]
      BY <1>2, <1>4, <1>5, <2>1, SendGrows
    <3> QED BY <1>4, <2>1, <3>1 DEF Put
  <2>2. CASE ec' = Put(ec, w, "error") /\ sent' = sent
    BY <1>4, <2>2 DEF Put
  <2> QED BY <1>1, <2>1, <2>2
<1>7. w \notin Unbegun'
  BY <1>6 DEF Unbegun
<1>8. ASSUME sent'[w] > 0
      PROVE  \/ sent[w] > 0
             \/ \A v \in Elems(calls) \cap Unbegun :
                  v = w \/ Earlier(calls, w, v)
  <2>1. SUFFICES ASSUME ~(sent[w] > 0), NEW v \in Elems(calls) \cap Unbegun,
                        v # w
                 PROVE  Earlier(calls, w, v)
    OBVIOUS
  <2>2. PICK j \in 1..Len(blocked) : v = blocked[j]
    BY <1>1, <2>1 DEF OrderInv, Elems
  <2>3. 1 < j /\ 1 \in 1..Len(blocked)
    BY <1>2, <2>1, <2>2
  <2>4. CASE w \in Unbegun
    BY <1>1, <1>2, <2>1, <2>2, <2>3, <2>4 DEF OrderInv, InOrder
  <2>5. w \in Unbegun
    <3>1. ec[w] = "ok"
      BY <1>2 DEF OrderInv
    <3>2. sent[w] = 0
      BY <1>4, <2>1, WriteAssumption DEF TypeOK
    <3> QED BY <1>2, <3>1, <3>2 DEF Unbegun
  <2> QED BY <2>4, <2>5
<1>9. buf[w] # "none" /\ w \notin Elems(blocked')
  BY <1>1, <1>2, <1>3, BlockedFacts, ElemsOfTail, QueuedIsHeld
<1> QED BY <1>1, <1>2, <1>3, <1>4, <1>6, <1>7, <1>8, <1>9, TryOrder

LEMMA ResumeOrder ==
  ASSUME WriteInv, OrderInv, NEW t \in Threads, NEW w \in Async,
         WriteMore(t, w) \/ WriteMoreFreed(t, w) \/ on_write(t, w)
  PROVE  OrderInv'
<1>1. Resumes(t, w) /\ t \in inside
  BY DEF WriteMore, WriteMoreFreed, on_write, Resumes
<1>2. buf[w] = "held" /\ w \notin Elems(blocked) /\ w \in Writes /\ TypeOK
  BY <1>1, ResumesHeld, InvFacts
<1>3. svc = "live"
  BY <1>1, <1>2 DEF OrderInv, TypeOK
<1>4. CASE WriteMore(t, w)
  <2>1. /\ ~Finished(w) /\ AsyncWriteSome(w, Left(w))
        /\ buf' = buf /\ calls' = calls /\ svc' = svc
    BY <1>4 DEF WriteMore, buffers, history
  <2>2. ec[w] = "ok" /\ Left(w) \in Nat \ {0} /\ sent[w] \in Nat
    BY <1>2, <2>1, WriteAssumption DEF Finished, Left, TypeOK
  <2>3. sent[w] > 0
    <3>1. w \in Elems(calls)
      BY <1>2 DEF OrderInv
    <3>2. w \notin Unbegun
      BY <1>2, <1>3, <3>1 DEF OrderInv
    <3> QED BY <2>2, <3>2 DEF Unbegun
  <2>4. /\ \A v \in Async : v # w => sent'[v] = sent[v] /\ ec'[v] = ec[v]
        /\ \/ /\ ec'[w] = "error" /\ sent'[w] = sent[w] /\ blocked' = blocked
           \/ /\ sent'[w] > 0 /\ blocked = <<>> /\ blocked' = blocked
           \/ /\ ec'[w] = ec[w] /\ sent'[w] = sent[w]
              /\ blocked' = Append(blocked, w)
    BY <1>2, <2>1, <2>2, TryEffect
  <2>5. w \notin Unbegun'
    BY <2>2, <2>3, <2>4 DEF Unbegun
  <2>6. \/ blocked' = blocked /\ w \notin Elems(blocked')
        \/ blocked' = Append(blocked, w) /\ ec'[w] = "ok"
    BY <1>2, <2>2, <2>4
  <2> QED BY <1>2, <1>3, <2>1, <2>3, <2>4, <2>5, <2>6, TryOrder
<1>5. CASE WriteMoreFreed(t, w)
  BY <1>3, <1>5, QuietOrder DEF WriteMoreFreed, buffers, kernel, history
<1>6. CASE on_write(t, w)
  <2>1. /\ buf' = Put(buf, w, "freed") /\ calls' = calls /\ svc' = svc
        /\ UNCHANGED <<sent, ec, blocked>>
    BY <1>6 DEF on_write, kernel, history
  <2>2. \A v \in Writes : buf'[v] = "none" <=> buf[v] = "none"
    BY <1>2, <2>1 DEF Put, TypeOK
  <2> QED BY <1>3, <2>1, <2>2, QuietOrder
<1> QED BY <1>4, <1>5, <1>6

LEMMA ServiceOrder ==
  ASSUME WriteInv, HarmInv, OrderInv, NEW t \in Threads, Service(t)
  PROVE  OrderInv'
<1>1. CASE RunCompletion(t) \/ RunStrand(t)
  BY <1>1, QuietOrder DEF RunCompletion, RunStrand, Idle, buffers, kernel,
                          history
<1>2. CASE LeaveStrand(t)
  <2>1. /\ inside' = inside \ {t} /\ t \in inside /\ svc' = svc
        /\ UNCHANGED <<buf, sent, ec, blocked, calls>>
    BY <1>2 DEF LeaveStrand, buffers, kernel, history
  <2>2. svc' = "freed" => inside' = {}
    BY <2>1 DEF OrderInv
  <2> QED BY <2>1, <2>2, QuietOrder
<1>3. CASE Writable(t)
  BY <1>3, WritableOrder
<1>4. CASE \E w \in Async :
             WriteMore(t, w) \/ WriteMoreFreed(t, w) \/ on_write(t, w)
  BY <1>4, ResumeOrder
<1> QED BY <1>1, <1>2, <1>3, <1>4 DEF Service

(* What write_sync sends is of a synchronous write.                        *)
LEMMA SyncOrder ==
  ASSUME WriteInv, OrderInv, NEW w \in Sync,
         SyncSend(w) \/ SyncDone(w) \/ SyncThrows(w)
  PROVE  OrderInv'
<1>1. w \in Writes /\ w \notin Async /\ TypeOK /\ Async \subseteq Writes
  BY WriteAssumption, InvFacts DEF Writes
<1>2. /\ UNCHANGED <<svc, inside, ec, blocked, calls>> /\ buf[w] = "held"
      /\ \/ buf' = buf
         \/ buf' = Put(buf, w, "freed") \/ buf' = Put(buf, w, "leaked")
      /\ sent' = sent \/ Send(w, Left(w))
  BY DEF SyncSend, SyncDone, SyncThrows, buffers, kernel, strand, history
<1>3. \A v \in Async : sent'[v] = sent[v] /\ ec'[v] = ec[v]
  BY <1>1, <1>2 DEF Send, TypeOK
<1>4. \A v \in Writes : buf'[v] = "none" <=> buf[v] = "none"
  BY <1>1, <1>2 DEF Put, TypeOK
<1>5. svc' = "freed" => inside' = {}
  BY <1>2 DEF OrderInv
<1> QED BY <1>2, <1>3, <1>4, <1>5, QuietOrder

LEMMA OrderStep == WriteInv /\ HarmInv /\ OrderInv /\ [Next]_vars => OrderInv'
<1> SUFFICES ASSUME WriteInv, HarmInv, OrderInv, [Next]_vars PROVE OrderInv'
  OBVIOUS
<1>1. svc = "freed" => inside = {}
  BY DEF OrderInv
<1>2. CASE \E w \in Writes : WriteNothing(w)
  BY <1>1, <1>2, QuietOrder DEF WriteNothing, kernel, strand, history
<1>3. CASE \E w \in Writes, n \in 1..MaxSize :
             cq_irc_session_write(w, n) \/ cq_irc_session_write_sync(w, n)
  BY <1>3, WriteOrder
<1>4. CASE \E w \in Sync : SyncSend(w) \/ SyncDone(w) \/ SyncThrows(w)
  BY <1>4, SyncOrder
<1>5. CASE \E t \in Threads : Service(t)
  BY <1>5, ServiceOrder
<1>6. CASE Connects \/ Drains \/ Breaks
  BY <1>1, <1>6, QuietOrder DEF Connects, Drains, Breaks, buffers, kernel,
                                strand, history
<1>7. CASE Disconnect \/ Destroy
  BY <1>7, CloseOrder
<1>8. CASE DestroyService
  <2>1. /\ svc' = "freed" /\ inside' = {} /\ UNCHANGED <<sent, ec, calls>>
        /\ blocked' = <<>>
        /\ buf' = [w \in Writes |->
                     IF buf[w] = "held" THEN "leaked" ELSE buf[w]]
    BY <1>8 DEF DestroyService, kernel, history
  <2>2. \A w \in Writes : buf'[w] = "none" <=> buf[w] = "none"
    BY <2>1
  <2>3. Elems(blocked') \subseteq Elems(blocked)
    BY <2>1, ElemsOfEmpty
  <2> QED BY <2>1, <2>2, <2>3, QuietOrder
<1>9. CASE UNCHANGED vars
  BY <1>1, <1>9, QuietOrder DEF vars
<1> QED BY <1>2, <1>3, <1>4, <1>5, <1>6, <1>7, <1>8, <1>9 DEF Next

(* Asynchronous writes begin on the connection in the order of the calls,  *)
(* whichever threads complete the sends: the first of one call comes after *)
(* the first of every earlier call that has not failed.                    *)
THEOREM BeginInOrder == Spec => []BegunInCallOrder
<1>1. Init => HarmInv /\ OrderInv
  <2>1. ASSUME Init
        PROVE  HarmInv /\ OrderInv
    <3>1. /\ Elems(blocked) = {} /\ fate = "run" /\ blocked = <<>>
          /\ Elems(calls) = {} /\ Once(calls) /\ calls = <<>>
          /\ svc = "live" /\ inside = {}
          /\ \A w \in Writes : buf[w] = "none" /\ ec[w] = "ok"
      BY <2>1, ElemsOfEmpty DEF Init
    <3>2. HarmInv
      BY <3>1 DEF HarmInv, DestroyHarmsOnlyPartial, Writes
    <3>3. InOrder(blocked, Unbegun, calls) /\ BegunOrder
      BY <3>1, LenOfEmpty DEF InOrder, BegunOrder
    <3>4. calls \in Seq(Writes)
      BY <3>1
    <3>5. \A w \in Async : ec[w] = "ok"
      BY <3>1 DEF Writes
    <3> QED BY <3>1, <3>2, <3>3, <3>4, <3>5 DEF OrderInv
  <2> QED BY <2>1
<1>2. WriteInv /\ OrderInv => BegunInCallOrder
  BY BegunOrderMeans, InvFacts DEF OrderInv
<1> QED BY <1>1, <1>2, HarmStep, OrderStep, WriteInvInductive, PTL DEF Spec
=============================================================================
