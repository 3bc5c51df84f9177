------------------------------ MODULE IrcWrite ------------------------------
(***************************************************************************)
(* The output side of a cq_irc_session (irc-client.cpp):                   *)
(* cq_irc_session_write starts an async_write whose handler on_write is    *)
(* wrapped in session->output_strand, cq_irc_session_write_sync sends in   *)
(* the calling thread.  Every call copies the message into a buffer of its *)
(* own and appends "\r\n".                                                 *)
(*                                                                         *)
(* async_write is a composed operation.  It sends what the kernel has room *)
(* for; the completion of each send runs in the strand and either sends    *)
(* more or calls on_write, which deletes the buffer.  Only completions go  *)
(* through the strand: the first send is made by the caller.               *)
(*                                                                         *)
(* A write is known by its name; its bytes are counted in units of which   *)
(* the last one is the "\r\n".  wire is the name of the write each unit    *)
(* on the connection belongs to.                                           *)
(***************************************************************************)
EXTENDS Integers, Sequences, FiniteSets

CONSTANTS
  Threads,     (* threads inside cq_irc_service_attach                     *)
  Async,       (* calls of cq_irc_session_write                            *)
  Sync,        (* calls of cq_irc_session_write_sync                       *)
  MaxSize,     (* bound on the size of a message, in units                 *)
  Window,      (* units the kernel's send buffer holds                     *)
  Strand       (* the strand's own entry in the io_service queue           *)

Writes == Async \cup Sync

ASSUME WriteAssumption ==
  /\ Async \cap Sync = {} /\ Strand \notin Writes
  /\ MaxSize \in Nat /\ Window \in Nat \ {0}

VARIABLES
  svc,      (* cq_irc_service: "live" or "freed"                           *)
  sess,     (* cq_irc_session: "live" or "freed"                           *)
  sock,     (* "unopened", "connected", "shut" (or reset) or "closed"      *)
  space,    (* free units in the kernel's send buffer                      *)
  wire,     (* the units sent                                              *)
  size,     (* size of each buffer, 0 before the call                      *)
  sent,     (* units of each buffer sent so far                            *)
  buf,      (* each buffer: "none", "held", "freed" or "leaked"            *)
  ec,       (* error code of the completion of each write: "ok", "error"   *)
  result,   (* "none", "ignored", or the error code on_write was given     *)
  queue,    (* io_service queue: completions of sends, and Strand          *)
  own,      (* completions a thread in the strand has yet to publish       *)
  blocked,  (* sends that wait in the reactor                              *)
  locked,   (* strand_impl locked_                                         *)
  waiting,  (* strand_impl waiting_queue_                                  *)
  ready,    (* strand_impl ready_queue_ while the strand is scheduled      *)
  inside,   (* the threads that run handlers of the strand                 *)
  todo,     (* what each of them has left to run                           *)
  calls,    (* history: the writes in the order of the calls               *)
  overlap,  (* history: a write was called while another was outstanding   *)
  fate      (* "run", "exception" or "use_after_free"                      *)

kernel    == <<space, wire, sent>>
strand    == <<locked, waiting, ready, inside, todo>>
history   == <<calls, overlap>>
buffers   == <<size, buf, result>>
vars == <<svc, sess, sock, space, wire, size, sent, buf, ec, result, queue,
          own, blocked, locked, waiting, ready, inside, todo, calls, overlap,
          fate>>

Runs == fate = "run" /\ fate' = "run"

Least(a, b)   == IF a < b THEN a ELSE b
Left(w)       == size[w] - sent[w]
Idle(t)       == t \notin inside /\ svc = "live"
Outstanding   == {w \in Writes : buf[w] = "held"}
Put(f, w, v)  == [f EXCEPT ![w] = v]

(* send(): as much of n units of w as the kernel has room for.             *)
Send(w, n) ==
  LET k == Least(space, n) IN
  /\ wire' = wire \o [i \in 1..k |-> w]
  /\ sent' = [sent EXCEPT ![w] = @ + k]
  /\ space' = space - k

(***************************************************************************)
(* async_write_some for n units of w.  A socket without a descriptor fails *)
(* at once; a send behind others waits; the first one is tried.            *)
(***************************************************************************)

(* Variant: a send is tried although others wait.                          *)
AsyncWriteSomeAnyway(w, n) ==
  \/ /\ sock # "connected"
     /\ ec' = Put(ec, w, "error")
     /\ UNCHANGED <<kernel, blocked>>
  \/ /\ sock = "connected" /\ space > 0
     /\ Send(w, n) /\ ec' = Put(ec, w, "ok")
     /\ UNCHANGED blocked
  \/ /\ sock = "connected" /\ space = 0
     /\ blocked' = Append(blocked, w)
     /\ UNCHANGED <<kernel, ec>>

AsyncWriteSome(w, n) ==
  \/ /\ sock \in {"unopened", "closed"} \/ (sock = "shut" /\ blocked = <<>>)
     /\ ec' = Put(ec, w, "error")
     /\ UNCHANGED <<kernel, blocked>>
  \/ /\ sock = "connected" /\ blocked = <<>> /\ space > 0
     /\ Send(w, n) /\ ec' = Put(ec, w, "ok")
     /\ UNCHANGED blocked
  \/ /\ sock \in {"connected", "shut"}
     /\ blocked # <<>> \/ (sock = "connected" /\ space = 0)
     /\ blocked' = Append(blocked, w)
     /\ UNCHANGED <<kernel, ec>>

(* The completions q, with that of w unless its send has to wait.          *)
Posted(q, w) == IF blocked' = blocked THEN Append(q, w) ELSE q

-----------------------------------------------------------------------------
(***************************************************************************)
(* cq_irc_session_write and cq_irc_session_write_sync.                     *)
(***************************************************************************)

Callable(w) == buf[w] = "none" /\ result[w] = "none"
               /\ sess = "live" /\ svc = "live"

(* if (!msg || !size) return;                                              *)
WriteNothing(w) ==
  /\ Callable(w)
  /\ result' = Put(result, w, "ignored")
  /\ UNCHANGED <<svc, sess, sock, kernel, size, buf, ec, queue, own, blocked,
                 strand, history>>
  /\ Runs

(* Variant: no room for the line end.                                      *)
NewBufferTooSmall(w, n) ==
  /\ Callable(w)
  /\ buf' = Put(buf, w, "held")
  /\ size' = Put(size, w, n)
  /\ calls' = Append(calls, w)
  /\ overlap' = (overlap \/ Outstanding # {})
  /\ UNCHANGED <<svc, sess, sock, result, own, strand>>
  /\ Runs

(* The copy of the message, n units and the line end.                      *)
NewBuffer(w, n) ==
  /\ Callable(w)
  /\ buf' = Put(buf, w, "held")
  /\ size' = Put(size, w, n + 1)
  /\ calls' = Append(calls, w)
  /\ overlap' = (overlap \/ Outstanding # {})
  /\ UNCHANGED <<svc, sess, sock, result, own, strand>>
  /\ Runs

cq_irc_session_write(w, n) ==
  /\ w \in Async
  /\ NewBuffer(w, n)
  /\ AsyncWriteSome(w, n + 1)
  /\ queue' = Posted(queue, w)

cq_irc_session_write_sync(w, n) ==
  /\ w \in Sync
  /\ NewBuffer(w, n)
  /\ UNCHANGED <<kernel, ec, queue, blocked>>

(* write(): sends until nothing is left, waiting for room in between.      *)
SyncSend(w) ==
  /\ w \in Sync /\ buf[w] = "held" /\ Left(w) > 0
  /\ sock = "connected" /\ space > 0
  /\ Send(w, Left(w))
  /\ UNCHANGED <<svc, sess, sock, buffers, ec, queue, own, blocked, strand,
                 history>>
  /\ Runs

(* delete _buffer;                                                         *)
SyncDone(w) ==
  /\ w \in Sync /\ buf[w] = "held" /\ Left(w) = 0
  /\ buf' = Put(buf, w, "freed")
  /\ result' = Put(result, w, "ok")
  /\ UNCHANGED <<svc, sess, sock, kernel, size, ec, queue, own, blocked,
                 strand, history>>
  /\ Runs

(* write() throws system_error: nobody deletes the buffer, and the         *)
(* exception leaves an extern "C" function.                                *)
SyncThrows(w) ==
  /\ w \in Sync /\ buf[w] = "held" /\ Left(w) > 0
  /\ sock # "connected"
  /\ buf' = Put(buf, w, "leaked")
  /\ fate = "run" /\ fate' = "exception"
  /\ UNCHANGED <<svc, sess, sock, kernel, size, ec, result, queue, own,
                 blocked, strand, history>>

-----------------------------------------------------------------------------
(***************************************************************************)
(* The threads of the service and the strand.                              *)
(***************************************************************************)

(* Variant: the handler is not wrapped in the strand.                      *)
DispatchUnlocked(t, w) ==
  /\ inside' = inside \cup {t}
  /\ todo' = Put(todo, t, <<w>>)
  /\ UNCHANGED <<locked, waiting, ready>>

(* strand.dispatch from a thread of the service: run now if the strand is  *)
(* free, else leave the completion of w to whoever holds it.               *)
Dispatch(t, w) ==
  \/ /\ ~locked
     /\ locked' = TRUE
     /\ inside' = inside \cup {t}
     /\ todo' = Put(todo, t, <<w>>)
     /\ UNCHANGED <<waiting, ready>>
  \/ /\ locked
     /\ waiting' = Append(waiting, w)
     /\ UNCHANGED <<locked, ready, inside, todo>>

(* The completion of a send comes up in the queue.                         *)
RunCompletion(t) ==
  /\ Idle(t) /\ queue # <<>> /\ Head(queue) # Strand
  /\ queue' = Tail(queue)
  /\ Dispatch(t, Head(queue))
  /\ UNCHANGED <<svc, sess, sock, kernel, buffers, ec, own, blocked, history>>
  /\ Runs

(* The strand comes up: run everything that is ready.                      *)
RunStrand(t) ==
  /\ Idle(t) /\ queue # <<>> /\ Head(queue) = Strand
  /\ queue' = Tail(queue)
  /\ inside' = inside \cup {t}
  /\ todo' = Put(todo, t, ready)
  /\ ready' = <<>>
  /\ UNCHANGED <<svc, sess, sock, kernel, buffers, ec, own, blocked, locked,
                 waiting, history>>
  /\ Runs

(* Sends that waited are retried in order when there is room, and fail     *)
(* when the connection is gone.  The thread completes the first of them    *)
(* itself and posts the others.                                            *)
Writable(t) ==
  /\ Idle(t) /\ blocked # <<>>
  /\ space > 0 \/ sock # "connected"
  /\ LET w == Head(blocked) IN
     /\ \/ sock = "connected" /\ Send(w, Left(w)) /\ ec' = Put(ec, w, "ok")
        \/ sock # "connected" /\ ec' = Put(ec, w, "error") /\ UNCHANGED kernel
     /\ \/ Dispatch(t, w) /\ UNCHANGED queue
        \/ queue' = Append(queue, w) /\ UNCHANGED strand
  /\ blocked' = Tail(blocked)
  /\ UNCHANGED <<svc, sess, sock, buffers, own, history>>
  /\ Runs

(* What the thread runs next in the strand.                                *)
Resumes(t, w) == t \in inside /\ todo[t] # <<>> /\ Head(todo[t]) = w

(* Variant: write_op stops after the first send.                           *)
FinishedAtOnce(w) == TRUE

(* write_op: an error, or nothing left.                                    *)
Finished(w) == ec[w] = "error" \/ Left(w) = 0

(* Variant: on_write is called for every send.                             *)
WriteMoreReports(t, w) ==
  /\ Resumes(t, w) /\ ~Finished(w) /\ sess = "live"
  /\ AsyncWriteSome(w, Left(w))
  /\ own' = Put(own, t, Posted(own[t], w))
  /\ buf' = Put(buf, w, "freed")
  /\ todo' = Put(todo, t, Tail(todo[t]))
  /\ UNCHANGED <<svc, sess, sock, size, result, queue, locked, waiting, ready,
                 inside, history>>
  /\ Runs

(* write_op sends more.                                                    *)
WriteMore(t, w) ==
  /\ Resumes(t, w) /\ ~Finished(w) /\ sess = "live"
  /\ AsyncWriteSome(w, Left(w))
  /\ own' = Put(own, t, Posted(own[t], w))
  /\ todo' = Put(todo, t, Tail(todo[t]))
  /\ UNCHANGED <<svc, sess, sock, buffers, queue, locked, waiting, ready,
                 inside, history>>
  /\ Runs

(* write_op would send more on the socket of a deleted session.            *)
WriteMoreFreed(t, w) ==
  /\ Resumes(t, w) /\ ~Finished(w) /\ sess = "freed"
  /\ fate = "run" /\ fate' = "use_after_free"
  /\ UNCHANGED <<svc, sess, sock, kernel, buffers, ec, queue, own, blocked,
                 strand, history>>

(* Variant: the buffer is deleted only without an error.                   *)
OnWriteKeepsOnError(t, w) ==
  /\ Resumes(t, w) /\ Finished(w)
  /\ buf' = IF ec[w] = "ok" THEN Put(buf, w, "freed") ELSE buf
  /\ result' = Put(result, w, ec[w])
  /\ todo' = Put(todo, t, Tail(todo[t]))
  /\ UNCHANGED <<svc, sess, sock, kernel, size, ec, queue, own, blocked,
                 locked, waiting, ready, inside, history>>
  /\ Runs

(* on_write: an error is logged; the buffer is deleted in any case.        *)
on_write(t, w) ==
  /\ Resumes(t, w) /\ Finished(w)
  /\ buf' = Put(buf, w, "freed")
  /\ result' = Put(result, w, ec[w])
  /\ todo' = Put(todo, t, Tail(todo[t]))
  /\ UNCHANGED <<svc, sess, sock, kernel, size, ec, queue, own, blocked,
                 locked, waiting, ready, inside, history>>
  /\ Runs

(* Variant: the strand is not scheduled again.                             *)
LeaveStrandForgets(t) ==
  /\ t \in inside /\ todo[t] = <<>>
  /\ inside' = inside \ {t}
  /\ ready' = waiting /\ waiting' = <<>>
  /\ locked' = (waiting # <<>>)
  /\ queue' = queue \o own[t]
  /\ own' = Put(own, t, <<>>)
  /\ UNCHANGED <<svc, sess, sock, kernel, buffers, ec, blocked, todo, history>>
  /\ Runs

(* The thread leaves the strand: what was left to it becomes ready and the *)
(* strand is scheduled again, before or after the completions of the       *)
(* sends it has made.                                                      *)
LeaveStrand(t) ==
  /\ t \in inside /\ todo[t] = <<>>
  /\ inside' = inside \ {t}
  /\ ready' = waiting /\ waiting' = <<>>
  /\ locked' = (waiting # <<>>)
  /\ LET again == IF waiting = <<>> THEN <<>> ELSE <<Strand>> IN
     queue' \in {queue \o again \o own[t], queue \o own[t] \o again}
  /\ own' = Put(own, t, <<>>)
  /\ UNCHANGED <<svc, sess, sock, kernel, buffers, ec, blocked, todo, history>>
  /\ Runs

-----------------------------------------------------------------------------
(***************************************************************************)
(* The rest of the session and the environment.                            *)
(***************************************************************************)

(* async_connect has succeeded.                                            *)
Connects ==
  /\ sock = "unopened" /\ sess = "live"
  /\ sock' = "connected"
  /\ UNCHANGED <<svc, sess, kernel, buffers, ec, queue, own, blocked, strand,
                 history>>
  /\ Runs

(* The kernel has transmitted one unit.                                    *)
Drains ==
  /\ sock = "connected" /\ space < Window
  /\ space' = space + 1
  /\ UNCHANGED <<svc, sess, sock, wire, sent, buffers, ec, queue, own,
                 blocked, strand, history>>
  /\ Runs

(* A reset by the server, or the shutdown() of cq_irc_session_disconnect.  *)
Breaks ==
  /\ sock = "connected"
  /\ sock' = "shut"
  /\ UNCHANGED <<svc, sess, kernel, buffers, ec, queue, own, blocked, strand,
                 history>>
  /\ Runs

(* Variant: what waits in the reactor is posted without an error.          *)
CloseWithoutError ==
  /\ sock' = "closed"
  /\ queue' = queue \o blocked
  /\ blocked' = <<>>
  /\ UNCHANGED <<svc, kernel, buffers, ec, own, strand, history>>
  /\ Runs

(* close(): what waits in the reactor completes with operation_aborted.    *)
Close ==
  /\ sock' = "closed"
  /\ queue' = queue \o blocked
  /\ ec' = [w \in Writes |-> IF \E i \in 1..Len(blocked) : blocked[i] = w
                             THEN "error" ELSE ec[w]]
  /\ blocked' = <<>>
  /\ UNCHANGED <<svc, kernel, buffers, own, strand, history>>
  /\ Runs

(* The close() of cq_irc_session_disconnect.                               *)
Disconnect ==
  /\ sock = "shut" /\ sess = "live" /\ UNCHANGED sess
  /\ Close

(* cq_irc_session_destroy, by a callback; a thread in write_sync is not.   *)
Destroy ==
  /\ sess = "live" /\ sess' = "freed"
  /\ \A w \in Sync : buf[w] # "held"
  /\ Close

(* cq_irc_service_destroy: the operations the service holds are dropped    *)
(* without being invoked, and on_write is what would delete their buffers. *)
DestroyService ==
  /\ svc = "live" /\ inside = {}
  /\ \A w \in Sync : buf[w] # "held"
  /\ svc' = "freed"
  /\ queue' = <<>> /\ blocked' = <<>> /\ waiting' = <<>> /\ ready' = <<>>
  /\ buf' = [w \in Writes |-> IF buf[w] = "held" THEN "leaked" ELSE buf[w]]
  /\ UNCHANGED <<sess, sock, kernel, size, ec, result, own, locked, inside,
                 todo, history>>
  /\ Runs

-----------------------------------------------------------------------------
Init ==
  /\ svc = "live" /\ sess = "live" /\ sock = "unopened"
  /\ space = Window /\ wire = <<>>
  /\ size = [w \in Writes |-> 0] /\ sent = [w \in Writes |-> 0]
  /\ buf = [w \in Writes |-> "none"] /\ result = [w \in Writes |-> "none"]
  /\ ec = [w \in Writes |-> "ok"]
  /\ queue = <<>> /\ own = [t \in Threads |-> <<>>] /\ blocked = <<>>
  /\ locked = FALSE /\ waiting = <<>> /\ ready = <<>>
  /\ inside = {} /\ todo = [t \in Threads |-> <<>>]
  /\ calls = <<>> /\ overlap = FALSE
  /\ fate = "run"

Service(t) ==
  \/ RunCompletion(t) \/ RunStrand(t) \/ Writable(t) \/ LeaveStrand(t)
  \/ \E w \in Async : WriteMore(t, w) \/ WriteMoreFreed(t, w) \/ on_write(t, w)

Next ==
  \/ \E w \in Writes : WriteNothing(w)
  \/ \E w \in Writes, n \in 1..MaxSize :
       cq_irc_session_write(w, n) \/ cq_irc_session_write_sync(w, n)
  \/ \E w \in Sync : SyncSend(w) \/ SyncDone(w) \/ SyncThrows(w)
  \/ \E t \in Threads : Service(t)
  \/ Connects \/ Drains \/ Breaks \/ Disconnect \/ Destroy \/ DestroyService

Spec == Init /\ [][Next]_vars

(* Threads in cq_irc_service_attach keep running handlers.                 *)
FairSpec == Spec /\ \A t \in Threads : WF_vars(Service(t))

-----------------------------------------------------------------------------
(***************************************************************************)
(* Properties.                                                             *)
(***************************************************************************)

TypeOK ==
  /\ svc \in {"live", "freed"} /\ sess \in {"live", "freed"}
  /\ sock \in {"unopened", "connected", "shut", "closed"}
  /\ space \in 0..Window /\ wire \in Seq(Writes)
  /\ size \in [Writes -> 0..(MaxSize + 1)]
  /\ sent \in [Writes -> 0..(MaxSize + 1)]
  /\ \A w \in Writes : sent[w] <= size[w]
  /\ buf \in [Writes -> {"none", "held", "freed", "leaked"}]
  /\ ec \in [Writes -> {"ok", "error"}]
  /\ result \in [Writes -> {"none", "ignored", "ok", "error"}]
  /\ queue \in Seq(Async \cup {Strand})
  /\ own \in [Threads -> Seq(Async)]
  /\ blocked \in Seq(Async) /\ waiting \in Seq(Async) /\ ready \in Seq(Async)
  /\ locked \in BOOLEAN /\ inside \subseteq Threads
  /\ todo \in [Threads -> Seq(Async)]
  /\ calls \in Seq(Writes) /\ overlap \in BOOLEAN
  /\ fate \in {"run", "exception", "use_after_free"}

(* Where an operation that will free the buffer of w is kept.              *)
Owners(w) ==
  LET In(name, s) == {<<name, i>> : i \in {j \in 1..Len(s) : s[j] = w}} IN
  In("queue", queue) \cup In("blocked", blocked)
    \cup In("waiting", waiting) \cup In("ready", ready)
    \cup UNION {In(<<"own", t>>, own[t]) \cup In(<<"todo", t>>, todo[t]) :
                  t \in Threads}

(* The buffer of an asynchronous write is held exactly as long as exactly  *)
(* one operation refers to it: it is neither deleted twice nor deleted     *)
(* while a send may read it nor forgotten, whatever fails and whether or   *)
(* not the session still exists.  It is leaked only when the service is    *)
(* deleted, the buffer of a synchronous write also when write() throws.    *)
OneOwner ==
  /\ \A w \in Async :
       IF buf[w] = "held" THEN \E o \in Owners(w) : Owners(w) = {o}
                          ELSE Owners(w) = {}
  /\ \A w \in Writes : buf[w] = "leaked" =>
       IF w \in Async THEN svc = "freed" ELSE fate = "exception"

(* At most one thread runs completions of writes, and the strand never     *)
(* forgets to run: while something is left to it, a thread is inside or    *)
(* the strand is in the queue, once.                                       *)
StrandSound ==
  /\ \A t, u \in inside : t = u
  /\ LET scheduled == {i \in 1..Len(queue) : queue[i] = Strand} IN
     /\ \A i, j \in scheduled : i = j
     /\ svc = "live" => (locked <=> (inside # {} \/ scheduled # {}))
     /\ inside # {} => scheduled = {}
     /\ ~locked => waiting = <<>> /\ ready = <<>>

(* on_write without an error, and write_sync that returns, mean that the   *)
(* whole line has been sent.                                               *)
SentWhenOk == \A w \in Writes : result[w] = "ok" => sent[w] = size[w]

(* The units of w are next to each other on the wire.                      *)
Contiguous(w) ==
  \A i, k \in 1..Len(wire) : wire[i] = w /\ wire[k] = w
    => \A j \in i..k : wire[j] = w

(* An application that starts no write before the previous one has ended   *)
(* never has one line inside another.                                      *)
ContiguousUnlessOverlapping == ~overlap => \A w \in Writes : Contiguous(w)

(* The strand "prevents concurrent write requests": lines are never mixed  *)
(* on the connection.                                                      *)
LinesContiguous == \A w \in Writes : Contiguous(w)

(* Asynchronous writes begin on the wire in the order of the calls: when   *)
(* one has begun, every earlier one has begun or failed.                   *)
BegunInCallOrder ==
  \A i, j \in 1..Len(calls) :
    /\ i < j /\ calls[i] \in Async /\ calls[j] \in Async
    /\ sent[calls[j]] > 0
    => sent[calls[i]] > 0 \/ ec[calls[i]] = "error"

(* A session may be destroyed under its writes, except for one: a write of *)
(* which the kernel has taken a part, and which has not failed, goes on to *)
(* send the rest on the deleted socket.  Writes that have not begun, that  *)
(* wait in the reactor or that are complete do no harm.                    *)
DestroyHarmsOnlyPartial ==
  fate = "use_after_free" =>
    \E w \in Async : sent[w] \in 1..(size[w] - 1) /\ ec[w] = "ok"

(* Once the socket is closed, the buffer of every asynchronous write is    *)
(* released, unless the service or the process ends first.                 *)
ClosingReleasesBuffers ==
  \A w \in Async :
    sock = "closed" /\ buf[w] = "held"
      ~> buf[w] = "freed" \/ svc = "freed" \/ fate # "run"
=============================================================================
