---------------------------- MODULE EpollReactor ----------------------------
(***************************************************************************)
(* The reactor behind session->socket: asio::detail::epoll_reactor with    *)
(* the descriptor_state of one socket, reactive_socket_service_base, the   *)
(* loop of async_connect over the endpoints of a host, and Linux' epoll.   *)
(*                                                                         *)
(* epoll is used edge-triggered: it reports a socket once after something  *)
(* has changed.  An operation that would block waits in the queue of its   *)
(* descriptor_state until a report for its kind is performed by a thread.  *)
(* A report is an entry of the io_service's queue like any other, so it is *)
(* performed some time after it was made, maybe when the operations it was *)
(* about have completed, or when the socket has been closed and opened     *)
(* again for the next endpoint: the pool of descriptor states hands out    *)
(* the same state again.                                                   *)
(*                                                                         *)
(* The io_service is the FIFO queue that TaskIoService implements, with    *)
(* the task as one of its entries.                                         *)
(***************************************************************************)
EXTENDS Integers, Sequences, FiniteSets, SequencesExt

CONSTANTS
  Threads,       (* threads that run the io_service                        *)
  User,          (* a thread that calls write and disconnect               *)
  Writes,        (* the async_write_some operations of the application     *)
  MaxEndpoints   (* bound on the addresses a host name resolves to         *)

ASSUME ReactorAssumption ==
  /\ User \notin Threads
  /\ Writes \cap {"connect", "read"} = {}
  /\ MaxEndpoints \in Nat \ {0}

VARIABLES
  conn,    (* the socket in the kernel, see Conns                          *)
  data,    (* it has received bytes                                        *)
  space,   (* it has room for bytes to send                                *)
  pending, (* epoll: it is on the ready list                               *)
  out,     (* descriptor_state: registered_events_ has EPOLLOUT            *)
  shut,    (* descriptor_state: shutdown_                                  *)
  reads,   (* descriptor_state: op_queue_[read_op]                         *)
  writes,  (* descriptor_state: op_queue_[write_op], also of connect_op    *)
  open,    (* impl.socket_ is a descriptor: is_open()                      *)
  attached,(* impl.reactor_data_ points to the descriptor_state            *)
  queue,   (* the io_service's queue                                       *)
  pc,      (* what each actor is doing, see PcValues                       *)
  arg,     (* the operations it is starting, completing or aborting        *)
  ev,      (* the events a thread has been given                           *)
  ec,      (* the result of each operation, see Codes                      *)
  phase,   (* the session: "resolving", "connecting", "reading" or "over"  *)
  tries,   (* endpoints left, the current one included                     *)
  met,     (* history: the peer has accepted this connection               *)
  raced,   (* history: disconnect ran while an operation was being started *)
  fate     (* "run"; "null": a null pointer was dereferenced; "torn": two  *)
           (* threads opened or closed the socket at the same time         *)

kernel == <<conn, data, space, pending, met>>
state  == <<out, shut, reads, writes>>
impl   == <<open, attached>>
chain  == <<phase, tries>>
vars == <<kernel, state, impl, queue, pc, arg, ev, ec, chain, raced, fate>>

(* "fresh": socket() has been called and connect() has not; "up", "fin":   *)
(* connected, in the second case the peer has closed its end; "dead":      *)
(* refused or reset; "shut": after shutdown(); "none": no descriptor.      *)
Conns == {"none", "fresh", "connecting", "up", "fin", "dead", "shut"}

(* "empty": no error and no bytes, from an operation that was never tried. *)
Codes == {"none", "ok", "eof", "error", "aborted", "empty"}

Actors == Threads \cup {User}
Ops    == {"connect", "read"} \cup Writes
Flags  == {"in", "out", "err", "hup"}

(* "idle": between handlers, for User between calls; "task": in            *)
(* epoll_wait; "found": with what it returned; "io": before perform_io;    *)
(* "run": before a completion handler; "close", "free", "closefd": before  *)
(* the three parts of close(); "open", "dial": in connect_op, before       *)
(* open() and connect(); "look", "lock": before the two looks of start_op  *)
(* at the descriptor_state.                                                *)
PcValues == {"idle", "task", "found", "io", "run", "close", "free", "closefd",
             "open", "dial", "look", "lock"}

(* Inside the part of connect_op that closes and opens the socket.         *)
Reopens(t) == pc[t] \in {"close", "free", "closefd", "open", "dial"}

Task == [kind |-> "task"]
Io(E) == [kind |-> "io", events |-> E]        (* the descriptor_state      *)
Done(o) == [kind |-> "done", op |-> o]        (* a completed operation     *)
Resolved == [kind |-> "resolved"]

Runs == fate = "run" /\ UNCHANGED fate
Go(a, l) == pc' = [pc EXCEPT ![a] = l]

-----------------------------------------------------------------------------
(***************************************************************************)
(* Linux.                                                                  *)
(***************************************************************************)

(* poll() on the socket; one that is not connected is hung up.             *)
Poll(c, d, s) ==
  CASE c = "fresh" -> {"out", "hup"}
    [] c \in {"none", "connecting"} -> {}
    [] c = "up"   -> (IF d THEN {"in"} ELSE {}) \cup (IF s THEN {"out"} ELSE {})
    [] c = "fin"  -> {"in"} \cup (IF s THEN {"out"} ELSE {})
    [] c = "dead" -> Flags
    [] c = "shut" -> {"in", "out", "hup"}

(* epoll reports what is true of the socket when it is asked, restricted   *)
(* to the events that were registered.                                     *)
Mask(o) == IF o THEN Flags ELSE Flags \ {"out"}
Report == Poll(conn, data, space) \cap Mask(out)

(* The outcome of a connection attempt.                                    *)
Answer ==
  /\ conn = "connecting"
  /\ conn' \in {"up", "dead"}
  /\ met' = (conn' = "up") /\ space' = TRUE
  /\ pending' = TRUE
  /\ UNCHANGED <<data, state, impl, queue, pc, arg, ev, ec, chain, raced>>
  /\ Runs

Arrives ==
  /\ conn = "up" /\ ~data
  /\ data' = TRUE /\ pending' = TRUE
  /\ UNCHANGED <<conn, space, met, state, impl, queue, pc, arg, ev, ec, chain,
                 raced>>
  /\ Runs

(* The peer closes its end or resets the connection.                       *)
PeerEnds ==
  /\ \/ conn = "up" /\ conn' = "fin" /\ UNCHANGED data
     \/ conn \in {"up", "fin"} /\ conn' = "dead" /\ data' = FALSE
  /\ pending' = TRUE
  /\ UNCHANGED <<space, met, state, impl, queue, pc, arg, ev, ec, chain, raced>>
  /\ Runs

(* The peer has taken some of what was sent; EPOLLOUT is of interest only  *)
(* if it was registered.                                                   *)
Drains ==
  /\ conn \in {"up", "fin"} /\ ~space
  /\ space' = TRUE /\ pending' = (pending \/ out)
  /\ UNCHANGED <<conn, data, met, state, impl, queue, pc, arg, ev, ec, chain,
                 raced>>
  /\ Runs

-----------------------------------------------------------------------------
(***************************************************************************)
(* reactor_op::perform.                                                    *)
(***************************************************************************)

(* Variant: getsockopt(SO_ERROR) without asking poll() first.              *)
WouldBlockUnpolled(o) ==
  CASE o = "connect" -> FALSE
    [] o = "read"    -> conn \in {"up", "connecting"} /\ ~data
    [] OTHER         -> conn \in {"up", "fin"} /\ ~space

(* The operation is tried again later: poll() says that the connection is  *)
(* still in progress, recv() or send() that it would block.                *)
WouldBlock(o) ==
  CASE o = "connect" -> "out" \notin Poll(conn, data, space)
    [] o = "read"    -> conn \in {"up", "connecting"} /\ ~data
    [] OTHER         -> conn = "connecting" \/ (conn \in {"up", "fin"} /\ ~space)

(* Its result otherwise.                                                   *)
Outcome(o) ==
  CASE o = "read" /\ data /\ conn # "dead"           -> "ok"
    [] o = "read" /\ ~data /\ conn \in {"fin", "shut"} -> "eof"
    [] o = "connect" /\ conn # "dead"                -> "ok"
    [] o \in Writes /\ conn \in {"up", "fin"}        -> "ok"
    [] OTHER                                         -> "error"

(* What is left in the kernel after successful receives and sends.         *)
Uses(R, W) ==
  /\ data' \in IF R # {} /\ data THEN BOOLEAN ELSE {data}
  /\ space' \in IF W \cap Writes # {} /\ space THEN BOOLEAN ELSE {space}

(* The operations at the head of q that can be performed, given what is    *)
(* left afterwards: all of them, or those before the first that would      *)
(* block.  Only sends queue up.                                            *)
Performs(q, n) ==
  IF q = <<>> \/ WouldBlock(q[1]) THEN n = 0
  ELSE n \in 1..Len(q) /\ (n = Len(q) \/ (conn \in {"up", "fin"} /\ ~space'))

-----------------------------------------------------------------------------
(***************************************************************************)
(* epoll_reactor.                                                          *)
(***************************************************************************)

(* An actor has started an operation.                                      *)
Started(a) == Go(a, "idle") /\ arg' = [arg EXCEPT ![a] = <<>>]

Post(o, c) ==
  /\ queue' = Append(queue, Done(o))
  /\ ec' = [ec EXCEPT ![o] = c]

(* start_op, first look: a socket that is not attached to the reactor.     *)
Look(a) ==
  /\ pc[a] = "look"
  /\ \/ ~attached /\ Started(a) /\ Post(arg[a][1], "error") /\ UNCHANGED raced
     \/ /\ attached
        /\ Go(a, "lock")
        /\ raced' = (raced \/ pc[User] = "free")
        /\ UNCHANGED <<arg, queue, ec>>
  /\ UNCHANGED <<kernel, state, impl, ev, chain>>
  /\ Runs

(* Variant: the operation is not tried before it waits.                    *)
StartWaitsUntried(a, o) ==
  /\ ~shut
  /\ Started(a)
  /\ out' = (out \/ o # "read")
  /\ pending' = (pending \/ (o = "connect" /\ Poll(conn, data, space) # {}))
  /\ \/ o = "read" /\ reads' = Append(reads, o) /\ UNCHANGED writes
     \/ o # "read" /\ writes' = Append(writes, o) /\ UNCHANGED reads
  /\ UNCHANGED <<conn, data, space, met, shut, queue, ec>>

(* An operation joins its queue.  EPOLLOUT is registered with the first    *)
(* one that needs it; epoll_ctl looks at the socket again.                 *)
StartWaits(a, o) ==
  /\ ~shut
  /\ IF o = "read" THEN reads # <<>> \/ WouldBlock(o)
     ELSE o = "connect" \/ writes # <<>> \/ WouldBlock(o)
  /\ Started(a)
  /\ out' = (out \/ o # "read")
  /\ pending' = (pending \/ (o # "read" /\ (o = "connect" \/ ~out)
                               /\ Poll(conn, data, space) # {}))
  /\ \/ o = "read" /\ reads' = Append(reads, o) /\ UNCHANGED writes
     \/ o # "read" /\ writes' = Append(writes, o) /\ UNCHANGED reads
  /\ UNCHANGED <<conn, data, space, met, shut, queue, ec>>

(* An operation that is the first of its kind is tried at once.            *)
StartPerforms(a, o) ==
  /\ ~shut /\ o # "connect" /\ ~WouldBlock(o)
  /\ IF o = "read" THEN reads = <<>> ELSE writes = <<>>
  /\ Started(a)
  /\ Post(o, Outcome(o))
  /\ Uses({o} \cap {"read"}, {o})
  /\ UNCHANGED <<conn, pending, met, state>>

(* The descriptor has been deregistered since the first look: the          *)
(* operation is posted as it is.                                           *)
StartShut(a, o) ==
  /\ shut
  /\ Started(a) /\ Post(o, "empty")
  /\ UNCHANGED <<kernel, state>>

(* start_op with descriptor_data->mutex_.                                  *)
Lock(a) ==
  /\ pc[a] = "lock" /\ attached
  /\ LET o == arg[a][1] IN
     StartWaits(a, o) \/ StartPerforms(a, o) \/ StartShut(a, o)
  /\ UNCHANGED <<impl, ev, chain, raced>>
  /\ Runs

(* The pointer has been cleared since the first look.                      *)
LockNull(a) ==
  /\ pc[a] = "lock" /\ ~attached
  /\ fate = "run" /\ fate' = "null"
  /\ UNCHANGED <<kernel, state, impl, queue, pc, arg, ev, ec, chain, raced>>

(* A thread takes the task, a descriptor_state or an operation.            *)
Take(t) ==
  /\ pc[t] = "idle" /\ t \in Threads /\ queue # <<>>
  /\ queue' = Tail(queue)
  /\ LET e == Head(queue) IN
     \/ e = Task /\ Go(t, "task") /\ UNCHANGED <<arg, ev, chain>>
     \/ /\ e.kind = "io"
        /\ Go(t, "io") /\ ev' = [ev EXCEPT ![t] = e.events]
        /\ UNCHANGED <<arg, chain>>
     \/ /\ e.kind = "done"
        /\ Go(t, "run") /\ arg' = [arg EXCEPT ![t] = <<e.op>>]
        /\ UNCHANGED <<ev, chain>>
     \/ /\ e = Resolved
        /\ Go(t, "close") /\ phase' = "connecting"
        /\ tries' \in 1..MaxEndpoints
        /\ UNCHANGED <<arg, ev>>
  /\ UNCHANGED <<kernel, state, impl, ec, raced>>
  /\ Runs

(* epoll_reactor::run, which also returns when it is interrupted because   *)
(* something has been queued.                                              *)
EpollWait(t) ==
  /\ pc[t] = "task" /\ (pending \/ queue # <<>>)
  /\ pending' = FALSE
  /\ ev' = [ev EXCEPT ![t] = IF pending THEN Report ELSE {}]
  /\ Go(t, "found")
  /\ UNCHANGED <<conn, data, space, met, state, impl, queue, arg, ec, chain,
                 raced>>
  /\ Runs

(* Variant: the task is queued only when there was nothing.                *)
QueueFoundDrops(t) ==
  /\ pc[t] = "found"
  /\ queue' = Append(queue, IF ev[t] = {} THEN Task ELSE Io(ev[t]))
  /\ ev' = [ev EXCEPT ![t] = {}]
  /\ Go(t, "idle")
  /\ UNCHANGED <<kernel, state, impl, arg, ec, chain, raced>>
  /\ Runs

(* What was found is queued, and the task behind it.                       *)
QueueFound(t) ==
  /\ pc[t] = "found"
  /\ queue' = queue \o (IF ev[t] = {} THEN <<>> ELSE <<Io(ev[t])>>) \o <<Task>>
  /\ ev' = [ev EXCEPT ![t] = {}]
  /\ Go(t, "idle")
  /\ UNCHANGED <<kernel, state, impl, arg, ec, chain, raced>>
  /\ Runs

(* perform_io: sends first, then receives.  The first operation that is    *)
(* completed stays with the thread and the others are posted.              *)
PerformIo(t) ==
  /\ pc[t] = "io"
  /\ \E n \in 0..Len(writes), k \in 0..Len(reads) :
       LET done == SubSeq(writes, 1, n) \o SubSeq(reads, 1, k)
           W == Range(SubSeq(writes, 1, n)) IN
       /\ Uses(Range(SubSeq(reads, 1, k)), W)
       /\ IF ev[t] \cap {"out", "err", "hup"} # {} THEN Performs(writes, n)
                                                   ELSE n = 0
       /\ IF ev[t] \cap {"in", "err", "hup"} # {} THEN Performs(reads, k)
                                                  ELSE k = 0
       /\ writes' = SubSeq(writes, n + 1, Len(writes))
       /\ reads' = SubSeq(reads, k + 1, Len(reads))
       /\ ec' = [o \in Ops |-> IF o \in Range(done) THEN Outcome(o) ELSE ec[o]]
       /\ IF done = <<>>
          THEN Go(t, "idle") /\ UNCHANGED <<arg, queue>>
          ELSE /\ Go(t, "run") /\ arg' = [arg EXCEPT ![t] = <<Head(done)>>]
               /\ queue' = queue \o [i \in 1..Len(done) - 1 |-> Done(done[i + 1])]
  /\ ev' = [ev EXCEPT ![t] = {}]
  /\ UNCHANGED <<conn, pending, met, out, shut, impl, chain, raced>>
  /\ Runs

-----------------------------------------------------------------------------
(***************************************************************************)
(* Closing and opening the socket.                                         *)
(***************************************************************************)

(* deregister_descriptor under the lock of the descriptor_state: the       *)
(* operations that wait are aborted.  The connection that connect_op       *)
(* closes has none.                                                        *)
Deregister(a) ==
  /\ pc[a] = "close" /\ ~(a = User /\ \E t \in Threads : Reopens(t))
  /\ IF attached /\ ~shut
     THEN /\ shut' = TRUE /\ reads' = <<>> /\ writes' = <<>>
          /\ ec' = [o \in Ops |-> IF o \in Range(reads) \cup Range(writes)
                                  THEN "aborted" ELSE ec[o]]
          /\ arg' = [arg EXCEPT ![a] = reads \o writes]
          /\ Go(a, "free")
     ELSE Go(a, "closefd") /\ UNCHANGED <<shut, reads, writes, ec, arg>>
  /\ raced' = (raced \/ (a = User /\ \E t \in Threads : pc[t] = "lock"))
  /\ UNCHANGED <<kernel, out, impl, queue, ev, chain>>
  /\ Runs

(* Variant: the aborted operations are not posted.                         *)
FreeForgets(a) ==
  /\ pc[a] = "free"
  /\ attached' = FALSE
  /\ arg' = [arg EXCEPT ![a] = <<>>]
  /\ Go(a, "closefd")
  /\ UNCHANGED <<kernel, state, open, queue, ev, ec, chain, raced>>
  /\ Runs

(* The rest of deregister_descriptor: the state returns to the pool, the   *)
(* pointer to it is cleared and the aborted operations are posted.         *)
Free(a) ==
  /\ pc[a] = "free"
  /\ attached' = FALSE
  /\ queue' = queue \o [i \in 1..Len(arg[a]) |-> Done(arg[a][i])]
  /\ arg' = [arg EXCEPT ![a] = <<>>]
  /\ Go(a, "closefd")
  /\ UNCHANGED <<kernel, state, open, ev, ec, chain, raced>>
  /\ Runs

(* ::close(), and impl.socket_ is reset.  epoll forgets the socket.        *)
CloseFd(a) ==
  /\ pc[a] = "closefd"
  /\ conn' = "none" /\ data' = FALSE /\ pending' = FALSE
  /\ open' = FALSE /\ attached' = FALSE
  /\ Go(a, IF a = User THEN "idle" ELSE "open")
  /\ UNCHANGED <<space, met, state, queue, arg, ev, ec, chain, raced>>
  /\ Runs

(* do_open: socket() and register_descriptor, to which the socket is hung  *)
(* up already.                                                             *)
Open(t) ==
  /\ pc[t] = "open"
  /\ conn' = "fresh" /\ data' = FALSE /\ space' = TRUE /\ met' = FALSE
  /\ open' = TRUE /\ attached' = TRUE
  /\ shut' = FALSE /\ out' = FALSE
  /\ pending' = TRUE
  /\ Go(t, "dial")
  /\ UNCHANGED <<reads, writes, queue, arg, ev, ec, chain, raced>>
  /\ Runs

(* start_connect_op: connect() fails at once or is in progress.            *)
Dial(t) ==
  /\ pc[t] = "dial"
  /\ \/ /\ conn' = "connecting"
        /\ Go(t, "look") /\ arg' = [arg EXCEPT ![t] = <<"connect">>]
        /\ UNCHANGED <<queue, ec>>
     \/ UNCHANGED conn /\ Started(t) /\ Post("connect", "error")
  /\ UNCHANGED <<data, space, pending, met, state, impl, ev, chain, raced>>
  /\ Runs

-----------------------------------------------------------------------------
(***************************************************************************)
(* Completion handlers.                                                    *)
(***************************************************************************)

Completes(t, o) == pc[t] = "run" /\ arg[t] = <<o>>

Ends(t) == Go(t, "idle") /\ arg' = [arg EXCEPT ![t] = <<>>]

Reads(t) == Go(t, "look") /\ arg' = [arg EXCEPT ![t] = <<"read">>]

(* connect_op, which ends on a socket that has been closed, with the first *)
(* success, or after the last endpoint, and goes on with the next          *)
(* otherwise.  on_connect starts the first read.                           *)
ConnectHandler(t) ==
  /\ Completes(t, "connect")
  /\ \/ /\ ~open
        /\ phase' = "over" /\ UNCHANGED tries /\ Ends(t)
     \/ /\ open /\ ec["connect"] \in {"ok", "empty"}
        /\ phase' = "reading" /\ UNCHANGED tries /\ Reads(t)
     \/ /\ open /\ ec["connect"] \notin {"ok", "empty"} /\ tries = 1
        /\ phase' = "over" /\ UNCHANGED tries /\ Ends(t)
     \/ /\ open /\ ec["connect"] \notin {"ok", "empty"} /\ tries > 1
        /\ pc[User] \notin {"free", "closefd"}
        /\ tries' = tries - 1 /\ UNCHANGED phase
        /\ Go(t, "close") /\ arg' = [arg EXCEPT ![t] = <<>>]
  /\ UNCHANGED <<kernel, state, impl, queue, ev, ec, raced>>
  /\ Runs

(* on_read reads on unless there was an error; that of an aborted read     *)
(* counts only if the socket has been closed.                              *)
ReadHandler(t) ==
  /\ Completes(t, "read")
  /\ \/ /\ ec["read"] \in {"ok", "empty"} \/ (ec["read"] = "aborted" /\ open)
        /\ Reads(t) /\ UNCHANGED phase
     \/ /\ ec["read"] \in {"eof", "error"} \/ (ec["read"] = "aborted" /\ ~open)
        /\ phase' = "over" /\ Ends(t)
  /\ UNCHANGED <<kernel, state, impl, queue, ev, ec, tries, raced>>
  /\ Runs

WriteHandler(t) ==
  /\ \E w \in Writes : Completes(t, w)
  /\ Ends(t)
  /\ UNCHANGED <<kernel, state, impl, queue, ev, ec, chain, raced>>
  /\ Runs

(* cq_irc_session_write after signal_connect, each send once.              *)
Write(w) ==
  /\ pc[User] = "idle" /\ phase = "reading"
  /\ ec[w] = "none" /\ w \notin Range(writes)
  /\ Go(User, "look") /\ arg' = [arg EXCEPT ![User] = <<w>>]
  /\ UNCHANGED <<kernel, state, impl, queue, ev, ec, chain, raced>>
  /\ Runs

(* cq_irc_session_disconnect: shutdown(), which a socket that is not       *)
(* connected refuses; a connection attempt is given up.                    *)
Disconnect ==
  /\ pc[User] = "idle" /\ open /\ attached
  /\ \/ conn \in {"up", "fin"} /\ conn' = "shut"
     \/ conn = "connecting" /\ conn' = "dead"
  /\ pending' = TRUE
  /\ Go(User, "close")
  /\ UNCHANGED <<data, space, met, state, impl, queue, arg, ev, ec, chain,
                 raced>>
  /\ Runs

(* Two threads close or open the socket at the same time.                  *)
Torn ==
  /\ \E t \in Threads :
       \/ pc[User] = "close" /\ Reopens(t)
       \/ /\ pc[User] \in {"free", "closefd"} /\ open /\ tries > 1
          /\ Completes(t, "connect") /\ ec["connect"] \notin {"ok", "empty"}
  /\ fate = "run" /\ fate' = "torn"
  /\ UNCHANGED <<kernel, state, impl, queue, pc, arg, ev, ec, chain, raced>>

-----------------------------------------------------------------------------
Init ==
  /\ conn = "none" /\ data = FALSE /\ space = TRUE /\ pending = FALSE
  /\ met = FALSE
  /\ out = FALSE /\ shut = FALSE /\ reads = <<>> /\ writes = <<>>
  /\ open = FALSE /\ attached = FALSE
  /\ queue \in {<<Task, Resolved>>, <<Resolved, Task>>}
  /\ pc = [a \in Actors |-> "idle"]
  /\ arg = [a \in Actors |-> <<>>]
  /\ ev = [t \in Threads |-> {}]
  /\ ec = [o \in Ops |-> "none"]
  /\ phase = "resolving" /\ tries = 0
  /\ raced = FALSE /\ fate = "run"

(* What a thread of the service does next.                                 *)
Service(t) ==
  \/ Take(t) \/ EpollWait(t) \/ QueueFound(t) \/ PerformIo(t)
  \/ Look(t) \/ Lock(t) \/ LockNull(t)
  \/ Deregister(t) \/ Free(t) \/ CloseFd(t) \/ Open(t) \/ Dial(t)
  \/ ConnectHandler(t) \/ ReadHandler(t) \/ WriteHandler(t)

Call ==
  \/ Look(User) \/ Lock(User) \/ LockNull(User)
  \/ Deregister(User) \/ Free(User) \/ CloseFd(User)

Kernel == Answer \/ Arrives \/ PeerEnds \/ Drains

Next ==
  \/ \E t \in Threads : Service(t)
  \/ Call \/ Kernel \/ Disconnect \/ Torn
  \/ \E w \in Writes : Write(w)

Spec == Init /\ [][Next]_vars

(* Threads of the service go on, calls that have begun are finished, and a *)
(* connection attempt is answered or times out.  Nothing else is assumed   *)
(* of the peer or the application.                                         *)
FairSpec ==
  /\ Spec
  /\ \A t \in Threads : WF_vars(Service(t))
  /\ WF_vars(Call) /\ WF_vars(Answer) /\ WF_vars(Torn)

-----------------------------------------------------------------------------
(***************************************************************************)
(* Properties.                                                             *)
(***************************************************************************)

TypeOK ==
  /\ conn \in Conns
  /\ {data, space, pending, out, shut, open, attached, met, raced}
       \subseteq BOOLEAN
  /\ reads \in {<<>>, <<"read">>}
  /\ writes = <<"connect">> \/ writes \in Seq(Writes)
  /\ Cardinality({i \in 1..Len(queue) : queue[i] = Task})
       + Cardinality({t \in Threads : pc[t] \in {"task", "found"}}) = 1
  /\ pc \in [Actors -> PcValues] /\ arg \in [Actors -> Seq(Ops)]
  /\ ev \in [Threads -> SUBSET Flags]
  /\ ec \in [Ops -> Codes]
  /\ phase \in {"resolving", "connecting", "reading", "over"}
  /\ tries \in 0..MaxEndpoints
  /\ fate \in {"run", "null", "torn"}

(* A report of events in E that has not been performed.                    *)
OnItsWay(E) ==
  \/ pending /\ Report \cap E # {}
  \/ \E t \in Threads : pc[t] \in {"found", "io"} /\ ev[t] \cap E # {}
  \/ \E i \in 1..Len(queue) : queue[i].kind = "io" /\ queue[i].events \cap E # {}

(* epoll reports each change once, so a report that is dropped or that     *)
(* comes before the operation waits would leave the operation waiting for  *)
(* good.  It is not so: as long as an operation waits that would not block *)
(* any more, a report for its kind is still on its way, although start_op, *)
(* perform_io and epoll_wait run on different threads and share no lock.   *)
NoLostEdge ==
  /\ reads # <<>> /\ ~WouldBlock("read") => OnItsWay({"in", "err", "hup"})
  /\ writes # <<>> /\ ~WouldBlock(writes[1])
       => OnItsWay({"out", "err", "hup"})

(* Operations that have completed and whose handler has not run.           *)
Completed(o) ==
  \/ \E i \in 1..Len(queue) : queue[i] = Done(o)
  \/ \E t \in Threads : Completes(t, o)

(* A completion without an error means what it says, although reports can  *)
(* be about an earlier connection, or about the unconnected socket: a      *)
(* connection has been accepted by the peer.  An operation completes       *)
(* without having been tried, and start_op meets a null pointer, only when *)
(* cq_irc_session_disconnect runs while another thread is starting the     *)
(* operation: nothing in the program keeps the two apart.                  *)
CompletionsAreReal ==
  /\ Completed("connect") /\ ec["connect"] = "ok" => met
  /\ fate = "null" \/ (\E o \in Ops : ec[o] = "empty") => raced

(* An operation that has an answer coming to it: the connect as long as    *)
(* there are endpoints, another one once it would not block any more or    *)
(* has been aborted.                                                       *)
Due(o) ==
  \/ o = "connect" /\ phase = "connecting"
  \/ o = "read" /\ reads # <<>> /\ ~WouldBlock(o)
  \/ o \in Writes /\ writes # <<>> /\ writes[1] = o /\ ~WouldBlock(o)
  \/ Completed(o)

(* Every such operation gets to its handler: async_connect ends, with the  *)
(* first endpoint that answers or with the last one, and neither a lost    *)
(* report nor a close() in between leaves the session waiting.             *)
OpsComplete == \A o \in Ops : Due(o) ~> ~Due(o) \/ fate # "run"
=============================================================================
