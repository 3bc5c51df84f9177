----------------------------- MODULE IrcSession -----------------------------
(***************************************************************************)
(* One cq_irc_session on one cq_irc_service (irc-client.cpp).              *)
(*                                                                         *)
(* The life of a session is one chain of asynchronous operations           *)
(*                                                                         *)
(*   async_resolve -> on_resolve -> async_connect -> on_connect            *)
(*     -> async_read_until -> on_read -> async_read_until -> on_read ...   *)
(*                                                                         *)
(* and every on_read posts a thread_parse handler for the line it took     *)
(* out of session->input.  The handlers run on the threads that are inside *)
(* cq_irc_service_attach or cq_irc_service_poll, taken in FIFO order from  *)
(* the io_service queue, and all of them hold the raw session pointer.     *)
(*                                                                         *)
(* Lines are numbered in the order in which the server sent them, so the   *)
(* stream from the server to the parser is three cursors:                  *)
(*   sent >= recvd >= taken                                                *)
(*   recvd+1..sent    in the kernel, not yet received                      *)
(*   taken+1..recvd   complete lines in session->input                     *)
(*   1..taken         handed to thread_parse                               *)
(***************************************************************************)
EXTENDS Integers, Sequences, FiniteSets

CONSTANTS
  Threads,       (* threads that run the io_service                        *)
  Pollers,       (* those of them that call cq_irc_service_poll in a loop; *)
                 (* the others call cq_irc_service_attach once             *)
  MaxLines,      (* bound on the lines the server sends                    *)
  MaxEndpoints,  (* bound on the addresses a host name resolves to         *)
  User,          (* an application thread that runs no handler             *)
  App            (* the API calls the application makes, see AppCalls      *)

(***************************************************************************)
(* What an application may do with the API.                                *)
(*   connect_while_attached: cq_irc_session_connect while other threads    *)
(*     already run the service (test1.c connects first, attaches after)    *)
(*   disconnect: cq_irc_session_disconnect, from a callback or from User   *)
(*   stop: cq_irc_service_stop, from a callback or from User               *)
(*   destroy_on_disconnect: cq_irc_session_destroy inside                  *)
(*     signal_disconnect, as on_disconnect of test1.c does                 *)
(*   destroy_after_stop: cq_irc_session_destroy once the service has       *)
(*     stopped and every attach or poll has returned                       *)
(*   destroy_service: cq_irc_service_destroy after every attach returned   *)
(***************************************************************************)
AppCalls == {"connect_while_attached", "disconnect", "stop",
             "destroy_on_disconnect", "destroy_after_stop", "destroy_service"}

ASSUME ConstantsAssumption ==
  /\ Threads # {}
  /\ Pollers \subseteq Threads
  /\ MaxLines \in Nat
  /\ MaxEndpoints \in Nat \ {0}
  /\ App \subseteq AppCalls
  /\ User \notin Threads

VARIABLES
  svc,        (* cq_irc_service: "live" or "freed"                         *)
  stopped,    (* io_service stopped_: set by stop() and when work runs out *)
  queue,      (* io_service op_queue_: completions ready to be invoked     *)
  pc,         (* what each thread is doing, see PcValues                   *)
  line,       (* the buffer a thread in "post" is about to hand over       *)
  sess,       (* cq_irc_session: "none", "live" or "freed"                 *)
  call,       (* cq_irc_session_connect: "none", "resolving", "returned"   *)
  resolving,  (* async_resolve is running on the resolver thread           *)
  endpoints,  (* endpoints async_connect has left, the current one included*)
  connecting, (* an async_connect operation is outstanding                 *)
  sock,       (* session->socket, see Socks                                *)
  closer,     (* the threads in cq_irc_session_disconnect, at most one     *)
  armed,      (* an async_read_until waits in the reactor                  *)
  peer,       (* the server's end: "up", "fin" or "rst"                    *)
  sent, recvd, taken,
  parsed,     (* history: the lines in the order thread_parse began them   *)
  connects,   (* history: invocations of signal_connect                    *)
  hangups,    (* history: invocations of signal_disconnect                 *)
  cut,        (* history: close() found a read waiting and aborted it      *)
  raced,      (* history: on_read took a line before another on_read had   *)
              (* posted the line before                                    *)
  missed,     (* history: on_read took an aborted read for a line          *)
  halted,     (* history: stop() by the application, or run() without work *)
              (* before there was a session                                *)
  fate        (* "run", or what ended the process, see Fates               *)

svcVars  == <<svc, stopped>>
chanVars == <<peer, sent, recvd>>
histVars == <<parsed, connects, hangups, cut, raced, missed, halted>>
setupVars == <<call, resolving, endpoints, connecting>>
vars == <<svc, stopped, queue, pc, line, sess, call, resolving, endpoints,
          connecting, sock, closer, armed, peer, sent, recvd, taken, parsed,
          connects, hangups, cut, raced, missed, halted, fate>>

(***************************************************************************)
(* "new": attach or poll not yet called; "idle": inside run() or poll()    *)
(* and between handlers; "post": in on_read, after the next                *)
(* async_read_until and before post(parse_work); "cb_*": in a callback of  *)
(* the application; "done": attach has returned.                           *)
(***************************************************************************)
Callbacks == {"cb_connect", "cb_disconnect", "cb_line"}
PcValues  == {"new", "idle", "post", "done"} \cup Callbacks

(***************************************************************************)
(* "open": created by async_connect and not connected; "down", "shut": an  *)
(* "open" and a "connected" socket after shutdown(); "closing": close() has*)
(* taken it out of the reactor and is_open() is still true.                *)
(***************************************************************************)
Socks == {"closed", "open", "down", "connected", "shut", "closing"}

(***************************************************************************)
(* "use_after_free": a handler dereferenced a deleted session or service;  *)
(* "unset_callback": a callback was read before                            *)
(* cq_irc_session_connect assigned session->callbacks; "exception": a      *)
(* system_error left an extern "C" function; "torn": async_connect opened  *)
(* the socket again while another thread was inside its close().  The third*)
(* ends a C caller and the others are undefined behaviour: no step follows.*)
(***************************************************************************)
Fates == {"run", "use_after_free", "unset_callback", "exception", "torn"}

Proceeds == fate = "run" /\ fate' = "run"
Ends(f)  == fate = "run" /\ fate' = f

Entries == [op : {"resolve", "connect", "read", "parse", "io"},
            ec : {"ok", "eof", "aborted", "error"},
            line : 0..MaxLines]

(* A completion without a buffer; the buffer of line n; an empty buffer is *)
(* line 0.                                                                 *)
Completion(op, ec) == [op |-> op, ec |-> ec, line |-> 0]
ParseWork(n)       == [op |-> "parse", ec |-> "ok", line |-> n]

InHandler(t) == pc[t] \in {"post"} \cup Callbacks
AllOut == \A t \in Threads : pc[t] \in {"new", "done"}

(* Variant: io_service::work as a member of the service.                   *)
NoWorkHeldByService == svc # "live"

(***************************************************************************)
(* io_service: outstanding_work_ is zero.  session->work counts for as     *)
(* long as the session lives, every operation from its start to the end of *)
(* its handler; a descriptor event ("io") does not count.                  *)
(***************************************************************************)
NoWork ==
  /\ sess # "live"
  /\ ~resolving /\ ~connecting /\ ~armed
  /\ \A i \in 1..Len(queue) : queue[i].op = "io"
  /\ \A t \in Threads : ~InHandler(t)

(* work_finished(): the last work of the io_service stops it.              *)
WorkFinished == stopped' = (stopped \/ NoWork')

(* A handler returns to the loop of run() or poll().                       *)
Return(t) ==
  /\ pc' = [pc EXCEPT ![t] = "idle"]
  /\ WorkFinished

(* A thread in run() or poll() invokes the completion e at the head of the *)
(* queue.                                                                  *)
Runs(t, e) ==
  /\ pc[t] = "idle" /\ ~stopped /\ svc = "live"
  /\ queue # <<>> /\ Head(queue) = e

(***************************************************************************)
(* recv() on the socket: some lines, the end of the stream, or an error; r *)
(* lines had been received before and r2 have been after it.               *)
(***************************************************************************)
Readable(r) == r < sent \/ peer # "up" \/ sock = "shut"

Receive(ec, r, r2) ==
  \/ /\ ec = "ok" /\ r2 > r
  \/ /\ ec = "eof" /\ r2 = r /\ r = sent
     /\ peer = "fin" \/ (peer = "up" /\ sock = "shut")
  \/ ec = "error" /\ r2 = r /\ r = sent /\ peer = "rst"

(***************************************************************************)
(* async_read_until(session->socket, session->input, "\r\n", on_read), q   *)
(* being the queue, r the lines received and n the lines taken.  A line    *)
(* already in session->input completes it at once, even on a closed        *)
(* socket; so does a closed socket; otherwise the reactor first tries to   *)
(* receive and leaves the operation waiting when there is nothing to read. *)
(***************************************************************************)
AsyncReadUntil(q, r, n) ==
  \/ /\ n < r
     /\ queue' = Append(q, Completion("read", "ok"))
     /\ armed' = FALSE /\ recvd' = r
  \/ /\ n = r /\ sock \in {"closing", "closed"}
     /\ queue' = Append(q, Completion("read", "error"))
     /\ armed' = FALSE /\ recvd' = r
  \/ /\ n = r /\ sock \notin {"closing", "closed"} /\ Readable(r)
     /\ \E ec \in {"ok", "eof", "error"}, r2 \in r..sent :
          /\ Receive(ec, r, r2)
          /\ queue' = Append(q, Completion("read", ec))
          /\ recvd' = r2
     /\ armed' = FALSE
  \/ /\ n = r /\ sock \notin {"closing", "closed"} /\ ~Readable(r)
     /\ queue' = q
     /\ armed' = TRUE /\ recvd' = r

-----------------------------------------------------------------------------
(***************************************************************************)
(* API: the service.                                                       *)
(***************************************************************************)

(* Variant: the service is reset before it is run again.                   *)
AttachResets(t) ==
  /\ pc[t] = "new" /\ svc = "live"
  /\ call = "returned" \/ "connect_while_attached" \in App
  /\ pc' = [pc EXCEPT ![t] = "idle"]
  /\ stopped' = NoWork
  /\ halted' = (halted \/ sess = "none")
  /\ UNCHANGED <<svc, queue, line, sess, setupVars, sock, closer, armed,
                 chanVars, taken, parsed, connects, hangups, cut, raced,
                 missed>>
  /\ Proceeds

(* cq_irc_service_attach or cq_irc_service_poll: run() and poll() stop the *)
(* service when they find no work.                                         *)
cq_irc_service_attach(t) ==
  /\ pc[t] = "new" /\ svc = "live"
  /\ call = "returned" \/ "connect_while_attached" \in App
  /\ pc' = [pc EXCEPT ![t] = "idle"]
  /\ stopped' = (stopped \/ NoWork)
  /\ halted' = (halted \/ sess = "none")
  /\ UNCHANGED <<svc, queue, line, sess, setupVars, sock, closer, armed,
                 chanVars, taken, parsed, connects, hangups, cut, raced,
                 missed>>
  /\ Proceeds

(* run() returns when the service has stopped; poll() also returns when    *)
(* nothing is ready, and its caller calls it again.                        *)
ServiceReturns(t) ==
  /\ pc[t] = "idle"
  /\ \/ stopped
     \/ t \in Pollers /\ queue = <<>> /\ ~(armed /\ Readable(recvd))
  /\ pc' = [pc EXCEPT ![t] = IF t \in Pollers THEN "new" ELSE "done"]
  /\ UNCHANGED <<svcVars, queue, line, sess, setupVars, sock, closer, armed,
                 chanVars, taken, histVars>>
  /\ Proceeds

(* The application's own calls come from a callback or from User.          *)
Calling(t) ==
  /\ svc = "live" /\ t \notin closer
  /\ t = User \/ (t \in Threads /\ pc[t] \in Callbacks)

cq_irc_service_stop(t) ==
  /\ "stop" \in App /\ Calling(t)
  /\ ~stopped
  /\ stopped' = TRUE
  /\ halted' = TRUE
  /\ UNCHANGED <<svc, queue, pc, line, sess, setupVars, sock, closer, armed,
                 chanVars, taken, parsed, connects, hangups, cut, raced,
                 missed>>
  /\ Proceeds

(* delete service, after attach has returned: the io_service discards the  *)
(* operations it holds without invoking them and joins the resolver.       *)
cq_irc_service_destroy ==
  /\ "destroy_service" \in App
  /\ svc = "live" /\ AllOut /\ call # "resolving" /\ closer = {}
  /\ \E t \in Threads : pc[t] = "done"
  /\ svc' = "freed"
  /\ queue' = <<>> /\ armed' = FALSE
  /\ resolving' = FALSE /\ connecting' = FALSE
  /\ UNCHANGED <<stopped, pc, line, sess, call, endpoints, sock, closer,
                 chanVars, taken, histVars>>
  /\ Proceeds

-----------------------------------------------------------------------------
(***************************************************************************)
(* API: the session.                                                       *)
(***************************************************************************)

(* cq_irc_session_connect up to and including async_resolve.               *)
cq_irc_session_connect ==
  /\ call = "none" /\ svc = "live"
  /\ sess' = "live"
  /\ call' = "resolving"
  /\ resolving' = TRUE
  /\ UNCHANGED <<svcVars, queue, pc, line, endpoints, connecting, sock,
                 closer, armed, chanVars, taken, histVars>>
  /\ Proceeds

(* session->callbacks = *callbacks; return session;                        *)
AssignCallbacks ==
  /\ call = "resolving"
  /\ call' = "returned"
  /\ UNCHANGED <<svcVars, queue, pc, line, sess, resolving, endpoints,
                 connecting, sock, closer, armed, chanVars, taken, histVars>>
  /\ Proceeds

(***************************************************************************)
(* cq_irc_session_disconnect: shutdown(shutdown_both), then close().  The  *)
(* first throws when the socket is not open or not connected; on a socket  *)
(* that is still connecting the platforms differ.                          *)
(***************************************************************************)
CanDisconnect(t) ==
  /\ "disconnect" \in App /\ Calling(t)
  /\ sess = "live" /\ call = "returned" /\ closer = {}

DisconnectShutdown(t) ==
  /\ CanDisconnect(t)
  /\ \/ sock = "connected" /\ peer # "rst" /\ sock' = "shut"
     \/ sock = "open" /\ connecting /\ sock' = "down"
  /\ closer' = {t}
  /\ UNCHANGED <<svcVars, queue, pc, line, sess, setupVars, armed, chanVars,
                 taken, histVars>>
  /\ Proceeds

DisconnectThrows(t) ==
  /\ CanDisconnect(t)
  /\ ~(sock = "connected" /\ peer # "rst")
  /\ Ends("exception")
  /\ UNCHANGED <<svcVars, queue, pc, line, sess, setupVars, sock, closer,
                 armed, chanVars, taken, histVars>>

(* The operation that waits in the reactor completes with operation_aborted.*)
AbortOps ==
  /\ queue' = queue
       \o (IF armed THEN <<Completion("read", "aborted")>> ELSE <<>>)
       \o (IF connecting THEN <<Completion("connect", "aborted")>> ELSE <<>>)
  /\ armed' = FALSE /\ connecting' = FALSE

(* Variant: no close() after the cancel().                                 *)
DisconnectCancels(t) ==
  /\ t \in closer /\ sess = "live" /\ sock # "closing"
  /\ AbortOps
  /\ UNCHANGED sock
  /\ closer' = {}
  /\ cut' = (cut \/ armed)
  /\ UNCHANGED <<svcVars, pc, line, sess, call, resolving, endpoints,
                 chanVars, taken, parsed, connects, hangups, raced, missed,
                 halted>>
  /\ Proceeds

(* close() first takes the socket out of the reactor and posts what waited *)
(* there ...                                                               *)
DisconnectAborts(t) ==
  /\ t \in closer /\ sess = "live" /\ sock # "closing"
  /\ AbortOps
  /\ sock' = "closing"
  /\ cut' = (cut \/ armed)
  /\ UNCHANGED <<svcVars, pc, line, sess, call, resolving, endpoints, closer,
                 chanVars, taken, parsed, connects, hangups, raced, missed,
                 halted>>
  /\ Proceeds

(* ... and only then closes the descriptor and resets the socket.          *)
DisconnectClose(t) ==
  /\ t \in closer /\ sess = "live" /\ sock = "closing"
  /\ sock' = "closed"
  /\ closer' = {}
  /\ UNCHANGED <<svcVars, queue, pc, line, sess, setupVars, armed, chanVars,
                 taken, histVars>>
  /\ Proceeds

(* delete session: closes the socket, cancels the resolver and gives up    *)
(* session->work.                                                          *)
DeleteSession ==
  /\ sess = "live"
  /\ sess' = "freed"
  /\ AbortOps
  /\ sock' = "closed"
  /\ UNCHANGED <<svc, pc, line, call, resolving, endpoints, closer, chanVars,
                 taken, histVars>>
  /\ Proceeds
  /\ WorkFinished

(* cq_irc_session_destroy called by signal_disconnect (test1.c).           *)
DestroyOnDisconnect(t) ==
  /\ "destroy_on_disconnect" \in App
  /\ pc[t] = "cb_disconnect" /\ t \notin closer
  /\ DeleteSession

(* cq_irc_session_destroy once no thread runs the service any more.        *)
DestroyAfterStop ==
  /\ "destroy_after_stop" \in App
  /\ svc = "live" /\ stopped /\ AllOut /\ call = "returned" /\ closer = {}
  /\ DeleteSession

-----------------------------------------------------------------------------
(***************************************************************************)
(* The handlers of the session.                                            *)
(***************************************************************************)

(* An error is only logged, and nothing of the session is touched.         *)
on_resolve_error(t) ==
  /\ Runs(t, Completion("resolve", "error"))
  /\ queue' = Tail(queue)
  /\ UNCHANGED <<svc, line, sess, setupVars, sock, closer, armed, chanVars,
                 taken, histVars>>
  /\ Proceeds
  /\ Return(t)

(* Otherwise async_connect opens the socket and tries the first endpoint.  *)
on_resolve(t) ==
  /\ Runs(t, Completion("resolve", "ok")) /\ sess = "live"
  /\ queue' = Tail(queue)
  /\ endpoints' \in 1..MaxEndpoints
  /\ connecting' = TRUE
  /\ sock' = "open"
  /\ UNCHANGED <<svc, line, sess, call, resolving, closer, armed, chanVars,
                 taken, histVars>>
  /\ Proceeds
  /\ Return(t)

(* Variant: no test for the end of the list of endpoints.                  *)
NextEndpointUnchecked(t) ==
  /\ Runs(t, Completion("connect", "error")) /\ sess = "live"
  /\ sock \notin {"closing", "closed"}
  /\ queue' = Tail(queue)
  /\ endpoints' = endpoints - 1
  /\ connecting' = TRUE
  /\ sock' = "open"
  /\ UNCHANGED <<svc, line, sess, call, resolving, closer, armed, chanVars,
                 taken, histVars>>
  /\ Proceeds
  /\ Return(t)

(* async_connect: the endpoint refused and another one is left.            *)
NextEndpoint(t) ==
  /\ Runs(t, Completion("connect", "error")) /\ sess = "live"
  /\ sock \notin {"closing", "closed"} /\ endpoints > 1
  /\ queue' = Tail(queue)
  /\ endpoints' = endpoints - 1
  /\ connecting' = TRUE
  /\ sock' = "open"
  /\ UNCHANGED <<svc, line, sess, call, resolving, closer, armed, chanVars,
                 taken, histVars>>
  /\ Proceeds
  /\ Return(t)

(* Variant: the first endpoint that refuses ends the attempt.              *)
ConnectErrorGivesUp(t) ==
  /\ \E ec \in {"ok", "error", "aborted"} :
       /\ Runs(t, Completion("connect", ec)) /\ sess = "live"
       /\ sock = "closed" \/ ec # "ok"
  /\ queue' = Tail(queue)
  /\ UNCHANGED <<svc, line, sess, setupVars, sock, closer, armed, chanVars,
                 taken, histVars>>
  /\ Proceeds
  /\ Return(t)

(* on_connect with an error: logged, no signal, the chain ends here.  A    *)
(* completion that finds the socket closed is reported as aborted.         *)
on_connect_error(t) ==
  /\ \E ec \in {"ok", "error", "aborted"} :
       /\ Runs(t, Completion("connect", ec)) /\ sess = "live"
       /\ sock = "closed" \/ (ec # "ok" /\ endpoints = 1)
  /\ queue' = Tail(queue)
  /\ UNCHANGED <<svc, line, sess, setupVars, sock, closer, armed, chanVars,
                 taken, histVars>>
  /\ Proceeds
  /\ Return(t)

(* on_connect without an error: signal_connect ...                         *)
on_connect(t) ==
  /\ Runs(t, Completion("connect", "ok")) /\ sess = "live"
  /\ sock # "closed" /\ call = "returned"
  /\ queue' = Tail(queue)
  /\ pc' = [pc EXCEPT ![t] = "cb_connect"]
  /\ connects' = connects + 1
  /\ UNCHANGED <<svcVars, line, sess, setupVars, sock, closer, armed,
                 chanVars, taken, parsed, hangups, cut, raced, missed,
                 halted>>
  /\ Proceeds

(* ... and after the callback has returned, the first async_read_until.    *)
FirstRead(t) ==
  /\ pc[t] = "cb_connect" /\ t \notin closer /\ sess = "live"
  /\ AsyncReadUntil(queue, recvd, taken)
  /\ UNCHANGED <<svc, line, sess, setupVars, sock, closer, peer, sent, taken,
                 histVars>>
  /\ Proceeds
  /\ Return(t)

(***************************************************************************)
(* on_read(ec), entered with the queue q and r lines received.             *)
(***************************************************************************)

(* eof, or operation_aborted on a closed socket: signal_disconnect and     *)
(* nothing after it.                                                       *)
Hangup(t, ec) ==
  /\ ec = "eof" \/ (ec = "aborted" /\ sock = "closed")
  /\ call = "returned"
  /\ pc' = [pc EXCEPT ![t] = "cb_disconnect"]
  /\ hangups' = hangups + 1
  /\ UNCHANGED <<svcVars, line, sess, setupVars, sock, closer, peer, sent,
                 taken, parsed, connects, cut, raced, missed, halted>>
  /\ Proceeds

(* Variant: the test for any error comes before the other two.             *)
ReadingErrorFirst(t, ec) ==
  /\ ec # "ok"
  /\ UNCHANGED <<svc, line, sess, setupVars, sock, closer, peer, sent, taken,
                 histVars>>
  /\ Proceeds
  /\ Return(t)

(* Any other error: logged, no signal, the chain ends here.                *)
ReadingError(t, ec) ==
  /\ ec = "error"
  /\ UNCHANGED <<svc, line, sess, setupVars, sock, closer, peer, sent, taken,
                 histVars>>
  /\ Proceeds
  /\ Return(t)

Races == raced' = (raced \/ \E u \in Threads : pc[u] = "post")

(* Variants: nothing is consumed; all of the input is consumed; the next   *)
(* read is not started.                                                    *)
TakeLineWith(t, r, ec, n, Reading) ==
  /\ ec = "ok"
  /\ taken' = n
  /\ line' = [line EXCEPT ![t] = taken + 1]
  /\ pc' = [pc EXCEPT ![t] = "post"]
  /\ Reading
  /\ Races
  /\ UNCHANGED <<svcVars, sess, setupVars, sock, closer, peer, sent, parsed,
                 connects, hangups, cut, missed, halted>>
  /\ Proceeds

TakeLineKeeps(t, q, r, ec) ==
  TakeLineWith(t, r, ec, taken, AsyncReadUntil(q, r, taken))

TakeLineDrains(t, q, r, ec) ==
  TakeLineWith(t, r, ec, r, AsyncReadUntil(q, r, r))

TakeLineStops(t, q, r, ec) ==
  TakeLineWith(t, r, ec, taken + 1,
               queue' = q /\ recvd' = r /\ armed' = FALSE)

(* A line: take it out of session->input and start the next read; PostParse*)
(* hands it over.  operation_aborted on an open socket falls through to    *)
(* the same code with msg_size = 0.                                        *)
TakeLine(t, q, r, ec) ==
  LET n == IF ec = "ok" THEN taken + 1 ELSE taken IN
  /\ ec = "ok" \/ (ec = "aborted" /\ sock # "closed")
  /\ taken' = n
  /\ line' = [line EXCEPT ![t] = IF ec = "ok" THEN n ELSE 0]
  /\ pc' = [pc EXCEPT ![t] = "post"]
  /\ AsyncReadUntil(q, r, n)
  /\ Races
  /\ missed' = (missed \/ ec = "aborted")
  /\ UNCHANGED <<svcVars, sess, setupVars, sock, closer, peer, sent, parsed,
                 connects, hangups, cut, halted>>
  /\ Proceeds

(* Variant: no return after signal_disconnect.                             *)
OnReadFallsThrough(t, q, r, ec) ==
  \/ TakeLine(t, q, r, ec)
  \/ /\ queue' = q /\ recvd' = r /\ armed' = FALSE
     /\ ReadingError(t, ec)
  \/ /\ AsyncReadUntil(q, r, taken)
     /\ Hangup(t, ec)

OnRead(t, q, r, ec) ==
  \/ TakeLine(t, q, r, ec)
  \/ /\ queue' = q /\ recvd' = r /\ armed' = FALSE
     /\ Hangup(t, ec) \/ ReadingError(t, ec)

(* on_read for a read that completed when it was started or was aborted.   *)
on_read(t) ==
  \E ec \in {"ok", "eof", "aborted", "error"} :
    /\ Runs(t, Completion("read", ec)) /\ sess = "live"
    /\ OnRead(t, Tail(queue), recvd, ec)

(* on_read for the read that waits in the reactor: the descriptor was      *)
(* queued when the socket became readable, recv() happens now.             *)
on_readable(t) ==
  /\ Runs(t, Completion("io", "ok")) /\ armed
  /\ \E ec \in {"ok", "eof", "error"}, r \in recvd..sent :
       /\ Receive(ec, recvd, r)
       /\ OnRead(t, Tail(queue), r, ec)

(* The operation that waited has been aborted since.                       *)
StaleEvent(t) ==
  /\ Runs(t, Completion("io", "ok")) /\ ~armed
  /\ queue' = Tail(queue)
  /\ UNCHANGED <<svcVars, pc, line, sess, setupVars, sock, closer, armed,
                 chanVars, taken, histVars>>
  /\ Proceeds

(* Variant: a second async_read_until after post().                        *)
PostParseReads(t) ==
  /\ pc[t] = "post" /\ sess = "live"
  /\ AsyncReadUntil(Append(queue, ParseWork(line[t])), recvd, taken)
  /\ line' = [line EXCEPT ![t] = 0]
  /\ UNCHANGED <<svc, sess, setupVars, sock, closer, peer, sent, taken,
                 histVars>>
  /\ Proceeds
  /\ Return(t)

(* The last statement of on_read: session->service->service.post(...).     *)
PostParse(t) ==
  /\ pc[t] = "post" /\ sess = "live"
  /\ queue' = Append(queue, ParseWork(line[t]))
  /\ line' = [line EXCEPT ![t] = 0]
  /\ UNCHANGED <<svc, sess, setupVars, sock, closer, armed, chanVars, taken,
                 histVars>>
  /\ Proceeds
  /\ Return(t)

(***************************************************************************)
(* thread_parse: the lexer signals the line, or skips it for want of a     *)
(* callback, or fails; an empty buffer always fails.                       *)
(***************************************************************************)
thread_parse(t) ==
  \E n \in 0..MaxLines :
    /\ Runs(t, ParseWork(n)) /\ sess = "live" /\ call = "returned"
    /\ queue' = Tail(queue)
    /\ parsed' = IF n = 0 THEN parsed ELSE Append(parsed, n)
    /\ UNCHANGED <<svc, line, sess, setupVars, sock, closer, armed, chanVars,
                   taken, connects, hangups, cut, raced, missed, halted>>
    /\ Proceeds
    /\ \/ /\ n # 0
          /\ pc' = [pc EXCEPT ![t] = "cb_line"]
          /\ UNCHANGED stopped
       \/ Return(t)

(* Nothing of the session is used once these callbacks have returned.      *)
CallbackReturns(t) ==
  /\ pc[t] \in {"cb_disconnect", "cb_line"} /\ t \notin closer
  /\ UNCHANGED <<svc, queue, line, sess, setupVars, sock, closer, armed,
                 chanVars, taken, histVars>>
  /\ Proceeds
  /\ Return(t)

-----------------------------------------------------------------------------
(***************************************************************************)
(* The errors that end the process.                                        *)
(***************************************************************************)

(* A handler, or the disconnect call of a thread, goes on with a session   *)
(* that has been deleted.  Only on_resolve with an error does not touch it.*)
UseFreed(t) ==
  /\ sess = "freed"
  /\ \/ /\ t \in Threads
        /\ \/ /\ queue # <<>> /\ Runs(t, Head(queue))
              /\ Head(queue).op # "io"
              /\ Head(queue) # Completion("resolve", "error")
           \/ pc[t] = "post"
           \/ pc[t] = "cb_connect"
     \/ t \in closer
  /\ Ends("use_after_free")
  /\ UNCHANGED <<svcVars, queue, pc, line, sess, setupVars, sock, closer,
                 armed, chanVars, taken, histVars>>

(* session->callbacks is read before cq_irc_session_connect has set it.    *)
UseUnset(t) ==
  /\ sess = "live" /\ call = "resolving"
  /\ Runs(t, Completion("connect", "ok")) /\ sock # "closed"
  /\ Ends("unset_callback")
  /\ UNCHANGED <<svcVars, queue, pc, line, sess, setupVars, sock, closer,
                 armed, chanVars, taken, histVars>>

(* connect_op takes the aborted attempt for a refused one, is_open() being *)
(* still true, and opens the socket for the next endpoint while close() is *)
(* under way.                                                              *)
ConnectDuringClose(t) ==
  /\ sess = "live" /\ sock = "closing" /\ endpoints > 1
  /\ \E ec \in {"error", "aborted"} : Runs(t, Completion("connect", ec))
  /\ Ends("torn")
  /\ UNCHANGED <<svcVars, queue, pc, line, sess, setupVars, sock, closer,
                 armed, chanVars, taken, histVars>>

-----------------------------------------------------------------------------
(***************************************************************************)
(* The environment: resolver thread, kernel, server.                       *)
(***************************************************************************)

ResolveDone ==
  /\ resolving
  /\ resolving' = FALSE
  /\ \E ec \in (IF sess = "live" THEN {"ok", "error"} ELSE {"error"}) :
       queue' = Append(queue, Completion("resolve", ec))
  /\ UNCHANGED <<svcVars, pc, line, sess, call, endpoints, connecting, sock,
                 closer, armed, chanVars, taken, histVars>>
  /\ Proceeds

ConnectDone ==
  /\ connecting
  /\ connecting' = FALSE
  /\ \/ /\ sock = "open" /\ sock' = "connected"
        /\ queue' = Append(queue, Completion("connect", "ok"))
     \/ /\ UNCHANGED sock
        /\ queue' = Append(queue, Completion("connect", "error"))
  /\ UNCHANGED <<svcVars, pc, line, sess, call, resolving, endpoints, closer,
                 armed, chanVars, taken, histVars>>
  /\ Proceeds

(* A thread in the loop finds the socket readable and queues the           *)
(* descriptor.                                                             *)
Reactor(t) ==
  /\ pc[t] = "idle" /\ ~stopped
  /\ armed /\ Readable(recvd)
  /\ \A i \in 1..Len(queue) : queue[i].op # "io"
  /\ queue' = Append(queue, Completion("io", "ok"))
  /\ UNCHANGED <<svcVars, pc, line, sess, setupVars, sock, closer, armed,
                 chanVars, taken, histVars>>
  /\ Proceeds

ServerSends ==
  /\ sock \in {"connected", "shut"} /\ peer = "up"
  /\ sent < MaxLines
  /\ sent' = sent + 1
  /\ UNCHANGED <<svcVars, queue, pc, line, sess, setupVars, sock, closer,
                 armed, peer, recvd, taken, histVars>>
  /\ Proceeds

(* The server closes its end, or the connection is reset, which may throw  *)
(* away what has not been received yet.                                    *)
ServerCloses ==
  /\ sock \in {"connected", "shut"}
  /\ \/ peer = "up" /\ peer' = "fin" /\ UNCHANGED sent
     \/ peer # "rst" /\ peer' = "rst" /\ sent' \in {recvd, sent}
  /\ UNCHANGED <<svcVars, queue, pc, line, sess, setupVars, sock, closer,
                 armed, recvd, taken, histVars>>
  /\ Proceeds

-----------------------------------------------------------------------------
Init ==
  /\ svc = "live" /\ stopped = FALSE /\ queue = <<>>
  /\ pc = [t \in Threads |-> "new"]
  /\ line = [t \in Threads |-> 0]
  /\ sess = "none" /\ call = "none"
  /\ resolving = FALSE /\ endpoints = 0 /\ connecting = FALSE
  /\ sock = "closed" /\ closer = {} /\ armed = FALSE
  /\ peer = "up" /\ sent = 0 /\ recvd = 0 /\ taken = 0
  /\ parsed = <<>> /\ connects = 0 /\ hangups = 0 /\ cut = FALSE
  /\ raced = FALSE /\ missed = FALSE /\ halted = FALSE
  /\ fate = "run"

Handler(t) ==
  \/ on_resolve_error(t) \/ on_resolve(t) \/ NextEndpoint(t)
  \/ on_connect_error(t) \/ on_connect(t) \/ FirstRead(t)
  \/ on_read(t) \/ on_readable(t) \/ StaleEvent(t) \/ PostParse(t)
  \/ thread_parse(t) \/ CallbackReturns(t)

Api(t) ==
  \/ cq_irc_service_stop(t)
  \/ DisconnectShutdown(t) \/ DisconnectThrows(t)

Environment ==
  ResolveDone \/ ConnectDone \/ ServerSends \/ ServerCloses

Next ==
  \/ \E t \in Threads :
       \/ cq_irc_service_attach(t) \/ ServiceReturns(t)
       \/ Handler(t) \/ Reactor(t)
       \/ DestroyOnDisconnect(t) \/ UseUnset(t) \/ ConnectDuringClose(t)
  \/ \E t \in Threads \cup {User} :
       Api(t) \/ DisconnectAborts(t) \/ DisconnectClose(t) \/ UseFreed(t)
  \/ cq_irc_session_connect \/ AssignCallbacks
  \/ cq_irc_service_destroy \/ DestroyAfterStop
  \/ Environment

Spec == Init /\ [][Next]_vars
(***************************************************************************)
(* Fairness.  Threads that run the service keep running it, callbacks      *)
(* return, the resolver and connection attempts finish in bounded time,    *)
(* and a thread that has called shutdown() goes on to close().  Nothing is *)
(* assumed of the server or of further calls of the application.           *)
(***************************************************************************)
Fairness ==
  /\ \A t \in Threads :
       /\ WF_vars(Handler(t) \/ UseFreed(t) \/ UseUnset(t)
                 \/ ConnectDuringClose(t))
       /\ WF_vars(Reactor(t))
       /\ WF_vars(ServiceReturns(t))
  /\ \A t \in Threads \cup {User} :
       WF_vars(DisconnectAborts(t) \/ DisconnectClose(t))
  /\ WF_vars(AssignCallbacks)
  /\ WF_vars(ResolveDone)
  /\ WF_vars(ConnectDone)

FairSpec == Spec /\ Fairness

-----------------------------------------------------------------------------
(***************************************************************************)
(* Properties.                                                             *)
(***************************************************************************)

TypeOK ==
  /\ svc \in {"live", "freed"} /\ stopped \in BOOLEAN
  /\ queue \in Seq(Entries)
  /\ pc \in [Threads -> PcValues]
  /\ line \in [Threads -> 0..MaxLines]
  /\ sess \in {"none", "live", "freed"}
  /\ call \in {"none", "resolving", "returned"}
  /\ resolving \in BOOLEAN /\ connecting \in BOOLEAN /\ armed \in BOOLEAN
  /\ endpoints \in 0..MaxEndpoints
  /\ sock \in Socks
  /\ closer \subseteq Threads \cup {User}
  /\ peer \in {"up", "fin", "rst"}
  /\ sent \in 0..MaxLines /\ recvd \in 0..sent /\ taken \in 0..recvd
  /\ parsed \in Seq(1..MaxLines)
  /\ connects \in Nat /\ hangups \in Nat
  /\ cut \in BOOLEAN /\ raced \in BOOLEAN /\ missed \in BOOLEAN
  /\ halted \in BOOLEAN
  /\ fate \in Fates

(* Everything that continues the chain resolve - connect - read: running   *)
(* operations, their completions in the queue, and a signal_connect after  *)
(* which on_connect will start a read.                                     *)
ChainLinks ==
  {<<"op", o>> : o \in (IF resolving THEN {"resolve"} ELSE {})
                  \cup (IF connecting THEN {"connect"} ELSE {})
                  \cup (IF armed THEN {"read"} ELSE {})}
  \cup {<<"queue", i>> : i \in {j \in 1..Len(queue) :
                           queue[j].op \in {"resolve", "connect", "read"}}}
  \cup {<<"thread", t>> : t \in {u \in Threads : pc[u] = "cb_connect"}}

(* Whatever the number of threads, two continuations of the chain never    *)
(* exist together, so session->input and session->socket's read side are   *)
(* never used by two handlers at once although no lock or strand guards    *)
(* them.                                                                   *)
ReadChainExclusive == \A a, b \in ChainLinks : a = b

(* signal_connect and signal_disconnect are each invoked at most once, and *)
(* after signal_disconnect the chain is over: no read is outstanding,      *)
(* queued or about to start.                                               *)
HangupEndsChain ==
  /\ connects <= 1 /\ hangups <= connects
  /\ hangups = 1 => ChainLinks = {}

(* A chain that ends does not always say so.  Without signal_connect it    *)
(* ends only with a name that was not resolved, with the last endpoint     *)
(* refused, or on a socket the client has closed: on_connect never gives up*)
(* an endpoint that is left.  Without signal_disconnect it ends only when  *)
(* the connection was reset, or when the client closed the socket at a     *)
(* moment at which no read was waiting (the read that was already complete *)
(* goes on to bad_descriptor, which on_read only logs), or when on_read,   *)
(* while close() was under way on another thread, took the aborted read    *)
(* for a line.                                                             *)
SignalLostOnlyWhen ==
  svc = "live" /\ call # "none" /\ ChainLinks = {} =>
    /\ connects = 0 => endpoints <= 1 \/ sock \in {"closing", "closed"}
    /\ connects = 1 /\ hangups = 0 =>
         \/ peer = "rst"
         \/ sock \in {"closing", "closed"} /\ (~cut \/ missed)

(* The fall through of on_read that treats operation_aborted on an open    *)
(* socket as an empty line is not dead code, but there is one way into it: *)
(* the handler runs inside the close() of another thread.  Once close() is *)
(* over it cannot happen any more.                                         *)
AbortedMeansClosed ==
  /\ \A i \in 1..Len(queue) :
       queue[i] = Completion("read", "aborted")
         => sock \in {"closing", "closed"}
  /\ missed => cut /\ hangups = 0

(* Where line n is between on_read and thread_parse.                       *)
Holders(n) ==
  {<<"thread", t>> : t \in {u \in Threads : pc[u] = "post" /\ line[u] = n}}
  \cup {<<"queue", i>> : i \in {j \in 1..Len(queue) :
                                  queue[j] = ParseWork(n)}}
  \cup {<<"parsed", i>> : i \in {j \in 1..Len(parsed) : parsed[j] = n}}

(* Each line taken out of session->input is in exactly one place: about to *)
(* be posted, queued, or given to thread_parse once.  None is lost, none   *)
(* is parsed twice, whatever the interleaving of the threads.              *)
EachLineOnce ==
  svc = "live" =>
    \A n \in 1..MaxLines :
      IF n <= taken THEN \E h \in Holders(n) : Holders(n) = {h}
                    ELSE Holders(n) = {}

(* As long as no on_read begins before another has reached its post(), in  *)
(* particular with a single thread in the service, lines reach             *)
(* thread_parse in the order in which the server sent them, none missing.  *)
ParsedInOrder == ~raced => \A i \in 1..Len(parsed) : parsed[i] = i

(* No handler uses a deleted session and no callback is read before it is  *)
(* assigned.                                                               *)
NoUndefinedBehaviour == fate \notin {"use_after_free", "unset_callback"}

(* A line on_read has taken that thread_parse has not begun.               *)
LineUnderway ==
  \/ \E t \in Threads : pc[t] = "post"
  \/ \E i \in 1..Len(queue) : queue[i].op = "parse"

(* The two ways into undefined behaviour, and nothing else leads there,    *)
(* whatever the application calls.  A deleted session is used only if      *)
(* signal_disconnect has deleted it, and then either by a line that is     *)
(* still on its way to thread_parse or by a cq_irc_session_disconnect that *)
(* is under way and has aborted no read (the hang-up was the end of the    *)
(* stream, not the abort).  Unassigned callbacks are met only by a         *)
(* signal_connect, when threads run the service before                     *)
(* cq_irc_session_connect has returned: until then nothing else that calls *)
(* back has begun.                                                         *)
UndefinedOnlyWhen ==
  /\ fate = "use_after_free" =>
       /\ "destroy_on_disconnect" \in App /\ hangups = 1
       /\ LineUnderway \/ (closer # {} /\ ~cut)
  /\ fate = "unset_callback" => "connect_while_attached" \in App
  /\ call # "returned" => connects = 0 /\ ~LineUnderway

(* A server that closes its end is reported: after signal_connect, the end *)
(* of the stream leads to signal_disconnect unless the connection is reset,*)
(* the client closes the socket itself or the service stops.               *)
PeerCloseSignalled ==
  peer = "fin" /\ connects = 1
    ~> hangups = 1 \/ peer = "rst" \/ sock = "closed" \/ stopped
         \/ fate # "run"

(* cq_irc_session_disconnect on a session that waits for input is reported *)
(* by signal_disconnect, unless on_read overtakes close().                 *)
CutSignalled == cut ~> hangups = 1 \/ missed \/ stopped \/ fate # "run"

(* Deleting the session in signal_disconnect gives up session->work, after *)
(* which every cq_irc_service_attach returns.                              *)
AttachReturns == sess = "freed" ~> AllOut \/ fate # "run"
=============================================================================
