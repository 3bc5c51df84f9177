# Verification of cqIRC

cqIRC is a small asynchronous IRC client library with a C interface: C++ over
boost::asio, and a flex scanner for the messages. This directory holds TLA+
models of it, the TLC configurations that check them on small instances, and
proofs checked by TLAPS that hold for every instance.

## 1. The system

| Part | Source | State | Operations |
|---|---|---|---|
| service | `irc-client.cpp`, `irc-client-internal.hpp` | an `io_service`: queue of completions, outstanding work, stopped flag | create, destroy, attach (`run`), poll, stop |
| session lifecycle | same | socket, resolver, `work`, callbacks | connect, disconnect, destroy, `on_resolve`, `on_connect` |
| read path | same | `session->input`, the outstanding read | `async_read_until`, `on_read`, `post(thread_parse)` |
| write path | same | one heap buffer per write, `output_strand` | write, write_sync, `on_write` |
| `thread_parse` | same | the buffer of one line | init and run the scanner, delete the buffer |
| message scanner | `irc-client.l` | stack of start conditions, message being built, chosen callback | one per rule |
| command helpers | `irc-client.cpp` | none | pong, privmsg, quit |
| format library | `format.h`, `format.cc` | an output buffer | `Writer::Format` |
| test application | `tests/test1.c` | none | the callbacks of a bot |
| io_service | `asio/detail/impl/task_io_service.ipp`, `posix_event.hpp` | queue, work counts, wake-up event, private queues | run, poll, post, stop, work |
| reactor and sockets | `epoll_reactor.ipp`, `socket_ops.ipp`, `connect.hpp` | a descriptor state, the socket, reports under way | start_op, run, perform_io, close, `async_connect` |
| read_until, streambuf | `read_until.hpp`, `basic_streambuf.hpp` | the input buffer, the search position | `async_read_until`, prepare, commit, consume |

How the parts interact. The application creates a service, connects a session
and lends one or more threads to the service with attach or poll. From then on
everything happens in completion handlers that those threads take in FIFO order
from the `io_service`: a chain resolve -> connect -> read -> read ... in which
each handler starts the next operation, one `thread_parse` per line, and one
chain of sends per write. Handlers hold the raw session pointer. They call the
application back, and a callback may call any function of the interface,
including those that delete the session. No lock is used; `output_strand`
wraps the completions of writes and nothing else.

What is hard here: several threads in one service; the order of `post` and the
next read; deletion of a session by a callback while completions for it are
queued; the steps of disconnect; errors that end the chain without a signal;
partial sends; the balance of the scanner's states on odd input; below that,
wake-ups that may get lost, edges of epoll that are reported once, reports that
arrive for the wrong connection, and line ends cut in two.
`PROJECT.json` lists these hazards one by one, each at its line and with the
properties that would catch it.

What makes each part correct:

* service: attach returns when there is nothing left to do, and not earlier;
* session: connect and disconnect signalled at most once and in order; the end
  of a connection reaches the application; nothing uses a deleted session;
* read path: one read at a time; each line handed over exactly once, and in
  order with one thread;
* write path: each buffer deleted exactly once and not before its last send;
  success means all was sent; lines not mixed;
* scanner: the message signalled is the one the line spells; all strings freed;
  no stack underflow, no call of an untested callback;
* helpers and formatter: what is written is one line, in a buffer that holds it,
  and says what the helper was called with;
* io_service: a FIFO queue; work counted exactly; no thread sleeps while there
  is something to do; stop reaches everybody;
* reactor: every operation that can complete does; a completion without an error
  is about this connection;
* read_until: the bytes come out as the lines of the stream, whole and once.

## 2. Modules

| Module | Models | Used by |
|---|---|---|
| `IrcSession` | service, session lifecycle, read path, application | `MCIrcSession`, `IrcSessionProofs` |
| `IrcWrite` | write path and strand | `MCIrcWrite`, `IrcWriteProofs` |
| `IrcLexer` | `thread_parse` and the scanner | `MCIrcLexer`, `IrcReply`, `IrcLexerProofs` |
| `IrcReply` | the scanner with the callbacks of `test1.c`, the command helpers and the formatter | `MCIrcReply`, `IrcLexerProofs` |
| `HandlerQueue` | abstract: the FIFO queue of completions the program is written against | `TaskIoService` |
| `TaskIoService` | the io_service with its event and the interruption of epoll | `MCTaskIoService`, `TaskIoServiceProofs`, `TaskIoServiceQueueProofs` |
| `EpollReactor` | the reactor, one socket, `async_connect` over several endpoints | `MCEpollReactor`, `EpollReactorProofs` |
| `LineStream` | abstract: a stream of bytes that comes out as lines | `ReadUntil` |
| `ReadUntil` | `session->input`, `async_read_until`, the bytes of `on_read` | `MCReadUntil`, `ReadUntilProofs` |
| `SequenceElements` | lemmas: what appending, taking and concatenating do to the elements of a queue | the proofs about `IrcWrite`, `TaskIoService` and `EpollReactor` |

The layers: `TaskIoService` implements the queue that `IrcSession`, `IrcWrite`
and `EpollReactor` have as a variable. `EpollReactor` has the life of one
operation under the reactor that `IrcSession` and `IrcWrite` take as a step.
`ReadUntil` is the read of `IrcSession` with its bytes, and `IrcReply` what
`thread_parse` of `IrcSession` does with a line and what it gives to `IrcWrite`.

`PROJECT.json` maps every definition to its lines. Definitions commented
"Variant" are wrong versions of the definition that follows them; they are used
to show that each property can fail.

### IrcSession

`svc`, `stopped`, `queue` are the `io_service`; `pc[t]` is what a thread that
runs it is doing; `sess`, `sock`, `armed`, `connecting`, `resolving`, `closer`
are the session and its outstanding operations; `peer`, `sent`, `recvd`,
`taken` are the connection and the input buffer. Lines are numbers in the order
in which the server sends them, so the stream is three cursors. `parsed`,
`connects`, `hangups`, `cut` are history, and `fate` is "run" until undefined
behaviour or an exception through an `extern "C"` function ends the process.

One action is one handler, up to the points where another thread can see the
difference: `on_connect` is split at `signal_connect` (`on_connect`, then
`FirstRead`), `on_read` between the next `async_read_until` and `post`
(`TakeLine`, then `PostParse`), `cq_irc_session_connect` before the assignment
of the callbacks, `cq_irc_session_disconnect` after `shutdown`, and in `close`
between the abort of the waiting read (`DisconnectAborts`) and the moment from
which `is_open()` is false (`DisconnectClose`). In between, `on_read` may see
the abort with an open socket and start another read: `missed` records that
this read found the socket gone and ended without a signal. A connect that goes
on to its next endpoint between the same two steps has two threads in the
socket at once, and the model ends there (fate "torn").
`on_read` runs from two places, as in asio: for a read that completed when it
was started, and from the reactor, where `recv` happens when the descriptor
event is taken from the queue, not when it was queued (`on_readable`).
`session->work` is the conjunct `sess # "live"` of `NoWork`.

What the application does is the constant `App`, a set of calls; the calls may
come from a callback or from a thread that runs no handler.

The library is modelled as the program meets it: a completion is queued behind
those already there; closing a socket completes what waits in the reactor with
`operation_aborted` but does not change a completion already queued; a line
already in `session->input` completes a read even on a closed socket.

### IrcWrite

A write is a name, its bytes are counted in units of which the last is the line
end, and `wire` records whose unit went out when. `space` is the room in the
kernel's send buffer, so partial sends happen whenever it is short. `queue`,
`own`, `blocked` are the places of a completion outside the strand; `locked`,
`waiting`, `ready`, `inside`, `todo` are the strand, after asio's
`strand_service`. The socket may connect late, break, be closed or deleted at
any moment.

### IrcLexer

A step is one match of a flex rule: the longest match under the current start
condition, or the default rule, which echoes one character. A line is a
sequence of pieces, the classes of text the rules tell apart, so that one piece
stands for a word of any length. A string is the interval it was copied from,
and `heap` the set of strings not yet freed. The callbacks that are not null
are chosen in the initial state. `MessageSignalled` compares the result with a
description of IRC messages over the whole line (`IsMessage`, `EventOf`,
`HasContent`) that knows nothing of start conditions.

### IrcReply

`Format` is the loop of `FormatParser::Format` over the literal parts and the
`{n}` of a format, one `FormatField` each; a buffer is its text, its capacity and whether every copy so
far fitted. `AppendLiteral` and `FormatString` differ as in the code: the first
grows for the new characters alone. A callback answers inside the action of the
`{crlf}` rule, before the strings of the message are freed. `RepliesReadBack`
reads each written line with the grammar of `IrcLexer`.

### TaskIoService and HandlerQueue

A step is one section under `mutex_`, or one atomic operation, system call or
part of a handler outside it: what the real threads can interleave. `opq` holds
completions, entries of descriptors, and the reactor itself (`Task`).
`owes` are the threads between the release of the mutex and
`pthread_cond_signal`; `privWork` and `priv` are what a thread keeps to itself
until its handler has returned. A handler may start, post or stop. Waits may
end spuriously, as POSIX allows. Without its task, `opq` is the queue of
`HandlerQueue`, and `cur` what each thread runs.

### EpollReactor

The kernel's side is `conn`, `data`, `space` and `pending` (the socket is on
epoll's ready list; a report is edge-triggered and carries the events of the
moment at which it is made, also those of a socket that is not connected yet).
The program's side is the `descriptor_state` (`out`, `shut`, `reads`,
`writes`), the socket object (`open`, `attached`), and for each thread the
operation it is starting (`look`, then `lock`: the two looks of `start_op`) or
the socket it is closing (deregister, free, close). A descriptor state that was
freed is the one that is used next, as the pool of the reactor has it.
The application writes after `signal_connect` only, each write is one
`async_write_some` (`IrcWrite` has the loop), and there is one socket. Two
threads that open or close the socket at the same time end the model ("torn"),
and so does a null `descriptor_data` between the two looks ("null").

### ReadUntil and LineStream

`input` is the stream buffer with its three positions, `pos` the search
position of the operation, `op` what it waits for or what it has received.
`max_size` is unlimited in the program, so `error::not_found` cannot occur and
is left out. A read that finds its line in the buffer asks the socket for no
bytes, which completes at once, also on a closed socket. A read started while
another thread deregisters the socket completes with no error and no bytes
(`CompleteEmpty` with `untried`; `EpollReactor` shows that it happens), and
`on_read` takes what the search position says. In `LineStream` this is the
piece of a line that may come out once the socket is being closed.

## 3. Runs

| Run | Instance | Shows |
|---|---|---|
| `session_threads` | 2 threads, 2 lines, 2 endpoints, every call but the orderly teardown, fairness | types; one chain; signals once and in order; when a chain ends without `signal_connect` or without `signal_disconnect`; when an abort is taken for a line; hang-up and disconnect are signalled; attach returns once the session is destroyed |
| `session_teardown` | an attached and a polling thread, 3 lines, 2 endpoints, every call | undefined behaviour comes only from the two uses of the interface that lead there, and by which steps; each line handed over exactly once, in order unless two `on_read` overlap |
| `session_destroy_in_callback` | 1 thread | **fails**: finding 1 |
| `write_threads` | 2 threads, 2 asynchronous writes and 1 synchronous, 2 units of room, fairness | buffer ownership and leaks; strand; order; success means sent; lines whole unless writes overlap; which destruction does harm; closing releases buffers |
| `write_mixed` | 2 async writes | **fails**: finding 2 |
| `lexer_lines` | all lines of up to 8 pieces, and of up to 5 with odd pieces, with and without each callback | types, stack, strings; the right message is signalled; only an overwritten user or host leaks; what the callbacks write fits and reads back |
| `lexer_empty_trailing` | up to 5 pieces | **fails**: finding 3 |
| `lexer_user` | up to 7 pieces | **fails**: finding 4 |
| `service_threads` | 2 threads in run, 1 in poll, 1 outside, 2 operations | no lost wake-up; work counted; nothing queued twice; `HandlerQueue` implemented |
| `service_poll` | 1 thread in run, 1 in poll, 2 operations, fairness | what is queued or ready is run; stop releases everybody |
| `reactor` | 2 threads, a disconnecting thread, 2 endpoints, 1 write, fairness | no lost edge; no completion by a report about something else; operations complete |
| `read_until` | all streams of 8 bytes over three letters, cut in every way, receives of up to 3 bytes | no line held back; `LineStream` implemented |

Bounds. Two threads give every overlap of two handlers, and the chain admits no
third; the proofs remove this bound for the properties they cover. Two lines
let a line wait in the input while another is on its way to `thread_parse`;
order and loss use three. Two endpoints have a first and a last. Two
asynchronous writes let one hold the strand while the other waits for it or for
the kernel. `ParamSlots` is 2 instead of 14 so that the overrun is within
reach. Eight pieces hold a prefix with two literals in its mask, a command and the line
end, or a prefix, a command and a parameter, or three
parameters, or parameters and a trailing text. `InlineSize` is 4 instead of 500:
with 4 the buffer has to grow within short lines, and half of it still holds the
longest literal that follows an argument, " :", as half of 500 does. Less than 4
would be another program: `append` grows for its own characters alone, so that
" :" behind three characters in a buffer of three would not fit
(`ReplyAssumption`, which the proof needs in exactly this place). In `service_threads` two runners and a
poller are one thread each in epoll, asleep and busy. In `read_until` a line end
may be cut in two by a receive of 2 or 3 bytes, and eight bytes hold several
lines, or one that makes the buffer move and grow; receives of 512 to 65536
bytes differ only in how much comes at once.

Deadlock is not checked: a client whose service has stopped, or a scanner that
has returned, has nothing more to do. That it does not stop too early is what
the liveness properties and `WorkKeepsRunning` say.

Symmetry is used only in runs without liveness, over threads and operations
that the specifications treat alike.

Fairness. `IrcSession`: each thread that runs the service goes on running it
(weak fairness of handlers, reactor and return), `getaddrinfo` and connection
attempts end (both have time-outs in the system), a thread in the middle of
disconnect or connect goes on. Callbacks are assumed to return. Nothing is
assumed of the server or of further calls by the application. `IrcWrite`: the
threads go on running handlers; nothing is assumed of the kernel's send buffer
or of the peer. `TaskIoService`: threads that are inside run or poll
go on, handlers return, and a thread that is lent to attach enters it.
`EpollReactor`: the threads of the service go on, a call of disconnect or write
that has begun is finished, and a connection attempt is answered or times out;
nothing is assumed of the peer after that.

## 4. Proofs

Constants are arbitrary, under `ConstantsAssumption`, `WriteAssumption`,
`LexerAssumption`, `ReadAssumption`, `ServiceAssumption` and
`ReactorAssumption`, which say no more than what the constants are. The threads
and operations of `TaskIoService` are finitely many, because its counters are
compared with the numbers of them.

`IrcSessionProofs`

* `Inductive`, `TypeCorrect`, `ChainExclusive`, `HangupEnds`. Type correctness
  is not inductive: that `on_read` takes no line that was not received depends
  on a successful read in the queue having left a line in the input, which
  holds because no second read is under way. `IndInv` therefore adds `Single`
  (the chain is in one place: an operation, a queue entry, or a thread in
  `signal_connect`) and `Phase` (before `signal_connect` only resolve and
  connect entries exist, after it only reads, and after `signal_disconnect`
  none; a successful read has a line to give). There is one lemma per action or
  group of like actions, on lemmas about what taking the head of the queue and
  appending to it change.
* `UndefinedExplained`, `NoUndefined`. `EndInv` has three parts. `EarlyInv`:
  until connect has returned nothing is signalled, no line is taken and the
  session lives, and without "connect_while_attached" no thread runs the
  service. `FreedInv`: a deleted session was deleted by `signal_disconnect`, or
  after stop with every thread outside handlers, which is stable because nothing
  resets the service. `HangInv`: a disconnect that has aborted the read is not
  overtaken by `signal_disconnect`; that the aborted read itself does not hang
  up meanwhile is `CloseInv`, below. Every step into undefined behaviour is then
  one of those `UndefinedOnlyWhen` lists. `NoUndefined` is its corollary for an
  application that neither destroys from `signal_disconnect` nor connects while
  a thread is attached.
* `AbortClosed`, `SignalLost`. `CloseInv` follows the read that `close()` has
  aborted: while the service lives its completion is in the queue until
  `on_read` takes it, either for the end of the session or, on a socket that is
  still being closed, for a line. After that the reads that follow find the
  socket closed, so neither an aborted read nor the end of the stream is ever
  seen again (`missed`), and a read that ends with an error was reset or found
  the socket closed (`Lost`). An empty chain after `signal_connect`
  (`Over`) without `signal_disconnect` then leaves only the exceptions the
  property lists. Before `signal_connect` it is `EndpointInv`: as long as nothing
  has closed the socket, an endpoint is left only while the one before it is
  being tried or its answer is queued, so that `on_connect_error` gives up
  silently after the last one and never earlier.
* `LineOnce`, `LinesInOrder`. `LinesInv` says that the lines held by threads,
  queued and parsed are disjoint, each once, and together `1..taken`
  (`Conserved`), and, as long as no `on_read` has raced, that one thread at most
  is before its `post()` and that parsed, queued and held lines come in
  increasing order (`Ascending`). The head of the queue is then the least line
  that is not parsed, which is the next one. The steps of a line (`LineTaken`,
  `LinePosted`, `LineParsed`) are lemmas about the data alone.

`IrcWriteProofs`

* `TypeCorrect` and `SuccessMeansSent`, for any writes, threads, sizes and room
  in the kernel. `TypeInv` adds that a write not yet called has no size: nothing
  of it can have been sent before its buffer exists.
* `StrandCorrect` and `OwnerCorrect`, from `WriteInv`. `StrandInv` says who may
  be inside and when the strand is locked or scheduled, and that only the thread
  inside has something to run or to publish. `OwnInv` says that an operation is
  in one place at most and in one while its buffer is held. Neither is inductive
  alone: taking the strand out of the queue leaves none there because it was
  there once (`OwnInv`), and leaving the strand overwrites a `ready` that is
  empty (`StrandInv`). The places (queue, reactor, waiting, ready, what each
  thread has to run and to publish) are one function, `Holds`, and every action
  is one or two of four moves on it: an operation is added, is removed, goes
  behind those of another place, or takes all others of its place along
  (`Adds`, `Removes`, `MovesHead`, `MovesAll`).
* `DestroyHarmsFew`. `HarmInv` adds that a send in the reactor has something
  left, and that one which completed without an error has sent something, as
  the kernel takes at least one unit when it has room.
* `LinesWhole`. `LineInv` adds that only writes that were called are on the wire
  and, while none has overlapped another, that one at most is outstanding and
  its units are the end of the wire: so the next units it sends join them, and
  a write that is called then has none there yet.
* `BeginInOrder`. `OrderInv` adds that the asynchronous writes that have not
  begun wait in the reactor in the order of the calls, and that what waits there
  has not failed. The reactor takes the first one, and a write that goes back
  for the rest of its line has begun, so it may stand anywhere.

`IrcLexerProofs`

* `TypeCorrect`, `StackAlwaysSound`, `FieldsAlwaysAllocated`, for lines of any
  length. The longest matches of the rules are `CHOOSE` expressions, so the
  proofs begin by showing that they exist (`RunEndFacts`, `NameEndFacts`), from
  the well-ordering of the naturals (`LeastNumber`) and the line end that every
  line has.
* `LeakedOnlyOverwritten`. `OnlyOverwrittenLeaked` says nothing before the
  scanner returns, so `LeakInv` says where in a message each start condition
  can be (`Placed`) and that every string allocated is in the message, is the
  command, or is the literal of a mask that comes again behind it (`Owned`). A
  text is copied into a field that is still empty, except those of the mask.
* `MessageDelivered`, for messages with any number of parameters.
  `IsMessage` speaks of the whole line and is first turned into the order of
  its parts (`MessageLayout`); no induction over the line is needed, as every
  part ends at the first piece of some kind. `ReadInv` then says what has been
  read in each start condition (`Progress`): the source, the callback, and
  exactly those parameters of the line that end before the position, in order
  (`ParamsUpTo`). One rule of `<PARAM>` moves the position to the end of the
  next parameter (`NextParam`); at the line end none is left. It needs
  `LeakInv` for the positions. That an overrun means too many parameters is a
  count: those stored and the one found are different (`FS_PigeonHole`).
* `ScannerSoundWithCallbacks`: the same for `ReplySpec`. A step of the replies is
  a step of the scanner, or a callback that does not return and leaves the
  scanner where it was.
* `RepliesAlwaysReadBack`, for lines of any length and any `InlineSize` of at
  least 4. The invariant `Clean` says what the rules guarantee of the strings a
  callback is given: no line end and no zero byte in either, no space in the
  first parameter and no ":" at its beginning. What a helper writes is then one
  of four shapes ("W", "W c", "W :t", "W c :t"), and the places of its spaces
  and its first " :" are known (`HelperLine`), so that the `CHOOSE`s of
  `IsMessage`, `ParamsAfter` and `ParamsOf` have the values they should
  (`HelperParts`, `HelperReads`). `Roomy` says that all that was put into the
  buffer had room: an argument makes room for the whole, a literal only for
  itself, which is enough when nothing stands before it or when half of the
  buffer holds it (`LiteralRoomy`). The formats have at most four fields, so the
  recursive function in `Format` is given by its values (`FormatFacts`).

`ReadUntilProofs`

* `Inductive`, `TypeCorrect`, `NoLineEverHeldBack`, `Implements`, for streams of
  any length over any bytes, any sizes of the buffer and of the reads. The
  invariant adds to the types that a read waits only on an open socket and while
  the chain goes on; that a read which waits or has received bytes has found no
  line in the buffer, and no line end begins before `pos` (`Searched`); and that
  a read which completes without bytes has a line that ends at `pos`, or a piece
  of one when the socket is being closed. `Implements` is the refinement of
  `LineStream`: a completed receive, whose bytes are not in the buffer yet,
  already belongs to the abstract stream, so that the step which commits,
  searches and consumes is the abstract `Deliver`, or a stutter when it asks for
  more. The lemmas are about sequences: what `Reserve`, `Commit` and `Consume` do
  to the data, and that a search from `pos` finds the first line end of all.

`TaskIoServiceProofs`

* `TypeCorrect`, `WorkIsCounted`, `WorkKeepsServiceRunning` and
  `QueuedAtMostOnce`, for any number of threads and operations. `WorkInv` says
  where each operation is (`StateInv`: one queue, one thread, one pusher), what
  the counters add up to (`WorkCounted`) and who may bring them to zero
  (`KeepInv`). They need each other. `outstanding_work_` is an integer in the
  invariant; that it does not fall below zero, and that no thread stops a
  service that has work, follows by counting: the work a thread has counted
  privately is matched one to one with the operations in its private queue, so
  the shared counter is at least what `session->work` and the handlers that are
  running account for (`PrivateBound`, `WorkLeast`).
* The entries in `op_queue_` and in the private queues of all threads are
  distinct (`QueueInv`), so that the intrusive list is sound when a private
  queue is spliced behind the shared one. The entry of a descriptor is distinct
  because it always is in front of the task, which a thread has to reach
  before the reactor can report the descriptor again (`IosFirst`).

`TaskIoServiceQueueProofs`

* `WakeupNotLost`, from `WakeInv`: the bit of the event is set while there are
  waiters and something is queued (`BitInv`), `task_interrupted_` is true of the
  thread in epoll_wait only once the interrupter has been written to
  (`PokeInv`), and somebody will look at the queue, or is about to signal while
  somebody waits (`ComeInv`). `NoLostWakeup` alone is not inductive: whether a
  wake-up is needed is decided by the flags, which these tie to the state.
* `QueueImplemented`, the refinement of `HandlerQueue` step by step. A thread's
  turn first adds what it had kept privately, then takes the first entry
  (`TurnAdds`, `TurnImplements`): the abstract `Take`, or `Enqueue` when it finds
  the task or nothing. A push or a cancellation is `Enqueue`, the end of
  `work_cleanup` is `Finish`, stop is `Stop`, and whatever happens to the event,
  the interrupter, the counters and the task is a stutter.

`EpollReactorProofs`

* `Invariant`, and from it `TypeCorrect`, `NoReportLost` and `CompletionsReal`,
  for any number of threads, sends and endpoints. The chain resolve - connect -
  read is in one place (`ChainInv`): an entry of the queue, an operation that
  waits, one thread, or what disconnect has aborted and not posted yet. That
  gives the types (no second read can join the queue of reads) and that nobody
  starts an operation of the chain while the socket is being closed and opened.
  `ShutInv` says what close and open leave behind: a descriptor_state that has
  been shut down or is not attached has no operations, and it is attached and
  shut down only between the two halves of `deregister_descriptor`. `RaceInv`
  says that a thread before the second look of `start_op` finds the state as it
  left it unless disconnect has run meanwhile.
* `NoLostEdge` is inductive together with these: each step that makes an
  operation ready (a report, an answer, disconnect's shutdown) puts the socket
  on the ready list, each step that consumes a report performs the operations
  it is about until one would block, and an operation joins its queue only when
  it would block or, for connect, when registering EPOLLOUT has made epoll look
  again. The lemmas `WayKept` and `WayLeft` say when a report stays on its way.
* `CompletionsReal` needs `MetInv`: a usable connection has been accepted, a
  connect waits only after it has been dialled, so that the report of the
  unconnected socket, which finds it "connecting", is turned down by poll().

Model-checked only: the liveness properties, which need fairness and `ENABLED`.
Every safety invariant and action property that a passing run checks is stated
by a theorem.

## 5. Findings

1. `session_destroy_in_callback`. A line followed at once by the end of the
   stream: the next read completes before `on_read` posts the line, so
   `signal_disconnect` runs first. The callback of `tests/test1.c` deletes the
   session there, and the queued `thread_parse` then uses it.
2. `write_mixed`. The comment on `output_strand` is "Prevents concurrent write
   requests"; only completions are wrapped, so a second write begins while the
   first is half sent, and its bytes land inside the first line.
3. `lexer_empty_trailing`. A complete message with an empty trailing text ends
   in the `<<EOF>>` rule, "Not enough input", and is dropped.
4. `lexer_user`. `"!{user}"` is quoted, so the user of `nick!user@host` is never
   stored.

Also visible in the models, without a statement in the repository that says
otherwise: `signal_disconnect` can be lost when `on_read` overtakes `close()`
on another thread; a read that races with disconnect hands a piece of a line to
the scanner, or dereferences a null pointer; a PING or PRIVMSG without a
trailing text ends `test1` (an exception of the formatter through the scanner,
or `strcmp` of a null pointer); pong puts no ":" before its text, so that a text
with spaces reads back as several parameters, and one that begins with ":" reads
back without it; a failed resolve, connect or read is not signalled
(`SignalLostOnlyWhen` says exactly when), and attach then never returns; disconnect and write_sync
throw through the C interface; more than 14 parameters overrun the array;
a mask with the text `!{user}` or `@{host}` twice leaks the first copy;
destroying the service leaks buffers of pending writes; destroying a session in
the middle of a write uses its socket afterwards.

## 6. Not modelled

* `<GENERIC_INITIAL>`: `use_generic` is never set.
* A null `signal_connect` or `signal_disconnect`: the code calls them untested;
  applications have to supply both, and the model assumes so.
* Several sessions on one service: they share the queue and nothing else.
* The private io_service and thread of the resolver: a resolve ends some time.
* A service destroyed while threads run it, which asio forbids.
* After stop, a poll that is under way may take one more handler
  (`TaskIoService` shows it); in `IrcSession` no handler begins after stop.
* The two looks of `start_op` are in `EpollReactor` and their effect on bytes in
  `ReadUntil`; `IrcSession` starts an operation in one step, and
  `TaskIoService` cancels one in one step (`CancelOp`), where `EpollReactor`
  separates the abort from the push.
* A failure of `epoll_ctl(EPOLL_CTL_MOD)` in `start_op`, for a descriptor that is
  registered: the operation would complete with the error at once.
* A state "connecting" of the socket in `IrcWrite`: a write made then waits in
  the reactor's queue, as one does that finds no room in the send buffer.
* Memory exhaustion, except in `thread_parse`, which tests for it.
* Character encodings, log output, build scripts, the plugin functions that are
  declared and not defined.
* Most of the vendored sources. The repository carries all of asio with its
  examples, documentation, ssl, serial ports, timers, signals, acceptors,
  datagrams and Windows back ends, and a whole formatting library; the program
  reaches a small part of either, and that part is modelled. Modelling code that
  cannot run in this program would say nothing about it.

## 7. Plan

Done: the modules above, their runs, and the theorems of section 4.

Next: the resolver's thread, for the join in the destruction of the service.
