-------------------------- MODULE IrcSessionProofs --------------------------
(***************************************************************************)
(* Proofs about IrcSession, for every set of threads, every number of      *)
(* lines and endpoints and every application.                              *)
(*                                                                         *)
(* TypeOK is not inductive: taken <= recvd after on_read needs to know     *)
(* that a read which completed well left a line in session->input, which   *)
(* holds because no second read is under way.  The inductive invariant     *)
(* therefore says of the queue and the threads that the chain is in one    *)
(* place (Single) and how far it has got (Phase).                          *)
(*                                                                         *)
(* More invariants rest on it: CloseInv, about the read that close()       *)
(* aborts; EndpointInv, about the endpoints that are left; EndInv, about   *)
(* the deleted session and the callbacks; LinesInv, about the place and the*)
(* order of the lines.                                                     *)
(***************************************************************************)
EXTENDS IrcSession, SequenceElements

ChainOps == {"resolve", "connect", "read"}

(* No entry, or at most one entry, of the queue continues the chain.       *)
NoneIn(q)      == \A i \in 1..Len(q) : q[i].op \notin ChainOps
AtMostOneIn(q) == \A i, j \in 1..Len(q) :
                    q[i].op \in ChainOps /\ q[j].op \in ChainOps => i = j

(* The entries fit the number c of signal_connect and h of                 *)
(* signal_disconnect, and n lines taken of the r received.                 *)
EntryOK(e, c, h, n, r) ==
  /\ e.op \in {"resolve", "connect"} => c = 0 /\ h = 0
  /\ e.op = "read" => c = 1 /\ h = 0
  /\ e.op = "read" /\ e.ec = "ok" => n < r
EntriesOK(q, c, h, n, r) == \A i \in 1..Len(q) : EntryOK(q[i], c, h, n, r)

NoConnectCallback == \A t \in Threads : pc[t] # "cb_connect"

SingleCallback == \A t, u \in Threads :
                    pc[t] = "cb_connect" /\ pc[u] = "cb_connect" => t = u

(* The chain is in one place.                                              *)
Single ==
  /\ AtMostOneIn(queue)
  /\ resolving \/ connecting \/ armed => NoneIn(queue) /\ NoConnectCallback
  /\ ~(resolving /\ connecting) /\ ~(resolving /\ armed)
  /\ ~(connecting /\ armed)
  /\ NoneIn(queue) \/ NoConnectCallback
  /\ SingleCallback

(* The chain is before signal_connect, or between it and                   *)
(* signal_disconnect.                                                      *)
Phase ==
  /\ connects <= 1 /\ hangups <= connects
  /\ resolving \/ connecting => connects = 0 /\ hangups = 0
  /\ armed \/ ~NoConnectCallback => connects = 1 /\ hangups = 0
  /\ EntriesOK(queue, connects, hangups, taken, recvd)
  /\ call = "none" =>
       /\ ~resolving /\ ~connecting /\ ~armed
       /\ NoneIn(queue) /\ NoConnectCallback /\ connects = 0

IndInv == TypeOK /\ Single /\ Phase

-----------------------------------------------------------------------------
(***************************************************************************)
(* The queue.                                                              *)
(***************************************************************************)

(* What the invocation of the head of the queue leaves.                    *)
LEMMA TailFacts ==
  ASSUME NEW q \in Seq(Entries), q # <<>>
  PROVE  /\ Tail(q) \in Seq(Entries)
         /\ AtMostOneIn(q) => AtMostOneIn(Tail(q))
         /\ NoneIn(q) => NoneIn(Tail(q))
         /\ AtMostOneIn(q) /\ Head(q).op \in ChainOps => NoneIn(Tail(q))
         /\ NoneIn(q) => Head(q).op \notin ChainOps
         /\ \A c, h, n, r : EntriesOK(q, c, h, n, r) =>
              EntriesOK(Tail(q), c, h, n, r) /\ EntryOK(Head(q), c, h, n, r)
<1>1. /\ Tail(q) \in Seq(Entries) /\ Len(Tail(q)) = Len(q) - 1
      /\ Len(q) \in Nat \ {0} /\ Head(q) = q[1]
      /\ \A i \in 1..Len(Tail(q)) : Tail(q)[i] = q[i + 1]
  OBVIOUS
<1>2. \A i \in 1..Len(Tail(q)) : i + 1 \in 1..Len(q) /\ i + 1 # 1
  BY <1>1
<1>3. 1 \in 1..Len(q)
  BY <1>1
<1>4. AtMostOneIn(q) => AtMostOneIn(Tail(q))
  BY <1>1, <1>2 DEF AtMostOneIn
<1>5. NoneIn(q) => NoneIn(Tail(q)) /\ Head(q).op \notin ChainOps
  BY <1>1, <1>2, <1>3 DEF NoneIn
<1>6. AtMostOneIn(q) /\ Head(q).op \in ChainOps => NoneIn(Tail(q))
  BY <1>1, <1>2, <1>3 DEF AtMostOneIn, NoneIn
<1>7. \A c, h, n, r : EntriesOK(q, c, h, n, r) =>
        EntriesOK(Tail(q), c, h, n, r) /\ EntryOK(Head(q), c, h, n, r)
  BY <1>1, <1>2, <1>3 DEF EntriesOK
<1> QED
  BY <1>1, <1>4, <1>5, <1>6, <1>7

(* What a new entry changes.                                               *)
LEMMA AppendFacts ==
  ASSUME NEW q \in Seq(Entries), NEW e \in Entries
  PROVE  /\ Append(q, e) \in Seq(Entries)
         /\ NoneIn(q) => AtMostOneIn(Append(q, e))
         /\ e.op \notin ChainOps =>
              /\ NoneIn(q) => NoneIn(Append(q, e))
              /\ AtMostOneIn(q) => AtMostOneIn(Append(q, e))
         /\ \A c, h, n, r :
              EntriesOK(q, c, h, n, r) /\ EntryOK(e, c, h, n, r)
                => EntriesOK(Append(q, e), c, h, n, r)
<1>1. /\ Append(q, e) \in Seq(Entries) /\ Len(Append(q, e)) = Len(q) + 1
      /\ Len(q) \in Nat
      /\ \A i \in 1..Len(q) : Append(q, e)[i] = q[i]
      /\ Append(q, e)[Len(q) + 1] = e
  OBVIOUS
<1>2. \A i \in 1..Len(Append(q, e)) : i \in 1..Len(q) \/ i = Len(q) + 1
  BY <1>1
<1>3. NoneIn(q) => AtMostOneIn(Append(q, e))
  BY <1>1, <1>2 DEF AtMostOneIn, NoneIn
<1>4. e.op \notin ChainOps => (NoneIn(q) => NoneIn(Append(q, e)))
  BY <1>1, <1>2 DEF NoneIn
<1>5. e.op \notin ChainOps => (AtMostOneIn(q) => AtMostOneIn(Append(q, e)))
  BY <1>1, <1>2 DEF AtMostOneIn
<1>6. \A c, h, n, r : EntriesOK(q, c, h, n, r) /\ EntryOK(e, c, h, n, r)
                        => EntriesOK(Append(q, e), c, h, n, r)
  BY <1>1, <1>2 DEF EntriesOK
<1> QED
  BY <1>1, <1>3, <1>4, <1>5, <1>6

(* A queue without links of the chain, or an empty one, fits any state.    *)
LEMMA NoneFacts ==
  ASSUME NEW q, NoneIn(q)
  PROVE  AtMostOneIn(q) /\ \A c, h, n, r : EntriesOK(q, c, h, n, r)
BY DEF NoneIn, AtMostOneIn, EntriesOK, EntryOK, ChainOps

LEMMA EmptyFacts == NoneIn(<<>>) /\ <<>> \in Seq(Entries)
BY DEF NoneIn

LEMMA CompletionType ==
  /\ \A op \in {"resolve", "connect", "read", "io"},
       ec \in {"ok", "eof", "aborted", "error"} :
         /\ Completion(op, ec) \in Entries
         /\ Completion(op, ec).op = op /\ Completion(op, ec).ec = ec
  /\ \A n \in 0..MaxLines : ParseWork(n) \in Entries /\ ParseWork(n).op = "parse"
BY ConstantsAssumption DEF Completion, ParseWork, Entries

(* async_read_until adds one link, in the queue or in the reactor, and a   *)
(* read that completes well has a line to give.                            *)
LEMMA AsyncReadUntilFacts ==
  ASSUME NEW q \in Seq(Entries), NoneIn(q), sent \in 0..MaxLines,
         NEW r \in 0..sent, NEW n \in 0..r,
         AsyncReadUntil(q, r, n)
  PROVE  /\ queue' \in Seq(Entries) /\ AtMostOneIn(queue')
         /\ armed' \in BOOLEAN /\ (armed' => NoneIn(queue'))
         /\ recvd' \in r..sent
         /\ EntriesOK(queue', 1, 0, n, recvd')
<1>0. r \in Nat /\ n \in Nat /\ sent \in Nat /\ r <= sent /\ n <= r
  BY ConstantsAssumption
<1>r. r \in r..sent
  BY <1>0
<1>1. \A ec \in {"ok", "eof", "error"} : \A k :
        (ec = "ok" => n < k) => EntryOK(Completion("read", ec), 1, 0, n, k)
  BY CompletionType DEF EntryOK
<1>2. CASE /\ n < r
           /\ queue' = Append(q, Completion("read", "ok"))
           /\ armed' = FALSE /\ recvd' = r
  <2>1. EntryOK(Completion("read", "ok"), 1, 0, n, r)
    BY <1>1, <1>2
  <2> QED
    BY <1>r, <1>2, <2>1, AppendFacts, CompletionType, NoneFacts
<1>3. CASE /\ queue' = Append(q, Completion("read", "error"))
           /\ armed' = FALSE /\ recvd' = r
  <2>1. EntryOK(Completion("read", "error"), 1, 0, n, r)
    BY <1>1
  <2> QED
    BY <1>r, <1>3, <2>1, AppendFacts, CompletionType, NoneFacts
<1>4. CASE /\ n = r
           /\ \E ec \in {"ok", "eof", "error"}, r2 \in r..sent :
                /\ Receive(ec, r, r2)
                /\ queue' = Append(q, Completion("read", ec))
                /\ recvd' = r2
           /\ armed' = FALSE
  <2>1. PICK ec \in {"ok", "eof", "error"}, r2 \in r..sent :
               /\ Receive(ec, r, r2)
               /\ queue' = Append(q, Completion("read", ec))
               /\ recvd' = r2
    BY <1>4
  <2>2. ec = "ok" => n < r2
    BY <1>0, <1>4, <2>1 DEF Receive
  <2>3. EntryOK(Completion("read", ec), 1, 0, n, r2)
    BY <1>1, <2>2
  <2> QED
    BY <1>4, <2>1, <2>3, AppendFacts, CompletionType, NoneFacts
<1>5. CASE queue' = q /\ armed' = TRUE /\ recvd' = r
  BY <1>0, <1>5, NoneFacts
<1> QED
  BY <1>2, <1>3, <1>4, <1>5 DEF AsyncReadUntil

(* Moving a thread to anything but signal_connect adds no link.            *)
LEMMA PcFacts ==
  ASSUME TypeOK, Single, NEW t \in Threads, NEW v \in PcValues,
         v # "cb_connect", pc' = [pc EXCEPT ![t] = v]
  PROVE  /\ pc' \in [Threads -> PcValues]
         /\ NoConnectCallback => NoConnectCallback'
         /\ SingleCallback'
         /\ pc[t] = "cb_connect" => NoConnectCallback'
<1>1. pc \in [Threads -> PcValues] /\ SingleCallback
  BY DEF TypeOK, Single
<1>2. pc' \in [Threads -> PcValues]
  BY <1>1
<1>3. \A u \in Threads : pc'[u] = (IF u = t THEN v ELSE pc[u])
  BY <1>1
<1>4. NoConnectCallback => NoConnectCallback'
  BY <1>3 DEF NoConnectCallback
<1>5. SingleCallback'
  BY <1>1, <1>3 DEF SingleCallback
<1>6. pc[t] = "cb_connect" => NoConnectCallback'
  BY <1>1, <1>3 DEF SingleCallback, NoConnectCallback
<1> QED
  BY <1>2, <1>4, <1>5, <1>6

-----------------------------------------------------------------------------
LEMMA InitInv == Init => IndInv
<1> SUFFICES ASSUME Init PROVE IndInv
  OBVIOUS
<1>1. TypeOK
  <2>1. 0 \in 0..MaxLines /\ 0 \in 0..MaxEndpoints /\ 0 \in 0..0
    BY ConstantsAssumption
  <2>2. queue \in Seq(Entries) /\ parsed \in Seq(1..MaxLines)
    BY DEF Init
  <2>3. pc \in [Threads -> PcValues] /\ line \in [Threads -> 0..MaxLines]
    BY <2>1 DEF Init, PcValues
  <2> QED
    BY <2>1, <2>2, <2>3 DEF Init, TypeOK, Socks, Fates
<1>2. Single /\ Phase
  BY EmptyFacts, NoneFacts
     DEF Init, Single, SingleCallback, Phase, NoConnectCallback
<1> QED
  BY <1>1, <1>2 DEF IndInv

(* Steps that leave the queue, the operations and the history alone.       *)
LEMMA QuietStep ==
  ASSUME IndInv, TypeOK',
         UNCHANGED <<queue, resolving, connecting, armed, connects, hangups,
                     taken, recvd>>,
         call' # "none" \/ call' = call,
         NoConnectCallback => NoConnectCallback', SingleCallback'
  PROVE  IndInv'
BY DEF IndInv, Single, Phase

LEMMA ServiceSteps ==
  ASSUME IndInv, NEW t \in Threads,
         \/ cq_irc_service_attach(t) \/ ServiceReturns(t) \/ CallbackReturns(t)
  PROVE  IndInv'
<1>1. PICK v \in PcValues : v # "cb_connect" /\ pc' = [pc EXCEPT ![t] = v]
  BY DEF cq_irc_service_attach, ServiceReturns, CallbackReturns, Return,
         PcValues
<1>2. stopped' \in BOOLEAN /\ halted' \in BOOLEAN
  BY DEF IndInv, TypeOK, cq_irc_service_attach, ServiceReturns,
         CallbackReturns, Return, WorkFinished, svcVars, histVars
<1>3. UNCHANGED <<svc, queue, line, sess, call, resolving, endpoints,
                  connecting, sock, closer, armed, peer, sent, recvd, taken,
                  parsed, connects, hangups, cut, raced, missed, fate>>
  BY DEF cq_irc_service_attach, ServiceReturns, CallbackReturns, svcVars,
         setupVars, chanVars, histVars, Proceeds
<1>4. TypeOK'
  BY <1>1, <1>2, <1>3 DEF IndInv, TypeOK
<1> QED
  BY <1>1, <1>3, <1>4, PcFacts, QuietStep DEF IndInv

(* API calls, errors and the server: no thread moves and nothing happens   *)
(* to the chain.                                                           *)
LEMMA ApiSteps ==
  ASSUME IndInv, NEW t \in Threads \cup {User},
         \/ cq_irc_service_stop(t) \/ DisconnectShutdown(t)
         \/ DisconnectThrows(t) \/ UseFreed(t) \/ UseUnset(t)
         \/ AssignCallbacks \/ ServerSends \/ ServerCloses
         \/ ConnectDuringClose(t) \/ DisconnectClose(t)
  PROVE  IndInv'
<1>1. UNCHANGED <<svc, queue, pc, line, sess, resolving, endpoints,
                  connecting, armed, recvd, taken, parsed, connects, hangups,
                  cut, raced, missed>>
  BY DEF cq_irc_service_stop, DisconnectShutdown, DisconnectThrows, UseFreed,
         UseUnset, AssignCallbacks, ServerSends, ServerCloses,
         ConnectDuringClose, DisconnectClose, svcVars,
         setupVars, chanVars, histVars
<1>2. /\ stopped' \in BOOLEAN /\ peer' \in {"up", "fin", "rst"}
      /\ sock' \in Socks /\ closer' \subseteq Threads \cup {User}
      /\ fate' \in Fates /\ call' \in {"none", "resolving", "returned"}
      /\ call' # "none" \/ call' = call
      /\ halted' \in BOOLEAN
  <2> DEFINE Kept == /\ stopped' \in BOOLEAN /\ peer' \in {"up", "fin", "rst"}
                     /\ sock' \in Socks /\ closer' \subseteq Threads \cup {User}
                     /\ fate' \in Fates
                     /\ call' \in {"none", "resolving", "returned"}
                     /\ call' # "none" \/ call' = call
                     /\ halted' \in BOOLEAN
  <2>0. /\ stopped \in BOOLEAN /\ peer \in {"up", "fin", "rst"}
        /\ sock \in Socks /\ closer \subseteq Threads \cup {User}
        /\ fate \in Fates /\ call \in {"none", "resolving", "returned"}
        /\ halted \in BOOLEAN
    BY DEF IndInv, TypeOK
  <2>1. CASE cq_irc_service_stop(t) \/ AssignCallbacks
    BY <2>0, <2>1 DEF Fates, Proceeds, Ends, cq_irc_service_stop,
                      AssignCallbacks, svcVars, setupVars, chanVars, histVars
  <2>2. CASE DisconnectShutdown(t) \/ DisconnectClose(t)
    BY <2>0, <2>2 DEF Socks, Fates, Proceeds, Ends, DisconnectShutdown,
                      DisconnectClose, svcVars, setupVars, chanVars, histVars
  <2>3. CASE ConnectDuringClose(t)
    BY <2>0, <2>3 DEF Socks, Fates, Proceeds, Ends, ConnectDuringClose,
                      svcVars, setupVars, chanVars, histVars
  <2>4. CASE DisconnectThrows(t) \/ UseFreed(t) \/ UseUnset(t)
    BY <2>0, <2>4 DEF Fates, Proceeds, Ends, DisconnectThrows, UseFreed,
                      UseUnset, svcVars, setupVars, chanVars, histVars
  <2>5. CASE ServerSends \/ ServerCloses
    BY <2>0, <2>5 DEF Fates, Proceeds, Ends, ServerSends, ServerCloses,
                      svcVars, setupVars, chanVars, histVars
  <2> QED BY <2>1, <2>2, <2>3, <2>4, <2>5
<1>3. sent' \in 0..MaxLines /\ recvd' \in 0..sent' /\ taken' \in 0..recvd'
  <2>1. sent' = sent \/ sent' = recvd \/ (sent < MaxLines /\ sent' = sent + 1)
    BY DEF cq_irc_service_stop, DisconnectShutdown, DisconnectThrows, UseFreed,
           UseUnset, AssignCallbacks, ServerSends, ServerCloses,
         ConnectDuringClose, DisconnectClose, chanVars
  <2> QED
    BY <1>1, <2>1, ConstantsAssumption DEF IndInv, TypeOK
<1>4. TypeOK'
  BY <1>1, <1>2, <1>3 DEF IndInv, TypeOK
<1>5. NoConnectCallback' = NoConnectCallback /\ SingleCallback' = SingleCallback
  BY <1>1 DEF NoConnectCallback, SingleCallback
<1> QED
  BY <1>1, <1>2, <1>4, <1>5, QuietStep DEF IndInv, Single

LEMMA DestroyServiceStep ==
  ASSUME IndInv, cq_irc_service_destroy PROVE IndInv'
<1>1. TypeOK'
  BY EmptyFacts DEF IndInv, TypeOK, cq_irc_service_destroy, chanVars, histVars,
                    Proceeds
<1>2. /\ UNCHANGED <<pc, call, connects, hangups, taken, recvd>>
      /\ queue' = <<>> /\ armed' = FALSE /\ resolving' = FALSE
      /\ connecting' = FALSE
  BY DEF cq_irc_service_destroy, chanVars, histVars
<1>3. NoConnectCallback' = NoConnectCallback /\ SingleCallback' = SingleCallback
  BY <1>2 DEF NoConnectCallback, SingleCallback
<1> QED
  BY <1>1, <1>2, <1>3, EmptyFacts, NoneFacts DEF IndInv, Single, Phase

LEMMA ConnectStep ==
  ASSUME IndInv, cq_irc_session_connect PROVE IndInv'
<1>1. TypeOK'
  BY DEF IndInv, TypeOK, cq_irc_session_connect, svcVars, chanVars, histVars,
         Proceeds
<1>2. /\ UNCHANGED <<queue, pc, connecting, armed, connects, hangups, taken,
                     recvd>>
      /\ call = "none" /\ call' = "resolving" /\ resolving' = TRUE
  BY DEF cq_irc_session_connect, chanVars, histVars
<1>3. NoConnectCallback' = NoConnectCallback /\ SingleCallback' = SingleCallback
  BY <1>2 DEF NoConnectCallback, SingleCallback
<1>4. connects = 0 /\ hangups = 0
  BY <1>2 DEF IndInv, Phase, TypeOK
<1> QED
  BY <1>1, <1>2, <1>3, <1>4 DEF IndInv, Single, Phase

(* Closing the socket moves the link of a waiting operation to the queue.  *)
LEMMA CloseFacts ==
  ASSUME IndInv, AbortOps
  PROVE  /\ queue' \in Seq(Entries) /\ AtMostOneIn(queue')
         /\ armed' = FALSE /\ connecting' = FALSE
         /\ NoneIn(queue') \/ NoConnectCallback
         /\ resolving => NoneIn(queue')
         /\ EntriesOK(queue', connects, hangups, taken, recvd)
         /\ call = "none" => NoneIn(queue')
<1>1. queue \in Seq(Entries)
  BY DEF IndInv, TypeOK
<1>2. armed' = FALSE /\ connecting' = FALSE
  BY DEF AbortOps
<1>3. CASE armed
  <2>1. /\ ~connecting /\ ~resolving /\ NoneIn(queue) /\ NoConnectCallback
        /\ connects = 1 /\ hangups = 0 /\ call # "none"
    BY <1>3 DEF IndInv, Single, Phase
  <2>2. queue' = Append(queue, Completion("read", "aborted"))
    <3>1. Completion("read", "aborted") \in Entries
      BY CompletionType
    <3> QED
      BY <1>1, <1>3, <2>1, <3>1 DEF AbortOps
  <2>3. EntryOK(Completion("read", "aborted"), connects, hangups, taken, recvd)
    BY <2>1, CompletionType DEF EntryOK
  <2> QED
    BY <1>1, <1>2, <2>1, <2>2, <2>3, AppendFacts, NoneFacts, CompletionType
<1>4. CASE ~armed /\ connecting
  <2>1. /\ ~resolving /\ NoneIn(queue) /\ NoConnectCallback
        /\ connects = 0 /\ hangups = 0 /\ call # "none"
    BY <1>4 DEF IndInv, Single, Phase
  <2>2. queue' = Append(queue, Completion("connect", "aborted"))
    <3>1. Completion("connect", "aborted") \in Entries
      BY CompletionType
    <3> QED
      BY <1>1, <1>4, <2>1, <3>1 DEF AbortOps
  <2>3. EntryOK(Completion("connect", "aborted"), connects, hangups, taken,
                recvd)
    BY <2>1, CompletionType DEF EntryOK
  <2> QED
    BY <1>1, <1>2, <2>1, <2>2, <2>3, AppendFacts, NoneFacts, CompletionType
<1>5. CASE ~armed /\ ~connecting
  <2>1. queue' = queue
    BY <1>1, <1>5 DEF AbortOps
  <2> QED
    BY <1>1, <1>2, <1>5, <2>1 DEF IndInv, Single, Phase
<1> QED
  BY <1>3, <1>4, <1>5

LEMMA CloseSteps ==
  ASSUME IndInv,
         \/ \E t \in Threads \cup {User} : DisconnectAborts(t)
         \/ \E t \in Threads : DestroyOnDisconnect(t)
         \/ DestroyAfterStop
  PROVE  IndInv'
<1>1. AbortOps /\ sock' \in Socks
  BY DEF DisconnectAborts, DestroyOnDisconnect, DestroyAfterStop,
         DeleteSession, Socks
<1>2. UNCHANGED <<svc, pc, line, call, resolving, endpoints, peer, sent, recvd,
                  taken, parsed, connects, hangups>>
  BY DEF DisconnectAborts, DestroyOnDisconnect, DestroyAfterStop,
         DeleteSession, svcVars, chanVars, histVars
<1>3. /\ stopped' \in BOOLEAN /\ sess' \in {"none", "live", "freed"}
      /\ closer' \subseteq Threads \cup {User} /\ cut' \in BOOLEAN
      /\ raced' \in BOOLEAN /\ missed' \in BOOLEAN
      /\ halted' \in BOOLEAN /\ fate' \in Fates
  BY DEF IndInv, TypeOK, DisconnectAborts, DestroyOnDisconnect,
         DestroyAfterStop, DeleteSession, svcVars, histVars, Proceeds, Fates,
         WorkFinished
<1>4. TypeOK'
  BY <1>1, <1>2, <1>3, CloseFacts DEF IndInv, TypeOK
<1>5. NoConnectCallback' = NoConnectCallback /\ SingleCallback' = SingleCallback
  BY <1>2 DEF NoConnectCallback, SingleCallback
<1> QED
  BY <1>1, <1>2, <1>4, <1>5, CloseFacts DEF IndInv, Single, Phase

(* The resolver and the kernel: an operation turns into its completion.    *)
LEMMA ResolveDoneStep ==
  ASSUME IndInv, ResolveDone PROVE IndInv'
<1>1. PICK ec \in {"ok", "error"} :
             queue' = Append(queue, Completion("resolve", ec))
  BY DEF ResolveDone
<1>2. /\ UNCHANGED <<svc, stopped, pc, line, sess, call, endpoints, connecting,
                     sock, closer, armed, peer, sent, recvd, taken, parsed,
                     connects, hangups, cut, raced, missed, halted>>
      /\ resolving /\ resolving' = FALSE /\ fate' \in Fates
  BY DEF ResolveDone, svcVars, chanVars, histVars, Proceeds, Fates
<1>3. /\ ~connecting /\ ~armed /\ NoneIn(queue) /\ NoConnectCallback
      /\ connects = 0 /\ hangups = 0 /\ call # "none"
      /\ queue \in Seq(Entries)
  BY <1>2 DEF IndInv, Single, Phase, TypeOK
<1>4. EntryOK(Completion("resolve", ec), connects, hangups, taken, recvd)
  BY <1>3, CompletionType DEF EntryOK
<1>5. /\ queue' \in Seq(Entries) /\ AtMostOneIn(queue')
      /\ EntriesOK(queue', connects, hangups, taken, recvd)
  BY <1>1, <1>3, <1>4, AppendFacts, NoneFacts, CompletionType
<1>6. TypeOK'
  <2>1. TypeOK
    BY DEF IndInv
  <2>2. resolving' \in BOOLEAN /\ connecting' \in BOOLEAN
    BY <1>2, <2>1 DEF TypeOK
  <2>3. queue' \in Seq(Entries)
    BY <1>5
  <2> QED
    BY <1>2, <2>1, <2>2, <2>3 DEF TypeOK
<1>7. NoConnectCallback' = NoConnectCallback /\ SingleCallback' = SingleCallback
  BY <1>2 DEF NoConnectCallback, SingleCallback
<1> QED
  BY <1>2, <1>3, <1>5, <1>6, <1>7 DEF IndInv, Single, Phase

LEMMA ConnectDoneStep ==
  ASSUME IndInv, ConnectDone PROVE IndInv'
<1>1. PICK ec \in {"ok", "error"} :
             queue' = Append(queue, Completion("connect", ec))
  BY DEF ConnectDone
<1>2. /\ UNCHANGED <<svc, stopped, pc, line, sess, call, endpoints, resolving,
                     closer, armed, peer, sent, recvd, taken, parsed,
                     connects, hangups, cut, raced, missed, halted>>
      /\ connecting /\ connecting' = FALSE /\ fate' \in Fates /\ sock' \in Socks
  BY DEF ConnectDone, svcVars, chanVars, histVars, Proceeds, Fates, Socks,
         IndInv, TypeOK
<1>3. /\ ~resolving /\ ~armed /\ NoneIn(queue) /\ NoConnectCallback
      /\ connects = 0 /\ hangups = 0 /\ call # "none"
      /\ queue \in Seq(Entries)
  BY <1>2 DEF IndInv, Single, Phase, TypeOK
<1>4. EntryOK(Completion("connect", ec), connects, hangups, taken, recvd)
  BY <1>3, CompletionType DEF EntryOK
<1>5. /\ queue' \in Seq(Entries) /\ AtMostOneIn(queue')
      /\ EntriesOK(queue', connects, hangups, taken, recvd)
  BY <1>1, <1>3, <1>4, AppendFacts, NoneFacts, CompletionType
<1>6. TypeOK'
  <2>1. TypeOK
    BY DEF IndInv
  <2>2. resolving' \in BOOLEAN /\ connecting' \in BOOLEAN
    BY <1>2, <2>1 DEF TypeOK
  <2>3. queue' \in Seq(Entries)
    BY <1>5
  <2> QED
    BY <1>2, <2>1, <2>2, <2>3 DEF TypeOK
<1>7. NoConnectCallback' = NoConnectCallback /\ SingleCallback' = SingleCallback
  BY <1>2 DEF NoConnectCallback, SingleCallback
<1> QED
  BY <1>2, <1>3, <1>5, <1>6, <1>7 DEF IndInv, Single, Phase

(* Steps that add to the queue, or take from it, entries that are not      *)
(* links of the chain.                                                     *)
LEMMA OffChainStep ==
  ASSUME IndInv, TypeOK',
         UNCHANGED <<resolving, connecting, armed, connects, hangups, taken,
                     recvd, call>>,
         NoneIn(queue) => NoneIn(queue'), AtMostOneIn(queue'),
         EntriesOK(queue', connects, hangups, taken, recvd),
         NoConnectCallback => NoConnectCallback', SingleCallback'
  PROVE  IndInv'
BY DEF IndInv, Single, Phase

LEMMA ReactorStep ==
  ASSUME IndInv, NEW t \in Threads, Reactor(t) PROVE IndInv'
<1>1. /\ UNCHANGED <<svc, stopped, pc, line, sess, call, resolving, endpoints,
                     connecting, sock, closer, armed, peer, sent, recvd, taken,
                     parsed, connects, hangups, cut, raced, missed, halted>>
      /\ queue' = Append(queue, Completion("io", "ok")) /\ fate' \in Fates
  BY DEF Reactor, svcVars, setupVars, chanVars, histVars, Proceeds, Fates
<1>2. queue \in Seq(Entries) /\ AtMostOneIn(queue)
      /\ EntriesOK(queue, connects, hangups, taken, recvd)
  BY DEF IndInv, TypeOK, Single, Phase
<1>3. /\ Completion("io", "ok") \in Entries
      /\ Completion("io", "ok").op \notin ChainOps
      /\ EntryOK(Completion("io", "ok"), connects, hangups, taken, recvd)
  BY CompletionType DEF ChainOps, EntryOK
<1>4. /\ queue' \in Seq(Entries) /\ AtMostOneIn(queue')
      /\ NoneIn(queue) => NoneIn(queue')
      /\ EntriesOK(queue', connects, hangups, taken, recvd)
  BY <1>1, <1>2, <1>3, AppendFacts
<1>5. TypeOK'
  BY <1>1, <1>4 DEF IndInv, TypeOK
<1>6. NoConnectCallback' = NoConnectCallback /\ SingleCallback' = SingleCallback
  BY <1>1 DEF NoConnectCallback, SingleCallback
<1> QED
  BY <1>1, <1>4, <1>5, <1>6, OffChainStep DEF IndInv, Single

LEMMA StaleEventStep ==
  ASSUME IndInv, NEW t \in Threads, StaleEvent(t) PROVE IndInv'
<1>1. /\ UNCHANGED <<svc, stopped, pc, line, sess, call, resolving, endpoints,
                     connecting, sock, closer, armed, peer, sent, recvd, taken,
                     parsed, connects, hangups, cut, raced, missed, halted>>
      /\ queue # <<>> /\ queue' = Tail(queue) /\ fate' \in Fates
  BY DEF StaleEvent, Runs, svcVars, setupVars, chanVars, histVars, Proceeds,
         Fates
<1>2. queue \in Seq(Entries) /\ AtMostOneIn(queue)
      /\ EntriesOK(queue, connects, hangups, taken, recvd)
  BY DEF IndInv, TypeOK, Single, Phase
<1>3. /\ queue' \in Seq(Entries) /\ AtMostOneIn(queue')
      /\ NoneIn(queue) => NoneIn(queue')
      /\ EntriesOK(queue', connects, hangups, taken, recvd)
  BY <1>1, <1>2, TailFacts
<1>4. TypeOK'
  BY <1>1, <1>3 DEF IndInv, TypeOK
<1>5. NoConnectCallback' = NoConnectCallback /\ SingleCallback' = SingleCallback
  BY <1>1 DEF NoConnectCallback, SingleCallback
<1> QED
  BY <1>1, <1>3, <1>4, <1>5, OffChainStep DEF IndInv, Single

LEMMA PostParseStep ==
  ASSUME IndInv, NEW t \in Threads, PostParse(t) PROVE IndInv'
<1>1. /\ UNCHANGED <<svc, sess, call, resolving, endpoints, connecting, sock,
                     closer, armed, peer, sent, recvd, taken, parsed, connects,
                     hangups, cut, raced, missed, halted>>
      /\ queue' = Append(queue, ParseWork(line[t])) /\ fate' \in Fates
      /\ pc' = [pc EXCEPT ![t] = "idle"] /\ line' = [line EXCEPT ![t] = 0]
      /\ stopped' \in BOOLEAN
  BY DEF PostParse, setupVars, chanVars, histVars, Proceeds, Fates, Return,
         WorkFinished
<1>2. /\ queue \in Seq(Entries) /\ AtMostOneIn(queue)
      /\ EntriesOK(queue, connects, hangups, taken, recvd)
      /\ line \in [Threads -> 0..MaxLines]
  BY DEF IndInv, TypeOK, Single, Phase
<1>3. /\ ParseWork(line[t]) \in Entries
      /\ ParseWork(line[t]).op \notin ChainOps
      /\ EntryOK(ParseWork(line[t]), connects, hangups, taken, recvd)
  BY <1>2, CompletionType DEF ChainOps, EntryOK
<1>4. /\ queue' \in Seq(Entries) /\ AtMostOneIn(queue')
      /\ NoneIn(queue) => NoneIn(queue')
      /\ EntriesOK(queue', connects, hangups, taken, recvd)
  BY <1>1, <1>2, <1>3, AppendFacts
<1>5. "idle" \in PcValues /\ "idle" # "cb_connect"
  BY DEF PcValues
<1>6. /\ pc' \in [Threads -> PcValues] /\ SingleCallback'
      /\ NoConnectCallback => NoConnectCallback'
  BY <1>1, <1>5, PcFacts DEF IndInv
<1>7. line' \in [Threads -> 0..MaxLines]
  BY <1>1, <1>2, ConstantsAssumption
<1>8. TypeOK'
  BY <1>1, <1>4, <1>6, <1>7 DEF IndInv, TypeOK
<1> QED
  BY <1>1, <1>4, <1>6, <1>8, OffChainStep

LEMMA ThreadParseStep ==
  ASSUME IndInv, NEW t \in Threads, thread_parse(t) PROVE IndInv'
<1>1. PICK n \in 0..MaxLines :
             /\ queue # <<>> /\ queue' = Tail(queue)
             /\ parsed' = IF n = 0 THEN parsed ELSE Append(parsed, n)
             /\ stopped' \in BOOLEAN
             /\ \E v \in {"cb_line", "idle"} : pc' = [pc EXCEPT ![t] = v]
  BY DEF thread_parse, Runs, Return, WorkFinished, IndInv, TypeOK
<1>2. /\ UNCHANGED <<svc, line, sess, call, resolving, endpoints, connecting,
                     sock, closer, armed, peer, sent, recvd, taken, connects,
                     hangups, cut, raced, missed, halted>>
      /\ fate' \in Fates
  BY DEF thread_parse, setupVars, chanVars, Proceeds, Fates
<1>3. /\ queue \in Seq(Entries) /\ AtMostOneIn(queue)
      /\ EntriesOK(queue, connects, hangups, taken, recvd)
      /\ parsed \in Seq(1..MaxLines)
  BY DEF IndInv, TypeOK, Single, Phase
<1>4. /\ queue' \in Seq(Entries) /\ AtMostOneIn(queue')
      /\ NoneIn(queue) => NoneIn(queue')
      /\ EntriesOK(queue', connects, hangups, taken, recvd)
  BY <1>1, <1>2, <1>3, TailFacts
<1>5. parsed' \in Seq(1..MaxLines)
  <2>1. CASE n = 0
    BY <1>1, <1>3, <2>1
  <2>2. CASE n # 0
    <3>1. n \in 1..MaxLines
      BY <2>2, ConstantsAssumption
    <3>2. Append(parsed, n) \in Seq(1..MaxLines)
      BY <1>3, <3>1
    <3> QED
      BY <1>1, <2>2, <3>2
  <2> QED
    BY <2>1, <2>2
<1>6. \A v \in {"cb_line", "idle"} : v \in PcValues /\ v # "cb_connect"
  BY DEF PcValues, Callbacks
<1>7. /\ pc' \in [Threads -> PcValues] /\ SingleCallback'
      /\ NoConnectCallback => NoConnectCallback'
  BY <1>1, <1>6, PcFacts DEF IndInv
<1>8. TypeOK'
  BY <1>1, <1>2, <1>4, <1>5, <1>7 DEF IndInv, TypeOK
<1> QED
  BY <1>2, <1>4, <1>7, <1>8, OffChainStep

-----------------------------------------------------------------------------
(***************************************************************************)
(* The handlers of the chain: each takes the only link out of the queue    *)
(* and puts at most one back.                                              *)
(***************************************************************************)

(* A link at the head of the queue is the only one.                        *)
LEMMA HeadFacts ==
  ASSUME IndInv, NEW t \in Threads, NEW op \in ChainOps,
         NEW ec \in {"ok", "eof", "aborted", "error"},
         Runs(t, Completion(op, ec))
  PROVE  /\ Tail(queue) \in Seq(Entries) /\ NoneIn(Tail(queue))
         /\ ~resolving /\ ~connecting /\ ~armed /\ NoConnectCallback
         /\ op = "read" => connects = 1 /\ hangups = 0
         /\ op # "read" => connects = 0 /\ hangups = 0
         /\ op = "read" /\ ec = "ok" => taken < recvd
         /\ call # "none"
<1>1. /\ queue \in Seq(Entries) /\ queue # <<>>
      /\ Head(queue) = Completion(op, ec)
  BY DEF IndInv, TypeOK, Runs
<1>2. Completion(op, ec).op = op /\ Completion(op, ec).ec = ec
  BY CompletionType DEF ChainOps
<1>3. /\ AtMostOneIn(queue)
      /\ EntriesOK(queue, connects, hangups, taken, recvd)
  BY DEF IndInv, Single, Phase
<1>4. Tail(queue) \in Seq(Entries) /\ NoneIn(Tail(queue)) /\ ~NoneIn(queue)
  BY <1>1, <1>2, <1>3, TailFacts
<1>5. EntryOK(Completion(op, ec), connects, hangups, taken, recvd)
  BY <1>1, <1>3, TailFacts
<1>6. /\ op = "read" => connects = 1 /\ hangups = 0
      /\ op # "read" => connects = 0 /\ hangups = 0
      /\ op = "read" /\ ec = "ok" => taken < recvd
  BY <1>2, <1>5 DEF EntryOK, ChainOps
<1> QED
  BY <1>4, <1>6 DEF IndInv, Single, Phase

(* The chain ends, or continues in the operation it started.               *)
LEMMA EndStep ==
  ASSUME IndInv, TypeOK',
         NoneIn(queue'), ~resolving', ~(connecting' /\ armed'),
         NoConnectCallback', call' # "none",
         connects' <= 1, hangups' <= connects',
         connecting' => connects' = 0 /\ hangups' = 0,
         armed' => connects' = 1 /\ hangups' = 0
  PROVE  IndInv'
<1>1. SingleCallback'
  BY DEF NoConnectCallback, SingleCallback
<1>2. /\ AtMostOneIn(queue')
      /\ EntriesOK(queue', connects', hangups', taken', recvd')
  BY NoneFacts
<1> QED
  BY <1>1, <1>2 DEF IndInv, Single, Phase

LEMMA SetupHandlers ==
  ASSUME IndInv, NEW t \in Threads,
         \/ on_resolve_error(t) \/ on_resolve(t) \/ NextEndpoint(t)
         \/ on_connect_error(t)
  PROVE  IndInv'
<1>1. PICK op \in {"resolve", "connect"}, ec \in {"ok", "error", "aborted"} :
             Runs(t, Completion(op, ec))
  BY DEF on_resolve_error, on_resolve, NextEndpoint, on_connect_error
<1>2. /\ Tail(queue) \in Seq(Entries) /\ NoneIn(Tail(queue))
      /\ ~resolving /\ ~armed /\ NoConnectCallback
      /\ connects = 0 /\ hangups = 0 /\ call # "none"
  <2>1. op \in ChainOps /\ ec \in {"ok", "eof", "aborted", "error"} /\ op # "read"
    BY DEF ChainOps
  <2> QED
    BY <1>1, <2>1, HeadFacts
<1>3. /\ UNCHANGED <<svc, line, sess, call, resolving, closer, armed, peer,
                     sent, recvd, taken, parsed, connects, hangups, cut,
                     raced, missed, halted>>
      /\ queue' = Tail(queue) /\ fate' \in Fates /\ stopped' \in BOOLEAN
      /\ pc' = [pc EXCEPT ![t] = "idle"]
  BY DEF on_resolve_error, on_resolve, NextEndpoint, on_connect_error,
         setupVars, chanVars, histVars, Proceeds, Fates, Return, WorkFinished
<1>4. sock' \in Socks /\ connecting' \in BOOLEAN
  BY DEF on_resolve_error, on_resolve, NextEndpoint, on_connect_error,
         setupVars, IndInv, TypeOK, Socks
<1>5. endpoints' \in 0..MaxEndpoints
  <2>1. \/ endpoints' = endpoints \/ endpoints' \in 1..MaxEndpoints
        \/ endpoints > 1 /\ endpoints' = endpoints - 1
    BY DEF on_resolve_error, on_resolve, NextEndpoint, on_connect_error,
           setupVars
  <2> QED
    BY <2>1, ConstantsAssumption DEF IndInv, TypeOK
<1>6. "idle" \in PcValues /\ "idle" # "cb_connect"
  BY DEF PcValues
<1>7. pc' \in [Threads -> PcValues] /\ NoConnectCallback'
  BY <1>2, <1>3, <1>6, PcFacts DEF IndInv
<1>8. TypeOK'
  BY <1>2, <1>3, <1>4, <1>5, <1>7 DEF IndInv, TypeOK
<1> QED
  BY <1>2, <1>3, <1>7, <1>8, EndStep

LEMMA OnConnectStep ==
  ASSUME IndInv, NEW t \in Threads, on_connect(t) PROVE IndInv'
<1>1. /\ Tail(queue) \in Seq(Entries) /\ NoneIn(Tail(queue))
      /\ ~resolving /\ ~connecting /\ ~armed /\ NoConnectCallback
      /\ connects = 0 /\ hangups = 0 /\ call # "none"
  <2>1. /\ Runs(t, Completion("connect", "ok")) /\ "connect" \in ChainOps
        /\ "connect" # "read" /\ "ok" \in {"ok", "eof", "aborted", "error"}
    BY DEF on_connect, ChainOps
  <2> QED
    BY <2>1, HeadFacts
<1>2. /\ UNCHANGED <<svc, stopped, line, sess, call, resolving, endpoints,
                     connecting, sock, closer, armed, peer, sent, recvd, taken,
                     parsed, hangups, cut, raced, missed, halted>>
      /\ queue' = Tail(queue) /\ connects' = connects + 1 /\ fate' \in Fates
      /\ pc' = [pc EXCEPT ![t] = "cb_connect"]
  BY DEF on_connect, svcVars, setupVars, chanVars, Proceeds, Fates
<1>3. pc' \in [Threads -> PcValues] /\ SingleCallback'
  BY <1>1, <1>2 DEF IndInv, TypeOK, PcValues, Callbacks, NoConnectCallback,
                    SingleCallback
<1>4. TypeOK'
  BY <1>1, <1>2, <1>3 DEF IndInv, TypeOK
<1>5. /\ AtMostOneIn(queue')
      /\ EntriesOK(queue', connects', hangups', taken', recvd')
  BY <1>1, <1>2, NoneFacts
<1> QED
  BY <1>1, <1>2, <1>3, <1>4, <1>5 DEF IndInv, Single, Phase

(* A step that has taken the only link and calls async_read_until.         *)
LEMMA ReadStep ==
  ASSUME IndInv, NEW q \in Seq(Entries), NoneIn(q), NEW r \in 0..sent,
         NEW n \in 0..r, AsyncReadUntil(q, r, n), taken' = n,
         UNCHANGED <<svc, sess, call, resolving, endpoints, connecting, sock,
                     closer, peer, sent, parsed, connects, hangups, cut,
                     halted>>,
         stopped' \in BOOLEAN, fate' \in Fates, raced' \in BOOLEAN,
         missed' \in BOOLEAN,
         pc' \in [Threads -> PcValues], line' \in [Threads -> 0..MaxLines],
         NoConnectCallback', ~resolving, ~connecting,
         connects = 1, hangups = 0, call # "none"
  PROVE  IndInv'
<1>1. /\ queue' \in Seq(Entries) /\ AtMostOneIn(queue')
      /\ armed' \in BOOLEAN /\ (armed' => NoneIn(queue'))
      /\ recvd' \in r..sent
      /\ EntriesOK(queue', 1, 0, n, recvd')
  BY AsyncReadUntilFacts DEF IndInv, TypeOK
<1>2. recvd' \in 0..sent' /\ taken' \in 0..recvd'
  BY <1>1, ConstantsAssumption DEF IndInv, TypeOK
<1>3. TypeOK'
  BY <1>1, <1>2 DEF IndInv, TypeOK
<1>4. SingleCallback'
  BY DEF NoConnectCallback, SingleCallback
<1> QED
  BY <1>1, <1>3, <1>4 DEF IndInv, Single, Phase

LEMMA FirstReadStep ==
  ASSUME IndInv, NEW t \in Threads, FirstRead(t) PROVE IndInv'
<1>1. /\ UNCHANGED <<svc, line, sess, call, resolving, endpoints, connecting,
                     sock, closer, peer, sent, taken, parsed, connects,
                     hangups, cut, raced, missed, halted>>
      /\ stopped' \in BOOLEAN /\ fate' \in Fates
      /\ raced' \in BOOLEAN /\ missed' \in BOOLEAN
      /\ pc[t] = "cb_connect" /\ pc' = [pc EXCEPT ![t] = "idle"]
      /\ AsyncReadUntil(queue, recvd, taken)
  BY DEF IndInv, TypeOK, FirstRead, setupVars, histVars, Proceeds, Fates,
         Return, WorkFinished
<1>2. "idle" \in PcValues /\ "idle" # "cb_connect"
  BY DEF PcValues
<1>3. pc' \in [Threads -> PcValues] /\ NoConnectCallback'
  BY <1>1, <1>2, PcFacts DEF IndInv
<1>4. ~NoConnectCallback
  BY <1>1 DEF NoConnectCallback
<1>5. /\ NoneIn(queue) /\ ~resolving /\ ~connecting
      /\ connects = 1 /\ hangups = 0 /\ call # "none"
      /\ queue \in Seq(Entries) /\ recvd \in 0..sent /\ taken \in 0..recvd
      /\ line' \in [Threads -> 0..MaxLines]
  BY <1>1, <1>4 DEF IndInv, Single, Phase, TypeOK
<1> QED
  BY <1>1, <1>3, <1>5, ReadStep

(* on_read, entered with the only link taken.                              *)
LEMMA OnReadStep ==
  ASSUME IndInv, NEW t \in Threads, NEW q \in Seq(Entries), NoneIn(q),
         NEW r \in recvd..sent, NEW ec \in {"ok", "eof", "aborted", "error"},
         ec = "ok" => taken < r, OnRead(t, q, r, ec),
         ~resolving, ~connecting, NoConnectCallback,
         connects = 1, hangups = 0, call # "none"
  PROVE  IndInv'
<1>0. /\ recvd \in Nat /\ sent \in Nat /\ taken \in Nat /\ MaxLines \in Nat
      /\ taken <= recvd /\ recvd <= sent /\ sent <= MaxLines
      /\ r \in Nat /\ recvd <= r /\ r <= sent
  BY ConstantsAssumption DEF IndInv, TypeOK
<1>1. CASE TakeLine(t, q, r, ec)
  <2> DEFINE n == IF ec = "ok" THEN taken + 1 ELSE taken
  <2>1. /\ UNCHANGED <<svc, stopped, sess, call, resolving, endpoints,
                       connecting, sock, closer, peer, sent, parsed, connects,
                       hangups, cut, halted>>
        /\ fate' \in Fates /\ taken' = n
        /\ raced' \in BOOLEAN /\ missed' \in BOOLEAN
        /\ line' = [line EXCEPT ![t] = IF ec = "ok" THEN n ELSE 0]
        /\ pc' = [pc EXCEPT ![t] = "post"]
        /\ AsyncReadUntil(q, r, n)
    BY <1>1 DEF TakeLine, Races, svcVars, setupVars, histVars, Proceeds,
                Fates, IndInv, TypeOK
  <2>2. n \in 0..r /\ r \in 0..sent /\ n \in 0..MaxLines
    BY <1>0
  <2>3. line' \in [Threads -> 0..MaxLines]
    BY <1>0, <2>1, <2>2 DEF IndInv, TypeOK
  <2>4. "post" \in PcValues /\ "post" # "cb_connect"
    BY DEF PcValues
  <2>5. pc' \in [Threads -> PcValues] /\ NoConnectCallback'
    BY <2>1, <2>4, PcFacts DEF IndInv
  <2>6. stopped' \in BOOLEAN
    BY <2>1 DEF IndInv, TypeOK
  <2> HIDE DEF n
  <2> QED
    BY <2>1, <2>2, <2>3, <2>5, <2>6, ReadStep
<1>2. CASE /\ queue' = q /\ recvd' = r /\ armed' = FALSE
           /\ Hangup(t, ec) \/ ReadingError(t, ec)
  <2>1. /\ UNCHANGED <<svc, line, sess, call, resolving, endpoints, connecting,
                       sock, closer, peer, sent, taken, parsed, connects, cut,
                       raced, missed, halted>>
        /\ fate' \in Fates
        /\ hangups' \in {0, 1}
        /\ \E v \in {"cb_disconnect", "idle"} : pc' = [pc EXCEPT ![t] = v]
    BY <1>2 DEF Hangup, ReadingError, svcVars, setupVars, histVars, Proceeds,
                Fates, Return
  <2>2. stopped' \in BOOLEAN
    BY <1>2 DEF Hangup, ReadingError, svcVars, Return, WorkFinished, IndInv,
                TypeOK
  <2>3. \A v \in {"cb_disconnect", "idle"} : v \in PcValues /\ v # "cb_connect"
    BY DEF PcValues, Callbacks
  <2>4. pc' \in [Threads -> PcValues] /\ NoConnectCallback'
    BY <2>1, <2>3, PcFacts DEF IndInv
  <2>5. recvd' \in 0..sent' /\ taken' \in 0..recvd'
    BY <1>0, <1>2, <2>1
  <2>6. TypeOK'
    <3>1. TypeOK
      BY DEF IndInv
    <3>2. queue' \in Seq(Entries) /\ armed' \in BOOLEAN
      BY <1>2
    <3>3. hangups' \in Nat
      BY <2>1
    <3> QED
      BY <2>1, <2>2, <2>4, <2>5, <3>1, <3>2, <3>3 DEF TypeOK
  <2> QED
    BY <1>2, <2>1, <2>4, <2>6, EndStep
<1> QED
  BY <1>1, <1>2 DEF OnRead

LEMMA ReadHandlers ==
  ASSUME IndInv, NEW t \in Threads, on_read(t) \/ on_readable(t)
  PROVE  IndInv'
<1>0. /\ recvd \in Nat /\ sent \in Nat /\ recvd <= sent
      /\ taken \in Nat /\ taken <= recvd
  BY ConstantsAssumption DEF IndInv, TypeOK
<1>1. CASE on_read(t)
  <2>1. PICK ec \in {"ok", "eof", "aborted", "error"} :
               /\ Runs(t, Completion("read", ec))
               /\ OnRead(t, Tail(queue), recvd, ec)
    BY <1>1 DEF on_read
  <2>2. /\ Tail(queue) \in Seq(Entries) /\ NoneIn(Tail(queue))
        /\ ~resolving /\ ~connecting /\ NoConnectCallback
        /\ connects = 1 /\ hangups = 0 /\ call # "none"
        /\ ec = "ok" => taken < recvd
    <3>1. "read" \in ChainOps
      BY DEF ChainOps
    <3> QED
      BY <2>1, <3>1, HeadFacts
  <2>3. recvd \in recvd..sent
    BY <1>0
  <2> QED
    BY <2>1, <2>2, <2>3, OnReadStep
<1>2. CASE on_readable(t)
  <2>1. PICK ec \in {"ok", "eof", "error"}, r \in recvd..sent :
               Receive(ec, recvd, r) /\ OnRead(t, Tail(queue), r, ec)
    BY <1>2 DEF on_readable
  <2>2. armed /\ queue # <<>>
    BY <1>2 DEF on_readable, Runs
  <2>3. /\ queue \in Seq(Entries) /\ NoneIn(queue)
        /\ ~resolving /\ ~connecting /\ NoConnectCallback
        /\ connects = 1 /\ hangups = 0 /\ call # "none"
    BY <2>2 DEF IndInv, TypeOK, Single, Phase
  <2>4. Tail(queue) \in Seq(Entries) /\ NoneIn(Tail(queue))
    BY <2>2, <2>3, TailFacts
  <2>5. ec = "ok" => taken < r
    BY <1>0, <2>1 DEF Receive
  <2> QED
    BY <2>1, <2>3, <2>4, <2>5, OnReadStep
<1> QED
  BY <1>1, <1>2

LEMMA StepInv == IndInv /\ [Next]_vars => IndInv'
<1> SUFFICES ASSUME IndInv, [Next]_vars PROVE IndInv'
  OBVIOUS
<1>1. ASSUME NEW t \in Threads, Handler(t) PROVE IndInv'
  BY <1>1, SetupHandlers, OnConnectStep, FirstReadStep, ReadHandlers,
     StaleEventStep, PostParseStep, ThreadParseStep, ServiceSteps DEF Handler
<1>2. ASSUME NEW t \in Threads,
             \/ cq_irc_service_attach(t) \/ ServiceReturns(t) \/ Reactor(t)
             \/ DestroyOnDisconnect(t) \/ UseUnset(t) \/ ConnectDuringClose(t)
      PROVE  IndInv'
  BY <1>2, ServiceSteps, ReactorStep, CloseSteps, ApiSteps
<1>3. ASSUME NEW t \in Threads \cup {User},
             \/ Api(t) \/ DisconnectAborts(t) \/ DisconnectClose(t)
             \/ UseFreed(t)
      PROVE  IndInv'
  BY <1>3, ApiSteps, CloseSteps DEF Api
<1>4. CASE \/ cq_irc_session_connect \/ AssignCallbacks
           \/ cq_irc_service_destroy \/ DestroyAfterStop \/ Environment
  <2>1. User \in Threads \cup {User}
    OBVIOUS
  <2> QED
    BY <1>4, <2>1, ConnectStep, ApiSteps, DestroyServiceStep, CloseSteps,
       ResolveDoneStep, ConnectDoneStep DEF Environment
<1>5. CASE UNCHANGED vars
  BY <1>5 DEF vars, IndInv, TypeOK, Single, Phase, NoConnectCallback,
              SingleCallback
<1> QED
  BY <1>1, <1>2, <1>3, <1>4, <1>5 DEF Next

(* The inductive invariant holds in every reachable state.                 *)
THEOREM Inductive == Spec => []IndInv
BY InitInv, StepInv, PTL DEF Spec

(* Every variable keeps its type; in particular the three cursors of the   *)
(* stream never overtake each other: on_read takes no line that            *)
(* async_read_until has not received.                                      *)
THEOREM TypeCorrect == Spec => []TypeOK
<1>1. IndInv => TypeOK
  BY DEF IndInv
<1> QED
  BY <1>1, Inductive, PTL

(* The chain resolve - connect - read is never in two places, with any     *)
(* number of threads and any of the API calls: session->input and the read *)
(* side of the socket need no lock.                                        *)
THEOREM ChainExclusive == Spec => []ReadChainExclusive
<1>1. ASSUME IndInv PROVE ReadChainExclusive
  <2> SUFFICES ASSUME NEW a \in ChainLinks, NEW b \in ChainLinks PROVE a = b
    BY DEF ReadChainExclusive
  <2> DEFINE IsOp(x)     == \/ resolving /\ x = <<"op", "resolve">>
                            \/ connecting /\ x = <<"op", "connect">>
                            \/ armed /\ x = <<"op", "read">>
             IsQueued(x) == \E i \in 1..Len(queue) :
                              queue[i].op \in ChainOps /\ x = <<"queue", i>>
             IsThread(x) == \E t \in Threads :
                              pc[t] = "cb_connect" /\ x = <<"thread", t>>
  <2>1. \A x \in ChainLinks : IsOp(x) \/ IsQueued(x) \/ IsThread(x)
    BY DEF ChainLinks, ChainOps
  <2>2. /\ resolving \/ connecting \/ armed => NoneIn(queue) /\ NoConnectCallback
        /\ ~(resolving /\ connecting) /\ ~(resolving /\ armed)
        /\ ~(connecting /\ armed)
    BY <1>1 DEF IndInv, Single
  <2>3. \A x, y : IsOp(x) /\ IsOp(y) => x = y
    BY <2>2
  <2>4. \A x, y : IsOp(x) => ~IsQueued(y) /\ ~IsThread(y)
    BY <2>2 DEF NoneIn, NoConnectCallback
  <2>5. \A x, y : IsQueued(x) /\ IsQueued(y) => x = y
    BY <1>1 DEF IndInv, Single, AtMostOneIn
  <2>6. \A x, y : IsQueued(x) => ~IsThread(y)
    BY <1>1 DEF IndInv, Single, NoneIn, NoConnectCallback
  <2>7. \A x, y : IsThread(x) /\ IsThread(y) => x = y
    BY <1>1 DEF IndInv, Single, SingleCallback
  <2> HIDE DEF IsOp, IsQueued, IsThread
  <2> QED
    BY <2>1, <2>3, <2>4, <2>5, <2>6, <2>7
<1> QED
  BY <1>1, Inductive, PTL

(* signal_connect and signal_disconnect come at most once and in this      *)
(* order, and after signal_disconnect no operation of the chain is left    *)
(* that could touch the session.                                           *)
THEOREM HangupEnds == Spec => []HangupEndsChain
<1>1. ASSUME IndInv PROVE HangupEndsChain
  <2>1. connects <= 1 /\ hangups <= connects
    BY <1>1 DEF IndInv, Phase
  <2>2. ASSUME hangups = 1, NEW x \in ChainLinks PROVE FALSE
    <3>1. /\ ~resolving /\ ~connecting /\ ~armed /\ NoConnectCallback
          /\ EntriesOK(queue, connects, hangups, taken, recvd)
      BY <1>1, <2>2 DEF IndInv, Phase
    <3>2. \A i \in 1..Len(queue) : queue[i].op \notin ChainOps
      BY <2>2, <3>1 DEF EntriesOK, EntryOK, ChainOps
    <3> QED
      BY <2>2, <3>1, <3>2 DEF ChainLinks, ChainOps, NoConnectCallback
  <2> QED
    BY <2>1, <2>2 DEF HangupEndsChain
<1> QED
  BY <1>1, Inductive, PTL

-----------------------------------------------------------------------------
(***************************************************************************)
(* What close() does to the read that waits.                               *)
(***************************************************************************)

Read(ec) == Completion("read", ec)

ClosedSock == sock \in {"closing", "closed"}

(* The ways in which the chain may end without signal_disconnect.          *)
Lost == peer = "rst" \/ (ClosedSock /\ (~cut \/ missed))

Over == /\ ~resolving /\ ~connecting /\ ~armed
        /\ NoneIn(queue) /\ NoConnectCallback

(* close() that found a read waiting is the last thing that happens to the *)
(* socket, and the aborted read is in the queue until on_read takes it.    *)
(* If it takes it for a line, the reads that follow find the socket closed:*)
(* they give the lines that are left and end with an error.                *)
CloseInv ==
  /\ cut => ClosedSock /\ connects = 1 /\ ~armed
  /\ missed => /\ cut /\ hangups = 0
               /\ Read("aborted") \notin Elems(queue)
               /\ Read("eof") \notin Elems(queue)
  /\ Read("aborted") \in Elems(queue) => ClosedSock /\ (cut \/ sess = "freed")
  /\ svc = "live" =>
       /\ Read("error") \in Elems(queue) => Lost
       /\ cut /\ ~missed /\ hangups = 0 => Read("aborted") \in Elems(queue)
       /\ connects = 1 /\ hangups = 0 /\ Over => Lost

LEMMA ReadType ==
  ASSUME NEW ec \in {"ok", "eof", "aborted", "error"}
  PROVE  /\ Read(ec) \in Entries /\ Read(ec).op = "read" /\ Read(ec).ec = ec
         /\ Read(ec).op \in ChainOps
BY CompletionType DEF Read, ChainOps

LEMMA NoReadIn ==
  ASSUME NEW q, NoneIn(q), NEW ec \in {"ok", "eof", "aborted", "error"}
  PROVE  Read(ec) \notin Elems(q)
BY ReadType DEF NoneIn, Elems

LEMMA ReadAppended ==
  ASSUME NEW q \in Seq(Entries), NEW e \in Entries,
         NEW ec \in {"ok", "eof", "aborted", "error"}
  PROVE  Read(ec) \in Elems(Append(q, e)) <=> Read(ec) \in Elems(q) \/ Read(ec) = e
BY ElemsOfAppend

(* An entry that is no link of the chain comes or goes.                    *)
LEMMA OffChainReads ==
  ASSUME NEW q \in Seq(Entries), NEW e \in Entries, e.op \notin ChainOps,
         NEW p, p = Append(q, e) \/ (q # <<>> /\ Head(q) = e /\ p = Tail(q))
  PROVE  /\ NoneIn(p) => NoneIn(q)
         /\ \A ec \in {"ok", "eof", "aborted", "error"} :
              Read(ec) \in Elems(p) <=> Read(ec) \in Elems(q)
<1>1. \A ec \in {"ok", "eof", "aborted", "error"} : Read(ec) # e
  BY ReadType
<1>2. CASE p = Append(q, e)
  <2>1. /\ Len(p) = Len(q) + 1 /\ Len(q) \in Nat
        /\ \A i \in 1..Len(q) : p[i] = q[i]
    BY <1>2, AppendProperties, LenProperties
  <2>2. NoneIn(p) => NoneIn(q)
    BY <2>1 DEF NoneIn
  <2> QED BY <1>1, <1>2, <2>2, ReadAppended
<1>3. CASE q # <<>> /\ Head(q) = e /\ p = Tail(q)
  <2>1. Elems(q) = Elems(p) \cup {e}
    BY <1>3, ElemsOfTail
  <2>2. NoneIn(p) => NoneIn(q)
    BY <2>1 DEF NoneIn, Elems
  <2> QED BY <1>1, <2>1, <2>2
<1> QED BY <1>2, <1>3

(* What async_read_until leaves in the queue.                              *)
LEMMA ReadUntilClose ==
  ASSUME NEW q \in Seq(Entries), NoneIn(q), NEW r, NEW n,
         AsyncReadUntil(q, r, n)
  PROVE  /\ Read("aborted") \notin Elems(queue')
         /\ Read("eof") \in Elems(queue') => ~ClosedSock
         /\ Read("error") \in Elems(queue') => ClosedSock \/ peer = "rst"
         /\ armed' => ~ClosedSock
         /\ armed' \/ ~NoneIn(queue')
<1> DEFINE Codes == {"ok", "eof", "aborted", "error"}
<1>1. ASSUME NEW e \in Codes, queue' = Append(q, Read(e))
      PROVE  /\ \A ec \in Codes : Read(ec) \in Elems(queue') <=> ec = e
             /\ ~NoneIn(queue')
  <2>1. Elems(queue') = Elems(q) \cup {Read(e)}
    BY <1>1, ReadType, ElemsOfAppend
  <2>2. \A ec \in Codes : Read(ec) \notin Elems(q)
    BY NoReadIn
  <2>3. \A ec \in Codes : Read(ec) = Read(e) => ec = e
    BY ReadType
  <2>4. ~NoneIn(queue')
    BY <1>1, <2>1, NoReadIn
  <2> QED BY <2>1, <2>2, <2>3, <2>4
<1>2. CASE queue' = Append(q, Completion("read", "ok")) /\ armed' = FALSE
  BY <1>1, <1>2 DEF Read
<1>3. CASE /\ sock \in {"closing", "closed"} /\ armed' = FALSE
           /\ queue' = Append(q, Completion("read", "error"))
  BY <1>1, <1>3 DEF Read, ClosedSock
<1>4. CASE /\ sock \notin {"closing", "closed"} /\ armed' = FALSE
           /\ \E ec \in {"ok", "eof", "error"}, r2 \in r..sent :
                /\ Receive(ec, r, r2)
                /\ queue' = Append(q, Completion("read", ec))
  <2>1. PICK ec \in {"ok", "eof", "error"} :
               /\ queue' = Append(q, Read(ec))
               /\ ec = "error" => peer = "rst"
    BY <1>4 DEF Receive, Read
  <2> QED BY <1>1, <1>4, <2>1 DEF ClosedSock
<1>5. CASE sock \notin {"closing", "closed"} /\ queue' = q /\ armed' = TRUE
  BY <1>5, NoReadIn DEF ClosedSock
<1> QED BY <1>2, <1>3, <1>4, <1>5 DEF AsyncReadUntil

-----------------------------------------------------------------------------
(* Steps that neither move the chain nor open a closed socket.             *)
LEMMA QuietClose ==
  ASSUME CloseInv,
         UNCHANGED <<cut, missed, hangups, connects, armed>>,
         ClosedSock => ClosedSock', peer = "rst" => peer' = "rst",
         sess = "freed" => sess' = "freed", svc' = "live" => svc = "live",
         \A ec \in {"ok", "eof", "aborted", "error"} :
           Read(ec) \in Elems(queue') <=> Read(ec) \in Elems(queue),
         Over' => Over
  PROVE  CloseInv'
<1>1. Lost => Lost'
  BY DEF Lost
<1> QED BY <1>1 DEF CloseInv

(* Before signal_connect there is no read to abort.                        *)
LEMMA BeforeConnect ==
  ASSUME IndInv, CloseInv, connects = 0
  PROVE  /\ ~cut /\ ~missed
         /\ \A ec \in {"ok", "eof", "aborted", "error"} :
              Read(ec) \notin Elems(queue)
<1>1. ~cut /\ ~missed
  BY DEF CloseInv
<1>2. \A i \in 1..Len(queue) : queue[i].op # "read"
  BY DEF IndInv, Phase, EntriesOK, EntryOK
<1> QED BY <1>1, <1>2, ReadType DEF Elems

LEMMA SetupClose ==
  ASSUME IndInv, CloseInv, connects = 0,
         UNCHANGED <<cut, missed, hangups>>, connects' \in {0, 1},
         \A ec \in {"ok", "eof", "aborted", "error"} :
           Read(ec) \in Elems(queue') => Read(ec) \in Elems(queue),
         connects' = 1 => ~Over'
  PROVE  CloseInv'
BY BeforeConnect DEF CloseInv

(* A step that has taken the only link and starts a read.                  *)
LEMMA ReadClose ==
  ASSUME CloseInv, NEW q \in Seq(Entries), NoneIn(q), NEW r, NEW n,
         AsyncReadUntil(q, r, n),
         UNCHANGED <<sock, cut, hangups, connects, peer, svc, sess>>,
         hangups = 0,
         missed' => cut, missed => missed', svc = "live" /\ cut => missed'
  PROVE  CloseInv'
<1>1. /\ Read("aborted") \notin Elems(queue')
      /\ Read("eof") \in Elems(queue') => ~ClosedSock
      /\ Read("error") \in Elems(queue') => ClosedSock \/ peer = "rst"
      /\ armed' => ~ClosedSock
      /\ armed' \/ ~NoneIn(queue')
  BY ReadUntilClose
<1>2. ClosedSock' = ClosedSock
  BY DEF ClosedSock
<1>3. ~Over'
  BY <1>1 DEF Over
<1>4. cut => ClosedSock /\ connects = 1
  BY DEF CloseInv
<1>5. svc = "live" /\ (ClosedSock \/ peer = "rst") => Lost'
  BY <1>2 DEF Lost
<1> QED BY <1>1, <1>2, <1>3, <1>4, <1>5 DEF CloseInv

(* on_read.                                                                *)
LEMMA OnReadClose ==
  ASSUME IndInv, CloseInv, NEW t \in Threads, NEW q \in Seq(Entries),
         NoneIn(q), NEW r, NEW ec \in {"ok", "eof", "aborted", "error"},
         OnRead(t, q, r, ec), svc = "live", hangups = 0,
         cut /\ ~missed => ec = "aborted", ec = "aborted" => cut,
         missed => ec \in {"ok", "error"}, ec = "error" => Lost
  PROVE  CloseInv'
<1>1. CASE TakeLine(t, q, r, ec)
  <2>1. PICK n : AsyncReadUntil(q, r, n)
    BY <1>1 DEF TakeLine
  <2>2. /\ UNCHANGED <<sock, cut, hangups, connects, peer, svc, sess>>
        /\ missed' = (missed \/ ec = "aborted")
    BY <1>1 DEF TakeLine, svcVars
  <2>3. missed => cut
    BY DEF CloseInv
  <2>4. (missed' => cut) /\ (missed => missed') /\ (cut => missed')
    BY <2>2, <2>3
  <2> QED BY <2>1, <2>2, <2>4, ReadClose
<1>2. CASE queue' = q /\ armed' = FALSE /\ Hangup(t, ec)
  <2>1. /\ hangups' = hangups + 1 /\ ec \notin {"ok", "error"}
        /\ UNCHANGED <<sock, cut, connects, missed, svc>>
    BY <1>2 DEF Hangup, svcVars
  <2>2. hangups' = 1 /\ ~missed
    BY <2>1
  <2>3. Read("aborted") \notin Elems(queue') /\ Read("error") \notin Elems(queue')
    BY <1>2, NoReadIn
  <2>4. cut' => ClosedSock' /\ connects' = 1
    BY <2>1 DEF CloseInv, ClosedSock
  <2> QED BY <1>2, <2>1, <2>2, <2>3, <2>4 DEF CloseInv
<1>3. CASE queue' = q /\ armed' = FALSE /\ ReadingError(t, ec)
  <2>1. /\ ec = "error" /\ Lost
        /\ UNCHANGED <<sock, cut, hangups, connects, missed, peer, svc>>
    BY <1>3 DEF ReadingError, svcVars, histVars
  <2>2. ClosedSock' = ClosedSock /\ Lost'
    BY <2>1 DEF Lost, ClosedSock
  <2>3. \A e \in {"ok", "eof", "aborted", "error"} : Read(e) \notin Elems(queue')
    BY <1>3, NoReadIn
  <2>4. ~(cut /\ ~missed)
    BY <2>1
  <2> QED BY <1>3, <2>1, <2>2, <2>3, <2>4 DEF CloseInv
<1> QED BY <1>1, <1>2, <1>3 DEF OnRead

(* The read that waits moves to the queue.                                 *)
LEMMA AbortClose ==
  ASSUME IndInv, CloseInv, AbortOps, ClosedSock',
         UNCHANGED <<missed, hangups, connects, peer, svc, pc, resolving>>,
         cut' = (cut \/ armed) \/ (cut' = cut /\ sess' = "freed"),
         sess = "freed" => sess' = "freed"
  PROVE  CloseInv'
<1>1. /\ queue \in Seq(Entries) /\ connects \in Nat /\ hangups \in Nat
      /\ armed' = FALSE /\ connecting' = FALSE
  BY DEF IndInv, TypeOK, AbortOps
<1>2. NoConnectCallback' = NoConnectCallback
  BY DEF NoConnectCallback
<1>3. CASE armed
  <2>1. /\ ~connecting /\ NoneIn(queue) /\ connects = 1 /\ hangups = 0
        /\ ~cut /\ ~missed
    BY <1>3 DEF IndInv, Single, Phase, CloseInv
  <2>2. queue' = Append(queue, Read("aborted"))
    <3>1. Read("aborted") \in Entries
      BY ReadType
    <3> QED BY <1>1, <1>3, <2>1, <3>1 DEF AbortOps, Read
  <2>3. \A ec \in {"ok", "eof", "aborted", "error"} :
          Read(ec) \in Elems(queue') <=> ec = "aborted"
    <3>1. Elems(queue') = Elems(queue) \cup {Read("aborted")}
      BY <1>1, <2>2, ReadType, ElemsOfAppend
    <3> QED BY <2>1, <3>1, NoReadIn, ReadType
  <2>4. ~Over'
    BY <2>3, NoReadIn DEF Over
  <2>5. (cut' \/ sess' = "freed") /\ ~missed'
    BY <1>3, <2>1
  <2>6. connects' = 1 /\ hangups' = 0 /\ ~armed' /\ ClosedSock'
    BY <1>1, <2>1
  <2>7. /\ Read("aborted") \in Elems(queue')
        /\ Read("error") \notin Elems(queue')
    BY <2>3
  <2> QED BY <2>4, <2>5, <2>6, <2>7 DEF CloseInv
<1>4. CASE ~armed
  <2>1. cut' = cut
    <3>1. cut \in BOOLEAN /\ (cut \/ armed) = cut
      BY <1>4 DEF IndInv, TypeOK
    <3> QED BY <3>1
  <2>2. Lost => Lost'
    BY <2>1 DEF Lost
  <2>3. CASE connecting
    <3>1. connects = 0
      BY <2>3 DEF IndInv, Phase
    <3>2. queue' = Append(queue, Completion("connect", "aborted"))
      <4>1. Completion("connect", "aborted") \in Entries
        BY CompletionType
      <4> QED BY <1>1, <1>4, <2>3, <4>1 DEF AbortOps
    <3>3. \A ec \in {"ok", "eof", "aborted", "error"} :
            Read(ec) \in Elems(queue') => Read(ec) \in Elems(queue)
      <4>1. /\ Completion("connect", "aborted") \in Entries
            /\ Completion("connect", "aborted").op = "connect"
        BY CompletionType
      <4>2. Elems(queue') = Elems(queue) \cup {Completion("connect", "aborted")}
        BY <1>1, <3>2, <4>1, ElemsOfAppend
      <4> QED BY <4>1, <4>2, ReadType
    <3> QED BY <2>1, <3>1, <3>3, SetupClose
  <2>4. CASE ~connecting
    <3>1. queue' = queue
      BY <1>1, <1>4, <2>4 DEF AbortOps
    <3>2. Over' => Over
      BY <1>1, <1>2, <1>4, <2>4, <3>1 DEF Over
    <3>3. armed' = armed
      BY <1>1, <1>4 DEF IndInv, TypeOK
    <3> QED BY <2>1, <3>1, <3>2, <3>3, QuietClose
  <2> QED BY <2>3, <2>4
<1> QED BY <1>3, <1>4

-----------------------------------------------------------------------------
LEMMA ApiClose ==
  ASSUME CloseInv, NEW t \in Threads \cup {User},
         \/ cq_irc_service_stop(t) \/ DisconnectShutdown(t)
         \/ DisconnectThrows(t) \/ UseFreed(t) \/ UseUnset(t)
         \/ AssignCallbacks \/ ServerSends \/ ServerCloses
         \/ ConnectDuringClose(t) \/ DisconnectClose(t)
  PROVE  CloseInv'
<1>1. UNCHANGED <<svc, queue, pc, sess, resolving, connecting, armed,
                  connects, hangups, cut, missed>>
  BY DEF cq_irc_service_stop, DisconnectShutdown, DisconnectThrows, UseFreed,
         UseUnset, AssignCallbacks, ServerSends, ServerCloses,
         ConnectDuringClose, DisconnectClose, svcVars, setupVars, histVars
<1>2. (ClosedSock => ClosedSock') /\ (peer = "rst" => peer' = "rst")
  BY DEF ClosedSock, cq_irc_service_stop, DisconnectShutdown,
         DisconnectThrows, UseFreed, UseUnset, AssignCallbacks, ServerSends,
         ServerCloses, ConnectDuringClose, DisconnectClose, chanVars
<1>3. Over' => Over
  BY <1>1 DEF Over, NoConnectCallback
<1> QED BY <1>1, <1>2, <1>3, QuietClose

(* A thread that was not in signal_connect moves.                          *)
LEMMA CallbackBefore ==
  ASSUME TypeOK, NEW t \in Threads, pc[t] # "cb_connect",
         NEW v, pc' = [pc EXCEPT ![t] = v]
  PROVE  NoConnectCallback' => NoConnectCallback
BY DEF TypeOK, NoConnectCallback

LEMMA ServiceClose ==
  ASSUME IndInv, CloseInv, NEW t \in Threads,
         \/ cq_irc_service_attach(t) \/ ServiceReturns(t) \/ CallbackReturns(t)
  PROVE  CloseInv'
<1>1. /\ pc[t] # "cb_connect"
      /\ \E v \in PcValues : pc' = [pc EXCEPT ![t] = v]
  BY DEF cq_irc_service_attach, ServiceReturns, CallbackReturns, Return,
         PcValues
<1>2. UNCHANGED <<svc, queue, sess, resolving, connecting, sock, armed, peer,
                  connects, hangups, cut, missed>>
  BY DEF cq_irc_service_attach, ServiceReturns, CallbackReturns, svcVars,
         setupVars, chanVars, histVars
<1>3. Over' => Over
  BY <1>1, <1>2, CallbackBefore DEF IndInv, Over
<1>4. ClosedSock' = ClosedSock
  BY <1>2 DEF ClosedSock
<1> QED BY <1>2, <1>3, <1>4, QuietClose

LEMMA OffChainClose ==
  ASSUME IndInv, CloseInv, NEW t \in Threads,
         \/ Reactor(t) \/ StaleEvent(t) \/ PostParse(t) \/ thread_parse(t)
  PROVE  CloseInv'
<1>1. UNCHANGED <<svc, sess, resolving, connecting, sock, armed, peer,
                  connects, hangups, cut, missed>>
  BY DEF Reactor, StaleEvent, PostParse, thread_parse, svcVars, setupVars,
         chanVars, histVars
<1>2. NoConnectCallback' => NoConnectCallback
  <2>1. CASE pc' = pc
    BY <2>1 DEF NoConnectCallback
  <2>2. CASE pc' # pc
    <3>1. pc[t] # "cb_connect" /\ \E v \in PcValues : pc' = [pc EXCEPT ![t] = v]
      BY <2>2 DEF Reactor, StaleEvent, PostParse, thread_parse, Runs, Return,
                  PcValues, Callbacks
    <3> QED BY <3>1, CallbackBefore DEF IndInv
  <2> QED BY <2>1, <2>2
<1>3. PICK e \in Entries :
             /\ e.op \notin ChainOps
             /\ \/ queue' = Append(queue, e)
                \/ queue # <<>> /\ Head(queue) = e /\ queue' = Tail(queue)
  <2>1. CASE Reactor(t) \/ StaleEvent(t)
    <3>1. /\ Completion("io", "ok") \in Entries
          /\ Completion("io", "ok").op \notin ChainOps
      BY CompletionType DEF ChainOps
    <3> QED BY <2>1, <3>1 DEF Reactor, StaleEvent, Runs
  <2>2. CASE PostParse(t)
    <3>1. line[t] \in 0..MaxLines /\ queue' = Append(queue, ParseWork(line[t]))
      BY <2>2 DEF PostParse, IndInv, TypeOK
    <3>2. /\ ParseWork(line[t]) \in Entries
          /\ ParseWork(line[t]).op \notin ChainOps
      BY <3>1, CompletionType DEF ChainOps
    <3> QED BY <3>1, <3>2
  <2>3. CASE thread_parse(t)
    <3>1. PICK n \in 0..MaxLines :
                 /\ queue # <<>> /\ Head(queue) = ParseWork(n)
                 /\ queue' = Tail(queue)
      BY <2>3 DEF thread_parse, Runs
    <3>2. ParseWork(n) \in Entries /\ ParseWork(n).op \notin ChainOps
      BY <3>1, CompletionType DEF ChainOps
    <3> QED BY <3>1, <3>2
  <2> QED BY <2>1, <2>2, <2>3
<1>4. queue \in Seq(Entries)
  BY DEF IndInv, TypeOK
<1>5. /\ NoneIn(queue') => NoneIn(queue)
      /\ \A ec \in {"ok", "eof", "aborted", "error"} :
           Read(ec) \in Elems(queue') <=> Read(ec) \in Elems(queue)
  BY <1>3, <1>4, OffChainReads
<1>6. Over' => Over
  BY <1>1, <1>2, <1>5 DEF Over
<1>7. ClosedSock' = ClosedSock
  BY <1>1 DEF ClosedSock
<1> QED BY <1>1, <1>5, <1>6, <1>7, QuietClose

LEMMA DestroyServiceClose ==
  ASSUME CloseInv, cq_irc_service_destroy PROVE CloseInv'
<1>1. /\ UNCHANGED <<sess, sock, connects, hangups, cut, missed>>
      /\ svc' = "freed" /\ queue' = <<>> /\ armed' = FALSE
  BY DEF cq_irc_service_destroy, histVars
<1>2. Elems(queue') = {}
  BY <1>1, ElemsOfEmpty
<1>3. ClosedSock' = ClosedSock
  BY <1>1 DEF ClosedSock
<1> QED BY <1>1, <1>2, <1>3 DEF CloseInv

(* The chain up to signal_connect.                                         *)
LEMMA StartClose ==
  ASSUME IndInv, CloseInv,
         cq_irc_session_connect \/ ResolveDone \/ ConnectDone
  PROVE  CloseInv'
<1>1. /\ UNCHANGED <<cut, missed, hangups, connects>>
      /\ connects = 0 /\ queue \in Seq(Entries)
  BY DEF cq_irc_session_connect, ResolveDone, ConnectDone, histVars, IndInv,
         Phase, TypeOK
<1>2. \A ec \in {"ok", "eof", "aborted", "error"} :
        Read(ec) \in Elems(queue') => Read(ec) \in Elems(queue)
  <2>1. CASE queue' = queue
    BY <2>1
  <2>2. CASE queue' # queue
    <3>1. PICK op \in {"resolve", "connect"}, ec \in {"ok", "error"} :
                 queue' = Append(queue, Completion(op, ec))
      BY <2>2 DEF cq_irc_session_connect, ResolveDone, ConnectDone
    <3>2. /\ Completion(op, ec) \in Entries
          /\ Completion(op, ec).op # "read"
      BY CompletionType
    <3>3. Elems(queue') = Elems(queue) \cup {Completion(op, ec)}
      BY <1>1, <3>1, <3>2, ElemsOfAppend
    <3> QED BY <3>2, <3>3, ReadType
  <2> QED BY <2>1, <2>2
<1> QED BY <1>1, <1>2, SetupClose

LEMMA SetupHandlersClose ==
  ASSUME IndInv, CloseInv, NEW t \in Threads,
         \/ on_resolve_error(t) \/ on_resolve(t) \/ NextEndpoint(t)
         \/ on_connect_error(t) \/ on_connect(t)
  PROVE  CloseInv'
<1>1. PICK op \in {"resolve", "connect"}, ec \in {"ok", "error", "aborted"} :
             Runs(t, Completion(op, ec))
  BY DEF on_resolve_error, on_resolve, NextEndpoint, on_connect_error,
         on_connect
<1>2. connects = 0
  <2>1. op \in ChainOps /\ ec \in {"ok", "eof", "aborted", "error"} /\ op # "read"
    BY DEF ChainOps
  <2> QED BY <1>1, <2>1, HeadFacts
<1>3. UNCHANGED <<cut, missed, hangups>> /\ queue' = Tail(queue)
  BY DEF on_resolve_error, on_resolve, NextEndpoint, on_connect_error,
         on_connect, histVars
<1>4. \A e \in {"ok", "eof", "aborted", "error"} :
        Read(e) \in Elems(queue') => Read(e) \in Elems(queue)
  <2>1. queue \in Seq(Entries) /\ queue # <<>>
    BY <1>1 DEF Runs, IndInv, TypeOK
  <2> QED BY <1>3, <2>1, ElemsOfTail
<1>5. /\ connects' \in {0, 1}
      /\ connects' = 1 => on_connect(t)
  BY <1>2 DEF on_resolve_error, on_resolve, NextEndpoint, on_connect_error,
              on_connect, histVars
<1>6. on_connect(t) => ~Over'
  <2>1. on_connect(t) => pc'[t] = "cb_connect"
    BY DEF on_connect, IndInv, TypeOK
  <2> QED BY <2>1 DEF Over, NoConnectCallback
<1> QED BY <1>2, <1>3, <1>4, <1>5, <1>6, SetupClose

(* close() and the deletion of the session.                                *)
LEMMA AbortSteps ==
  ASSUME IndInv, CloseInv,
         \/ \E t \in Threads \cup {User} : DisconnectAborts(t)
         \/ \E t \in Threads : DestroyOnDisconnect(t)
         \/ DestroyAfterStop
  PROVE  CloseInv'
<1>1. /\ AbortOps /\ ClosedSock'
      /\ UNCHANGED <<missed, hangups, connects, peer, svc, pc, resolving>>
  BY DEF DisconnectAborts, DestroyOnDisconnect, DestroyAfterStop,
         DeleteSession, svcVars, chanVars, histVars, ClosedSock
<1>2. CASE \E t \in Threads \cup {User} : DisconnectAborts(t)
  <2>1. cut' = (cut \/ armed) /\ sess' = sess
    BY <1>2 DEF DisconnectAborts
  <2> QED BY <1>1, <2>1, AbortClose
<1>3. CASE (\E t \in Threads : DestroyOnDisconnect(t)) \/ DestroyAfterStop
  <2>1. cut' = cut /\ sess' = "freed"
    BY <1>3 DEF DestroyOnDisconnect, DestroyAfterStop, DeleteSession, histVars
  <2> QED BY <1>1, <2>1, AbortClose
<1> QED BY <1>2, <1>3

LEMMA FirstReadClose ==
  ASSUME IndInv, CloseInv, NEW t \in Threads, FirstRead(t)
  PROVE  CloseInv'
<1>1. /\ UNCHANGED <<sock, cut, hangups, connects, peer, svc, sess, missed>>
      /\ pc[t] = "cb_connect" /\ AsyncReadUntil(queue, recvd, taken)
  BY DEF FirstRead, histVars
<1>2. ~NoConnectCallback
  BY <1>1 DEF NoConnectCallback
<1>3. queue \in Seq(Entries) /\ NoneIn(queue) /\ hangups = 0
  BY <1>2 DEF IndInv, TypeOK, Single, Phase
<1>4. Read("aborted") \notin Elems(queue)
  BY <1>3, NoReadIn
<1>5. (missed' => cut) /\ (missed => missed') /\ (svc = "live" /\ cut => missed')
  BY <1>1, <1>3, <1>4 DEF CloseInv
<1> QED BY <1>1, <1>3, <1>5, ReadClose

LEMMA ReadHandlersClose ==
  ASSUME IndInv, CloseInv, NEW t \in Threads, on_read(t) \/ on_readable(t)
  PROVE  CloseInv'
<1>1. CASE on_read(t)
  <2>1. PICK ec \in {"ok", "eof", "aborted", "error"} :
               /\ Runs(t, Completion("read", ec)) /\ sess = "live"
               /\ OnRead(t, Tail(queue), recvd, ec)
    BY <1>1 DEF on_read
  <2>2. Tail(queue) \in Seq(Entries) /\ NoneIn(Tail(queue)) /\ hangups = 0
    <3>1. "read" \in ChainOps
      BY DEF ChainOps
    <3> QED BY <2>1, <3>1, HeadFacts
  <2>3. /\ svc = "live" /\ queue \in Seq(Entries) /\ queue # <<>>
        /\ Head(queue) = Read(ec)
    BY <2>1 DEF Runs, Read, IndInv, TypeOK
  <2>4. Elems(queue) = Elems(Tail(queue)) \cup {Read(ec)}
    BY <2>3, ElemsOfTail
  <2>5. \A e \in {"ok", "eof", "aborted", "error"} :
          Read(e) \in Elems(queue) <=> e = ec
    BY <2>2, <2>4, NoReadIn, ReadType
  <2>6. cut /\ ~missed => ec = "aborted"
    BY <2>2, <2>3, <2>5 DEF CloseInv
  <2>7. ec = "aborted" => cut
    BY <2>1, <2>5 DEF CloseInv
  <2>8. missed => ec \in {"ok", "error"}
    BY <2>5 DEF CloseInv
  <2>9. ec = "error" => Lost
    BY <2>3, <2>5 DEF CloseInv
  <2> QED BY <2>1, <2>2, <2>3, <2>6, <2>7, <2>8, <2>9, OnReadClose
<1>2. CASE on_readable(t)
  <2>1. PICK ec \in {"ok", "eof", "error"}, r \in recvd..sent :
               Receive(ec, recvd, r) /\ OnRead(t, Tail(queue), r, ec)
    BY <1>2 DEF on_readable
  <2>2. armed /\ queue # <<>> /\ svc = "live"
    BY <1>2 DEF on_readable, Runs
  <2>3. queue \in Seq(Entries) /\ NoneIn(queue) /\ hangups = 0
    BY <2>2 DEF IndInv, TypeOK, Single, Phase
  <2>4. Tail(queue) \in Seq(Entries) /\ NoneIn(Tail(queue))
    BY <2>2, <2>3, TailFacts
  <2>5. ~cut /\ ~missed
    BY <2>2 DEF CloseInv
  <2>6. ec = "error" => Lost
    BY <2>1 DEF Receive, Lost
  <2>7. ec \in {"ok", "eof", "aborted", "error"} /\ ec # "aborted"
    BY <2>1
  <2> QED BY <2>1, <2>2, <2>3, <2>4, <2>5, <2>6, <2>7, OnReadClose
<1> QED BY <1>1, <1>2

LEMMA CloseInvariant == Spec => []CloseInv
<1>1. Init => CloseInv
  <2>1. Elems(<<>>) = {}
    BY ElemsOfEmpty
  <2> QED BY <2>1 DEF Init, CloseInv
<1>2. IndInv /\ CloseInv /\ [Next]_vars => CloseInv'
  <2> SUFFICES ASSUME IndInv, CloseInv, [Next]_vars PROVE CloseInv'
    OBVIOUS
  <2>1. ASSUME NEW t \in Threads, Handler(t) PROVE CloseInv'
    BY <2>1, SetupHandlersClose, FirstReadClose, ReadHandlersClose,
       OffChainClose, ServiceClose DEF Handler
  <2>2. ASSUME NEW t \in Threads,
               \/ cq_irc_service_attach(t) \/ ServiceReturns(t) \/ Reactor(t)
               \/ DestroyOnDisconnect(t) \/ UseUnset(t) \/ ConnectDuringClose(t)
        PROVE  CloseInv'
    BY <2>2, ServiceClose, OffChainClose, AbortSteps, ApiClose
  <2>3. ASSUME NEW t \in Threads \cup {User},
               \/ Api(t) \/ DisconnectAborts(t) \/ DisconnectClose(t)
               \/ UseFreed(t)
        PROVE  CloseInv'
    BY <2>3, ApiClose, AbortSteps DEF Api
  <2>4. CASE \/ cq_irc_session_connect \/ AssignCallbacks
             \/ cq_irc_service_destroy \/ DestroyAfterStop \/ Environment
    <3>1. User \in Threads \cup {User}
      OBVIOUS
    <3> QED BY <2>4, <3>1, StartClose, ApiClose, DestroyServiceClose,
               AbortSteps DEF Environment
  <2>5. CASE UNCHANGED vars
    BY <2>5 DEF vars, CloseInv, ClosedSock, Lost, Over, NoConnectCallback
  <2> QED BY <2>1, <2>2, <2>3, <2>4, <2>5 DEF Next
<1> QED BY <1>1, <1>2, Inductive, PTL DEF Spec

(* operation_aborted reaches on_read only once close() or the deletion of  *)
(* the session has taken the socket out of the reactor, and an on_read that*)
(* takes it for a line does so under a close() that aborted the read, and  *)
(* is never followed by signal_disconnect.                                 *)
THEOREM AbortClosed == Spec => []AbortedMeansClosed
<1>1. CloseInv => AbortedMeansClosed
  <2> SUFFICES ASSUME CloseInv PROVE AbortedMeansClosed
    OBVIOUS
  <2>1. ASSUME NEW i \in 1..Len(queue), queue[i] = Completion("read", "aborted")
        PROVE  sock \in {"closing", "closed"}
    <3>1. Read("aborted") \in Elems(queue)
      BY <2>1 DEF Elems, Read
    <3> QED BY <3>1 DEF CloseInv, ClosedSock
  <2> QED BY <2>1 DEF AbortedMeansClosed, CloseInv
<1> QED BY <1>1, CloseInvariant, PTL

-----------------------------------------------------------------------------
(***************************************************************************)
(* What async_connect does with the endpoints.                             *)
(***************************************************************************)

Trying == connecting \/ \E e \in Elems(queue) : e.op = "connect"

(* As long as nothing has closed the socket, an endpoint that is left is   *)
(* left because the one before it is being tried, or its answer is queued. *)
EndpointInv ==
  svc = "live" /\ connects = 0 /\ ~ClosedSock => endpoints <= 1 \/ Trying

(* Steps that leave the socket, the endpoints and the attempt alone.       *)
LEMMA QuietEndpoint ==
  ASSUME EndpointInv, svc' = "live" => svc = "live",
         connects' = 0 => connects = 0,
         ClosedSock => ClosedSock', endpoints' = endpoints,
         connecting => Trying',
         \A e \in Elems(queue) : e.op = "connect" => Trying'
  PROVE  EndpointInv'
<1>1. Trying => Trying'
  BY DEF Trying
<1> QED BY <1>1 DEF EndpointInv

(* Whatever a step appends, an answer in the queue stays there.            *)
LEMMA AppendTrying ==
  ASSUME NEW q \in Seq(Entries), NEW e \in Entries, queue' = Append(q, e)
  PROVE  /\ \A x \in Elems(q) : x.op = "connect" => Trying'
         /\ e.op = "connect" => Trying'
<1>1. Elems(queue') = Elems(q) \cup {e}
  BY ElemsOfAppend
<1> QED BY <1>1 DEF Trying

(* A handler whose completion is no answer to an attempt.                  *)
LEMMA TailTrying ==
  ASSUME queue \in Seq(Entries), queue # <<>>, Head(queue).op # "connect",
         queue' = Tail(queue)
  PROVE  \A x \in Elems(queue) : x.op = "connect" => Trying'
<1>1. Elems(queue) = Elems(queue') \cup {Head(queue)}
  BY ElemsOfTail
<1> QED BY <1>1 DEF Trying

LEMMA SetupEndpoint ==
  ASSUME IndInv, EndpointInv, NEW t \in Threads,
         \/ on_resolve_error(t) \/ on_resolve(t) \/ NextEndpoint(t)
         \/ on_connect_error(t) \/ on_connect(t)
  PROVE  EndpointInv'
<1>1. CASE on_resolve_error(t)
  <2>1. /\ queue # <<>> /\ Head(queue) = Completion("resolve", "error")
        /\ queue' = Tail(queue)
        /\ UNCHANGED <<svc, connects, sock, endpoints, connecting>>
    BY <1>1 DEF on_resolve_error, Runs, setupVars, histVars
  <2>2. Head(queue).op # "connect"
    BY <2>1, CompletionType
  <2>3. \A x \in Elems(queue) : x.op = "connect" => Trying'
    BY <2>1, <2>2, TailTrying DEF IndInv, TypeOK
  <2>4. connecting => Trying'
    BY <2>1 DEF Trying
  <2> QED BY <2>1, <2>3, <2>4, QuietEndpoint DEF ClosedSock
<1>2. CASE on_resolve(t) \/ NextEndpoint(t)
  BY <1>2 DEF on_resolve, NextEndpoint, EndpointInv, Trying
<1>3. CASE on_connect_error(t)
  <2>1. sock = "closed" \/ endpoints = 1
    BY <1>3 DEF on_connect_error
  <2> QED BY <1>3, <2>1 DEF on_connect_error, setupVars, EndpointInv, ClosedSock
<1>4. CASE on_connect(t)
  BY <1>4 DEF on_connect, EndpointInv, IndInv, TypeOK
<1> QED BY <1>1, <1>2, <1>3, <1>4

(* After signal_connect nothing is asked of the endpoints.                 *)
LEMMA ReadEndpoint ==
  ASSUME IndInv, NEW t \in Threads,
         FirstRead(t) \/ on_read(t) \/ on_readable(t)
  PROVE  connects' = 1
<1>1. connects' = connects
  BY DEF FirstRead, on_read, on_readable, OnRead, TakeLine, Hangup,
         ReadingError, histVars
<1>2. CASE FirstRead(t)
  BY <1>1, <1>2 DEF FirstRead, IndInv, Phase, NoConnectCallback
<1>3. CASE on_read(t)
  <2>1. PICK ec \in {"ok", "eof", "aborted", "error"} :
               Runs(t, Completion("read", ec))
    BY <1>3 DEF on_read
  <2>2. "read" \in ChainOps
    BY DEF ChainOps
  <2> QED BY <1>1, <2>1, <2>2, HeadFacts
<1>4. CASE on_readable(t)
  BY <1>1, <1>4 DEF on_readable, IndInv, Phase
<1> QED BY <1>2, <1>3, <1>4

(* Steps that put no completion of the chain into the queue, or take none. *)
LEMMA OffChainEndpoint ==
  ASSUME IndInv, EndpointInv, NEW t \in Threads,
         \/ Reactor(t) \/ StaleEvent(t) \/ PostParse(t) \/ thread_parse(t)
  PROVE  EndpointInv'
<1>1. UNCHANGED <<svc, connects, sock, endpoints, connecting>>
  BY DEF Reactor, StaleEvent, PostParse, thread_parse, svcVars, setupVars,
         chanVars, histVars
<1>2. queue \in Seq(Entries)
  BY DEF IndInv, TypeOK
<1>3. \A x \in Elems(queue) : x.op = "connect" => Trying'
  <2>1. CASE Reactor(t)
    <3>1. Completion("io", "ok") \in Entries
      BY CompletionType
    <3> QED BY <1>2, <2>1, <3>1, AppendTrying DEF Reactor
  <2>2. CASE PostParse(t)
    <3>1. ParseWork(line[t]) \in Entries
      BY CompletionType DEF IndInv, TypeOK
    <3> QED BY <1>2, <2>2, <3>1, AppendTrying DEF PostParse
  <2>3. CASE StaleEvent(t)
    <3>1. queue # <<>> /\ Head(queue).op # "connect" /\ queue' = Tail(queue)
      BY <2>3, CompletionType DEF StaleEvent, Runs
    <3> QED BY <1>2, <3>1, TailTrying
  <2>4. CASE thread_parse(t)
    <3>1. queue # <<>> /\ Head(queue).op # "connect" /\ queue' = Tail(queue)
      BY <2>4, CompletionType DEF thread_parse, Runs
    <3> QED BY <1>2, <3>1, TailTrying
  <2> QED BY <2>1, <2>2, <2>3, <2>4
<1>4. connecting => Trying'
  BY <1>1 DEF Trying
<1> QED BY <1>1, <1>3, <1>4, QuietEndpoint DEF ClosedSock

(* Steps that leave the queue alone, and the end of the service.           *)
LEMMA StillEndpoint ==
  ASSUME EndpointInv, NEW t \in Threads \cup {User},
         \/ cq_irc_service_attach(t) \/ ServiceReturns(t)
         \/ CallbackReturns(t) \/ Api(t) \/ DisconnectClose(t)
         \/ UseFreed(t) \/ UseUnset(t) \/ ConnectDuringClose(t)
         \/ cq_irc_session_connect \/ AssignCallbacks
         \/ ServerSends \/ ServerCloses \/ cq_irc_service_destroy
  PROVE  EndpointInv'
<1>1. CASE cq_irc_service_destroy
  BY <1>1 DEF cq_irc_service_destroy, EndpointInv
<1>2. CASE ~cq_irc_service_destroy
  <2>1. UNCHANGED <<svc, queue, connects, endpoints, connecting>>
    BY <1>2 DEF cq_irc_service_attach, ServiceReturns, CallbackReturns, Api,
         cq_irc_service_stop, DisconnectShutdown, DisconnectThrows,
         DisconnectClose, UseFreed, UseUnset, ConnectDuringClose,
         cq_irc_session_connect, AssignCallbacks, ServerSends, ServerCloses,
         svcVars, setupVars, chanVars, histVars
  <2>2. ClosedSock => ClosedSock'
    BY <1>2 DEF ClosedSock, cq_irc_service_attach, ServiceReturns,
         CallbackReturns, Api, cq_irc_service_stop, DisconnectShutdown,
         DisconnectThrows, DisconnectClose, UseFreed, UseUnset,
         ConnectDuringClose, cq_irc_session_connect, AssignCallbacks,
         ServerSends, ServerCloses
  <2>3. Trying => Trying'
    BY <2>1 DEF Trying
  <2>4. /\ connecting => Trying
        /\ \A x \in Elems(queue) : x.op = "connect" => Trying
    BY DEF Trying
  <2> QED BY <2>1, <2>2, <2>3, <2>4, QuietEndpoint
<1> QED BY <1>1, <1>2

LEMMA DoneEndpoint ==
  ASSUME IndInv, EndpointInv, ResolveDone \/ ConnectDone
  PROVE  EndpointInv'
<1>1. PICK op \in {"resolve", "connect"}, ec \in {"ok", "error"} :
             /\ queue' = Append(queue, Completion(op, ec))
             /\ ConnectDone => op = "connect"
  BY DEF ResolveDone, ConnectDone
<1>2. queue \in Seq(Entries) /\ Completion(op, ec) \in Entries
      /\ Completion(op, ec).op = op
  BY CompletionType DEF IndInv, TypeOK
<1>3. /\ \A x \in Elems(queue) : x.op = "connect" => Trying'
      /\ op = "connect" => Trying'
  BY <1>1, <1>2, AppendTrying
<1>4. connecting => Trying'
  <2>1. CASE ResolveDone
    BY <2>1 DEF ResolveDone, Trying
  <2>2. CASE ConnectDone
    BY <1>1, <1>3, <2>2
  <2> QED BY <2>1, <2>2
<1>5. UNCHANGED <<svc, connects, endpoints>> /\ (ClosedSock => ClosedSock')
  BY DEF ResolveDone, ConnectDone, svcVars, histVars, ClosedSock
<1> QED BY <1>3, <1>4, <1>5, QuietEndpoint

LEMMA AbortEndpoint ==
  ASSUME IndInv, EndpointInv,
         \/ \E t \in Threads \cup {User} : DisconnectAborts(t)
         \/ \E t \in Threads : DestroyOnDisconnect(t)
         \/ DestroyAfterStop
  PROVE  EndpointInv'
BY DEF DisconnectAborts, DestroyOnDisconnect, DestroyAfterStop, DeleteSession,
       EndpointInv, ClosedSock

LEMMA EndpointInvariant == Spec => []EndpointInv
<1>1. Init => EndpointInv
  BY DEF Init, EndpointInv, ClosedSock
<1>2. IndInv /\ EndpointInv /\ [Next]_vars => EndpointInv'
  <2> SUFFICES ASSUME IndInv, EndpointInv, [Next]_vars PROVE EndpointInv'
    OBVIOUS
  <2>0. User \in Threads \cup {User} /\ Threads \subseteq Threads \cup {User}
    OBVIOUS
  <2>1. ASSUME NEW t \in Threads, Handler(t) PROVE EndpointInv'
    <3>1. CASE FirstRead(t) \/ on_read(t) \/ on_readable(t)
      BY <3>1, ReadEndpoint DEF EndpointInv
    <3> QED
      BY <2>0, <2>1, <3>1, SetupEndpoint, OffChainEndpoint, StillEndpoint
         DEF Handler
  <2>2. ASSUME NEW t \in Threads,
               \/ cq_irc_service_attach(t) \/ ServiceReturns(t) \/ Reactor(t)
               \/ DestroyOnDisconnect(t) \/ UseUnset(t) \/ ConnectDuringClose(t)
        PROVE  EndpointInv'
    BY <2>0, <2>2, StillEndpoint, OffChainEndpoint, AbortEndpoint
  <2>3. ASSUME NEW t \in Threads \cup {User},
               \/ Api(t) \/ DisconnectAborts(t) \/ DisconnectClose(t)
               \/ UseFreed(t)
        PROVE  EndpointInv'
    BY <2>3, StillEndpoint, AbortEndpoint
  <2>4. CASE \/ cq_irc_session_connect \/ AssignCallbacks
             \/ cq_irc_service_destroy \/ DestroyAfterStop \/ Environment
    BY <2>0, <2>4, StillEndpoint, DoneEndpoint, AbortEndpoint DEF Environment
  <2>5. CASE UNCHANGED vars
    BY <2>5 DEF vars, EndpointInv, Trying, ClosedSock
  <2> QED BY <2>1, <2>2, <2>3, <2>4, <2>5 DEF Next
<1> QED BY <1>1, <1>2, Inductive, PTL DEF Spec

(* A chain that is over has lost no signal but in the ways listed: before  *)
(* signal_connect every endpoint has been tried or the client has closed   *)
(* the socket, and after it there was a reset, a close() that found no     *)
(* read waiting, or the on_read that took the aborted read for a line.     *)
THEOREM SignalLost == Spec => []SignalLostOnlyWhen
<1>1. CloseInv /\ EndpointInv => SignalLostOnlyWhen
  <2> SUFFICES ASSUME CloseInv, EndpointInv, svc = "live", ChainLinks = {}
               PROVE  /\ connects = 0 => endpoints <= 1 \/ ClosedSock
                      /\ connects = 1 /\ hangups = 0 => Lost
    BY DEF SignalLostOnlyWhen, Lost, ClosedSock
  <2>1. ~resolving /\ ~connecting /\ ~armed
    BY DEF ChainLinks
  <2>2. NoneIn(queue)
    <3>1. ASSUME NEW i \in 1..Len(queue), queue[i].op \in ChainOps
          PROVE  FALSE
      <4>1. <<"queue", i>> \in ChainLinks
        BY <3>1 DEF ChainLinks, ChainOps
      <4> QED BY <4>1
    <3> QED BY <3>1 DEF NoneIn
  <2>3. NoConnectCallback
    <3>1. ASSUME NEW t \in Threads, pc[t] = "cb_connect" PROVE FALSE
      <4>1. <<"thread", t>> \in ChainLinks
        BY <3>1 DEF ChainLinks
      <4> QED BY <4>1
    <3> QED BY <3>1 DEF NoConnectCallback
  <2>4. ~Trying
    BY <2>1, <2>2 DEF Trying, NoneIn, ChainOps, Elems
  <2> QED BY <2>1, <2>2, <2>3, <2>4 DEF Over, CloseInv, EndpointInv
<1> QED BY <1>1, CloseInvariant, EndpointInvariant, PTL

-----------------------------------------------------------------------------
(***************************************************************************)
(* The ways into undefined behaviour.                                      *)
(***************************************************************************)

Out == \A t \in Threads : pc[t] \in {"new", "idle", "done"}

(* Until cq_irc_session_connect has returned, nothing has been signalled,  *)
(* no line is taken and the session lives.                                 *)
EarlyInv ==
  call # "returned" =>
    /\ connects = 0 /\ sess # "freed" /\ closer = {} /\ ~LineUnderway
    /\ \A t \in Threads : pc[t] # "cb_disconnect"
    /\ "connect_while_attached" \in App \/ \A t \in Threads : pc[t] = "new"

(* A deleted session was deleted by signal_disconnect, or when the service *)
(* had stopped and every thread had left it; nothing resets the service.   *)
FreedInv ==
  sess = "freed" =>
    \/ stopped /\ closer = {} /\ Out
    \/ /\ "destroy_on_disconnect" \in App /\ hangups = 1
       /\ closer = {} \/ ~cut

(* signal_disconnect is being invoked for the first time; and not under a  *)
(* disconnect that has aborted the read.                                   *)
HangInv ==
  /\ \A t \in Threads : pc[t] = "cb_disconnect" => hangups = 1
  /\ cut /\ closer # {} => hangups = 0 /\ (sess = "live" => sock = "closing")

EndInv == UndefinedOnlyWhen /\ EarlyInv /\ FreedInv /\ HangInv

(* Steps that the process survives.                                        *)
LEMMA Survived ==
  ASSUME fate' = "run", EarlyInv' PROVE UndefinedOnlyWhen'
BY DEF UndefinedOnlyWhen, EarlyInv

(* Steps that neither change the session nor enter or leave a handler.     *)
LEMMA QuietEnd ==
  ASSUME EndInv, UNCHANGED <<pc, sess, connects, hangups, cut, closer>>,
         call' = call \/ call' = "returned", stopped => stopped',
         sock' = sock \/ sock # "closing", LineUnderway' => LineUnderway,
         fate' \in {"run", "exception", "torn"}
  PROVE  EndInv'
<1>1. EarlyInv'
  BY DEF EndInv, EarlyInv
<1>2. FreedInv'
  BY DEF EndInv, FreedInv, Out
<1>3. HangInv'
  BY DEF EndInv, HangInv
<1>4. UndefinedOnlyWhen'
  BY <1>1 DEF UndefinedOnlyWhen, EarlyInv
<1> QED BY <1>1, <1>2, <1>3, <1>4 DEF EndInv

(* What a step does to the lines on their way.                             *)
LEMMA UnderwayAppended ==
  ASSUME queue \in Seq(Entries), NEW e \in Entries, e.op # "parse",
         queue' = Append(queue, e), pc' = pc
  PROVE  LineUnderway' => LineUnderway
<1>1. /\ Len(queue') = Len(queue) + 1 /\ Len(queue) \in Nat
      /\ \A i \in 1..Len(queue) : queue'[i] = queue[i]
      /\ queue'[Len(queue) + 1] = e
  OBVIOUS
<1> QED BY <1>1 DEF LineUnderway

LEMMA UnderwayTaken ==
  ASSUME queue \in Seq(Entries), queue # <<>>, queue' = Tail(queue),
         NEW t \in Threads, NEW v, v # "post", pc' = [pc EXCEPT ![t] = v],
         pc \in [Threads -> PcValues]
  PROVE  LineUnderway' => LineUnderway
<1>1. \A i \in 1..Len(queue') : i + 1 \in 1..Len(queue) /\ queue'[i] = queue[i + 1]
  OBVIOUS
<1>2. \A u \in Threads : pc'[u] = "post" => pc[u] = "post"
  OBVIOUS
<1> QED BY <1>1, <1>2 DEF LineUnderway

(* A thread that takes a completion, or is inside a handler, does so before*)
(* the service has stopped or the last thread has left it.                 *)
LEMMA HandlerFacts ==
  ASSUME TypeOK, EndInv, NEW t \in Threads, Handler(t)
  PROVE  /\ fate' = "run" /\ UNCHANGED <<sess, call, cut, closer>>
         /\ on_resolve(t) \/ NextEndpoint(t) \/ sock' = sock
         /\ ~(stopped /\ Out)
         /\ pc[t] # "new"
         /\ stopped => stopped'
         /\ \E v \in PcValues : pc' = [pc EXCEPT ![t] = v]
<1>1. /\ fate' = "run" /\ UNCHANGED <<sess, call, cut, closer>>
      /\ on_resolve(t) \/ NextEndpoint(t) \/ sock' = sock
  BY DEF Handler, on_resolve_error, on_resolve, NextEndpoint, on_connect_error,
         on_connect, FirstRead, on_read, on_readable, StaleEvent, PostParse,
         thread_parse, CallbackReturns, OnRead, TakeLine, Hangup, ReadingError,
         Proceeds, setupVars, histVars
<1>2. pc[t] # "new" /\ ~(stopped /\ pc[t] \in {"new", "idle", "done"})
  BY DEF Handler, on_resolve_error, on_resolve, NextEndpoint, on_connect_error,
         on_connect, FirstRead, on_read, on_readable, StaleEvent, PostParse,
         thread_parse, CallbackReturns, Runs
<1>3. stopped => stopped'
  BY DEF Handler, on_resolve_error, on_resolve, NextEndpoint, on_connect_error,
         on_connect, FirstRead, on_read, on_readable, StaleEvent, PostParse,
         thread_parse, CallbackReturns, OnRead, TakeLine, Hangup, ReadingError,
         Return, WorkFinished, svcVars
<1>4. \E v \in PcValues : pc' = [pc EXCEPT ![t] = v]
  <2>1. /\ "idle" \in PcValues /\ "post" \in PcValues
        /\ "cb_connect" \in PcValues /\ "cb_disconnect" \in PcValues
        /\ "cb_line" \in PcValues
    BY DEF PcValues, Callbacks
  <2>2. CASE StaleEvent(t)
    <3>1. pc' = [pc EXCEPT ![t] = pc[t]] /\ pc[t] \in PcValues
      BY <2>2 DEF StaleEvent, TypeOK
    <3> QED BY <3>1
  <2> QED
    BY <2>1, <2>2
    DEF Handler, on_resolve_error, on_resolve, NextEndpoint, on_connect_error,
        on_connect, FirstRead, on_read, on_readable, PostParse, thread_parse,
        CallbackReturns, OnRead, TakeLine, Hangup, ReadingError, Return
<1> QED BY <1>1, <1>2, <1>3, <1>4 DEF Out

(* signal_disconnect is counted when it is invoked, and not otherwise.     *)
LEMMA HangupCounted ==
  ASSUME TypeOK, NEW t \in Threads, Handler(t)
  PROVE  /\ hangups' = hangups \/ hangups' = hangups + 1
         /\ pc'[t] = "cb_disconnect" => hangups' = hangups + 1
         /\ hangups' # hangups =>
              /\ on_read(t) \/ on_readable(t)
              /\ call = "returned"
<1>1. CASE on_read(t) \/ on_readable(t)
  <2>1. PICK q, r, ec : OnRead(t, q, r, ec)
    BY <1>1 DEF on_read, on_readable
  <2>2. CASE Hangup(t, ec)
    BY <1>1, <2>2 DEF Hangup
  <2>3. CASE TakeLine(t, q, r, ec) \/ ReadingError(t, ec)
    BY <2>3 DEF TakeLine, ReadingError, Return, histVars, TypeOK
  <2> QED BY <2>1, <2>2, <2>3 DEF OnRead
<1>2. CASE ~(on_read(t) \/ on_readable(t))
  BY <1>2 DEF Handler, on_resolve_error, on_resolve, NextEndpoint,
       on_connect_error, on_connect, FirstRead, StaleEvent, PostParse,
       thread_parse, CallbackReturns, Runs, Return, histVars, TypeOK
<1> QED BY <1>1, <1>2

(* While the disconnect that has aborted the read is under way, no on_read *)
(* invokes signal_disconnect.                                              *)
LEMMA NoHangupInClose ==
  ASSUME IndInv, CloseInv, HangInv, NEW t \in Threads,
         on_read(t) \/ on_readable(t), cut, closer # {}
  PROVE  hangups' = hangups
<1>1. CASE on_readable(t)
  BY <1>1 DEF on_readable, CloseInv
<1>2. CASE on_read(t)
  <2>1. PICK ec \in {"ok", "eof", "aborted", "error"} :
               /\ Runs(t, Completion("read", ec)) /\ sess = "live"
               /\ OnRead(t, Tail(queue), recvd, ec)
    BY <1>2 DEF on_read
  <2>2. Tail(queue) \in Seq(Entries) /\ NoneIn(Tail(queue)) /\ hangups = 0
    <3>1. "read" \in ChainOps
      BY DEF ChainOps
    <3> QED BY <2>1, <3>1, HeadFacts
  <2>3. /\ svc = "live" /\ queue \in Seq(Entries) /\ queue # <<>>
        /\ Head(queue) = Read(ec)
    BY <2>1 DEF Runs, Read, IndInv, TypeOK
  <2>4. Elems(queue) = Elems(Tail(queue)) \cup {Read(ec)}
    BY <2>3, ElemsOfTail
  <2>5. \A e \in {"ok", "eof", "aborted", "error"} :
          Read(e) \in Elems(queue) <=> e = ec
    BY <2>2, <2>4, NoReadIn, ReadType
  <2>6. sock = "closing" /\ ec # "eof"
    BY <2>1, <2>2, <2>3, <2>5 DEF HangInv, CloseInv
  <2>7. ~Hangup(t, ec)
    BY <2>6 DEF Hangup
  <2>8. TakeLine(t, Tail(queue), recvd, ec) \/ ReadingError(t, ec)
    BY <2>1, <2>7 DEF OnRead
  <2> QED BY <2>8 DEF TakeLine, ReadingError, histVars
<1> QED BY <1>1, <1>2

(* Before signal_connect no handler takes a line.                          *)
LEMMA HandlerUnderway ==
  ASSUME IndInv, NEW t \in Threads, Handler(t), connects = 0,
         call # "returned", ~LineUnderway
  PROVE  ~LineUnderway' /\ connects' = connects
<1>1. /\ queue \in Seq(Entries) /\ pc \in [Threads -> PcValues]
      /\ connects \in Nat
  BY DEF IndInv, TypeOK
<1>2. ~(FirstRead(t) \/ on_read(t) \/ on_readable(t))
  <2>1. ASSUME FirstRead(t) \/ on_read(t) \/ on_readable(t)
        PROVE  connects' = connects
    BY <2>1 DEF FirstRead, on_read, on_readable, OnRead, TakeLine, Hangup,
                ReadingError, histVars
  <2> QED BY <2>1, ReadEndpoint
<1>3. ~on_connect(t) /\ ~thread_parse(t) /\ ~PostParse(t)
  BY DEF on_connect, thread_parse, PostParse, LineUnderway
<1>4. CASE CallbackReturns(t)
  BY <1>1, <1>4 DEF CallbackReturns, Return, LineUnderway, histVars
<1>5. CASE \/ on_resolve_error(t) \/ on_resolve(t) \/ NextEndpoint(t)
           \/ on_connect_error(t) \/ StaleEvent(t)
  <2>1. /\ queue # <<>> /\ queue' = Tail(queue) /\ connects' = connects
    BY <1>5 DEF on_resolve_error, on_resolve, NextEndpoint, on_connect_error,
                StaleEvent, Runs, histVars
  <2>2. pc' = [pc EXCEPT ![t] = "idle"]
    BY <1>1, <1>5 DEF on_resolve_error, on_resolve, NextEndpoint,
                on_connect_error, StaleEvent, Runs, Return
  <2> QED BY <1>1, <2>1, <2>2, UnderwayTaken
<1> QED BY <1>2, <1>3, <1>4, <1>5 DEF Handler

LEMMA HandlerEnd ==
  ASSUME IndInv, IndInv', CloseInv, EndInv, NEW t \in Threads, Handler(t)
  PROVE  EndInv'
<1>1. /\ fate' = "run" /\ UNCHANGED <<sess, call, cut, closer>>
      /\ on_resolve(t) \/ NextEndpoint(t) \/ sock' = sock
      /\ ~(stopped /\ Out)
      /\ pc[t] # "new"
      /\ \E v \in PcValues : pc' = [pc EXCEPT ![t] = v]
  BY HandlerFacts DEF IndInv
<1>2. /\ hangups' = hangups \/ hangups' = hangups + 1
      /\ pc'[t] = "cb_disconnect" => hangups' = hangups + 1
      /\ hangups' # hangups =>
           (on_read(t) \/ on_readable(t)) /\ call = "returned"
  BY HangupCounted DEF IndInv
<1>3. hangups \in Nat /\ hangups' \in Nat /\ hangups' <= 1
  BY DEF IndInv, TypeOK, Phase
<1>4. \A u \in Threads : u # t => pc'[u] = pc[u]
  BY <1>1 DEF IndInv, TypeOK
<1>5. EarlyInv'
  <2> SUFFICES ASSUME call # "returned"
               PROVE  /\ connects' = 0 /\ sess # "freed" /\ closer = {}
                      /\ ~LineUnderway'
                      /\ \A u \in Threads : pc'[u] # "cb_disconnect"
                      /\ "connect_while_attached" \in App
    BY <1>1 DEF EarlyInv
  <2>1. /\ connects = 0 /\ sess # "freed" /\ closer = {} /\ ~LineUnderway
        /\ \A u \in Threads : pc[u] # "cb_disconnect"
        /\ "connect_while_attached" \in App
    BY <1>1 DEF EndInv, EarlyInv
  <2>2. ~LineUnderway' /\ connects' = 0
    BY <2>1, HandlerUnderway
  <2>3. pc'[t] # "cb_disconnect"
    BY <1>2, <1>3
  <2> QED BY <1>4, <2>1, <2>2, <2>3
<1>6. FreedInv'
  <2>1. sess = "freed" =>
          /\ "destroy_on_disconnect" \in App /\ hangups = 1
          /\ closer = {} \/ ~cut
    BY <1>1 DEF EndInv, FreedInv
  <2> QED BY <1>1, <1>2, <1>3, <2>1 DEF FreedInv
<1>7. HangInv'
  <2>1. ASSUME NEW u \in Threads, pc'[u] = "cb_disconnect" PROVE hangups' = 1
    <3>1. CASE u = t
      BY <1>2, <1>3, <2>1, <3>1
    <3>2. CASE u # t
      <4>1. hangups = 1
        BY <1>4, <2>1, <3>2 DEF EndInv, HangInv
      <4> QED BY <1>2, <1>3, <4>1
    <3> QED BY <3>1, <3>2
  <2>2. ASSUME cut, closer # {}
        PROVE  hangups' = 0 /\ (sess = "live" => sock' = "closing")
    <3>1. hangups = 0 /\ (sess = "live" => sock = "closing")
      BY <2>2 DEF EndInv, HangInv
    <3>2. hangups' = hangups
      BY <1>2, <2>2, NoHangupInClose DEF EndInv
    <3>3. ~on_resolve(t) /\ ~(NextEndpoint(t) /\ sess = "live" /\ sock = "closing")
      <4>1. connects = 1
        BY <2>2 DEF CloseInv
      <4>2. ASSUME on_resolve(t) PROVE connects = 0
        <5>1. Runs(t, Completion("resolve", "ok")) /\ "resolve" \in ChainOps
          BY <4>2 DEF on_resolve, ChainOps
        <5> QED BY <5>1, HeadFacts
      <4> QED BY <4>1, <4>2 DEF NextEndpoint
    <3> QED BY <1>1, <3>1, <3>2, <3>3 DEF NextEndpoint
  <2> QED BY <1>1, <2>1, <2>2 DEF HangInv
<1> QED BY <1>1, <1>5, <1>6, <1>7, Survived DEF EndInv

LEMMA ServiceEnd ==
  ASSUME IndInv, EndInv, NEW t \in Threads,
         cq_irc_service_attach(t) \/ ServiceReturns(t)
  PROVE  EndInv'
<1>1. /\ fate' = "run" /\ (stopped => stopped')
      /\ UNCHANGED <<sess, call, cut, closer, sock, connects, hangups, queue>>
      /\ \E v \in {"idle", "new", "done"} : pc' = [pc EXCEPT ![t] = v]
      /\ call = "returned" \/ "connect_while_attached" \in App \/ pc[t] # "new"
  <2>1. CASE cq_irc_service_attach(t)
    BY <2>1 DEF cq_irc_service_attach, setupVars, Proceeds
  <2>2. CASE ServiceReturns(t)
    <3>1. pc' = [pc EXCEPT ![t] = "new"] \/ pc' = [pc EXCEPT ![t] = "done"]
      BY <2>2 DEF ServiceReturns
    <3> QED
      BY <2>2, <3>1 DEF ServiceReturns, svcVars, setupVars, histVars, Proceeds
  <2> QED BY <2>1, <2>2
<1>2. \A u \in Threads : pc'[u] = pc[u] \/ pc'[u] \in {"idle", "new", "done"}
  BY <1>1 DEF IndInv, TypeOK
<1>3. LineUnderway' => LineUnderway
  BY <1>1, <1>2 DEF LineUnderway
<1>4. EarlyInv'
  BY <1>1, <1>2, <1>3 DEF EndInv, EarlyInv
<1>5. FreedInv'
  BY <1>1, <1>2 DEF EndInv, FreedInv, Out
<1>6. HangInv'
  BY <1>1, <1>2 DEF EndInv, HangInv
<1> QED BY <1>1, <1>4, <1>5, <1>6, Survived DEF EndInv

(* The environment, and what the application does apart from disconnecting *)
(* and destroying the session.                                             *)
LEMMA EnvironmentEnd ==
  ASSUME IndInv, EndInv, NEW t \in Threads \cup {User},
         \/ t \in Threads /\ (Reactor(t) \/ ConnectDuringClose(t))
         \/ cq_irc_service_stop(t) \/ DisconnectThrows(t)
         \/ AssignCallbacks \/ cq_irc_service_destroy \/ Environment
  PROVE  EndInv'
<1>1. /\ UNCHANGED <<pc, sess, connects, hangups, cut, closer>>
      /\ call' = call \/ call' = "returned"
      /\ sock' = sock \/ sock # "closing"
      /\ fate' \in {"run", "exception", "torn"} /\ (stopped => stopped')
  BY DEF Reactor, ConnectDuringClose, cq_irc_service_stop, DisconnectThrows,
         AssignCallbacks, cq_irc_service_destroy, Environment, ResolveDone,
         ConnectDone, ServerSends, ServerCloses, svcVars, setupVars, histVars,
         Proceeds, Ends
<1>2. LineUnderway' => LineUnderway
  <2>1. CASE queue' = queue \/ queue' = <<>>
    BY <1>1, <2>1 DEF LineUnderway
  <2>2. CASE queue' # queue /\ queue' # <<>>
    <3>1. PICK op \in {"resolve", "connect", "io"}, ec \in {"ok", "error"} :
                 queue' = Append(queue, Completion(op, ec))
      BY <2>2 DEF Reactor, ConnectDuringClose, cq_irc_service_stop,
         DisconnectThrows, AssignCallbacks, cq_irc_service_destroy,
         Environment, ResolveDone, ConnectDone, ServerSends, ServerCloses
    <3>2. queue \in Seq(Entries) /\ Completion(op, ec) \in Entries
          /\ Completion(op, ec).op # "parse"
      BY CompletionType DEF IndInv, TypeOK
    <3> QED BY <1>1, <3>1, <3>2, UnderwayAppended
  <2> QED BY <2>1, <2>2
<1> QED BY <1>1, <1>2, QuietEnd

LEMMA ConnectEnd ==
  ASSUME EndInv, cq_irc_session_connect PROVE EndInv'
<1>1. /\ call = "none" /\ call' = "resolving" /\ sess' = "live"
      /\ fate' = "run"
      /\ UNCHANGED <<pc, queue, connects, hangups, cut, closer, sock>>
  BY DEF cq_irc_session_connect, histVars, Proceeds
<1>2. EarlyInv' /\ closer = {}
  BY <1>1 DEF EndInv, EarlyInv, LineUnderway
<1> QED BY <1>1, <1>2, Survived DEF EndInv, FreedInv, HangInv

LEMMA DisconnectEnd ==
  ASSUME IndInv, CloseInv, EndInv, NEW t \in Threads \cup {User},
         DisconnectShutdown(t) \/ DisconnectAborts(t) \/ DisconnectClose(t)
  PROVE  EndInv'
<1>1. /\ sess = "live" /\ fate' = "run"
      /\ UNCHANGED <<sess, call, pc, connects, hangups>>
  BY DEF DisconnectShutdown, DisconnectAborts, DisconnectClose, CanDisconnect,
         setupVars, histVars, Proceeds
<1>2. call = "returned"
  BY DEF DisconnectShutdown, DisconnectAborts, DisconnectClose, CanDisconnect,
         EndInv, EarlyInv
<1>3. cut' /\ closer' # {} => hangups' = 0 /\ sock' = "closing"
  <2>1. CASE DisconnectShutdown(t)
    BY <2>1 DEF DisconnectShutdown, histVars, CloseInv, ClosedSock
  <2>2. CASE DisconnectAborts(t)
    <3>1. cut' = (cut \/ armed) /\ sock' = "closing" /\ closer # {}
      BY <2>2 DEF DisconnectAborts
    <3>2. armed => hangups = 0
      BY DEF IndInv, Phase
    <3>3. cut => hangups = 0
      BY <3>1 DEF EndInv, HangInv
    <3> QED BY <1>1, <3>1, <3>2, <3>3
  <2>3. CASE DisconnectClose(t)
    BY <2>3 DEF DisconnectClose
  <2> QED BY <2>1, <2>2, <2>3
<1>4. EarlyInv' /\ FreedInv'
  BY <1>1, <1>2 DEF EarlyInv, FreedInv
<1>5. HangInv'
  BY <1>1, <1>3 DEF EndInv, HangInv
<1> QED BY <1>1, <1>4, <1>5, Survived DEF EndInv

LEMMA DestroyEnd ==
  ASSUME EndInv,
         (\E t \in Threads : DestroyOnDisconnect(t)) \/ DestroyAfterStop
  PROVE  EndInv'
<1>1. /\ sess' = "freed" /\ fate' = "run" /\ (stopped => stopped')
      /\ UNCHANGED <<call, pc, connects, hangups, closer, cut>>
  BY DEF DestroyOnDisconnect, DestroyAfterStop, DeleteSession, WorkFinished,
         histVars, Proceeds
<1>2. CASE DestroyAfterStop
  <2>1. stopped /\ closer = {} /\ Out /\ call = "returned"
    BY <1>2 DEF DestroyAfterStop, AllOut, Out
  <2>2. EarlyInv' /\ FreedInv' /\ HangInv'
    BY <1>1, <2>1 DEF EndInv, EarlyInv, FreedInv, HangInv, Out
  <2> QED BY <1>1, <2>2, Survived DEF EndInv
<1>3. CASE \E t \in Threads : DestroyOnDisconnect(t)
  <2>1. /\ "destroy_on_disconnect" \in App /\ hangups = 1
        /\ call = "returned" /\ (closer = {} \/ ~cut)
    BY <1>3 DEF DestroyOnDisconnect, EndInv, EarlyInv, HangInv
  <2>2. EarlyInv' /\ FreedInv' /\ HangInv'
    BY <1>1, <2>1 DEF EndInv, EarlyInv, FreedInv, HangInv
  <2> QED BY <1>1, <2>2, Survived DEF EndInv
<1> QED BY <1>2, <1>3

(* The steps that end the process in one of the two ways.                  *)
LEMMA UndefinedEnd ==
  ASSUME IndInv, EndInv, NEW t \in Threads \cup {User},
         UseFreed(t) \/ (t \in Threads /\ UseUnset(t))
  PROVE  EndInv'
<1>1. /\ UNCHANGED <<call, pc, sess, connects, hangups, closer, cut, sock,
                     stopped, queue>>
  BY DEF UseFreed, UseUnset, svcVars, setupVars, histVars
<1>2. LineUnderway' = LineUnderway /\ Out' = Out
  BY <1>1 DEF LineUnderway, Out
<1>3. EarlyInv' /\ FreedInv' /\ HangInv'
  BY <1>1, <1>2 DEF EndInv, EarlyInv, FreedInv, HangInv
<1>4. CASE t \in Threads /\ UseUnset(t)
  <2>1. fate' = "unset_callback" /\ call # "returned" /\ pc[t] # "new"
    BY <1>4 DEF UseUnset, Runs, Ends
  <2> QED BY <1>1, <1>2, <1>3, <1>4, <2>1
          DEF EndInv, EarlyInv, UndefinedOnlyWhen
<1>5. CASE UseFreed(t)
  <2>1. fate' = "use_after_free" /\ sess = "freed"
    BY <1>5 DEF UseFreed, Ends
  <2>2. ~(stopped /\ closer = {} /\ Out)
    BY <1>5 DEF UseFreed, Runs, Out
  <2>3. /\ "destroy_on_disconnect" \in App /\ hangups = 1
        /\ closer = {} \/ ~cut
    BY <2>1, <2>2 DEF EndInv, FreedInv
  <2>4. NoConnectCallback /\ \A i \in 1..Len(queue) : queue[i].op \notin ChainOps
    BY <2>3 DEF IndInv, Phase, EntriesOK, EntryOK, ChainOps
  <2>5. LineUnderway \/ t \in closer
    <3>1. CASE pc[t] = "post" /\ t \in Threads
      BY <3>1 DEF LineUnderway
    <3>2. CASE queue # <<>> /\ Head(queue).op # "io"
      <4>1. queue \in Seq(Entries)
        BY DEF IndInv, TypeOK
      <4>2. 1 \in 1..Len(queue) /\ Head(queue) = queue[1] /\ queue[1] \in Entries
        BY <3>2, <4>1
      <4>3. queue[1].op = "parse"
        BY <2>4, <3>2, <4>2 DEF Entries, ChainOps
      <4> QED BY <4>2, <4>3 DEF LineUnderway
    <3> QED BY <1>5, <2>4, <3>1, <3>2 DEF UseFreed, NoConnectCallback
  <2> QED BY <1>1, <1>2, <1>3, <2>1, <2>3, <2>5
          DEF EndInv, EarlyInv, UndefinedOnlyWhen
<1> QED BY <1>4, <1>5

LEMMA EndInvariant == Spec => []EndInv
<1>1. Init => EndInv
  BY DEF Init, EndInv, UndefinedOnlyWhen, EarlyInv, FreedInv, HangInv,
         LineUnderway
<1>2. IndInv /\ IndInv' /\ CloseInv /\ EndInv /\ [Next]_vars => EndInv'
  <2> SUFFICES ASSUME IndInv, IndInv', CloseInv, EndInv, [Next]_vars
               PROVE  EndInv'
    OBVIOUS
  <2>0. User \in Threads \cup {User} /\ Threads \subseteq Threads \cup {User}
    OBVIOUS
  <2>1. ASSUME NEW t \in Threads, Handler(t) PROVE EndInv'
    BY <2>1, HandlerEnd
  <2>2. ASSUME NEW t \in Threads,
               \/ cq_irc_service_attach(t) \/ ServiceReturns(t) \/ Reactor(t)
               \/ DestroyOnDisconnect(t) \/ UseUnset(t) \/ ConnectDuringClose(t)
        PROVE  EndInv'
    BY <2>0, <2>2, ServiceEnd, EnvironmentEnd, DestroyEnd, UndefinedEnd
  <2>3. ASSUME NEW t \in Threads \cup {User},
               \/ Api(t) \/ DisconnectAborts(t) \/ DisconnectClose(t)
               \/ UseFreed(t)
        PROVE  EndInv'
    BY <2>3, EnvironmentEnd, DisconnectEnd, UndefinedEnd DEF Api
  <2>4. CASE \/ cq_irc_session_connect \/ AssignCallbacks
             \/ cq_irc_service_destroy \/ DestroyAfterStop \/ Environment
    BY <2>0, <2>4, ConnectEnd, EnvironmentEnd, DestroyEnd
  <2>5. CASE UNCHANGED vars
    BY <2>5 DEF vars, EndInv, UndefinedOnlyWhen, EarlyInv, FreedInv, HangInv,
                LineUnderway, Out
  <2> QED BY <2>1, <2>2, <2>3, <2>4, <2>5 DEF Next
<1> QED BY <1>1, <1>2, Inductive, CloseInvariant, PTL DEF Spec

(* Whatever the application does, with any number of threads and pollers,  *)
(* a deleted session is used only after signal_disconnect has deleted it,  *)
(* by a line on its way to thread_parse or by a disconnect that aborted no *)
(* read; and unassigned callbacks are met only by a signal_connect that    *)
(* comes before cq_irc_session_connect has returned.                       *)
THEOREM UndefinedExplained == Spec => []UndefinedOnlyWhen
<1>1. EndInv => UndefinedOnlyWhen
  BY DEF EndInv
<1> QED BY <1>1, EndInvariant, PTL

(* No callback destroys the session and nobody connects while threads run  *)
(* the service.                                                            *)
Disciplined == App \cap {"destroy_on_disconnect", "connect_while_attached"} = {}

(* An application that destroys the session only after the service has     *)
(* stopped and every cq_irc_service_attach or cq_irc_service_poll has      *)
(* returned, and that connects before it attaches, never meets a handler   *)
(* that uses a deleted session or an unassigned callback, whatever its     *)
(* other calls, its threads and its pollers are.                           *)
THEOREM NoUndefined ==
  ASSUME Disciplined PROVE Spec => []NoUndefinedBehaviour
<1>1. UndefinedOnlyWhen => NoUndefinedBehaviour
  BY DEF UndefinedOnlyWhen, NoUndefinedBehaviour, Disciplined
<1> QED BY <1>1, UndefinedExplained, PTL

-----------------------------------------------------------------------------
(***************************************************************************)
(* Where each line is between on_read and thread_parse.                    *)
(***************************************************************************)

(* The lines that threads hold, and those whose thread_parse is queued.    *)
Held(l)   == {n \in 1..MaxLines : \E t \in Threads : l[t] = n}
Queued(q) == {n \in 1..MaxLines : ParseWork(n) \in Elems(q)}

PostedOnce(q) == \A n \in 1..MaxLines : \A i, j \in 1..Len(q) :
                   q[i] = ParseWork(n) /\ q[j] = ParseWork(n) => i = j
Increasing(q) == \A m, n \in 1..MaxLines : \A i, j \in 1..Len(q) :
                   i < j /\ q[i] = ParseWork(m) /\ q[j] = ParseWork(n) => m < n
OneHolder(l)  == \A t, u \in Threads : l[t] # 0 /\ l[t] = l[u] => t = u

(* S is T and the line n.                                                  *)
Gains(S, T, n) == S = T \cup {n}

(* The k lines taken are held, queued or parsed, each in one place.        *)
Conserved(l, q, p, k) ==
  /\ Held(l) \cap Queued(q) = {} /\ Held(l) \cap Elems(p) = {}
  /\ Queued(q) \cap Elems(p) = {}
  /\ Held(l) \cup Queued(q) \cup Elems(p) = 1..k
  /\ OneHolder(l) /\ PostedOnce(q) /\ Once(p)

(* The lines come in order: parsed, then queued, then held.                *)
Ascending(l, q, p) ==
  /\ \A n \in Held(l) : \A m \in Queued(q) : m < n
  /\ \A n \in Held(l) \cup Queued(q) : n > Len(p)
  /\ Increasing(q)

OnePoster == \A t, u \in Threads : pc[t] = "post" /\ pc[u] = "post" => t = u

LinesInv ==
  /\ \A t \in Threads : pc[t] # "post" => line[t] = 0
  /\ svc = "live" => Conserved(line, queue, parsed, taken)
  /\ svc = "live" /\ ~raced => OnePoster /\ Ascending(line, queue, parsed)
  /\ ParsedInOrder

(* p holds the lines of q, in the same order.                              *)
SameLines(q, p) ==
  /\ Queued(p) = Queued(q)
  /\ PostedOnce(q) => PostedOnce(p)
  /\ Increasing(q) => Increasing(p)

LEMMA ParseWorkType ==
  /\ \A n \in 0..MaxLines : ParseWork(n) \in Entries
  /\ \A m, n : ParseWork(m) = ParseWork(n) => m = n
BY CompletionType DEF ParseWork

LEMMA QueuedAppend ==
  ASSUME NEW q \in Seq(Entries), NEW e \in Entries
  PROVE  /\ Append(q, e) \in Seq(Entries)
         /\ \A n \in 1..MaxLines :
              n \in Queued(Append(q, e)) <=> n \in Queued(q) \/ e = ParseWork(n)
         /\ PostedOnce(q) /\ (\A n \in Queued(q) : e # ParseWork(n))
              => PostedOnce(Append(q, e))
         /\ Increasing(q)
            /\ (\A n \in 1..MaxLines : e = ParseWork(n) =>
                  \A m \in Queued(q) : m < n)
              => Increasing(Append(q, e))
<1>1. /\ Append(q, e) \in Seq(Entries) /\ Len(Append(q, e)) = Len(q) + 1
      /\ Len(q) \in Nat
      /\ \A i \in 1..Len(q) : Append(q, e)[i] = q[i]
      /\ Append(q, e)[Len(q) + 1] = e
  OBVIOUS
<1>2. \A i \in 1..Len(Append(q, e)) : i \in 1..Len(q) \/ i = Len(q) + 1
  BY <1>1
<1>3. \A n \in 1..MaxLines : \A i \in 1..Len(q) :
        q[i] = ParseWork(n) => n \in Queued(q)
  BY DEF Queued, Elems
<1>4. \A n \in 1..MaxLines :
        n \in Queued(Append(q, e)) <=> n \in Queued(q) \/ e = ParseWork(n)
  BY ElemsOfAppend DEF Queued
<1>5. ASSUME PostedOnce(q), \A n \in Queued(q) : e # ParseWork(n)
      PROVE  PostedOnce(Append(q, e))
  BY <1>1, <1>2, <1>3, <1>5 DEF PostedOnce
<1>6. ASSUME Increasing(q),
             \A n \in 1..MaxLines : e = ParseWork(n) =>
               \A m \in Queued(q) : m < n
      PROVE  Increasing(Append(q, e))
  <2>1. SUFFICES ASSUME NEW m \in 1..MaxLines, NEW n \in 1..MaxLines,
                        NEW i \in 1..Len(Append(q, e)),
                        NEW j \in 1..Len(Append(q, e)), i < j,
                        Append(q, e)[i] = ParseWork(m),
                        Append(q, e)[j] = ParseWork(n)
                 PROVE  m < n
    BY DEF Increasing
  <2>2. i \in 1..Len(q) /\ q[i] = ParseWork(m)
    BY <1>1, <2>1
  <2>3. CASE j \in 1..Len(q)
    BY <1>1, <1>6, <2>1, <2>2, <2>3 DEF Increasing
  <2>4. CASE j = Len(q) + 1
    BY <1>1, <1>3, <1>6, <2>1, <2>2, <2>4
  <2> QED BY <1>2, <2>3, <2>4
<1> QED BY <1>1, <1>4, <1>5, <1>6

LEMMA QueuedTail ==
  ASSUME NEW q \in Seq(Entries), q # <<>>
  PROVE  /\ Tail(q) \in Seq(Entries)
         /\ \A n \in 1..MaxLines :
              n \in Queued(q) <=> n \in Queued(Tail(q)) \/ Head(q) = ParseWork(n)
         /\ PostedOnce(q) => /\ PostedOnce(Tail(q))
                             /\ \A n \in Queued(Tail(q)) : Head(q) # ParseWork(n)
         /\ Increasing(q) => /\ Increasing(Tail(q))
                             /\ \A n \in 1..MaxLines : Head(q) = ParseWork(n) =>
                                  \A m \in Queued(Tail(q)) : n < m
<1>1. /\ Tail(q) \in Seq(Entries) /\ Len(Tail(q)) = Len(q) - 1
      /\ Len(q) \in Nat \ {0} /\ Head(q) = q[1]
      /\ \A i \in 1..Len(Tail(q)) : Tail(q)[i] = q[i + 1]
  OBVIOUS
<1>2. \A i \in 1..Len(Tail(q)) : i + 1 \in 1..Len(q) /\ 1 < i + 1
  BY <1>1
<1>3. 1 \in 1..Len(q)
  BY <1>1
<1>4. \A n \in Queued(Tail(q)) : /\ n \in 1..MaxLines
                                 /\ \E i \in 1..Len(Tail(q)) :
                                      Tail(q)[i] = ParseWork(n)
  BY DEF Queued, Elems
<1>5. \A n \in 1..MaxLines :
        n \in Queued(q) <=> n \in Queued(Tail(q)) \/ Head(q) = ParseWork(n)
  BY ElemsOfTail DEF Queued
<1>6. ASSUME PostedOnce(q)
      PROVE  /\ PostedOnce(Tail(q))
             /\ \A n \in Queued(Tail(q)) : Head(q) # ParseWork(n)
  <2>1. PostedOnce(Tail(q))
    <3>1. SUFFICES ASSUME NEW n \in 1..MaxLines, NEW i \in 1..Len(Tail(q)),
                          NEW j \in 1..Len(Tail(q)),
                          Tail(q)[i] = ParseWork(n), Tail(q)[j] = ParseWork(n)
                   PROVE  i = j
      BY DEF PostedOnce
    <3>2. i + 1 = j + 1
      BY <1>1, <1>2, <1>6, <3>1 DEF PostedOnce
    <3> QED BY <1>1, <3>2
  <2>2. \A n \in Queued(Tail(q)) : Head(q) # ParseWork(n)
    <3>1. SUFFICES ASSUME NEW n \in Queued(Tail(q)), Head(q) = ParseWork(n)
                   PROVE  FALSE
      OBVIOUS
    <3>2. PICK i \in 1..Len(Tail(q)) : Tail(q)[i] = ParseWork(n)
      BY <1>4
    <3>3. 1 = i + 1
      BY <1>1, <1>2, <1>3, <1>4, <1>6, <3>1, <3>2 DEF PostedOnce
    <3> QED BY <1>2, <3>3
  <2> QED BY <2>1, <2>2
<1>7. ASSUME Increasing(q)
      PROVE  /\ Increasing(Tail(q))
             /\ \A n \in 1..MaxLines : Head(q) = ParseWork(n) =>
                  \A m \in Queued(Tail(q)) : n < m
  <2>1. Increasing(Tail(q))
    <3>1. SUFFICES ASSUME NEW m \in 1..MaxLines, NEW n \in 1..MaxLines,
                          NEW i \in 1..Len(Tail(q)), NEW j \in 1..Len(Tail(q)),
                          i < j,
                          Tail(q)[i] = ParseWork(m), Tail(q)[j] = ParseWork(n)
                   PROVE  m < n
      BY DEF Increasing
    <3>2. i + 1 < j + 1 /\ q[i + 1] = ParseWork(m) /\ q[j + 1] = ParseWork(n)
      BY <1>1, <3>1
    <3> QED BY <1>2, <1>7, <3>2 DEF Increasing
  <2>2. ASSUME NEW n \in 1..MaxLines, Head(q) = ParseWork(n),
               NEW m \in Queued(Tail(q))
        PROVE  n < m
    <3>1. PICK i \in 1..Len(Tail(q)) : Tail(q)[i] = ParseWork(m)
      BY <1>4
    <3>2. 1 < i + 1 /\ q[1] = ParseWork(n) /\ q[i + 1] = ParseWork(m)
      BY <1>1, <1>2, <2>2, <3>1
    <3> QED BY <1>2, <1>3, <1>4, <1>7, <3>2 DEF Increasing
  <2> QED BY <2>1, <2>2
<1> QED BY <1>1, <1>5, <1>6, <1>7

(* An entry that is no line comes or goes.                                 *)
LEMMA OffLine ==
  ASSUME NEW q \in Seq(Entries), NEW e \in Entries,
         \A n \in 1..MaxLines : e # ParseWork(n),
         NEW p, p = Append(q, e) \/ (q # <<>> /\ Head(q) = e /\ p = Tail(q))
  PROVE  p \in Seq(Entries) /\ SameLines(q, p)
<1>1. /\ Queued(p) \subseteq 1..MaxLines
      /\ Queued(q) \subseteq 1..MaxLines
  BY DEF Queued
<1>2. CASE p = Append(q, e)
  <2>1. p \in Seq(Entries) /\ \A n \in 1..MaxLines : n \in Queued(p) <=> n \in Queued(q)
    BY <1>2, QueuedAppend
  <2>2. (PostedOnce(q) => PostedOnce(p)) /\ (Increasing(q) => Increasing(p))
    BY <1>1, <1>2, QueuedAppend
  <2>3. Queued(p) = Queued(q)
    BY <1>1, <2>1
  <2> QED BY <2>1, <2>2, <2>3 DEF SameLines
<1>3. CASE q # <<>> /\ Head(q) = e /\ p = Tail(q)
  <2>1. p \in Seq(Entries) /\ \A n \in 1..MaxLines : n \in Queued(p) <=> n \in Queued(q)
    BY <1>3, QueuedTail
  <2>2. (PostedOnce(q) => PostedOnce(p)) /\ (Increasing(q) => Increasing(p))
    BY <1>3, QueuedTail
  <2>3. Queued(p) = Queued(q)
    BY <1>1, <2>1
  <2> QED BY <2>1, <2>2, <2>3 DEF SameLines
<1> QED BY <1>2, <1>3

LEMMA NoLine ==
  /\ \A op \in {"resolve", "connect", "read", "io"},
       ec \in {"ok", "eof", "aborted", "error"} :
         \A n : Completion(op, ec) # ParseWork(n)
  /\ \A n \in 1..MaxLines : ParseWork(0) # ParseWork(n)
BY ConstantsAssumption DEF Completion, ParseWork

LEMMA LineTypes ==
  ASSUME NEW l, NEW q
  PROVE  Held(l) \subseteq 1..MaxLines /\ Queued(q) \subseteq 1..MaxLines
BY DEF Held, Queued

LEMMA SameLinesKept ==
  ASSUME NEW l, NEW q, NEW q2, NEW p, NEW k, SameLines(q, q2)
  PROVE  /\ Conserved(l, q, p, k) => Conserved(l, q2, p, k)
         /\ Ascending(l, q, p) => Ascending(l, q2, p)
BY DEF SameLines, Conserved, Ascending

(* on_read gives line k + 1 to thread t.                                   *)
LEMMA LineTaken ==
  ASSUME NEW l \in [Threads -> 0..MaxLines], NEW q, NEW p,
         NEW k \in Nat, k + 1 \in 1..MaxLines, NEW t \in Threads, l[t] = 0,
         NEW m, m = [l EXCEPT ![t] = k + 1], Conserved(l, q, p, k)
  PROVE  /\ Conserved(m, q, p, k + 1)
         /\ Gains(Held(m), Held(l), k + 1)
<1>1. \A u \in Threads : m[u] = (IF u = t THEN k + 1 ELSE l[u])
  OBVIOUS
<1>2. /\ Held(l) \cup Queued(q) \cup Elems(p) = 1..k /\ OneHolder(l)
      /\ Held(l) \cap Queued(q) = {} /\ Held(l) \cap Elems(p) = {}
  BY DEF Conserved
<1>3. k + 1 \notin 1..k /\ 1..(k + 1) = (1..k) \cup {k + 1} /\ k + 1 # 0
  OBVIOUS
<1>4. Held(m) = Held(l) \cup {k + 1}
  <2>1. ASSUME NEW n \in Held(m) PROVE n \in Held(l) \cup {k + 1}
    BY <1>1, <2>1 DEF Held
  <2>2. ASSUME NEW n \in Held(l) PROVE n \in Held(m)
    <3>1. PICK u \in Threads : n \in 1..MaxLines /\ l[u] = n
      BY <2>2 DEF Held
    <3>2. u # t
      BY <3>1
    <3> QED BY <1>1, <3>1, <3>2 DEF Held
  <2>3. k + 1 \in Held(m)
    BY <1>1 DEF Held
  <2> QED BY <2>1, <2>2, <2>3
<1>5. OneHolder(m)
  <2>1. \A u \in Threads : l[u] # k + 1
    BY <1>2, <1>3 DEF Held
  <2> QED BY <1>1, <1>2, <2>1 DEF OneHolder
<1>6. k + 1 \notin Queued(q) /\ k + 1 \notin Elems(p)
  BY <1>2, <1>3
<1>7. Held(m) \cup Queued(q) \cup Elems(p) = 1..(k + 1)
  BY <1>2, <1>3, <1>4
<1>8. Held(m) \cap Queued(q) = {} /\ Held(m) \cap Elems(p) = {}
  BY <1>2, <1>4, <1>6
<1>9. Queued(q) \cap Elems(p) = {} /\ PostedOnce(q) /\ Once(p)
  BY DEF Conserved
<1> QED BY <1>4, <1>5, <1>7, <1>8, <1>9 DEF Conserved, Gains

(* post(): the line of thread t moves to the end of the queue.             *)
LEMMA LinePosted ==
  ASSUME NEW l \in [Threads -> 0..MaxLines], NEW q \in Seq(Entries), NEW p,
         NEW k, NEW t \in Threads, l[t] # 0,
         NEW m, m = [l EXCEPT ![t] = 0],
         NEW q2, q2 = Append(q, ParseWork(l[t])), Conserved(l, q, p, k)
  PROVE  /\ Conserved(m, q2, p, k)
         /\ Gains(Held(l), Held(m), l[t]) /\ l[t] \notin Held(m)
         /\ Gains(Queued(q2), Queued(q), l[t])
<1>1. \A u \in Threads : m[u] = (IF u = t THEN 0 ELSE l[u])
  OBVIOUS
<1>2. l[t] \in 1..MaxLines /\ l[t] \in Held(l)
  BY ConstantsAssumption DEF Held
<1>3. Held(m) = Held(l) \ {l[t]}
  <2>1. ASSUME NEW n \in Held(m) PROVE n \in Held(l) \ {l[t]}
    <3>1. PICK u \in Threads : n \in 1..MaxLines /\ m[u] = n
      BY <2>1 DEF Held
    <3>2. u # t /\ l[u] = n
      BY <1>1, <3>1
    <3>3. n # l[t]
      BY <3>1, <3>2 DEF Conserved, OneHolder
    <3> QED BY <3>1, <3>2, <3>3 DEF Held
  <2>2. ASSUME NEW n \in Held(l) \ {l[t]} PROVE n \in Held(m)
    <3>1. PICK u \in Threads : n \in 1..MaxLines /\ l[u] = n
      BY <2>2 DEF Held
    <3> QED BY <1>1, <2>2, <3>1 DEF Held
  <2> QED BY <2>1, <2>2
<1>4. OneHolder(m)
  BY <1>1 DEF OneHolder, Conserved
<1>5. ParseWork(l[t]) \in Entries
  BY ParseWorkType
<1>6. \A n \in 1..MaxLines : ParseWork(l[t]) = ParseWork(n) <=> n = l[t]
  BY ParseWorkType
<1>7. Queued(q2) = Queued(q) \cup {l[t]}
  <2>1. \A n \in 1..MaxLines :
          n \in Queued(q2) <=> n \in Queued(q) \/ n = l[t]
    BY <1>5, <1>6, QueuedAppend
  <2> QED BY <1>2, <2>1, LineTypes
<1>8. l[t] \notin Queued(q) /\ l[t] \notin Elems(p)
  BY <1>2 DEF Conserved
<1>9. PostedOnce(q2)
  <2>1. \A n \in Queued(q) : ParseWork(l[t]) # ParseWork(n)
    BY <1>8, ParseWorkType
  <2> QED BY <1>5, <2>1, QueuedAppend DEF Conserved
<1>10. Held(m) \cup Queued(q2) \cup Elems(p) = Held(l) \cup Queued(q) \cup Elems(p)
  BY <1>2, <1>3, <1>7
<1>11. /\ Held(m) \cap Queued(q2) = {} /\ Held(m) \cap Elems(p) = {}
       /\ Queued(q2) \cap Elems(p) = {}
  BY <1>3, <1>7, <1>8 DEF Conserved
<1>12. Held(m) \cup Queued(q2) \cup Elems(p) = 1..k /\ Once(p)
  BY <1>10 DEF Conserved
<1>13. Conserved(m, q2, p, k)
  BY <1>4, <1>9, <1>11, <1>12 DEF Conserved
<1> QED BY <1>2, <1>3, <1>7, <1>13 DEF Gains

(* thread_parse begins the line at the head of the queue.                  *)
LEMMA LineParsed ==
  ASSUME NEW l, NEW q \in Seq(Entries), q # <<>>,
         NEW p \in Seq(1..MaxLines), NEW k, NEW n \in 1..MaxLines,
         Head(q) = ParseWork(n), Conserved(l, q, p, k)
  PROVE  /\ Conserved(l, Tail(q), Append(p, n), k)
         /\ Gains(Queued(q), Queued(Tail(q)), n)
<1> DEFINE q2 == Tail(q)
           p2 == Append(p, n)
<1>1. \A m \in 1..MaxLines : Head(q) = ParseWork(m) <=> m = n
  BY ParseWorkType
<1>2. Queued(q) = Queued(q2) \cup {n}
  <2>1. \A m \in 1..MaxLines : m \in Queued(q) <=> m \in Queued(q2) \/ m = n
    BY <1>1, QueuedTail
  <2> QED BY <2>1, LineTypes
<1>3. PostedOnce(q2) /\ n \notin Queued(q2)
  <2>1. PostedOnce(q)
    BY DEF Conserved
  <2>2. PostedOnce(q2) /\ \A m \in Queued(q2) : Head(q) # ParseWork(m)
    BY <2>1, QueuedTail
  <2> QED BY <2>2
<1>4. n \notin Elems(p) /\ n \notin Held(l)
  BY <1>2 DEF Conserved
<1>5. Elems(p2) = Elems(p) \cup {n} /\ Once(p2)
  <2>1. Once(p) /\ n \notin Elems(p)
    BY <1>4 DEF Conserved
  <2> DEFINE S == 1..MaxLines
  <2>2. n \in S /\ p \in Seq(S)
    OBVIOUS
  <2> HIDE DEF S
  <2>3. /\ Elems(p2) = Elems(p) \cup {n}
        /\ Once(p) /\ n \notin Elems(p) => Once(p2)
    BY <2>2, ElemsOfAppend
  <2> QED BY <2>1, <2>3
<1>6. Held(l) \cup Queued(q2) \cup Elems(p2) = Held(l) \cup Queued(q) \cup Elems(p)
  BY <1>2, <1>5
<1>7. /\ Held(l) \cap Queued(q2) = {} /\ Held(l) \cap Elems(p2) = {}
      /\ Queued(q2) \cap Elems(p2) = {}
  BY <1>2, <1>3, <1>4, <1>5 DEF Conserved
<1> QED BY <1>2, <1>3, <1>5, <1>6, <1>7 DEF Conserved, Gains

-----------------------------------------------------------------------------
(* Steps that move no line.                                                *)
LEMMA LinesQuiet ==
  ASSUME LinesInv, UNCHANGED <<line, taken, parsed, raced>>,
         svc' = "live" => svc = "live" /\ SameLines(queue, queue'),
         \A t \in Threads : pc'[t] = "post" <=> pc[t] = "post"
  PROVE  LinesInv'
<1>1. \A t \in Threads : pc'[t] # "post" => line'[t] = 0
  BY DEF LinesInv
<1>2. svc' = "live" => Conserved(line', queue', parsed', taken')
  BY SameLinesKept DEF LinesInv
<1>3. svc' = "live" /\ ~raced' => OnePoster' /\ Ascending(line', queue', parsed')
  BY SameLinesKept DEF LinesInv, OnePoster
<1>4. ParsedInOrder'
  BY DEF LinesInv, ParsedInOrder
<1> QED BY <1>1, <1>2, <1>3, <1>4 DEF LinesInv

LEMMA SameLinesItself == ASSUME NEW q PROVE SameLines(q, q)
BY DEF SameLines

(* Outside close(), what is not a line comes to the end of the queue or    *)
(* goes from its head.                                                     *)
LEMMA LinesOff ==
  ASSUME IndInv, NEW op \in {"resolve", "connect", "read", "io"},
         NEW ec \in {"ok", "eof", "aborted", "error"},
         \/ queue' = Append(queue, Completion(op, ec))
         \/ queue # <<>> /\ Head(queue) = Completion(op, ec)
            /\ queue' = Tail(queue)
  PROVE  queue' \in Seq(Entries) /\ SameLines(queue, queue')
<1>1. queue \in Seq(Entries) /\ Completion(op, ec) \in Entries
  BY CompletionType DEF IndInv, TypeOK
<1>2. \A n \in 1..MaxLines : Completion(op, ec) # ParseWork(n)
  BY NoLine
<1> QED BY <1>1, <1>2, OffLine

LEMMA ApiLines ==
  ASSUME LinesInv, NEW t \in Threads \cup {User},
         \/ cq_irc_service_stop(t) \/ DisconnectShutdown(t)
         \/ DisconnectThrows(t) \/ UseFreed(t) \/ UseUnset(t)
         \/ AssignCallbacks \/ ServerSends \/ ServerCloses
         \/ ConnectDuringClose(t) \/ DisconnectClose(t)
         \/ cq_irc_session_connect
  PROVE  LinesInv'
<1>1. UNCHANGED <<svc, queue, pc, line, taken, parsed, raced>>
  BY DEF cq_irc_service_stop, DisconnectShutdown, DisconnectThrows, UseFreed,
         UseUnset, AssignCallbacks, ServerSends, ServerCloses,
         ConnectDuringClose, DisconnectClose, cq_irc_session_connect, svcVars,
         histVars
<1> QED BY <1>1, SameLinesItself, LinesQuiet

(* Threads that move from and to places other than post.                   *)
LEMMA PosterKept ==
  ASSUME TypeOK, NEW t \in Threads, pc[t] # "post",
         NEW v, v # "post", pc' = [pc EXCEPT ![t] = v]
  PROVE  \A u \in Threads : pc'[u] = "post" <=> pc[u] = "post"
BY DEF TypeOK

LEMMA ServiceLines ==
  ASSUME IndInv, LinesInv, NEW t \in Threads,
         \/ cq_irc_service_attach(t) \/ ServiceReturns(t) \/ CallbackReturns(t)
  PROVE  LinesInv'
<1>1. /\ pc[t] # "post"
      /\ \E v \in {"idle", "new", "done"} : pc' = [pc EXCEPT ![t] = v]
  BY DEF cq_irc_service_attach, ServiceReturns, CallbackReturns, Return
<1>2. UNCHANGED <<svc, queue, line, taken, parsed, raced>>
  BY DEF cq_irc_service_attach, ServiceReturns, CallbackReturns, svcVars,
         histVars
<1>3. \A u \in Threads : pc'[u] = "post" <=> pc[u] = "post"
  BY <1>1, PosterKept DEF IndInv
<1> QED BY <1>2, <1>3, SameLinesItself, LinesQuiet

LEMMA EnvironmentLines ==
  ASSUME IndInv, LinesInv,
         \/ ResolveDone \/ ConnectDone
         \/ \E t \in Threads : Reactor(t) \/ StaleEvent(t)
  PROVE  LinesInv'
<1>1. UNCHANGED <<svc, pc, line, taken, parsed, raced>>
  BY DEF ResolveDone, ConnectDone, Reactor, StaleEvent, svcVars, histVars
<1>2. PICK op \in {"resolve", "connect", "read", "io"},
           ec \in {"ok", "eof", "aborted", "error"} :
             \/ queue' = Append(queue, Completion(op, ec))
             \/ queue # <<>> /\ Head(queue) = Completion(op, ec)
                /\ queue' = Tail(queue)
  BY DEF ResolveDone, ConnectDone, Reactor, StaleEvent, Runs
<1>3. SameLines(queue, queue')
  BY <1>2, LinesOff
<1> QED BY <1>1, <1>3, LinesQuiet

LEMMA SetupLines ==
  ASSUME IndInv, LinesInv, NEW t \in Threads,
         \/ on_resolve_error(t) \/ on_resolve(t) \/ NextEndpoint(t)
         \/ on_connect_error(t) \/ on_connect(t)
  PROVE  LinesInv'
<1>1. UNCHANGED <<svc, line, taken, parsed, raced>>
  BY DEF on_resolve_error, on_resolve, NextEndpoint, on_connect_error,
         on_connect, svcVars, histVars
<1>2. PICK op \in {"resolve", "connect"}, ec \in {"ok", "error", "aborted"} :
             Runs(t, Completion(op, ec)) /\ queue' = Tail(queue)
  BY DEF on_resolve_error, on_resolve, NextEndpoint, on_connect_error,
         on_connect
<1>3. SameLines(queue, queue')
  BY <1>2, LinesOff DEF Runs
<1>4. /\ pc[t] # "post"
      /\ \E v \in {"idle", "cb_connect"} : pc' = [pc EXCEPT ![t] = v]
  BY DEF on_resolve_error, on_resolve, NextEndpoint, on_connect_error,
         on_connect, Runs, Return
<1>5. \A u \in Threads : pc'[u] = "post" <=> pc[u] = "post"
  BY <1>4, PosterKept DEF IndInv
<1> QED BY <1>1, <1>3, <1>5, LinesQuiet

(* close(): the aborted operations come to the end of the queue.           *)
LEMMA AbortLines ==
  ASSUME IndInv, LinesInv,
         \/ \E t \in Threads \cup {User} : DisconnectAborts(t)
         \/ \E t \in Threads : DestroyOnDisconnect(t)
         \/ DestroyAfterStop
  PROVE  LinesInv'
<1>1. AbortOps /\ UNCHANGED <<svc, pc, line, taken, parsed, raced>>
  BY DEF DisconnectAborts, DestroyOnDisconnect, DestroyAfterStop,
         DeleteSession, svcVars, histVars
<1>2. queue \in Seq(Entries) /\ ~(connecting /\ armed)
  BY DEF IndInv, TypeOK, Single
<1>3. SameLines(queue, queue')
  <2>1. \A op \in {"read", "connect"} : Completion(op, "aborted") \in Entries
    BY CompletionType
  <2>2. CASE armed
    <3>1. queue' = Append(queue, Completion("read", "aborted"))
      BY <1>1, <1>2, <2>1, <2>2 DEF AbortOps
    <3> QED BY <3>1, LinesOff
  <2>3. CASE ~armed /\ connecting
    <3>1. queue' = Append(queue, Completion("connect", "aborted"))
      BY <1>1, <1>2, <2>1, <2>3 DEF AbortOps
    <3> QED BY <3>1, LinesOff
  <2>4. CASE ~armed /\ ~connecting
    <3>1. queue' = queue
      BY <1>1, <1>2, <2>4 DEF AbortOps
    <3> QED BY <3>1, SameLinesItself
  <2> QED BY <2>2, <2>3, <2>4
<1> QED BY <1>1, <1>3, LinesQuiet

LEMMA DestroyServiceLines ==
  ASSUME LinesInv, cq_irc_service_destroy PROVE LinesInv'
<1>1. UNCHANGED <<pc, line, taken, parsed, raced>> /\ svc' = "freed"
  BY DEF cq_irc_service_destroy, histVars
<1> QED BY <1>1, LinesQuiet

(* async_read_until adds no line.                                          *)
LEMMA ReadUntilLines ==
  ASSUME NEW q \in Seq(Entries), NEW r, NEW n, AsyncReadUntil(q, r, n)
  PROVE  SameLines(q, queue')
<1>1. CASE queue' = q
  BY <1>1, SameLinesItself
<1>2. CASE queue' # q
  <2>1. PICK ec \in {"ok", "eof", "aborted", "error"} :
               queue' = Append(q, Completion("read", ec))
    BY <1>2 DEF AsyncReadUntil
  <2>2. Completion("read", ec) \in Entries
    BY CompletionType
  <2>3. \A k \in 1..MaxLines : Completion("read", ec) # ParseWork(k)
    BY NoLine
  <2> QED BY <2>1, <2>2, <2>3, OffLine
<1> QED BY <1>1, <1>2

LEMMA FirstReadLines ==
  ASSUME IndInv, LinesInv, NEW t \in Threads, FirstRead(t)
  PROVE  LinesInv'
<1>1. /\ UNCHANGED <<svc, line, taken, parsed, raced>>
      /\ pc[t] = "cb_connect" /\ pc' = [pc EXCEPT ![t] = "idle"]
      /\ AsyncReadUntil(queue, recvd, taken)
  BY DEF FirstRead, Return, histVars
<1>2. SameLines(queue, queue')
  BY <1>1, ReadUntilLines DEF IndInv, TypeOK
<1>3. \A u \in Threads : pc'[u] = "post" <=> pc[u] = "post"
  BY <1>1, PosterKept DEF IndInv
<1> QED BY <1>1, <1>2, <1>3, LinesQuiet

-----------------------------------------------------------------------------
(* No more lines have been parsed than taken.                              *)
LEMMA ParsedTaken ==
  ASSUME NEW p \in Seq(1..MaxLines), NEW k \in Nat, Elems(p) \subseteq 1..k,
         \A i \in 1..Len(p) : p[i] = i
  PROVE  Len(p) \in Nat /\ Len(p) <= k
<1>1. Len(p) \in Nat
  OBVIOUS
<1>2. CASE Len(p) # 0
  <2>1. Len(p) \in 1..Len(p)
    BY <1>1, <1>2
  <2>2. Len(p) \in Elems(p)
    BY <2>1 DEF Elems
  <2> QED BY <1>1, <2>2
<1> QED BY <1>1, <1>2

LEMMA OnReadLines ==
  ASSUME IndInv, IndInv', LinesInv, NEW t \in Threads, pc[t] = "idle",
         svc = "live", NEW q \in Seq(Entries), SameLines(queue, q), NEW r,
         NEW ec \in {"ok", "eof", "aborted", "error"}, OnRead(t, q, r, ec)
  PROVE  LinesInv'
<1>1. /\ line \in [Threads -> 0..MaxLines] /\ pc \in [Threads -> PcValues]
      /\ taken \in Nat /\ taken' \in 0..MaxLines
      /\ parsed \in Seq(1..MaxLines)
  <2>1. /\ TypeOK /\ sent \in 0..MaxLines /\ recvd \in 0..sent
        /\ taken \in 0..recvd
    BY DEF IndInv, TypeOK
  <2>2. /\ sent' \in 0..MaxLines /\ recvd' \in 0..sent'
        /\ taken' \in 0..recvd'
    BY DEF IndInv, TypeOK
  <2>3. taken \in Nat
    BY <2>1
  <2>4. taken' \in 0..MaxLines
    BY <2>2, ConstantsAssumption
  <2> QED BY <2>1, <2>3, <2>4 DEF TypeOK
<1>2. line[t] = 0 /\ Conserved(line, queue, parsed, taken)
  BY DEF LinesInv
<1>3. CASE TakeLine(t, q, r, ec)
  <2>1. /\ UNCHANGED <<svc, parsed>>
        /\ pc' = [pc EXCEPT ![t] = "post"]
        /\ raced' = (raced \/ \E u \in Threads : pc[u] = "post")
        /\ \E n : AsyncReadUntil(q, r, n)
    BY <1>3 DEF TakeLine, Races, svcVars
  <2>2. SameLines(queue, queue')
    <3>1. SameLines(q, queue')
      BY <2>1, ReadUntilLines
    <3> QED BY <3>1 DEF SameLines
  <2>3. Conserved(line, queue', parsed, taken)
    BY <1>2, <2>2, SameLinesKept
  <2>4. \A u \in Threads : pc'[u] = (IF u = t THEN "post" ELSE pc[u])
    BY <1>1, <2>1
  <2>5. ~raced' => /\ OnePoster' /\ Ascending(line, queue', parsed)
                   /\ \A u \in Threads : line[u] = 0
    <3>1. ~raced' => ~raced /\ \A u \in Threads : pc[u] # "post"
      BY <2>1
    <3>2. ~raced' => OnePoster'
      BY <2>4, <3>1 DEF OnePoster
    <3>3. ~raced' => Ascending(line, queue', parsed)
      BY <2>2, <3>1, SameLinesKept DEF LinesInv
    <3> QED BY <3>1, <3>2, <3>3 DEF LinesInv
  <2>6. ParsedInOrder'
    BY <2>1 DEF LinesInv, ParsedInOrder
  <2>7. CASE ec # "ok"
    <3>1. line' = line /\ taken' = taken
      BY <1>1, <1>2, <1>3, <2>7 DEF TakeLine
    <3>2. \A u \in Threads : pc'[u] # "post" => line'[u] = 0
      BY <2>4, <3>1 DEF LinesInv
    <3> QED BY <2>1, <2>3, <2>5, <2>6, <3>1, <3>2 DEF LinesInv
  <2>8. CASE ec = "ok"
    <3>1. line' = [line EXCEPT ![t] = taken + 1] /\ taken' = taken + 1
      BY <1>3, <2>8 DEF TakeLine
    <3>2. taken + 1 \in 1..MaxLines
      BY <1>1, <3>1
    <3>3. /\ Conserved(line', queue', parsed, taken + 1)
          /\ Held(line') = Held(line) \cup {taken + 1}
      <4>1. line \in [Threads -> 0..MaxLines] /\ taken \in Nat /\ line[t] = 0
        BY <1>1, <1>2
      <4>2. line' = [line EXCEPT ![t] = taken + 1]
        BY <3>1
      <4>3. Conserved(line', queue', parsed, taken + 1)
        BY <2>3, <3>2, <4>1, <4>2, LineTaken
      <4>4. Gains(Held(line'), Held(line), taken + 1)
        BY <2>3, <3>2, <4>1, <4>2, LineTaken
      <4> QED BY <4>3, <4>4 DEF Gains
    <3>4. \A u \in Threads : pc'[u] # "post" => line'[u] = 0
      BY <1>1, <2>4, <3>1 DEF LinesInv
    <3>5. ASSUME ~raced' PROVE Ascending(line', queue', parsed)
      <4>1. Held(line) = {}
        BY <2>5, <3>5 DEF Held
      <4>2. Len(parsed) \in Nat /\ Len(parsed) <= taken
        <5>1. Elems(parsed) \subseteq 1..taken
          BY <1>2 DEF Conserved
        <5>2. \A i \in 1..Len(parsed) : parsed[i] = i
          BY <2>1, <3>5 DEF LinesInv, ParsedInOrder
        <5> QED BY <1>1, <5>1, <5>2, ParsedTaken
      <4>3. Queued(queue') \subseteq 1..taken
        BY <2>3 DEF Conserved
      <4>4. Ascending(line, queue', parsed)
        BY <2>5, <3>5
      <4>5. \A n \in Held(line') : n = taken + 1
        BY <3>3, <4>1
      <4>6. \A n \in Held(line') : \A m \in Queued(queue') : m < n
        BY <1>1, <4>3, <4>5
      <4>7. \A n \in Held(line') \cup Queued(queue') : n > Len(parsed)
        BY <1>1, <4>2, <4>4, <4>5 DEF Ascending
      <4> QED BY <4>4, <4>6, <4>7 DEF Ascending
    <3> QED BY <2>1, <2>5, <2>6, <3>1, <3>3, <3>4, <3>5 DEF LinesInv
  <2> QED BY <2>7, <2>8
<1>4. CASE queue' = q /\ (Hangup(t, ec) \/ ReadingError(t, ec))
  <2>1. UNCHANGED <<svc, line, taken, parsed, raced>>
    BY <1>4 DEF Hangup, ReadingError, svcVars, histVars
  <2>2. \E v \in {"cb_disconnect", "idle"} : pc' = [pc EXCEPT ![t] = v]
    BY <1>4 DEF Hangup, ReadingError, Return
  <2>3. \A u \in Threads : pc'[u] = "post" <=> pc[u] = "post"
    BY <2>2, PosterKept DEF IndInv
  <2> QED BY <1>4, <2>1, <2>3, LinesQuiet
<1> QED BY <1>3, <1>4 DEF OnRead

LEMMA ReadHandlersLines ==
  ASSUME IndInv, IndInv', LinesInv, NEW t \in Threads,
         on_read(t) \/ on_readable(t)
  PROVE  LinesInv'
<1>1. PICK op \in {"resolve", "connect", "read", "io"},
           e \in {"ok", "eof", "aborted", "error"} : Runs(t, Completion(op, e))
  BY DEF on_read, on_readable
<1>2. PICK ec \in {"ok", "eof", "aborted", "error"} :
             \E r : OnRead(t, Tail(queue), r, ec)
  BY DEF on_read, on_readable
<1>3. /\ pc[t] = "idle" /\ svc = "live" /\ queue \in Seq(Entries)
      /\ queue # <<>> /\ Head(queue) = Completion(op, e)
  BY <1>1 DEF Runs, IndInv, TypeOK
<1>4. Tail(queue) \in Seq(Entries) /\ SameLines(queue, Tail(queue))
  <2>1. Completion(op, e) \in Entries
    BY CompletionType
  <2>2. \A n \in 1..MaxLines : Completion(op, e) # ParseWork(n)
    BY NoLine
  <2> QED BY <1>3, <2>1, <2>2, OffLine
<1> QED BY <1>2, <1>3, <1>4, OnReadLines

LEMMA PostParseLines ==
  ASSUME IndInv, LinesInv, NEW t \in Threads, PostParse(t)
  PROVE  LinesInv'
<1>1. /\ UNCHANGED <<svc, taken, parsed, raced>>
      /\ pc[t] = "post" /\ pc' = [pc EXCEPT ![t] = "idle"]
      /\ line' = [line EXCEPT ![t] = 0]
      /\ queue' = Append(queue, ParseWork(line[t]))
  BY DEF PostParse, Return, histVars
<1>2. /\ line \in [Threads -> 0..MaxLines] /\ pc \in [Threads -> PcValues]
      /\ queue \in Seq(Entries) /\ parsed \in Seq(1..MaxLines)
  BY DEF IndInv, TypeOK
<1>3. \A u \in Threads : /\ pc'[u] = (IF u = t THEN "idle" ELSE pc[u])
                         /\ line'[u] = (IF u = t THEN 0 ELSE line[u])
  BY <1>1, <1>2
<1>4. \A u \in Threads : pc'[u] # "post" => line'[u] = 0
  BY <1>3 DEF LinesInv
<1>5. ParsedInOrder'
  BY <1>1 DEF LinesInv, ParsedInOrder
<1>6. ~raced' /\ svc' = "live" => OnePoster'
  BY <1>1, <1>3 DEF LinesInv, OnePoster
<1>7. CASE line[t] = 0
  <2>1. line' = line
    BY <1>1, <1>2, <1>7
  <2>2. SameLines(queue, queue')
    <3>1. ParseWork(0) \in Entries /\ \A n \in 1..MaxLines : ParseWork(0) # ParseWork(n)
      BY NoLine, ParseWorkType, ConstantsAssumption
    <3> QED BY <1>1, <1>2, <1>7, <3>1, OffLine
  <2> QED BY <1>1, <1>4, <1>5, <1>6, <2>1, <2>2, SameLinesKept DEF LinesInv
<1>8. CASE line[t] # 0
  <2>1. ASSUME svc = "live"
        PROVE  /\ Conserved(line', queue', parsed, taken)
               /\ Held(line') = Held(line) \ {line[t]} /\ line[t] \in Held(line)
               /\ Queued(queue') = Queued(queue) \cup {line[t]}
    <3>1. Conserved(line, queue, parsed, taken)
      BY <2>1 DEF LinesInv
    <3>2. line \in [Threads -> 0..MaxLines] /\ queue \in Seq(Entries)
      BY <1>2
    <3>3. /\ line' = [line EXCEPT ![t] = 0]
          /\ queue' = Append(queue, ParseWork(line[t]))
      BY <1>1
    <3>4. Conserved(line', queue', parsed, taken)
      BY <1>8, <3>1, <3>2, <3>3, LinePosted
    <3>5. Gains(Held(line), Held(line'), line[t])
      BY <1>8, <3>1, <3>2, <3>3, LinePosted
    <3>6. line[t] \notin Held(line')
      BY <1>8, <3>1, <3>2, <3>3, LinePosted
    <3>7. Gains(Queued(queue'), Queued(queue), line[t])
      BY <1>8, <3>1, <3>2, <3>3, LinePosted
    <3> QED BY <3>4, <3>5, <3>6, <3>7 DEF Gains
  <2>2. ASSUME svc = "live", ~raced
        PROVE  Ascending(line', queue', parsed)
    <3>1. OnePoster /\ Ascending(line, queue, parsed)
      BY <2>2 DEF LinesInv
    <3>2. Held(line') = {}
      <4>1. \A u \in Threads : line'[u] = 0
        BY <1>1, <1>3, <3>1 DEF LinesInv, OnePoster
      <4> QED BY <4>1 DEF Held
    <3>3. \A n \in Queued(queue') : n > Len(parsed)
      BY <2>1, <2>2, <3>1 DEF Ascending
    <3>4. Increasing(queue')
      <4>1. \A m \in Queued(queue) : m < line[t]
        BY <2>1, <2>2, <3>1 DEF Ascending
      <4>2. ParseWork(line[t]) \in Entries
        BY <1>2, ParseWorkType
      <4>3. \A n \in 1..MaxLines : ParseWork(line[t]) = ParseWork(n) =>
              \A m \in Queued(queue) : m < n
        BY <4>1, ParseWorkType
      <4>4. Increasing(queue)
        BY <3>1 DEF Ascending
      <4> QED BY <1>1, <1>2, <4>2, <4>3, <4>4, QueuedAppend
    <3> QED BY <3>2, <3>3, <3>4 DEF Ascending
  <2> QED BY <1>1, <1>4, <1>5, <1>6, <2>1, <2>2 DEF LinesInv
<1> QED BY <1>7, <1>8

LEMMA ThreadParseLines ==
  ASSUME IndInv, LinesInv, NEW t \in Threads, thread_parse(t)
  PROVE  LinesInv'
<1>1. PICK n \in 0..MaxLines :
             /\ Runs(t, ParseWork(n)) /\ queue' = Tail(queue)
             /\ parsed' = IF n = 0 THEN parsed ELSE Append(parsed, n)
             /\ \E v \in {"cb_line", "idle"} : pc' = [pc EXCEPT ![t] = v]
  BY DEF thread_parse, Return
<1>2. UNCHANGED <<svc, line, taken, raced>>
  BY DEF thread_parse
<1>3. /\ pc[t] = "idle" /\ svc = "live" /\ queue # <<>>
      /\ Head(queue) = ParseWork(n)
      /\ queue \in Seq(Entries) /\ parsed \in Seq(1..MaxLines)
      /\ Len(parsed) \in Nat /\ taken \in Nat
  BY <1>1, ConstantsAssumption DEF Runs, IndInv, TypeOK
<1>4. \A u \in Threads : pc'[u] = "post" <=> pc[u] = "post"
  BY <1>1, <1>3, PosterKept DEF IndInv
<1>5. CASE n = 0
  <2>1. ParseWork(0) \in Entries /\ \A m \in 1..MaxLines : ParseWork(0) # ParseWork(m)
    BY NoLine, ParseWorkType, ConstantsAssumption
  <2>2. SameLines(queue, queue')
    BY <1>1, <1>3, <1>5, <2>1, OffLine
  <2> QED BY <1>1, <1>2, <1>4, <1>5, <2>2, LinesQuiet
<1>6. CASE n # 0
  <2>1. n \in 1..MaxLines /\ parsed' = Append(parsed, n)
    BY <1>1, <1>6, ConstantsAssumption
  <2>2. Conserved(line, queue, parsed, taken)
    BY <1>3 DEF LinesInv
  <2>3. /\ Conserved(line, queue', parsed', taken)
        /\ Queued(queue) = Queued(queue') \cup {n}
    <3>1. /\ queue \in Seq(Entries) /\ queue # <<>>
          /\ parsed \in Seq(1..MaxLines) /\ Head(queue) = ParseWork(n)
      BY <1>3
    <3>2. Conserved(line, Tail(queue), Append(parsed, n), taken)
      BY <2>1, <2>2, <3>1, LineParsed
    <3>3. Gains(Queued(queue), Queued(Tail(queue)), n)
      BY <2>1, <2>2, <3>1, LineParsed
    <3> QED BY <1>1, <2>1, <3>2, <3>3 DEF Gains
  <2>4. /\ Len(parsed') = Len(parsed) + 1 /\ parsed'[Len(parsed) + 1] = n
        /\ \A i \in 1..Len(parsed) : parsed'[i] = parsed[i]
    BY <1>3, <2>1
  <2>5. ASSUME ~raced
        PROVE  /\ n = Len(parsed) + 1
               /\ Ascending(line, queue', parsed')
               /\ OnePoster
    <3>1. /\ OnePoster /\ Ascending(line, queue, parsed)
          /\ \A i \in 1..Len(parsed) : parsed[i] = i
      BY <1>3, <2>5 DEF LinesInv, ParsedInOrder
    <3>2. /\ Increasing(queue')
          /\ \A m \in Queued(queue') : n < m
      <4>1. Increasing(queue)
        BY <3>1 DEF Ascending
      <4>2. /\ Increasing(Tail(queue))
            /\ \A m \in Queued(Tail(queue)) : n < m
        BY <1>3, <2>1, <4>1, QueuedTail
      <4> QED BY <1>1, <4>2
    <3>3. n > Len(parsed) /\ n \in 1..taken
      BY <2>2, <2>3, <3>1 DEF Ascending, Conserved
    <3>4. \A m \in Held(line) : n < m
      BY <2>3, <3>1 DEF Ascending
    <3>5. n = Len(parsed) + 1
      <4> DEFINE k == Len(parsed) + 1
      <4>1. k \in 1..taken /\ k <= n
        BY <1>3, <2>1, <3>3
      <4>2. k \notin Elems(parsed)
        BY <1>3, <3>1 DEF Elems
      <4>3. k \in Held(line) \/ k \in Queued(queue') \/ k = n
        BY <2>2, <2>3, <4>1, <4>2 DEF Conserved
      <4> QED BY <1>3, <2>1, <3>2, <3>4, <4>1, <4>3
    <3>6. \A m \in Held(line) \cup Queued(queue') : m > Len(parsed')
      BY <2>4, <3>2, <3>4, <3>5
    <3>7. \A m \in Held(line) : \A j \in Queued(queue') : j < m
      BY <2>3, <3>1 DEF Ascending
    <3> QED BY <3>1, <3>2, <3>5, <3>6, <3>7 DEF Ascending
  <2>6. ParsedInOrder'
    <3> SUFFICES ASSUME ~raced' PROVE \A i \in 1..Len(parsed') : parsed'[i] = i
      BY DEF ParsedInOrder
    <3>1. ~raced /\ \A i \in 1..Len(parsed) : parsed[i] = i
      BY <1>2 DEF LinesInv, ParsedInOrder
    <3> QED BY <1>3, <2>4, <2>5, <3>1
  <2>7. ~raced' => OnePoster'
    BY <1>2, <1>4, <2>5 DEF OnePoster
  <2>8. \A u \in Threads : pc'[u] # "post" => line'[u] = 0
    BY <1>2, <1>4 DEF LinesInv
  <2> QED BY <1>2, <2>3, <2>5, <2>6, <2>7, <2>8 DEF LinesInv
<1> QED BY <1>5, <1>6

LEMMA LinesInvariant == Spec => []LinesInv
<1>1. Init => LinesInv
  <2> SUFFICES ASSUME Init PROVE LinesInv
    OBVIOUS
  <2>1. /\ line = [t \in Threads |-> 0] /\ pc = [t \in Threads |-> "new"]
        /\ queue = <<>> /\ parsed = <<>> /\ taken = 0
    BY DEF Init
  <2>2. Elems(<<>>) = {} /\ Once(<<>>) /\ Len(<<>>) = 0
    BY ElemsOfEmpty
  <2>3. Held(line) = {} /\ OneHolder(line)
    BY <2>1 DEF Held, OneHolder
  <2>4. Queued(queue) = {} /\ PostedOnce(queue) /\ Increasing(queue)
    BY <2>1, <2>2 DEF Queued, PostedOnce, Increasing
  <2>5. Elems(parsed) = {} /\ Once(parsed) /\ 1..taken = {}
    BY <2>1, <2>2
  <2>6. Conserved(line, queue, parsed, taken)
    BY <2>3, <2>4, <2>5 DEF Conserved
  <2>7. OnePoster /\ Ascending(line, queue, parsed) /\ ParsedInOrder
    BY <2>1, <2>2, <2>3, <2>4 DEF OnePoster, Ascending, ParsedInOrder
  <2> QED BY <2>1, <2>6, <2>7 DEF LinesInv
<1>2. IndInv /\ IndInv' /\ LinesInv /\ [Next]_vars => LinesInv'
  <2> SUFFICES ASSUME IndInv, IndInv', LinesInv, [Next]_vars PROVE LinesInv'
    OBVIOUS
  <2>1. ASSUME NEW t \in Threads, Handler(t) PROVE LinesInv'
    BY <2>1, SetupLines, FirstReadLines, ReadHandlersLines, EnvironmentLines,
       PostParseLines, ThreadParseLines, ServiceLines DEF Handler
  <2>2. ASSUME NEW t \in Threads,
               \/ cq_irc_service_attach(t) \/ ServiceReturns(t) \/ Reactor(t)
               \/ DestroyOnDisconnect(t) \/ UseUnset(t) \/ ConnectDuringClose(t)
        PROVE  LinesInv'
    BY <2>2, ServiceLines, EnvironmentLines, AbortLines, ApiLines
  <2>3. ASSUME NEW t \in Threads \cup {User},
               \/ Api(t) \/ DisconnectAborts(t) \/ DisconnectClose(t)
               \/ UseFreed(t)
        PROVE  LinesInv'
    BY <2>3, ApiLines, AbortLines DEF Api
  <2>4. CASE \/ cq_irc_session_connect \/ AssignCallbacks
             \/ cq_irc_service_destroy \/ DestroyAfterStop \/ Environment
    <3>1. User \in Threads \cup {User}
      OBVIOUS
    <3> QED BY <2>4, <3>1, ApiLines, EnvironmentLines, DestroyServiceLines,
               AbortLines DEF Environment
  <2>5. CASE UNCHANGED vars
    <3>1. UNCHANGED <<svc, queue, pc, line, taken, parsed, raced>>
      BY <2>5 DEF vars
    <3> QED BY <3>1, SameLinesItself, LinesQuiet
  <2> QED BY <2>1, <2>2, <2>3, <2>4, <2>5 DEF Next
<1> QED BY <1>1, <1>2, Inductive, PTL DEF Spec

(* While no on_read begins before another has reached its post(), lines    *)
(* reach thread_parse in the order in which the server sent them.          *)
THEOREM LinesInOrder == Spec => []ParsedInOrder
<1>1. LinesInv => ParsedInOrder
  BY DEF LinesInv
<1> QED BY <1>1, LinesInvariant, PTL

(* Each line taken out of session->input is about to be posted, or queued, *)
(* or given to thread_parse, and in one place only, with any number of     *)
(* threads and whatever order they take the handlers in.                   *)
THEOREM LineOnce == Spec => []EachLineOnce
<1>1. IndInv /\ LinesInv => EachLineOnce
  <2> SUFFICES ASSUME IndInv, LinesInv, svc = "live", NEW n \in 1..MaxLines
               PROVE  IF n <= taken THEN \E h \in Holders(n) : Holders(n) = {h}
                                    ELSE Holders(n) = {}
    BY DEF EachLineOnce
  <2> DEFINE IsHeld(h)   == \E t \in Threads :
                              line[t] = n /\ h = <<"thread", t>>
             IsQueued(h) == \E i \in 1..Len(queue) :
                              queue[i] = ParseWork(n) /\ h = <<"queue", i>>
             IsParsed(h) == \E i \in 1..Len(parsed) :
                              parsed[i] = n /\ h = <<"parsed", i>>
  <2>1. Conserved(line, queue, parsed, taken) /\ n # 0
    BY DEF LinesInv
  <2>2. \A h : h \in Holders(n) <=> IsHeld(h) \/ IsQueued(h) \/ IsParsed(h)
    <3>1. \A t \in Threads : line[t] = n => pc[t] = "post"
      BY <2>1 DEF LinesInv
    <3> QED BY <3>1 DEF Holders
  <2>3. /\ \A h : IsHeld(h) => n \in Held(line)
        /\ \A h : IsQueued(h) => n \in Queued(queue)
        /\ \A h : IsParsed(h) => n \in Elems(parsed)
    BY DEF Held, Queued, Elems
  <2>4. /\ n \in Held(line) => \E h : IsHeld(h)
        /\ n \in Queued(queue) => \E h : IsQueued(h)
        /\ n \in Elems(parsed) => \E h : IsParsed(h)
    BY DEF Held, Queued, Elems
  <2>5. \A g, h : IsHeld(g) /\ IsHeld(h) => g = h
    BY <2>1 DEF Conserved, OneHolder
  <2>6. \A g, h : IsQueued(g) /\ IsQueued(h) => g = h
    BY <2>1 DEF Conserved, PostedOnce
  <2>7. \A g, h : IsParsed(g) /\ IsParsed(h) => g = h
    BY <2>1 DEF Conserved, Once
  <2>8. /\ n \in Held(line) => n \notin Queued(queue) /\ n \notin Elems(parsed)
        /\ n \in Queued(queue) => n \notin Elems(parsed)
        /\ n <= taken <=> \/ n \in Held(line) \/ n \in Queued(queue)
                          \/ n \in Elems(parsed)
    <3>1. n <= taken <=> n \in 1..taken
      BY ConstantsAssumption DEF IndInv, TypeOK
    <3> QED BY <2>1, <3>1 DEF Conserved
  <2> HIDE DEF IsHeld, IsQueued, IsParsed
  <2>9. \A g, h \in Holders(n) : g = h
    BY <2>2, <2>3, <2>5, <2>6, <2>7, <2>8
  <2>10. CASE n <= taken
    <3>1. PICK h : h \in Holders(n)
      BY <2>2, <2>4, <2>8, <2>10
    <3>2. Holders(n) = {h}
      BY <2>9, <3>1
    <3> QED BY <2>10, <3>1, <3>2
  <2>11. CASE ~(n <= taken)
    <3>1. Holders(n) = {}
      BY <2>2, <2>3, <2>8, <2>11
    <3> QED BY <2>11, <3>1
  <2> QED BY <2>10, <2>11
<1> QED BY <1>1, Inductive, LinesInvariant, PTL
=============================================================================
