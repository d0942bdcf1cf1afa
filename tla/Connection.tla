----------------------------- MODULE Connection ------------------------------
(***************************************************************************)
(* The connections of the mesh: how RDMAClient and RDMAServer set one up,  *)
(* what the threads of both ends and the network cards do with its         *)
(* messages, and how done takes it down.                                   *)
(*                                                                         *)
(* A node runs one program thread, whose calls are a sequence: the         *)
(* constructors (start, connect_mesh), Work, and the destructor of the     *)
(* memory manager (done for every peer).  It has one RDMAServer, object    *)
(* <<n, n>>, and one RDMAClient for every lower id m, object <<n, m>>.     *)
(* An object has an event thread and a completion thread.  conn[n][m] is   *)
(* n's end of the connection with m, which belongs to n's client when      *)
(* m < n and to n's server otherwise.                                      *)
(***************************************************************************)
EXTENDS Integers, Sequences, FiniteSets, TLC

CONSTANTS
  NumServers,
  Work,          \* Work[n]: the calls of n between connect_mesh and the destructor
  SlowCopy,      \* a message can arrive before the one before it has been copied
  ErrorGarbage,  \* what the member error of a new RDMAClient can hold
  StopGarbage    \* what stop_after_last_conn of an RDMAServer can hold

Node   == 0 .. NumServers - 1
Object == {<<n, m>> \in Node \X Node : m <= n}

\* RDMAMemNode::getServer
Owner(n, m) == IF m < n THEN <<n, m>> ELSE <<n, n>>

Call(op, peer, arg) == [op |-> op, peer |-> peer, arg |-> arg]

ASSUME ConnectionAssumption ==
  /\ NumServers \in Nat \ {0}
  /\ DOMAIN Work = Node
  /\ SlowCopy \in BOOLEAN
  /\ ErrorGarbage \subseteq BOOLEAN /\ ErrorGarbage # {}
  /\ StopGarbage \subseteq BOOLEAN /\ StopGarbage # {}

NoData  == -1       \* the data of a message that was cleared with memset
Message == [type : {"USER", "MEMINFO", "ACK", "DONE"}, data : Int]
Cleared == [type |-> "USER", data |-> NoData]

\* A request in the send queue or a completion; sem: somebody waits for it.
Request == [op : {"send", "read", "recv"}, sem : BOOLEAN]

Nobody == <<"none", -1>>

VARIABLES
  calls,        \* calls[n]: the calls n's program has left; it is in the first
  waiting,      \* waiting[n]: <<kind, peer>> of the semaphore it waits on, or Nobody
  signalled,    \* nodes whose semaphore has been posted
  badPost,      \* nodes where a thread posted a semaphore that is not there
  started,      \* nodes whose RDMAServer listens
  connections,  \* connections[n]: from an id to the peer of that connection
  accepted,     \* accepted[n]: the peer of the connection accept returned last
  events,       \* events[o]: events in the channel of object o
  ended,        \* objects whose event loop has ended
  connSem,      \* connSem[n]: conn_queue_sem
  connQueue,    \* connQueue[n]: conn_queue
  conn,         \* conn[n][m]: rdma_connection
  down,         \* connections that were disconnected
  cq,           \* cq[o]: completion queue of object o
  busy,         \* busy[o]: <<type, peer>> that its completion thread is working on
  failed        \* <<op, n>>: an rdma_read of n returned -1, or its receive got other data

threadVars == <<calls, waiting, signalled, badPost>>
meshVars   == <<started, connections, accepted, connSem, connQueue>>
cmVars     == <<events, ended>>
wireVars   == <<conn, down, cq, busy>>
vars == <<threadVars, meshVars, cmVars, wireVars, failed>>

-----------------------------------------------------------------------------
(* The program of a node.                                                  *)

\* connect_mesh connects to every lower id, the nearest first, and sends its own.
ConnectCalls(n) ==
  [i \in 1 .. 2 * n |->
     LET m == n - (i + 1) \div 2 IN
     IF i % 2 = 1 THEN Call("connect", m, NoData) ELSE Call("send", m, n)]

\* It then accepts connections until it has all.
AcceptCalls(n) == IF n = NumServers - 1 THEN <<>> ELSE <<Call("accept", n, NoData)>>

\* ~RDMAMemoryManager
DoneCalls(n) ==
  [i \in 1 .. NumServers - 1 |-> Call("done", IF i - 1 < n THEN i - 1 ELSE i, NoData)]

Program(n) ==
  <<Call("start", n, NoData)>> \o ConnectCalls(n) \o AcceptCalls(n) \o Work[n] \o DoneCalls(n)

\* new rdma_connection, before build_connection_object
NoConnection ==
  [live |-> FALSE, sends |-> <<>>, acks |-> <<>>, recvs |-> 0,
   send_buffer |-> Cleared, recv_buffer |-> Cleared, recv_queue |-> <<>>,
   remote |-> {}, sent_done |-> FALSE, recv_done |-> FALSE]

Init ==
  /\ calls = [n \in Node |-> Program(n)]
  /\ waiting = [n \in Node |-> Nobody]
  /\ signalled = {}
  /\ badPost = {}
  /\ started = {}
  /\ connections = [n \in Node |-> <<>>]
  /\ accepted = [n \in Node |-> n]
  /\ events = [o \in Object |-> <<>>]
  /\ ended = {}
  /\ connSem = [n \in Node |-> 0]
  /\ connQueue = [n \in Node |-> <<>>]
  /\ conn = [n \in Node |-> [m \in Node |-> NoConnection]]
  /\ down = {}
  /\ cq = [o \in Object |-> <<>>]
  /\ busy = [o \in Object |-> Nobody]
  /\ failed = {}

-----------------------------------------------------------------------------
(* Helpers.                                                                *)

\* Node n is about to make this call.
At(n, op) == calls[n] # <<>> /\ Head(calls[n]).op = op /\ waiting[n] = Nobody

Peer(n) == Head(calls[n]).peer

\* The peer of the connection that n's program has for the id it names.
Target(n) == connections[n][Peer(n)]

Return(n) == calls' = [calls EXCEPT ![n] = Tail(@)]

WaitFor(n, kind, m) == waiting' = [waiting EXCEPT ![n] = <<kind, m>>]

\* sem_post on the semaphore that n's program has for this; with none, undefined.
SemPost(n, kind, m) ==
  IF waiting[n] = <<kind, m>>
  THEN signalled' = signalled \cup {n} /\ UNCHANGED badPost
  ELSE badPost' = badPost \cup {n} /\ UNCHANGED signalled

NoPost == UNCHANGED <<signalled, badPost>>

\* post_rdma_send: copies the message to the one send buffer and posts a request.
PostSend(c, type, data, sem) ==
  [c EXCEPT !.send_buffer = [type |-> type, data |-> data],
            !.sends = Append(@, [op |-> "send", sem |-> sem])]

SetConn(n, m, c) == conn' = [conn EXCEPT ![n][m] = c]

Emit(o, type, m) == events' = [events EXCEPT ![o] = Append(@, <<type, m>>)]

\* post_rdma_receive: a receive for the one receive buffer of the connection
PostReceive(c) == [c EXCEPT !.recvs = @ + 1]

\* build_connection_object, then post_rdma_receive
BuildConnection == PostReceive([NoConnection EXCEPT !.live = TRUE])

\* build_queue_pair: sends and receives of a connection complete in the one queue of its
\* object.
CompletionQueue(n, m) == Owner(n, m)

-----------------------------------------------------------------------------
(* Calls of the program thread.                                            *)

\* RDMAServer::start
Start(n) ==
  /\ At(n, "start")
  /\ started' = started \cup {n}
  /\ Return(n)
  /\ UNCHANGED <<waiting, signalled, badPost, connections, accepted, connSem, connQueue,
                 cmVars, wireVars, failed>>

\* RDMAClient::connect, up to sem_wait
Connect(n) ==
  /\ At(n, "connect")
  /\ Emit(<<n, Peer(n)>>, "ADDR_RESOLVED", Peer(n))
  /\ WaitFor(n, "connect", Peer(n))
  /\ UNCHANGED <<calls, signalled, badPost, meshVars, ended, wireVars, failed>>

\* ... and from there: connect_mesh records the connection, or gives up on a null one.
Connected(n) ==
  LET m == Peer(n) IN
  /\ n \in signalled /\ waiting[n] = <<"connect", m>>
  /\ signalled' = signalled \ {n}
  /\ waiting' = [waiting EXCEPT ![n] = Nobody]
  /\ IF conn[n][m].live
     THEN /\ connections' = [connections EXCEPT ![n] = @ @@ (m :> m)]
          /\ Return(n)
     ELSE /\ calls' = [calls EXCEPT ![n] = <<>>]
          /\ UNCHANGED connections
  /\ UNCHANGED <<badPost, started, accepted, connSem, connQueue, cmVars, wireVars, failed>>

\* send, register_memory with remote access and done post a message and wait: for its
\* completion, for the peer's ack, for the disconnection.
Post(n, op, type, kind, sem) ==
  /\ At(n, op)
  /\ SetConn(n, Target(n),
             PostSend(conn[n][Target(n)], type, Head(calls[n]).arg, sem))
  /\ WaitFor(n, kind, Target(n))
  /\ UNCHANGED <<calls, signalled, badPost, meshVars, cmVars, down, cq, busy, failed>>

Send(n)     == Post(n, "send", "USER", "completion", TRUE)
Done(n)     == Post(n, "done", "DONE", "disconnection", FALSE)

\* Mutant: register_memory does not wait for the ack.
RegisterAtOnce(n) ==
  /\ At(n, "register")
  /\ SetConn(n, Target(n), PostSend(conn[n][Target(n)], "MEMINFO", Head(calls[n]).arg, FALSE))
  /\ Return(n)
  /\ UNCHANGED <<waiting, signalled, badPost, meshVars, cmVars, down, cq, busy, failed>>

Register(n) == Post(n, "register", "MEMINFO", "register_memory", FALSE)

\* The semaphore of send, register_memory, rdma_read or done has been posted.
Resume(n) ==
  /\ n \in signalled /\ waiting[n][1] # "connect"
  /\ signalled' = signalled \ {n}
  /\ waiting' = [waiting EXCEPT ![n] = Nobody]
  /\ Return(n)
  /\ UNCHANGED <<badPost, meshVars, cmVars, wireVars, failed>>

\* RDMAServer::accept: sem_post
Accept(n) ==
  /\ At(n, "accept")
  /\ connSem' = [connSem EXCEPT ![n] = @ + 1]
  /\ WaitFor(n, "accept", n)
  /\ UNCHANGED <<calls, signalled, badPost, started, connections, accepted, connQueue,
                 cmVars, wireVars, failed>>

\* ... dequeue
Accepted(n) ==
  /\ waiting[n] = <<"accept", n>>
  /\ connQueue[n] # <<>>
  /\ accepted' = [accepted EXCEPT ![n] = Head(connQueue[n])]
  /\ connQueue' = [connQueue EXCEPT ![n] = Tail(@)]
  /\ WaitFor(n, "id", Head(connQueue[n]))
  /\ UNCHANGED <<calls, signalled, badPost, started, connections, connSem, cmVars, wireVars,
                 failed>>

\* Mutant: the connection is recorded for the peers in the order they were accepted.
ReceiveAnyId(n) ==
  LET p == accepted[n]
      all == connections[n] @@ (n + Cardinality({k \in DOMAIN connections[n] : k > n}) + 1 :> p)
  IN
  /\ waiting[n] = <<"id", p>>
  /\ conn[n][p].recv_queue # <<>>
  /\ connections' = [connections EXCEPT ![n] = all]
  /\ SetConn(n, p, [conn[n][p] EXCEPT !.recv_queue = Tail(@)])
  /\ waiting' = [waiting EXCEPT ![n] = Nobody]
  /\ IF Cardinality(DOMAIN all) = NumServers - 1 THEN Return(n) ELSE UNCHANGED calls
  /\ UNCHANGED <<signalled, badPost, started, accepted, connSem, connQueue, cmVars,
                 down, cq, busy, failed>>

\* ... and connect_mesh receives the id of the peer; it accepts again until it has all.
ReceiveId(n) ==
  LET p == accepted[n]
      all == connections[n] @@ (Head(conn[n][p].recv_queue) :> p)
  IN
  /\ waiting[n] = <<"id", p>>
  /\ conn[n][p].recv_queue # <<>>
  /\ connections' = [connections EXCEPT ![n] = all]
  /\ SetConn(n, p, [conn[n][p] EXCEPT !.recv_queue = Tail(@)])
  /\ waiting' = [waiting EXCEPT ![n] = Nobody]
  /\ IF Cardinality(DOMAIN all) = NumServers - 1 THEN Return(n) ELSE UNCHANGED calls
  /\ UNCHANGED <<signalled, badPost, started, accepted, connSem, connQueue, cmVars,
                 down, cq, busy, failed>>

\* receive; the argument is what the program expects to get
Receive(n) ==
  LET c == conn[n][Target(n)] IN
  /\ At(n, "receive")
  /\ c.recv_queue # <<>>
  /\ failed' = failed \cup {p \in {<<"receive", n>>} : Head(c.recv_queue) # Head(calls[n]).arg}
  /\ SetConn(n, Target(n), [c EXCEPT !.recv_queue = Tail(@)])
  /\ Return(n)
  /\ UNCHANGED <<waiting, signalled, badPost, meshVars, cmVars, down, cq, busy>>

\* rdma_read of a region; it returns -1 when the peer has not announced the region.
Read(n) ==
  LET c == conn[n][Target(n)] IN
  /\ At(n, "read")
  /\ IF Head(calls[n]).arg \in c.remote
     THEN /\ SetConn(n, Target(n),
                     [c EXCEPT !.sends = Append(@, [op |-> "read", sem |-> TRUE])])
          /\ WaitFor(n, "completion", Target(n))
          /\ UNCHANGED <<calls, failed>>
     ELSE /\ failed' = failed \cup {<<"read", n>>}
          /\ Return(n)
          /\ UNCHANGED <<waiting, conn>>
  /\ UNCHANGED <<signalled, badPost, meshVars, cmVars, down, cq, busy>>

-----------------------------------------------------------------------------
(* Event threads.                                                          *)

\* The event loop of object o takes an event of this type, from the peer m.
OnEvent(o, type, m) ==
  o \in Object \ ended /\ events[o] # <<>> /\ Head(events[o]) = <<type, m>>

Ack(o) == [events EXCEPT ![o] = Tail(@)]

\* RDMAClient::on_addr_resolved
OnAddrResolved(n, m) ==
  /\ OnEvent(<<n, m>>, "ADDR_RESOLVED", m)
  /\ \E error \in ErrorGarbage :
       IF error THEN UNCHANGED conn ELSE SetConn(n, m, BuildConnection)
  /\ events' = [Ack(<<n, m>>) EXCEPT ![<<n, m>>] = Append(@, <<"ROUTE_RESOLVED", m>>)]
  /\ UNCHANGED <<threadVars, meshVars, ended, down, cq, busy, failed>>

\* RDMAClient::on_route_resolved: a server that does not listen yet rejects.
OnRouteResolved(n, m) ==
  /\ OnEvent(<<n, m>>, "ROUTE_RESOLVED", m)
  /\ events' = IF m \in started
               THEN [Ack(<<n, m>>) EXCEPT ![<<m, m>>] = Append(@, <<"CONNECT_REQUEST", n>>)]
               ELSE [Ack(<<n, m>>) EXCEPT ![<<n, m>>] = Append(@, <<"REJECTED", m>>)]
  /\ UNCHANGED <<threadVars, meshVars, ended, wireVars, failed>>

\* RDMAClient::on_connection; the server learns that the connection is established.
OnConnection(n, m) ==
  /\ OnEvent(<<n, m>>, "ESTABLISHED", m)
  /\ SemPost(n, "connect", m)
  /\ events' = [Ack(<<n, m>>) EXCEPT ![<<m, m>>] = Append(@, <<"ESTABLISHED", n>>)]
  /\ UNCHANGED <<calls, waiting, meshVars, ended, wireVars, failed>>

\* RDMAClient::on_event has no case for a rejection: it returns 1 and the loop ends.
OnRejected(n, m) ==
  /\ OnEvent(<<n, m>>, "REJECTED", m)
  /\ events' = Ack(<<n, m>>)
  /\ ended' = ended \cup {<<n, m>>}
  /\ UNCHANGED <<threadVars, meshVars, wireVars, failed>>

\* RDMAServer::on_connect_request
OnConnectRequest(n, m) ==
  /\ OnEvent(<<n, n>>, "CONNECT_REQUEST", m)
  /\ SetConn(n, m, BuildConnection)
  /\ events' = [Ack(<<n, n>>) EXCEPT ![<<m, n>>] = Append(@, <<"ESTABLISHED", n>>)]
  /\ UNCHANGED <<threadVars, meshVars, ended, down, cq, busy, failed>>

\* Mutant: the connection is queued without waiting for an accept.
QueueConnection(n, m) ==
  /\ OnEvent(<<n, n>>, "ESTABLISHED", m)
  /\ connQueue' = [connQueue EXCEPT ![n] = Append(@, m)]
  /\ events' = Ack(<<n, n>>)
  /\ UNCHANGED <<threadVars, started, connections, accepted, connSem, ended, wireVars, failed>>

\* RDMAServer::on_connection: the event thread waits for an accept, then queues it.
OnServerConnection(n, m) ==
  /\ OnEvent(<<n, n>>, "ESTABLISHED", m)
  /\ connSem[n] > 0
  /\ connSem' = [connSem EXCEPT ![n] = @ - 1]
  /\ connQueue' = [connQueue EXCEPT ![n] = Append(@, m)]
  /\ events' = Ack(<<n, n>>)
  /\ UNCHANGED <<threadVars, started, connections, accepted, ended, wireVars, failed>>

\* The connections of object o that are still there once n's end with m is gone.
LiveWithout(o, m) == {p \in Node \ {m} : Owner(o[1], p) = o /\ conn[o[1]][p].live}

\* on_disconnect, and the end of the event loop in on_event
OnDisconnect(n, m) ==
  LET o == Owner(n, m) IN
  /\ OnEvent(o, "DISCONNECTED", m)
  /\ SemPost(n, "disconnection", m)
  /\ SetConn(n, m, [conn[n][m] EXCEPT !.live = FALSE])
  /\ events' = Ack(o)
  /\ \E stop_after_last_conn \in IF m < n THEN {TRUE} ELSE StopGarbage :
       ended' = IF stop_after_last_conn /\ LiveWithout(o, m) = {}
                THEN ended \cup {o} ELSE ended
  /\ UNCHANGED <<calls, waiting, meshVars, down, cq, busy, failed>>

-----------------------------------------------------------------------------
(* The network cards (external).                                           *)

Complete(o, m, r) == cq' = [cq EXCEPT ![o] = Append(@, <<m, r>>)]

\* The message in n's send buffer reaches the receive that m has posted.  A completion
\* thread copies a message faster than the next one arrives, unless SlowCopy.
Transmit(n, m) ==
  LET s == conn[n][m]  r == conn[m][n] IN
  /\ s.sends # <<>> /\ Head(s.sends).op = "send"
  /\ r.recvs > 0
  /\ SlowCopy \/ busy[Owner(m, n)][2] # n
  /\ {n, m} \notin down
  /\ conn' = [conn EXCEPT
       ![n][m] = [s EXCEPT !.sends = Tail(@), !.acks = Append(@, Head(s.sends))],
       ![m][n] = [r EXCEPT !.recv_buffer = s.send_buffer, !.recvs = @ - 1]]
  /\ Complete(CompletionQueue(m, n), n, [op |-> "recv", sem |-> FALSE])
  /\ UNCHANGED <<threadVars, meshVars, cmVars, down, busy, failed>>

\* One-sided: the peer's threads take no part.
Fetch(n, m) ==
  LET s == conn[n][m] IN
  /\ s.sends # <<>> /\ Head(s.sends).op = "read"
  /\ {n, m} \notin down
  /\ SetConn(n, m, [s EXCEPT !.sends = Tail(@), !.acks = Append(@, Head(s.sends))])
  /\ UNCHANGED <<threadVars, meshVars, cmVars, down, cq, busy, failed>>

\* The acknowledgement of the peer's card completes the request.
Acknowledge(n, m) ==
  LET s == conn[n][m] IN
  /\ s.acks # <<>>
  /\ SetConn(n, m, [s EXCEPT !.acks = Tail(@)])
  /\ Complete(CompletionQueue(n, m), m, Head(s.acks))
  /\ UNCHANGED <<threadVars, meshVars, cmVars, down, busy, failed>>

\* rdma_disconnect: both ends get an event.
Disconnect(n, m) ==
  IF {n, m} \in down
  THEN UNCHANGED <<down, events>>
  ELSE /\ down' = down \cup {{n, m}}
       /\ events' = [events EXCEPT ![Owner(n, m)] = Append(@, <<"DISCONNECTED", m>>),
                                   ![Owner(m, n)] = Append(@, <<"DISCONNECTED", n>>)]

-----------------------------------------------------------------------------
(* Completion threads: poll_cq and on_completion.                          *)

\* The completion thread of n's end with m has a completion of it at hand.
Polled(n, m, recv) ==
  LET o == CompletionQueue(n, m) IN
  /\ busy[o] = Nobody
  /\ cq[o] # <<>>
  /\ Head(cq[o])[1] = m
  /\ (Head(cq[o])[2].op = "recv") = recv

Consume(n, m) == cq' = [cq EXCEPT ![CompletionQueue(n, m)] = Tail(@)]

\* on_recv_finish of any message but DONE posts the receive again, into the same buffer ...
OnRecv(n, m) ==
  LET c == conn[n][m] IN
  /\ Polled(n, m, TRUE)
  /\ c.recv_buffer.type # "DONE"
  /\ Consume(n, m)
  /\ SetConn(n, m, PostReceive(c))
  /\ busy' = [busy EXCEPT ![Owner(n, m)] = <<c.recv_buffer.type, m>>]
  /\ UNCHANGED <<threadVars, meshVars, cmVars, down, failed>>

\* ... and then reads the message.
Working(n, m, type) == busy[Owner(n, m)] = <<type, m>>

OnUser(n, m) ==
  LET c == conn[n][m] IN
  /\ Working(n, m, "USER")
  /\ busy' = [busy EXCEPT ![Owner(n, m)] = Nobody]
  /\ SetConn(n, m, [c EXCEPT !.recv_queue = Append(@, c.recv_buffer.data)])
  /\ UNCHANGED <<threadVars, meshVars, cmVars, down, cq, failed>>

\* A region of the peer is recorded and acknowledged.
OnMeminfo(n, m) ==
  LET c == conn[n][m] IN
  /\ Working(n, m, "MEMINFO")
  /\ busy' = [busy EXCEPT ![Owner(n, m)] = Nobody]
  /\ SetConn(n, m, PostSend([c EXCEPT !.remote = @ \cup {c.recv_buffer.data}],
                            "ACK", NoData, FALSE))
  /\ UNCHANGED <<threadVars, meshVars, cmVars, down, cq, failed>>

OnAck(n, m) ==
  /\ Working(n, m, "ACK")
  /\ busy' = [busy EXCEPT ![Owner(n, m)] = Nobody]
  /\ SemPost(n, "register_memory", m)
  /\ UNCHANGED <<calls, waiting, meshVars, cmVars, conn, down, cq, failed>>

\* Mutant: the connection is closed as soon as the peer's DONE is there.
OnDoneAtOnce(n, m) ==
  LET c == conn[n][m] IN
  /\ Polled(n, m, TRUE)
  /\ c.recv_buffer.type = "DONE"
  /\ Consume(n, m)
  /\ SetConn(n, m, [c EXCEPT !.recv_done = TRUE])
  /\ Disconnect(n, m)
  /\ UNCHANGED <<threadVars, meshVars, ended, busy, failed>>

\* Mutant: the receive is posted again after a DONE too.
OnDoneRearmed(n, m) ==
  LET c == conn[n][m] IN
  /\ Polled(n, m, TRUE)
  /\ c.recv_buffer.type = "DONE"
  /\ Consume(n, m)
  /\ SetConn(n, m, PostReceive([c EXCEPT !.recv_done = TRUE]))
  /\ IF c.sent_done THEN Disconnect(n, m) ELSE UNCHANGED <<down, events>>
  /\ UNCHANGED <<threadVars, meshVars, ended, busy, failed>>

OnDone(n, m) ==
  LET c == conn[n][m] IN
  /\ Polled(n, m, TRUE)
  /\ c.recv_buffer.type = "DONE"
  /\ Consume(n, m)
  /\ SetConn(n, m, [c EXCEPT !.recv_done = TRUE])
  /\ IF c.sent_done THEN Disconnect(n, m) ELSE UNCHANGED <<down, events>>
  /\ UNCHANGED <<threadVars, meshVars, ended, busy, failed>>

\* Mutant: the end that received DONE first leaves the disconnecting to the other.
OnSendNoDisconnect(n, m) ==
  LET c == conn[n][m]  r == Head(cq[CompletionQueue(n, m)])[2] IN
  /\ Polled(n, m, FALSE)
  /\ Consume(n, m)
  /\ SetConn(n, m, [c EXCEPT !.sent_done = @ \/ (r.op = "send" /\ c.send_buffer.type = "DONE")])
  /\ IF r.sem THEN SemPost(n, "completion", m) ELSE NoPost
  /\ UNCHANGED <<calls, waiting, meshVars, cmVars, down, busy, failed>>

\* on_send_finish looks at what the send buffer holds by now; on_rdma_read_finish; the
\* semaphore of the request.
OnSendFinish(n, m) ==
  LET c == conn[n][m]
      r == Head(cq[CompletionQueue(n, m)])[2]
      last == r.op = "send" /\ c.send_buffer.type = "DONE"
  IN
  /\ Polled(n, m, FALSE)
  /\ Consume(n, m)
  /\ SetConn(n, m, [c EXCEPT !.sent_done = @ \/ last])
  /\ IF last /\ c.recv_done THEN Disconnect(n, m) ELSE UNCHANGED <<down, events>>
  /\ IF r.sem THEN SemPost(n, "completion", m) ELSE NoPost
  /\ UNCHANGED <<calls, waiting, meshVars, ended, busy, failed>>

-----------------------------------------------------------------------------
ProgramStep(n) ==
  \/ Start(n) \/ Connect(n) \/ Connected(n) \/ Send(n) \/ Register(n) \/ Done(n)
  \/ Resume(n) \/ Accept(n) \/ Accepted(n) \/ ReceiveId(n) \/ Receive(n) \/ Read(n)

EventLoop(n, m) ==
  \/ OnAddrResolved(n, m) \/ OnRouteResolved(n, m) \/ OnConnection(n, m)
  \/ OnRejected(n, m) \/ OnConnectRequest(n, m) \/ OnServerConnection(n, m)
  \/ OnDisconnect(n, m)

Network(n, m) == Transmit(n, m) \/ Fetch(n, m) \/ Acknowledge(n, m)

CompletionLoop(n, m) ==
  \/ OnRecv(n, m) \/ OnUser(n, m) \/ OnMeminfo(n, m) \/ OnAck(n, m) \/ OnDone(n, m)
  \/ OnSendFinish(n, m)

Pair == {p \in Node \X Node : p[1] # p[2]}

Next ==
  \/ \E n \in Node : ProgramStep(n)
  \/ \E p \in Pair :
       EventLoop(p[1], p[2]) \/ Network(p[1], p[2]) \/ CompletionLoop(p[1], p[2])

Spec == Init /\ [][Next]_vars

-----------------------------------------------------------------------------
(* Properties.                                                             *)

End == [live : BOOLEAN, sends : Seq(Request), acks : Seq(Request), recvs : Nat,
        send_buffer : Message, recv_buffer : Message, recv_queue : Seq(Int),
        remote : SUBSET Int, sent_done : BOOLEAN, recv_done : BOOLEAN]

(* The state has its type; an end of a connection never has more than one receive posted,
   because there is one receive buffer (post_rdma_receive). *)
TypeOK ==
  /\ \A n \in Node : /\ calls[n] = <<>> \/ waiting[n] = Nobody \/ waiting[n][2] \in Node
                     /\ DOMAIN connections[n] \subseteq Int
                     /\ accepted[n] \in Node
                     /\ connSem[n] \in 0 .. 1
                     /\ connQueue[n] \in Seq(Node)
  /\ signalled \subseteq Node /\ badPost \subseteq Node /\ started \subseteq Node
  /\ ended \subseteq Object
  /\ \A n, m \in Node : conn[n][m] \in End /\ conn[n][m].recvs \in 0 .. 1
  /\ down \subseteq {{p[1], p[2]} : p \in Pair}
  /\ failed \subseteq {"read", "receive"} \X Node

(* The connection that connect_mesh records for an id leads to the node with that id, in
   whatever order the peers start, connect and are accepted: the id is read from the very
   connection that accept returned. *)
MeshCorrect == \A n \in Node : \A id \in DOMAIN connections[n] : connections[n][id] = id

(* No thread posts a semaphore that is not there: when ACK, the completion of a request,
   ESTABLISHED or DISCONNECTED is handled, the program thread is still in the call that set
   register_memory_sem, the semaphore of the request, connect_semaphore or
   disconnection_sem.  Both ends are in done before either of them disconnects. *)
SemaphoreLive == badPost = {}

(* Once register_memory with remote access has returned, the peer can read the region: an
   rdma_read of a region whose address the program has sent afterwards never returns -1. *)
ReadRegistered == \A n \in Node : <<"read", n>> \notin failed

(* receive returns what the peer sent: what send took is not lost, changed or repeated on
   the way through the send and the receive buffer of the connection. *)
Delivered == \A n \in Node : <<"receive", n>> \notin failed

(* When a connection goes down neither card has work left on it: no send is pending and no
   receive is posted, as the receive is not posted again after DONE.  Otherwise it would be
   flushed with an error and on_completion would stop the completion thread. *)
NothingFlushed ==
  \A p \in Pair : {p[1], p[2]} \in down =>
     conn[p[1]][p[2]].recvs = 0 /\ conn[p[1]][p[2]].sends = <<>>

\* n's connect to m was rejected: its event loop is over and it waits for ever.
Rejected(n, m) == <<n, m>> \in ended /\ m < n /\ {n, m} \notin down

(* Whenever no thread and no card can take a step, every program has run to its end, through
   connect_mesh and the closing of every connection in the destructor, or some connect was
   rejected: no order of accept, connect and done calls makes the nodes wait for each other
   in a circle.  (Every step uses something up, so every behaviour is finite and comes to
   such a state.) *)
NoStandstill ==
  \/ ENABLED Next
  \/ \A n \in Node : calls[n] = <<>>
  \/ \E p \in Pair : Rejected(p[1], p[2])
=============================================================================
