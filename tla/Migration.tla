------------------------------ MODULE Migration ------------------------------
(***************************************************************************)
(* The migration protocol of RDMAMemoryManager in its default build        *)
(* (PAGING 0, FAULT_TOLERANT 0): allocation of segments, the hand-over     *)
(* Prepare / accept / Transfer / close between two servers, the poller     *)
(* thread, the completion thread that receives messages, and the           *)
(* registration tables of every connection.                                *)
(*                                                                         *)
(* A segment is one cell of the shared address range: all segments have    *)
(* the same size, so an address names a segment.  What a program wrote in  *)
(* a segment is a version number.  A connection delivers in order and once *)
(* what its card reads (IBV_QPT_RC), but every message of a connection     *)
(* goes through one send buffer and one receive buffer: where MayOverlap   *)
(* holds, a message that is posted, or arrives, too early replaces the one *)
(* before it.  RDMAMemory objects are records kept where memory_map or     *)
(* free_map point to them.                                                 *)
(***************************************************************************)
EXTENDS Integers, Sequences, FiniteSets, Functions

CONSTANTS
  NumServers,   \* servers of the configuration file, numbered from 0
  PerServer,    \* segments in the slice of the address range of a server
  MaxSegments,  \* bound: fresh segments handed out in the cluster
  MaxVersion,   \* bound: version a segment can reach
  MaxKeys,      \* bound: registrations a server makes
  MayReuse,     \* programs allocate again a size they have deallocated
  ReuseUnmoved, \* they do so for segments that never migrated only
  MayReturn,    \* segments migrate to a server that has held them before
  MayFail,      \* mmap can fail
  MayOverlap    \* messages meet in the buffers of a connection

ASSUME ConstantsAssumption ==
  /\ NumServers \in Nat \ {0}
  /\ PerServer \in Nat \ {0}
  /\ MaxSegments \in Nat
  /\ MaxVersion \in Nat
  /\ MaxKeys \in Nat
  /\ MayReuse \in BOOLEAN
  /\ ReuseUnmoved \in BOOLEAN
  /\ MayReturn \in BOOLEAN
  /\ MayFail \in BOOLEAN
  /\ MayOverlap \in BOOLEAN

Server == 0 .. NumServers - 1
Addr   == 0 .. NumServers * PerServer - 1

\* Mutant: every slice begins at the first address.
SharedStart(n) == 0

\* start_address and end_address of a server
Start(n) == n * PerServer
End(n)   == Start(n) + PerServer

Unmapped  == -1   \* contents of an address that is not mapped
NoServer  == -1   \* initial value of RDMAMemory::pair
NullAddr  == -1   \* nullptr
Elsewhere == -2   \* what mmap returns when the hint is taken: no segment address
NoKey     == 0    \* no registration

Absent == [state |-> "Absent", owner |-> NoServer, pair |-> NoServer]

\* RDMAMemory(owner, addr, size)
RDMAMemory(n) == [state |-> "Clean", owner |-> n, pair |-> NoServer]

Object ==
  [state : {"Absent", "Clean", "Shared"},
   owner : Server \cup {NoServer},
   pair  : Server \cup {NoServer}]

Message ==
  [type : {"PREPARE", "TRANSFER", "DONE"}, addr : Addr, rkey : Nat]
  \cup [type : {"ACCEPT"}, addr : Addr \cup {Elsewhere}, rkey : Nat]
  \cup [type : {"DECLINE"}, addr : {NullAddr}, rkey : Nat]

\* Where the program of a server is with a segment.
Phase ==
  {"none",        \* the program does not know the segment
   "held",        \* it uses the segment
   "preparing",   \* Prepare called, still using it
   "accepted",    \* PollForAccept returned it, still using it
   "moved",       \* Transfer called, must not use it
   "closed",      \* PollForClose returned it
   "arrived",     \* PollForTransfer returned it, may use it, close not called
   "closing"}     \* in close, between send_close and deregister_memory

VARIABLES
  alloc_address,         \* next fresh address of a server
  free_map,              \* freed RDMAMemory objects of a server
  memory_map,            \* RDMAMemory object of an address on a server
  memory,                \* contents of the mapped addresses of a server
  registrations,         \* registrations[n][p][a]: key of a on n's connection to p
  remote_registrations,  \* key of p's memory that n learnt on that connection
  next_key,              \* next key the adapter of a server gives out
  chan,                  \* chan[s][d]: messages posted by s, not received by d
  fetched,               \* how many of them the card is known to have read
  recv_queue,            \* recv_queue[d][s]: received from s, not yet polled
  incoming_accepts,
  incoming_transfers,
  incoming_dones,
  phase,                 \* phase[n][a]
  visited,               \* servers an address has been prepared for or allocated on
  declined,              \* servers with a DECLINE among their outstanding sends
  halted                 \* servers that crashed or block forever

managerVars == <<alloc_address, free_map, memory_map, memory>>
connVars    == <<registrations, remote_registrations, next_key>>
netVars     == <<chan, fetched, recv_queue, declined>>
queueVars   == <<incoming_accepts, incoming_transfers, incoming_dones>>
appVars     == <<phase, visited>>
vars == <<managerVars, connVars, netVars, queueVars, appVars, halted>>

\* The program may read and write the segment.
Usable(n, a) ==
  phase[n][a] \in {"held", "preparing", "accepted", "arrived", "closing"}

Init ==
  /\ alloc_address = [n \in Server |-> Start(n)]
  /\ free_map = [n \in Server |-> <<>>]
  /\ memory_map = [n \in Server |-> [a \in Addr |-> Absent]]
  /\ memory = [n \in Server |-> [a \in Addr |-> Unmapped]]
  /\ registrations = [n \in Server |-> [p \in Server |-> [a \in Addr |-> NoKey]]]
  /\ remote_registrations = [n \in Server |-> [p \in Server |-> [a \in Addr |-> NoKey]]]
  /\ next_key = [n \in Server |-> 1]
  /\ chan = [s \in Server |-> [d \in Server |-> <<>>]]
  /\ fetched = [s \in Server |-> [d \in Server |-> 0]]
  /\ recv_queue = [d \in Server |-> [s \in Server |-> <<>>]]
  /\ incoming_accepts = [n \in Server |-> <<>>]
  /\ incoming_transfers = [n \in Server |-> <<>>]
  /\ incoming_dones = [n \in Server |-> <<>>]
  /\ phase = [n \in Server |-> [a \in Addr |-> "none"]]
  /\ visited = [a \in Addr |-> {}]
  /\ declined = {}
  /\ halted = {}

-----------------------------------------------------------------------------
(* The connection layer.                                                   *)

Msg(t, a, k) == [type |-> t, addr |-> a, rkey |-> k]

\* The send buffer is written while the card has read the first k messages of q.
Overwritten(q, k, m) == [i \in 1 .. Len(q) |-> IF i <= k THEN q[i] ELSE m]

\* post_rdma_send: copies m into the send buffer of the connection and posts it,
\* whether or not the card has read what was posted before.
Send(s, d, m) ==
  IF MayOverlap
  THEN \E k \in fetched[s][d] .. Len(chan[s][d]) :
         /\ chan' = [chan EXCEPT ![s][d] = Append(Overwritten(@, k, m), m)]
         /\ fetched' = [fetched EXCEPT ![s][d] = k]
  ELSE chan' = [chan EXCEPT ![s][d] = Append(@, m)] /\ UNCHANGED fetched

\* register_memory on the connection of n to p
Register(n, p, a) ==
  /\ registrations' = [registrations EXCEPT ![n][p][a] = next_key[n]]
  /\ next_key' = [next_key EXCEPT ![n] = @ + 1]
  /\ UNCHANGED remote_registrations

\* Mutant: drops every registration of the connection.
DeregisterAll(n, p, a) ==
  /\ registrations' = [registrations EXCEPT ![n][p] = [b \in Addr |-> NoKey]]
  /\ UNCHANGED <<halted, remote_registrations, next_key>>

\* deregister_memory: an address without a registration yields a null ibv_mr,
\* which ibv_dereg_mr dereferences.
Deregister(n, p, a) ==
  /\ IF a \in Addr /\ registrations[n][p][a] # NoKey
     THEN /\ registrations' = [registrations EXCEPT ![n][p][a] = NoKey]
          /\ UNCHANGED halted
     ELSE /\ halted' = halted \cup {n}
          /\ UNCHANGED registrations
  /\ UNCHANGED <<remote_registrations, next_key>>

\* Which of the messages from s is in the receive buffer of d when
\* on_recv_finish, which has posted the buffer again, copies it: the first, or
\* the second if that has arrived by then.
Landed(s, d) == {i \in DOMAIN chan[s][d] : i = 1 \/ (MayOverlap /\ i = 2)}

\* on_recv_finish: the completion thread of d looks at the type of the next
\* message from s, posts the receive buffer and enqueues what it then copies
\* out of it.
OnRecvFinish(s, d) ==
  /\ d \notin halted
  /\ \E i \in Landed(s, d) :
     LET m == chan[s][d][i] IN
     /\ chan' = [chan EXCEPT ![s][d] = Tail(@)]
     /\ fetched' = [fetched EXCEPT ![s][d] = IF @ > i THEN @ - 1 ELSE i - 1]
     /\ recv_queue' = [recv_queue EXCEPT ![d][s] = Append(@, m)]
     /\ remote_registrations' =
          IF Head(chan[s][d]).type = "TRANSFER"
          THEN [remote_registrations EXCEPT ![d][s][m.addr] = m.rkey]
          ELSE remote_registrations
  /\ UNCHANGED <<managerVars, registrations, next_key, declined, queueVars, appVars,
                 halted>>

\* on_send_finish: the completion thread throws for a DECLINE, a message type it
\* does not list; the other types need nothing done.
OnSendFinish(n) ==
  /\ n \in declined \ halted
  /\ halted' = halted \cup {n}
  /\ UNCHANGED <<managerVars, connVars, netVars, queueVars, appVars>>

-----------------------------------------------------------------------------
(* Allocation.                                                             *)

\* allocate(size), no freed object of that size or no mapping for it: take the
\* next address of the slice.  mmap places the segment elsewhere, out of the
\* model, when that address is in use.
AllocateFresh(n) ==
  LET a == alloc_address[n] IN
  /\ n \notin halted
  /\ MayReuse => free_map[n] = <<>> \/ MayFail
  /\ a + 1 <= End(n)
  /\ Cardinality({b \in Addr : visited[b] # {}}) < MaxSegments
  /\ alloc_address' = [alloc_address EXCEPT ![n] = @ + 1]
  /\ IF memory[n][a] = Unmapped
     THEN /\ memory' = [memory EXCEPT ![n][a] = 0]
          /\ memory_map' = [memory_map EXCEPT ![n][a] = RDMAMemory(n)]
          /\ phase' = [phase EXCEPT ![n][a] = "held"]
          /\ visited' = [visited EXCEPT ![a] = {n}]
     ELSE UNCHANGED <<memory, memory_map, phase, visited>>
  /\ UNCHANGED <<free_map, connVars, netVars, queueVars, halted>>

\* allocate(size), a freed object of that size exists: map its address again
\* and return it, whatever address mmap chose and whatever the object says.
AllocateFreed(n) ==
  /\ MayReuse
  /\ n \notin halted
  /\ free_map[n] # <<>>
  /\ LET f == Head(free_map[n]) IN
     /\ ReuseUnmoved => visited[f.vaddr] = {n}
     /\ free_map' = [free_map EXCEPT ![n] = Tail(@)]
     /\ memory' = [memory EXCEPT ![n][f.vaddr] = IF @ = Unmapped THEN 0 ELSE @]
     /\ memory_map' = [memory_map EXCEPT ![n][f.vaddr] = f.object]
     /\ phase' = [phase EXCEPT ![n][f.vaddr] = "held"]
     /\ visited' = [visited EXCEPT ![f.vaddr] = {n}]
  /\ UNCHANGED <<alloc_address, connVars, netVars, queueVars, halted>>

\* deallocate(v_addr): unmap and remember the object; memory_map keeps it too.
Deallocate(n, a) ==
  /\ n \notin halted
  /\ phase[n][a] \in {"held", "closed"}
  /\ memory' = [memory EXCEPT ![n][a] = Unmapped]
  /\ free_map' = [free_map EXCEPT ![n] =
                    Append(@, [vaddr |-> a, object |-> memory_map[n][a]])]
  /\ phase' = [phase EXCEPT ![n][a] = "none"]
  /\ UNCHANGED <<alloc_address, memory_map, connVars, netVars, queueVars, visited, halted>>

\* The program writes a segment it may use.
Write(n, a) ==
  /\ n \notin halted
  /\ Usable(n, a)
  /\ memory[n][a] \in 0 .. MaxVersion - 1
  /\ memory' = [memory EXCEPT ![n][a] = @ + 1]
  /\ UNCHANGED <<alloc_address, free_map, memory_map, connVars, netVars, queueVars,
                 appVars, halted>>

-----------------------------------------------------------------------------
(* The calls of the program that sends a segment.                          *)

\* Prepare(v_addr, size, destination): UpdatePair, register_memory,
\* send_prepare.
Prepare(n, a, d) ==
  /\ n \notin halted
  /\ d # n
  /\ phase[n][a] = "held"
  /\ MayReturn \/ d \notin visited[a]
  /\ next_key[n] <= MaxKeys
  /\ memory_map' = [memory_map EXCEPT ![n][a].pair = d]
  /\ Register(n, d, a)
  /\ Send(n, d, Msg("PREPARE", a, next_key[n]))
  /\ phase' = [phase EXCEPT ![n][a] = "preparing"]
  /\ visited' = [visited EXCEPT ![a] = @ \cup {d}]
  /\ UNCHANGED <<alloc_address, free_map, memory, recv_queue, declined, queueVars,
                 halted>>

PollForAccept(n) ==
  /\ n \notin halted
  /\ incoming_accepts[n] # <<>>
  /\ incoming_accepts' = [incoming_accepts EXCEPT ![n] = Tail(@)]
  /\ phase' = [phase EXCEPT ![n][Head(incoming_accepts[n])] = "accepted"]
  /\ UNCHANGED <<managerVars, connVars, netVars, incoming_transfers, incoming_dones,
                 visited, halted>>

\* Mutant: registers the segment again and sends the key of the first time.
TransferRegistersAgain(n, a) ==
  LET d == memory_map[n][a].pair IN
  /\ n \notin halted
  /\ phase[n][a] = "accepted"
  /\ memory_map' = [memory_map EXCEPT ![n][a].owner = d, ![n][a].state = "Shared"]
  /\ phase' = [phase EXCEPT ![n][a] = "moved"]
  /\ Register(n, d, a)
  /\ Send(n, d, Msg("TRANSFER", a, registrations[n][d][a]))
  /\ UNCHANGED <<alloc_address, free_map, memory, recv_queue, declined, queueVars, visited, halted>>

\* Transfer(vaddr, size, pair) with the fields of the accepted RDMAMemory;
\* send_transfer reads the key of the registration.
Transfer(n, a) ==
  LET d == memory_map[n][a].pair IN
  /\ n \notin halted
  /\ phase[n][a] = "accepted"
  /\ memory_map' = [memory_map EXCEPT ![n][a].owner = d, ![n][a].state = "Shared"]
  /\ phase' = [phase EXCEPT ![n][a] = "moved"]
  /\ IF registrations[n][d][a] # NoKey
     THEN Send(n, d, Msg("TRANSFER", a, registrations[n][d][a])) /\ UNCHANGED halted
     ELSE halted' = halted \cup {n} /\ UNCHANGED <<chan, fetched>>
  /\ UNCHANGED <<alloc_address, free_map, memory, connVars, recv_queue, declined,
                 queueVars, visited>>

PollForClose(n) ==
  /\ n \notin halted
  /\ incoming_dones[n] # <<>>
  /\ incoming_dones' = [incoming_dones EXCEPT ![n] = Tail(@)]
  /\ phase' = [phase EXCEPT ![n][Head(incoming_dones[n])] = "closed"]
  /\ UNCHANGED <<managerVars, connVars, netVars, incoming_accepts, incoming_transfers,
                 visited, halted>>

(* The calls of the program that receives a segment.                       *)

PollForTransfer(n) ==
  /\ n \notin halted
  /\ incoming_transfers[n] # <<>>
  /\ incoming_transfers' = [incoming_transfers EXCEPT ![n] = Tail(@)]
  /\ phase' = [phase EXCEPT ![n][Head(incoming_transfers[n])] = "arrived"]
  /\ UNCHANGED <<managerVars, connVars, netVars, incoming_accepts, incoming_dones,
                 visited, halted>>

\* Mutant: the DONE does not say which segment.
CloseUnnamed(n, a) ==
  /\ n \notin halted
  /\ phase[n][a] = "arrived"
  /\ memory_map' = [memory_map EXCEPT ![n][a].state = "Clean"]
  /\ Send(n, memory_map[n][a].pair, Msg("DONE", NullAddr, NoKey))
  /\ phase' = [phase EXCEPT ![n][a] = "closing"]
  /\ UNCHANGED <<alloc_address, free_map, memory, connVars, recv_queue, declined,
                 queueVars, visited, halted>>

\* close(vaddr, size, pair): UpdateState and send_close, then
\* deregister_memory, before which the DONE may already be handled.
Close(n, a) ==
  /\ n \notin halted
  /\ phase[n][a] = "arrived"
  /\ memory_map' = [memory_map EXCEPT ![n][a].state = "Clean"]
  /\ Send(n, memory_map[n][a].pair, Msg("DONE", a, NoKey))
  /\ phase' = [phase EXCEPT ![n][a] = "closing"]
  /\ UNCHANGED <<alloc_address, free_map, memory, connVars, recv_queue, declined,
                 queueVars, visited, halted>>

CloseDeregister(n, a) ==
  /\ n \notin halted
  /\ phase[n][a] = "closing"
  /\ Deregister(n, memory_map[n][a].pair, a)
  /\ phase' = [phase EXCEPT ![n][a] = "held"]
  /\ UNCHANGED <<managerVars, netVars, queueVars, visited>>

-----------------------------------------------------------------------------
(* The poller thread: one action per message type.  GetMessage(n, s, t)    *)
(* takes the next message of type t from s.                                *)

GetMessage(n, s, t) ==
  /\ n \notin halted
  /\ recv_queue[n][s] # <<>>
  /\ Head(recv_queue[n][s]).type = t
  /\ recv_queue' = [recv_queue EXCEPT ![n][s] = Tail(@)]

\* memory_map.find(addr) succeeds.  The handlers use the iterator without a
\* test: the server crashes when it does not.
Known(n, a) == a \in Addr /\ memory_map[n][a] # Absent

\* Mutants of accept: it hands the segment to the program at once, or forgets the
\* pair.
AcceptHandsOut(n, s) ==
  LET a == Head(recv_queue[n][s]).addr IN
  /\ GetMessage(n, s, "PREPARE")
  /\ Register(n, s, a)
  /\ memory' = [memory EXCEPT ![n][a] = 0]
  /\ memory_map' = [memory_map EXCEPT ![n][a] = [RDMAMemory(n) EXCEPT !.pair = s]]
  /\ Send(n, s, Msg("ACCEPT", a, NoKey))
  /\ incoming_transfers' = [incoming_transfers EXCEPT ![n] = Append(@, a)]
  /\ UNCHANGED <<alloc_address, free_map, declined, incoming_accepts, incoming_dones, appVars, halted>>

AcceptUnpaired(n, s) ==
  LET a == Head(recv_queue[n][s]).addr IN
  /\ GetMessage(n, s, "PREPARE")
  /\ Register(n, s, a)
  /\ memory' = [memory EXCEPT ![n][a] = 0]
  /\ memory_map' = [memory_map EXCEPT ![n][a] = RDMAMemory(n)]
  /\ Send(n, s, Msg("ACCEPT", a, NoKey))
  /\ UNCHANGED <<alloc_address, free_map, declined, queueVars, appVars, halted>>

\* accept: mmap gives the address that was asked for when it is free here,
\* another one when it is not; the address asked for is registered in both
\* cases, the address obtained is sent back.
Accept(n, s) ==
  LET a == Head(recv_queue[n][s]).addr IN
  /\ GetMessage(n, s, "PREPARE")
  /\ Register(n, s, a)
  /\ IF memory[n][a] = Unmapped
     THEN /\ memory' = [memory EXCEPT ![n][a] = 0]
          /\ memory_map' = [memory_map EXCEPT ![n][a] = [RDMAMemory(n) EXCEPT !.pair = s]]
          /\ Send(n, s, Msg("ACCEPT", a, NoKey))
     ELSE /\ Send(n, s, Msg("ACCEPT", Elsewhere, NoKey))
          /\ UNCHANGED <<memory, memory_map>>
  /\ UNCHANGED <<alloc_address, free_map, declined, queueVars, appVars, halted>>

\* accept when mmap fails: send_decline with the null address.
AcceptFails(n, s) ==
  /\ MayFail
  /\ GetMessage(n, s, "PREPARE")
  /\ Send(n, s, Msg("DECLINE", NullAddr, NoKey))
  /\ declined' = declined \cup {n}
  /\ UNCHANGED <<managerVars, connVars, queueVars, appVars, halted>>

OnAccept(n, s) ==
  LET a == Head(recv_queue[n][s]).addr IN
  /\ GetMessage(n, s, "ACCEPT")
  /\ IF Known(n, a)
     THEN /\ incoming_accepts' = [incoming_accepts EXCEPT ![n] = Append(@, a)]
          /\ UNCHANGED halted
     ELSE halted' = halted \cup {n} /\ UNCHANGED incoming_accepts
  /\ UNCHANGED <<managerVars, connVars, chan, fetched, declined, incoming_transfers,
                 incoming_dones, appVars>>

OnDecline(n, s) ==
  /\ GetMessage(n, s, "DECLINE")
  /\ Deregister(n, s, Head(recv_queue[n][s]).addr)
  /\ UNCHANGED <<managerVars, chan, fetched, declined, queueVars, appVars>>

\* rdma_read finds a local and a remote registration of the region.
Registered(n, s, a) ==
  registrations[n][s][a] # NoKey /\ remote_registrations[n][s][a] # NoKey

\* The read completes: the key n learnt from s is that of a live registration.
ReadCompletes(n, s, a) ==
  s \notin halted /\ remote_registrations[n][s][a] = registrations[s][n][a]

\* Mutant: marks the segment Clean without pulling it.
OnTransferNoPull(n, s) ==
  LET a == Head(recv_queue[n][s]).addr IN
  /\ GetMessage(n, s, "TRANSFER")
  /\ memory_map' = [memory_map EXCEPT ![n][a].state = "Clean"]
  /\ incoming_transfers' = [incoming_transfers EXCEPT ![n] = Append(@, a)]
  /\ UNCHANGED <<alloc_address, free_map, memory, connVars, chan, fetched, declined, incoming_accepts,
                 incoming_dones, appVars, halted>>

\* on_transfer: Pull, whose result is ignored, then UpdateState; a read that
\* fails never posts the semaphore the poller waits for.
OnTransfer(n, s) ==
  LET a == Head(recv_queue[n][s]).addr IN
  /\ GetMessage(n, s, "TRANSFER")
  /\ IF Known(n, a) /\ (Registered(n, s, a) => ReadCompletes(n, s, a))
     THEN /\ memory' = IF Registered(n, s, a)
                       THEN [memory EXCEPT ![n][a] = memory[s][a]]
                       ELSE memory
          /\ memory_map' = [memory_map EXCEPT ![n][a].state = "Clean"]
          /\ incoming_transfers' = [incoming_transfers EXCEPT ![n] = Append(@, a)]
          /\ UNCHANGED halted
     ELSE /\ halted' = halted \cup {n}
          /\ UNCHANGED <<memory, memory_map, incoming_transfers>>
  /\ UNCHANGED <<alloc_address, free_map, connVars, chan, fetched, declined, incoming_accepts,
                 incoming_dones, appVars>>

\* Mutant: leaves the segment registered.
OnCloseStaysRegistered(n, s) ==
  LET a == Head(recv_queue[n][s]).addr IN
  /\ GetMessage(n, s, "DONE")
  /\ incoming_dones' = [incoming_dones EXCEPT ![n] = Append(@, a)]
  /\ UNCHANGED <<managerVars, connVars, chan, fetched, declined, incoming_accepts, incoming_transfers,
                 appVars, halted>>

\* on_close
OnClose(n, s) ==
  LET a == Head(recv_queue[n][s]).addr IN
  /\ GetMessage(n, s, "DONE")
  /\ Deregister(n, s, a)
  /\ incoming_dones' = [incoming_dones EXCEPT ![n] = Append(@, a)]
  /\ UNCHANGED <<managerVars, chan, fetched, declined, incoming_accepts, incoming_transfers,
                 appVars>>

Poller(n, s) ==
  \/ Accept(n, s)
  \/ AcceptFails(n, s)
  \/ OnAccept(n, s)
  \/ OnDecline(n, s)
  \/ OnTransfer(n, s)
  \/ OnClose(n, s)

-----------------------------------------------------------------------------

Next ==
  \/ \E s, d \in Server : OnRecvFinish(s, d)
  \/ \E n \in Server : OnSendFinish(n)
  \/ \E n, s \in Server : Poller(n, s)
  \/ \E n \in Server : AllocateFresh(n)
  \/ \E n \in Server : AllocateFreed(n)
  \/ \E n \in Server, a \in Addr : Deallocate(n, a)
  \/ \E n \in Server, a \in Addr : Write(n, a)
  \/ \E n, d \in Server, a \in Addr : Prepare(n, a, d)
  \/ \E n \in Server : PollForAccept(n)
  \/ \E n \in Server, a \in Addr : Transfer(n, a)
  \/ \E n \in Server : PollForTransfer(n)
  \/ \E n \in Server, a \in Addr : Close(n, a)
  \/ \E n \in Server, a \in Addr : CloseDeregister(n, a)
  \/ \E n \in Server : PollForClose(n)

Spec == Init /\ [][Next]_vars

-----------------------------------------------------------------------------
(* Properties.                                                             *)

\* Every variable has its type.
TypeOK ==
  /\ alloc_address \in [Server -> Nat]
  /\ \A n \in Server : alloc_address[n] \in Start(n) .. End(n)
  /\ free_map \in [Server -> Seq([vaddr : Addr, object : Object])]
  /\ memory_map \in [Server -> [Addr -> Object]]
  /\ memory \in [Server -> [Addr -> Nat \cup {Unmapped}]]
  /\ registrations \in [Server -> [Server -> [Addr -> Nat]]]
  /\ remote_registrations \in [Server -> [Server -> [Addr -> Nat]]]
  /\ next_key \in [Server -> Nat \ {0}]
  /\ chan \in [Server -> [Server -> Seq(Message)]]
  /\ fetched \in [Server -> [Server -> Nat]]
  /\ recv_queue \in [Server -> [Server -> Seq(Message)]]
  /\ incoming_accepts \in [Server -> Seq(Addr)]
  /\ incoming_transfers \in [Server -> Seq(Addr)]
  /\ incoming_dones \in [Server -> Seq(Addr)]
  /\ phase \in [Server -> [Addr -> Phase]]
  /\ visited \in [Addr -> SUBSET Server]
  /\ declined \subseteq Server
  /\ halted \subseteq Server

\* Messages from s to d that d's poller has not handled.
Pending(s, d) == Range(chan[s][d]) \cup Range(recv_queue[d][s])

\* Two programs never use the same segment at once: Transfer gives it up before
\* PollForTransfer hands it out.
SingleHolder ==
  \A m, n \in Server, a \in Addr : Usable(m, a) /\ Usable(n, a) => m = n

\* No server crashes or waits for ever: the handlers find the addresses and the
\* registrations that they use without a test.
NoCrash == halted = {}

\* The address at the end of the part of the slice already handed out is free on
\* this server (the assertion after mmap in allocate).
BumpAddressFree ==
  \A n \in Server : alloc_address[n] < End(n) => memory[n][alloc_address[n]] = Unmapped

\* A segment that its program prepares is Clean (the assertion in Prepare).
PrepareFindsClean ==
  \A n \in Server, a \in Addr : phase[n][a] = "preparing" => memory_map[n][a].state = "Clean"

\* The destination of a migration maps the segment at its address on the source
\* (the assertion after mmap in the allocate that accept calls).
AcceptAtTarget ==
  \A s, d \in Server : \A m \in Pending(s, d) : m.addr # Elsewhere

\* The key that a TRANSFER carries stays that of a live registration of the
\* sender until the receiver has pulled the segment.
ReadKeyLive ==
  \A s, d \in Server : \A m \in Pending(s, d) :
    m.type = "TRANSFER" => m.rkey = registrations[s][d][m.addr] /\ m.rkey # NoKey

\* Memory that is registered with an adapter is mapped: a segment is never
\* unmapped between register_memory and deregister_memory.
RegisteredIsMapped ==
  \A n, p \in Server, a \in Addr : registrations[n][p][a] # NoKey => memory[n][a] # Unmapped

\* register_memory never replaces a live registration, whose ibv_mr nobody could
\* release any more.
NoRegistrationLeak ==
  [][\A n, p \in Server, a \in Addr :
       registrations[n][p][a] # NoKey => registrations'[n][p][a] \in {registrations[n][p][a], NoKey}]_vars

pair(n, a) == memory_map[n][a].pair

\* A message of type t about a is on its way from s to d.
Token(s, d, t, a) == \E m \in Pending(s, d) : m.type = t /\ m.addr = a

\* The segment a was given up by s and its destination program has not got it.
InTransit(s, a) ==
  LET d == pair(s, a) IN
  /\ phase[s][a] = "moved"
  /\ \/ Token(s, d, "TRANSFER", a)
     \/ a \in Range(incoming_transfers[d]) /\ pair(d, a) = s

Nobody == -1
Moving == -2

ownerOf ==
  [a \in Addr |->
     IF \E n \in Server : Usable(n, a) THEN CHOOSE n \in Server : Usable(n, a)
     ELSE IF \E s \in Server : InTransit(s, a) THEN Moving
     ELSE Nobody]

valueOf ==
  [a \in Addr |->
     CASE ownerOf[a] \in Server -> memory[ownerOf[a]][a]
       [] ownerOf[a] = Moving   -> memory[CHOOSE s \in Server : InTransit(s, a)][a]
       [] OTHER                 -> 0]

Abstract == INSTANCE Ownership WITH owner <- ownerOf, value <- valueOf

\* The protocol implements Ownership: a segment has one owner, and arrives with
\* the contents its last owner left, through any number of migrations.
RefinesOwnership == Abstract!Spec

-----------------------------------------------------------------------------
(* Why SingleHolder and ReadKeyLive hold: at every moment of a hand-over    *)
(* exactly one message or queue entry carries it on, which fixes the phase *)
(* of both programs and who they are paired with.                          *)

\* d has mapped a for s, and its program does not know yet.
Reserved(d, s, a) == phase[d][a] = "none" /\ memory[d][a] # Unmapped /\ pair(d, a) = s

\* s and d are the two ends of a hand-over of a that s has given up.
Given(s, d, a) == phase[s][a] = "moved" /\ pair(s, a) = d /\ pair(d, a) = s

\* The hand-over back to s is over for d, but not for s.
Finishing(s, d, a) == Token(d, s, "DONE", a) \/ a \in Range(incoming_dones[s])

\* An address of a slice beyond alloc_address is unknown to every server.
FreshUnknown ==
  \A m, n \in Server, a \in Addr :
    alloc_address[n] <= a /\ a < End(n) => phase[m][a] = "none" /\ memory[m][a] = Unmapped

\* What a program knows is mapped, and Clean while it uses it.
KnownMapped ==
  \A n \in Server, a \in Addr :
    /\ phase[n][a] # "none" => memory[n][a] # Unmapped
    /\ Usable(n, a) => memory_map[n][a].state = "Clean"

\* From Prepare to PollForAccept.
PrepareSent ==
  \A s, d \in Server, a \in Addr : Token(s, d, "PREPARE", a) =>
    /\ phase[s][a] = "preparing" /\ pair(s, a) = d
    /\ ~Token(d, s, "ACCEPT", a) /\ a \notin Range(incoming_accepts[s])

AcceptSent ==
  \A s, d \in Server, a \in Addr : Token(d, s, "ACCEPT", a) =>
    /\ phase[s][a] = "preparing" /\ pair(s, a) = d /\ Reserved(d, s, a)
    /\ a \notin Range(incoming_accepts[s])

AcceptQueued ==
  \A s \in Server, a \in Addr : a \in Range(incoming_accepts[s]) =>
    phase[s][a] = "preparing" /\ pair(s, a) \in Server /\ Reserved(pair(s, a), s, a)

AcceptPolled ==
  \A s \in Server, a \in Addr : phase[s][a] = "accepted" =>
    pair(s, a) \in Server /\ Reserved(pair(s, a), s, a)

\* From Transfer to PollForClose.
TransferSent ==
  \A s, d \in Server, a \in Addr : Token(s, d, "TRANSFER", a) =>
    /\ Given(s, d, a) /\ Reserved(d, s, a) /\ ~Finishing(s, d, a)
    /\ a \notin Range(incoming_transfers[d])

TransferQueued ==
  \A d \in Server, a \in Addr : a \in Range(incoming_transfers[d]) =>
    \E s \in Server : /\ Given(s, d, a) /\ Reserved(d, s, a) /\ ~Finishing(s, d, a)
                      /\ memory_map[d][a].state = "Clean"

TransferPolled ==
  \A d \in Server, a \in Addr : phase[d][a] = "arrived" =>
    \E s \in Server : Given(s, d, a) /\ ~Finishing(s, d, a)

DoneSent ==
  \A s, d \in Server, a \in Addr : Token(d, s, "DONE", a) =>
    phase[s][a] = "moved" /\ pair(s, a) = d /\ a \notin Range(incoming_dones[s])

DoneQueued ==
  \A s \in Server, a \in Addr : a \in Range(incoming_dones[s]) => phase[s][a] = "moved"

MovedPaired ==
  \A s \in Server, a \in Addr : phase[s][a] = "moved" => pair(s, a) \in Server

\* A segment is held by one program, or on its way from one.
OneHolder ==
  \A m, n \in Server, a \in Addr :
    (Usable(m, a) \/ InTransit(m, a)) /\ (Usable(n, a) \/ InTransit(n, a)) => m = n

\* Two messages about one segment in a queue or a channel differ in type.
Distinct(p, q) == p.addr = q.addr /\ p.addr \in Addr => p.type # q.type

AllDistinct(q) == \A i, j \in DOMAIN q : i # j => Distinct(q[i], q[j])

MessagesDistinct ==
  \A s, d \in Server :
    /\ AllDistinct(chan[s][d])
    /\ AllDistinct(recv_queue[d][s])
    /\ \A p \in Range(chan[s][d]), q \in Range(recv_queue[d][s]) : Distinct(p, q)

\* A queue between the poller and the program holds a segment once.
QueuesDistinct ==
  \A n \in Server :
    /\ IsInjective(incoming_accepts[n])
    /\ IsInjective(incoming_transfers[n])
    /\ IsInjective(incoming_dones[n])

\* The hand-over invariant, for programs that never allocate a freed size again.
MigrationInv ==
  /\ TypeOK
  /\ FreshUnknown
  /\ KnownMapped
  /\ PrepareSent /\ AcceptSent /\ AcceptQueued /\ AcceptPolled
  /\ TransferSent /\ TransferQueued /\ TransferPolled
  /\ DoneSent /\ DoneQueued /\ MovedPaired
  /\ OneHolder
  /\ MessagesDistinct
  /\ QueuesDistinct
  /\ ReadKeyLive
=============================================================================
