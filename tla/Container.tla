------------------------------ MODULE Container ------------------------------
(***************************************************************************)
(* RDMAVector and RDMAUnorderedMap: a container whose object, elements and *)
(* memory pool live in one segment, and which moves to another server with *)
(* that segment (RDMAContainerBase, MemoryPool, PoolBasedAllocator).       *)
(*                                                                         *)
(* A segment is a number of cells.  The first three hold the pointer to    *)
(* the pool, the MemoryPool and the address of the container object; the   *)
(* blocks that the allocator hands out follow.  RDMAMemoryManager is       *)
(* reduced to what the containers see of it: the messages of the hand-     *)
(* over, the poller thread, the three incoming queues and the freed        *)
(* segments (the module Migration has it in full, with what happens when   *)
(* mmap fails or when messages meet in a buffer).  A segment keeps its     *)
(* address when it moves.                                                  *)
(***************************************************************************)
EXTENDS Integers, Sequences, FiniteSets

CONSTANTS
  Server,
  Object,       \* container objects of the programs
  Home,         \* Home[o]: the server whose program has o
  Addr,         \* addresses of segments
  BlockSize,    \* sizes of the blocks that an insertion allocates
  MaxUsed,      \* bound: cells handed out, counted from the start of the segment
  MaxMoves,     \* bound: migrations of a container
  Alone,        \* one container of the cluster migrates at a time
  OneAtATime,   \* a program migrates one of its containers after the other
  EarlyReturn,  \* a container goes back before its old source has freed the segment
  MayReuse,     \* programs instantiate a container after they freed a segment
  DestroyGone   \* programs destroy containers that have no segment, or none any more

Null      == "null"
Elsewhere == "elsewhere"   \* where mmap puts a segment whose address is in use
PoolStart == 3   \* sizeof(MemoryPool**) + sizeof(MemoryPool) + sizeof(void*)
ObjectLen == 1   \* sizeof(ContT)

ASSUME ContainerAssumption ==
  /\ Home \in [Object -> Server]
  /\ Null \notin Addr /\ Elsewhere \notin Addr
  /\ BlockSize \subseteq Nat \ {0}
  /\ MaxUsed \in Nat /\ MaxMoves \in Nat
  /\ Alone \in BOOLEAN /\ OneAtATime \in BOOLEAN
  /\ EarlyReturn \in BOOLEAN /\ MayReuse \in BOOLEAN /\ DestroyGone \in BOOLEAN

Unmapped == [mapped |-> FALSE, unused_past |-> 0, slot |-> 0, blocks |-> {}]
Zeroed   == [Unmapped EXCEPT !.mapped = TRUE]

VARIABLES
  mem,          \* mem[n][a]: what server n has mapped at address a
  free_map,     \* free_map[n]: segments that n has deallocated
  pair,         \* pair[n][a]: RDMAMemory::pair
  wire,         \* wire[n][m]: messages <<type, a>> of the hand-over, from n to m
  accepts,      \* incoming_accepts
  transfers,    \* incoming_transfers
  dones,        \* incoming_dones
  mempool,      \* mempool[o]: the segment of the container, or Null
  rdma_memory,  \* rdma_memory[o]: the segment it got from the manager, or Null
  cont,         \* cont[o]: the cell of the container object (vec, cont)
  stage,        \* stage[o]: how far the program is with o
  inserted,     \* inserted[a]: every block ever allocated in the container at a
  moves,        \* migrations so far
  crashed       \* servers whose process touched memory that is not mapped

managerVars == <<pair, wire, accepts, transfers, dones>>
objectVars  == <<mempool, rdma_memory, cont>>
ghostVars   == <<inserted, moves>>
vars == <<mem, free_map, managerVars, objectVars, stage, ghostVars, crashed>>

Stage ==
  {"new",        \* constructed
   "used",       \* it has its segment, and nothing is under way
   "preparing",  \* Prepare called, still used
   "accepted",   \* PollForAccept returned true, still used
   "moved",      \* Transfer called, not used any more
   "gone",       \* PollForClose returned true
   "received",   \* PollForTransfer returned true
   "attached",   \* remote_instantiate called, used, Close not called
   "destroyed"}

Using     == {"used", "preparing", "accepted", "attached"}
Migrating == {"preparing", "accepted", "moved"}

Init ==
  /\ mem = [n \in Server |-> [a \in Addr |-> Unmapped]]
  /\ free_map = [n \in Server |-> <<>>]
  /\ pair = [n \in Server |-> [a \in Addr |-> n]]
  /\ wire = [n \in Server |-> [m \in Server |-> <<>>]]
  /\ accepts = [n \in Server |-> <<>>]
  /\ transfers = [n \in Server |-> <<>>]
  /\ dones = [n \in Server |-> <<>>]
  /\ mempool = [o \in Object |-> Null]
  /\ rdma_memory = [o \in Object |-> Null]
  /\ cont = [o \in Object |-> 0]
  /\ stage = [o \in Object |-> "new"]
  /\ inserted = [a \in Addr |-> {}]
  /\ moves = 0
  /\ crashed = {}

-----------------------------------------------------------------------------
(* The memory pool.                                                        *)

\* The segment that container o has, on its own server.
Segment(o) == mem[Home[o]][mempool[o]]

\* The incoming queues are ThreadsafeQueues.
Enqueue(queue, n, a) == [queue EXCEPT ![n] = Append(@, a)]
Dequeue(queue, n)    == [queue EXCEPT ![n] = Tail(@)]
Peek(queue, n)       == IF queue[n] = <<>> THEN Null ELSE Head(queue[n])

\* RDMAMemoryManager::UpdatePair
UpdatePair(n, a, peer) == pair' = [pair EXCEPT ![n][a] = peer]

\* set_container_address
SetContainerAddress(o, cell) == cont' = [cont EXCEPT ![o] = cell]

Send(n, m, type, a) == wire' = [wire EXCEPT ![n][m] = Append(@, <<type, a>>)]

GoTo(o, s) == stage' = [stage EXCEPT ![o] = s]

\* MemoryPool::allocate: the next cells.  What lies behind the end of the segment is only
\* logged ("OUT OF MEMORY").
PoolAllocate(pool, k) ==
  [pool EXCEPT !.blocks = pool.blocks \cup {<<pool.unused_past, k>>},
               !.unused_past = pool.unused_past + k]

\* RDMAMemoryManager::deallocate
Deallocate(n, a) ==
  /\ mem' = [mem EXCEPT ![n][a] = Unmapped]
  /\ free_map' = [free_map EXCEPT ![n] = Append(@, a)]

\* RDMAMemoryManager::allocate: a segment that was freed here, if there is one, or else one
\* that nobody has had.
Allocate(n, a) ==
  IF free_map[n] = <<>>
  THEN inserted[a] = {} /\ UNCHANGED free_map
  ELSE /\ MayReuse
       /\ a = Head(free_map[n])
       /\ free_map' = [free_map EXCEPT ![n] = Tail(@)]

\* set_up_allocator, on the memory that allocate returned
SetUpAllocator == [Zeroed EXCEPT !.unused_past = PoolStart]

\* instantiate: the segment, the pool in it, and the container object as first block
Instantiate(o, a) ==
  LET pool == PoolAllocate(SetUpAllocator, ObjectLen) IN
  /\ stage[o] = "new"
  /\ Allocate(Home[o], a)
  /\ mem' = [mem EXCEPT ![Home[o]][a] = pool]
  /\ mempool' = [mempool EXCEPT ![o] = a]
  /\ SetContainerAddress(o, PoolStart)
  /\ inserted' = [inserted EXCEPT ![a] = pool.blocks]
  /\ GoTo(o, "used")
  /\ UNCHANGED <<managerVars, rdma_memory, moves, crashed>>

\* push_back, insert, operator[], reserve ...: PoolBasedAllocator::allocate through the
\* pointer at the start of the segment.  Nothing is ever freed.
Insert(o, k) ==
  LET pool == PoolAllocate(Segment(o), k) IN
  /\ stage[o] \in Using
  /\ Segment(o).unused_past + k <= MaxUsed
  /\ IF Segment(o).mapped
     THEN /\ mem' = [mem EXCEPT ![Home[o]][mempool[o]] = pool]
          /\ inserted' = [inserted EXCEPT ![mempool[o]] = @ \cup (pool.blocks \ Segment(o).blocks)]
          /\ UNCHANGED crashed
     ELSE /\ crashed' = crashed \cup {Home[o]}
          /\ UNCHANGED <<mem, inserted>>
  /\ UNCHANGED <<free_map, managerVars, objectVars, stage, moves>>

-----------------------------------------------------------------------------
(* The source of a migration.                                              *)

\* Containers that do not migrate while o does.
Rivals(o) == {p \in Object : Alone \/ (OneAtATime /\ Home[p] = Home[o])}

\* Prepare: packs the address of the container object, then RDMAMemoryManager::Prepare
Prepare(o, d) ==
  LET n == Home[o]  a == mempool[o] IN
  /\ stage[o] = "used" /\ d # n /\ moves < MaxMoves
  /\ \A p \in Rivals(o) : stage[p] \notin Migrating
  /\ EarlyReturn \/ ~mem[d][a].mapped
  /\ mem' = [mem EXCEPT ![n][a].slot = cont[o]]
  /\ UpdatePair(n, a, d)
  /\ Send(n, d, "PREPARE", a)
  /\ moves' = moves + 1
  /\ GoTo(o, "preparing")
  /\ UNCHANGED <<free_map, accepts, transfers, dones, objectVars, inserted, crashed>>

\* PollForAccept peeks at the oldest accept and takes it out of the queue when it is for
\* this container; it returns true in any case.
PollForAccept(o) ==
  LET n == Home[o] IN
  /\ stage[o] = "preparing"
  /\ Peek(accepts, n) # Null
  /\ rdma_memory' = [rdma_memory EXCEPT ![o] = Peek(accepts, n)]
  /\ accepts' = IF Peek(accepts, n) = mempool[o] THEN Dequeue(accepts, n) ELSE accepts
  /\ GoTo(o, "accepted")
  /\ UNCHANGED <<mem, free_map, pair, wire, transfers, dones, mempool, cont, ghostVars, crashed>>

\* Transfer of the segment that PollForAccept left in rdma_memory
Transfer(o) ==
  LET n == Home[o]  a == rdma_memory[o] IN
  /\ stage[o] = "accepted"
  /\ Send(n, pair[n][a], "TRANSFER", a)
  /\ GoTo(o, "moved")
  /\ UNCHANGED <<mem, free_map, pair, accepts, transfers, dones, objectVars, ghostVars, crashed>>

\* PollForClose, and the deallocation of the segment
PollForClose(o) ==
  LET n == Home[o] IN
  /\ stage[o] = "moved"
  /\ Peek(dones, n) = mempool[o]
  /\ dones' = Dequeue(dones, n)
  /\ rdma_memory' = [rdma_memory EXCEPT ![o] = mempool[o]]
  /\ Deallocate(n, mempool[o])
  /\ GoTo(o, "gone")
  /\ UNCHANGED <<pair, wire, accepts, transfers, mempool, cont, ghostVars, crashed>>

-----------------------------------------------------------------------------
(* The target of a migration.                                              *)

\* Mutant: leaves the transfer in the queue.
PollForTransferPeeks(o) ==
  LET n == Home[o] IN
  /\ stage[o] \in {"new", "gone"}
  /\ Peek(transfers, n) # Null
  /\ rdma_memory' = [rdma_memory EXCEPT ![o] = Peek(transfers, n)]
  /\ GoTo(o, "received")
  /\ UNCHANGED <<mem, free_map, managerVars, mempool, cont, ghostVars, crashed>>

\* PollForTransfer
PollForTransfer(o) ==
  LET n == Home[o] IN
  /\ stage[o] \in {"new", "gone"}
  /\ Peek(transfers, n) # Null
  /\ rdma_memory' = [rdma_memory EXCEPT ![o] = Peek(transfers, n)]
  /\ transfers' = Dequeue(transfers, n)
  /\ GoTo(o, "received")
  /\ UNCHANGED <<mem, free_map, pair, wire, accepts, dones, mempool, cont, ghostVars, crashed>>

\* Mutant: sets up the pool again.
InstantiateAfresh(o) ==
  LET n == Home[o]  a == rdma_memory[o] IN
  /\ stage[o] = "received"
  /\ mem' = [mem EXCEPT ![n][a].unused_past = PoolStart + ObjectLen]
  /\ mempool' = [mempool EXCEPT ![o] = a]
  /\ SetContainerAddress(o, mem[n][a].slot)
  /\ GoTo(o, "attached")
  /\ UNCHANGED <<free_map, managerVars, rdma_memory, ghostVars, crashed>>

\* remote_instantiate: the pool is the one in the segment, the container object is where
\* its packed address says.
RemoteInstantiate(o) ==
  LET n == Home[o]  a == rdma_memory[o] IN
  /\ stage[o] = "received"
  /\ mempool' = [mempool EXCEPT ![o] = a]
  /\ SetContainerAddress(o, mem[n][a].slot)
  /\ GoTo(o, "attached")
  /\ UNCHANGED <<mem, free_map, managerVars, rdma_memory, ghostVars, crashed>>

\* Mutant: the receiver frees the segment as the source does.
CloseFrees(o) ==
  LET n == Home[o]  a == rdma_memory[o] IN
  /\ stage[o] = "attached"
  /\ Send(n, pair[n][a], "DONE", a)
  /\ Deallocate(n, a)
  /\ GoTo(o, "used")
  /\ UNCHANGED <<pair, accepts, transfers, dones, objectVars, ghostVars, crashed>>

\* Close
Close(o) ==
  LET n == Home[o]  a == rdma_memory[o] IN
  /\ stage[o] = "attached"
  /\ Send(n, pair[n][a], "DONE", a)
  /\ GoTo(o, "used")
  /\ UNCHANGED <<mem, free_map, pair, accepts, transfers, dones, objectVars, ghostVars, crashed>>

\* ~RDMAContainerBase asks the pool for the address of its segment, also when there is no
\* pool, or none any more after PollForClose, and deallocates the segment.
Destroy(o) ==
  /\ stage[o] = "used" \/ (DestroyGone /\ stage[o] \in {"new", "gone"})
  /\ IF mempool[o] # Null /\ Segment(o).mapped
     THEN Deallocate(Home[o], mempool[o]) /\ UNCHANGED crashed
     ELSE crashed' = crashed \cup {Home[o]} /\ UNCHANGED <<mem, free_map>>
  /\ GoTo(o, "destroyed")
  /\ UNCHANGED <<managerVars, objectVars, ghostVars>>

-----------------------------------------------------------------------------
(* The poller thread of the manager.                                       *)

\* The poller of n has this message from m at hand.
Message(n, m, type) == wire[m][n] # <<>> /\ Head(wire[m][n])[1] = type

Named(n, m) == Head(wire[m][n])[2]

Received(n, m) == wire' = [wire EXCEPT ![m][n] = Tail(@)]

Answer(n, m, type, a) ==
  wire' = [wire EXCEPT ![m][n] = Tail(wire[m][n]),
                       ![n][m] = Append(wire[n][m], <<type, a>>)]

\* accept maps the segment at its address, or elsewhere when that is in use, and answers.
OnPrepare(n, m) ==
  LET a == Named(n, m) IN
  /\ Message(n, m, "PREPARE")
  /\ IF mem[n][a].mapped
     THEN Answer(n, m, "ACCEPT", Elsewhere) /\ UNCHANGED <<mem, pair>>
     ELSE /\ mem' = [mem EXCEPT ![n][a] = Zeroed]
          /\ UpdatePair(n, a, m)
          /\ Answer(n, m, "ACCEPT", a)
  /\ UNCHANGED <<free_map, accepts, transfers, dones, crashed>>

\* on_accept looks the address up in memory_map and uses what it finds without a test.
OnAccept(n, m) ==
  /\ Message(n, m, "ACCEPT")
  /\ Received(n, m)
  /\ IF Named(n, m) = Elsewhere
     THEN crashed' = crashed \cup {n} /\ UNCHANGED accepts
     ELSE accepts' = Enqueue(accepts, n, Named(n, m)) /\ UNCHANGED crashed
  /\ UNCHANGED <<mem, free_map, pair, transfers, dones>>

\* Mutant: the transfer is announced to the program without the pull.
OnTransferUnpulled(n, m) ==
  /\ Message(n, m, "TRANSFER")
  /\ Received(n, m)
  /\ transfers' = Enqueue(transfers, n, Named(n, m))
  /\ UNCHANGED <<mem, free_map, pair, accepts, dones, crashed>>

\* on_transfer pulls the whole segment.
OnTransfer(n, m) ==
  /\ Message(n, m, "TRANSFER")
  /\ Received(n, m)
  /\ mem' = [mem EXCEPT ![n][Named(n, m)] = mem[m][Named(n, m)]]
  /\ transfers' = Enqueue(transfers, n, Named(n, m))
  /\ UNCHANGED <<free_map, pair, accepts, dones, crashed>>

\* Mutant: on_close only deregisters the segment.
OnCloseUnqueued(n, m) ==
  /\ Message(n, m, "DONE")
  /\ Received(n, m)
  /\ UNCHANGED <<mem, free_map, pair, accepts, transfers, dones, crashed>>

OnClose(n, m) ==
  /\ Message(n, m, "DONE")
  /\ Received(n, m)
  /\ dones' = Enqueue(dones, n, Named(n, m))
  /\ UNCHANGED <<mem, free_map, pair, accepts, transfers, crashed>>

Poll(n) ==
  /\ n \notin crashed
  /\ \E m \in Server :
       OnPrepare(n, m) \/ OnAccept(n, m) \/ OnTransfer(n, m) \/ OnClose(n, m)
  /\ UNCHANGED <<objectVars, stage, ghostVars>>

-----------------------------------------------------------------------------
Program(o) ==
  /\ Home[o] \notin crashed
  /\ \/ \E a \in Addr : Instantiate(o, a)
     \/ \E k \in BlockSize : Insert(o, k)
     \/ \E d \in Server : Prepare(o, d)
     \/ Destroy(o)

\* What a program does until it succeeds, once it has begun.
GoOn(o) ==
  /\ Home[o] \notin crashed
  /\ \/ PollForAccept(o) \/ Transfer(o) \/ PollForClose(o)
     \/ PollForTransfer(o) \/ RemoteInstantiate(o) \/ Close(o)

Next ==
  \/ \E o \in Object : Program(o) \/ GoOn(o)
  \/ \E n \in Server : Poll(n)

\* The pollers run, and a program goes on with a migration it has begun.
Fairness ==
  /\ \A n \in Server : WF_vars(Poll(n))
  /\ \A o \in Object : WF_vars(GoOn(o))

Spec == Init /\ [][Next]_vars /\ Fairness

-----------------------------------------------------------------------------
(* Properties.                                                             *)

Cells(b) == b[1] .. b[1] + b[2] - 1

(* No two blocks that the pool of a container has ever handed out share a cell, on whatever
   servers they were allocated, and none covers the header of the segment: the pool and its
   high watermark move with the segment and remote_instantiate takes them as they are. *)
BlocksDisjoint ==
  \A a \in Addr :
    /\ \A b \in inserted[a] : b[1] >= PoolStart
    /\ \A b, c \in inserted[a] : b # c => Cells(b) \cap Cells(c) = {}

(* A container that is in use has every block that was ever allocated in it, and its object is
   where vec or cont says: nothing that was inserted before a migration, or during it until
   Transfer, is missing after it, and Prepare packed the address of the object into the segment
   before the contents were pulled. *)
ContainerIntact ==
  \A o \in Object : stage[o] \in Using =>
    /\ Segment(o).blocks = inserted[mempool[o]]
    /\ cont[o] = PoolStart

(* Two container objects never use the same segment, on one server or on two. *)
OneUser ==
  \A o, p \in Object :
    o # p /\ stage[o] \in Using /\ stage[p] \in Using => mempool[o] # mempool[p]

(* No process touches memory that is not mapped, in the methods of its containers or in the
   poller: a container in use has its segment mapped on its own server, also while another
   server maps, pulls or frees its copy.  The destructor of a container that has no segment
   any more does touch such memory (DestroyGone). *)
NoFault == crashed = {}

(* A migration ends.  A container that was announced is transferred in the end, and a source
   whose segment was closed by the receiver frees it. *)
MigrationEnds ==
  /\ \A o \in Object : stage[o] = "preparing" ~> stage[o] = "moved"
  /\ \A o \in Object :
       (stage[o] = "moved" /\ \E m \in Server : <<"DONE", mempool[o]>> \in {wire[m][Home[o]][i] :
                                                   i \in 1 .. Len(wire[m][Home[o]])})
          ~> stage[o] = "gone"
=============================================================================
