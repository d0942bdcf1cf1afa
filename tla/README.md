# Verification of the RDMA memory migration system

TLA+ models of the system under `src/`, model-checked with TLC on small
instances and, in part, proved with TLAPS for every instance.  `PROJECT.json`
lists the parts of the system, the runs, the source lines every definition
stands for, the hazards and the theorems.

## 1. The system

Servers in a full mesh share one range of virtual addresses.  A program
allocates a *segment* at an address nobody else uses, and later hands it over to
another server, which maps it at the same address and reads its contents over
RDMA.  STL containers can live in a segment and move with it.  The parts:

| part | source | role | model |
|---|---|---|---|
| `RDMAMemoryManager` | `src/distributed-allocator/RDMAMemory.tpp` | allocation, the hand-over, the poller thread, queues to the program | `Migration`, `Ownership` |
| page pulling | same file, `RDMAMemory.hpp` (`sigsegv_advance`), `src/paging/paging.tpp` | demand paging of a transferred segment, prefetching | `Paging` |
| `RDMAMemNode` | `src/distributed-allocator/RDMAMemNode.tpp` | the mesh of connections; addresses, segments and process lists in ZooKeeper; recovery | `Connection` (mesh), `Metadata` |
| `RDMAServerPrototype` | `src/rdma-network/rdma_server_prototype.cpp` | buffers, messages, registrations, reads, the event and completion threads, disconnection | `Connection`; its effect on a hand-over in `Migration`, on reads in `Paging` |
| `RDMAClient`, `RDMAServer` | `src/rdma-network/` | connection set-up | `Connection` |
| `ZooKeeper` wrapper | `src/zookeeper/zookeeper.tpp` | versioned reads and writes | inside `Metadata` |
| containers, `MemoryPool` | `src/c++-containers/`, `mempool.tpp` | STL containers in a segment | `Container` |
| `ThreadsafeQueue`, codecs | `include/utils/miscutils.hpp` | utilities | their effect, inside the others |

The build is chosen by compile-time switches (`miscutils.hpp:22-34`), all 0 by
default.  `Migration`, `Container` and `Connection` model the default build,
`Paging` adds `PAGING` (and, by a constant, `PREFETCHING`), `Metadata` adds
`FAULT_TOLERANT`.  `LogAssert` logs and goes on, so an assertion that fails is a
state the program continues from; the assertions that matter are properties here.

## 2. Modules

### Ownership

What a hand-over promises: a segment is nobody's, or belongs to one server, or
is on its way with its contents unchanged.  `Migration` is shown to implement it
(`RefinesOwnership`), with `ownerOf` and `valueOf` as the refinement mapping: a
segment belongs to the server whose program may use it, and is moving while the
sender is in `moved` and a TRANSFER or an entry of `incoming_transfers` is under
way.

### Migration

State: per server `alloc_address`, `free_map`, `memory_map` (the `RDMAMemory`
objects: `state`, `owner`, `pair`), the mapped `memory`, the registrations of
each connection on both sides, the wire, `recv_queue` and the three `incoming_*`
queues.  `phase` is where the program of a server is with a segment: programs
call Prepare, Transfer and close in the order that `tests/` and `experiments/`
use, and deallocate a segment only when they hold it or PollForClose returned
it.  `halted` collects servers whose process has crashed or whose poller waits
for ever.

Threads that interleave: the program (`AllocateFresh`, `AllocateFreed`,
`Deallocate`, `Write`, `Prepare`, `Transfer`, `Close`, `CloseDeregister`,
`PollFor*`), the poller (`Accept`, `AcceptFails`, `OnAccept`, `OnDecline`,
`OnTransfer`, `OnClose`) and the completion thread (`OnRecvFinish`,
`OnSendFinish`).  `close` is two actions because the DONE it sends can be handled
before it deregisters.

Abstractions: all segments have one size, so an address is a segment number and
`free_map` one list; contents are version numbers; a connection is FIFO and
reliable (`IBV_QPT_RC`).  `mmap` takes its address as a hint: when that is in use
the segment lands `Elsewhere`.  What such a stray segment does afterwards is not
followed further than the ACCEPT that reports it.

A connection has one send buffer, which `post_rdma_send` writes without waiting
for the card to read what was posted before, and one receive buffer, which
`on_recv_finish` posts again before it copies the message.  `MayOverlap` has both:
a new message may replace those the card has not read yet (`Overwritten`,
`fetched`), and the copy may find the next message in the buffer (`Landed`).  A
copy that is half one message and half the next is not modelled.  All runs and the
proofs about the hand-over take `MayOverlap` to be false, that is, they assume that
two messages which follow each other on a connection are far enough apart.

Five constants select what may happen.  `MayReuse`: programs allocate a size that
they freed; `ReuseUnmoved`: only of segments that never moved.  `MayReturn`: a
segment is sent to a server that had it before.  `MayFail`: `mmap` fails.
`MayOverlap`: see above.  Each run says which it allows.

### Paging

One segment at its destination, from `on_transfer` to the DONE that releases the
source.  Every thread runs one of the programs in `Program`: the application,
which writes pages it may access and faults at others, or one of the `Pull*`
methods; the completion thread `CQ` runs the callbacks of asynchronous reads.
Every step that another thread can observe is an action: the compare and swap
(`Claim`), the post of the read under `user_mutex` (`Read`), its completion, the
`mprotect` (`Protect`), the store of the state (`SetPageState`), the increment of
`local_pages` (`CountPage`).  `wr` is the send queue of the connection, whose
reads complete in order.  A synchronous reader keeps `user_mutex` until its read
completes (`user_mutex` holds `CQ` when it is free).

Page arithmetic is that of `Pages`, with both overloads of `getPageSize`.
Assumptions: the segment is aligned and the page size a power of two, so the
mask in `getPageAddress(void*)` is the page's offset; `compare_exchange_weak`
does not fail without reason (it does not on x86); the copy of the page table a
puller makes is one step (every entry is an atomic, and an entry that becomes
Local during the copy is only pulled if its claim succeeds, which it does not).
`max_async_pending` is commented out at `miscutils.hpp:56` although
`RDMAMemory.tpp:906` uses it; `MaxPending` stands for it, 1 as in the comment.
The counter of an asynchronous puller is memory from `malloc`: `Garbage` is what
it may hold, and the runs take 0.

### Metadata

The three kinds of ZooKeeper node and the calls that read and update them.  A
thread (program or poller of a server) makes one request per action, so that
every interleaving of requests is explored: `getAllocationAddress` is
`GetAddress`/`SetAddress`, `createMemorySegmentNode` is `CreateSegment`,
`addToProcessList` is `GetList`/`SetList`, `removeFromProcessList` is
`GetRemove`/`SetRemove`, `deleteMemorySegment` is `GetDelete`/`DeleteSegment`,
`updateSegmentDestination` is `GetSegment`/`SetDestination`,
`cleanMemorySegment` is `GetSegment`/`SetClean`.  A conditional write succeeds when
the version matches.  After a get that failed, `result` is the empty string
(`NoFields` once decoded) and the version in `stat` is uninitialised: it matches
or does not (`Garbage`).  `deallocate` converts the address it decoded, which
throws when there is none (`halted`).  The hand-over is reduced to its messages
and the metadata calls in it.

`Crash` ends a server between any two requests: its mappings, its threads and its
connections are gone, what it wrote to ZooKeeper stays.  `Restart` is the
constructor of a server whose process node exists; it resets the process list.
`Recover`, `GetProcess`, `GetPartition` and `EndRecover` are
`GetPartitionsForProcess`, whose result the program then deallocates as
`tests/fault_tolerance/migration_test.cpp` does.  `QueryLive`, `OnGetPartitions`
and `OnSentPartitions` are `GetLivePartitionsForProcess` and the two messages it
needs; it waits on a semaphore.  A server is assumed not to be started again
while somebody is about to read its old process list (guard of `Restart`): one
who read the new list would deallocate new segments.

### Connection

The mesh.  The program of a node is a sequence of calls: `start`, `connect_mesh`
(connect to every lower id, nearest first, and send its own id; accept the rest
and read theirs), some work, and the destructor of the memory manager, which calls
`done` for every peer.  A node has one `RDMAServer` and one `RDMAClient` per lower
id, each with an event thread and a completion thread.  `events` are the event
channels, `cq` the completion queues, `conn[n][m]` is n's end of a connection:
its one send buffer, its one receive buffer, the posted receives, the send queue
and the requests on which the peer's card has yet to report, the queue to the
program, the regions the peer has announced.  `waiting` is the semaphore the
program thread waits on and `signalled` says that it was posted; a post on a
semaphore that is not there is undefined in the code and lands in `badPost`.
`Transmit`, `Fetch` and `Acknowledge` are the network cards.  A completion is
handled in the two steps the code has: the receive is posted again first
(`OnRecv`), and only then the message is read (`OnUser`, `OnMeminfo`, `OnAck`).

A server that does not listen yet rejects; the client has no case for that event
(it is commented out), its event loop ends and `connect` waits for ever.

Assumptions, each a constant of the module.  `SlowCopy` is false in
`connection_mesh`: the completion thread copies a message out of the receive buffer
before the next one arrives in it.  `ErrorGarbage`: the member `error` of a new
`RDMAClient` is not initialised, and a node for which it holds true gives up its
mesh; the runs take false.  `stop_after_last_conn` of an `RDMAServer` is not
initialised either and is chosen freely (`StopGarbage`).  The programs are those of
`tests/rdma-network` (`TestWork`): one end announces a region and sends its address
and its size, the other receives both and reads the region; neither waits for the
other before it goes on to its destructor.  The event that follows a disconnection
(`TIMEWAIT_EXIT`) is not modelled.

### Container

A container object, its elements and its `MemoryPool` in one segment.  A segment
is a number of cells, the first three for the pointer to the pool, the pool and
the packed address of the object; `Insert` stands for every operation that
allocates.  The manager is reduced to its messages, its poller, its three queues
and the segments it has freed; a PREPARE for an address that is in use is answered
from `Elsewhere`, as in `Migration`.

Five constants say how the programs use their containers.  `OneAtATime`: each
program migrates one of its containers after the other, as all programs of the
repository do; `Alone`: so do all programs of the cluster together.  `EarlyReturn`:
a container goes back to a server that has not freed its segment yet.  `MayReuse`:
a program instantiates a container after it freed a segment, and so gets that
segment again.  `DestroyGone`: a program destroys a container that has no segment,
or none any more.  The destructor then reads `mempool->addr` through a null
pointer, or in memory that `PollForClose` has freed; the programs in `experiments/`
and `tests/` that reach the end of their scope do this.

## 3. Runs

| run | instance | result |
|---|---|---|
| `migration_pair` | 2 servers, 2 segments that cross, reuse of what never moved | hold: `TypeOK`, `SingleHolder`, `AcceptAtTarget`, `ReadKeyLive`, `RegisteredIsMapped`, `RefinesOwnership` |
| `migration_roam` | 3 servers, 1 segment, returns and failures | hold: `MigrationInv` (the invariant of the proof), `NoRegistrationLeak`, `RefinesOwnership` |
| `migration_reuse_target` | 2 servers, reuse | violated: `AcceptAtTarget` |
| `migration_decline` | 2 servers, failures | violated: `NoCrash` |
| `paging_pull` | 3 threads, 2 pages, six assignments of programs, fairness | hold: `TypeOK`, `OpenIsHere`, `CountExact`, `CloseIsLast`, `NoFailure`, `WritesSurvive`, `PullAllPagesCloses`, `FaultServed` |
| `paging_leak` | 2 threads, 3 pages, fairness | violated: `PrefetchEnds` |
| `metadata_allocate` | 2 servers, 2 ids, 3 addresses, one crash, queries, no migration | hold: `TypeOK`, `HeldIsRecorded`, `ListedIsStored`, `RecoveryComplete`, `WaitServed` |
| `metadata_migrate` | 2 servers, 2 ids, 2 addresses, migration | holds: `AddressesDisjoint` |
| `metadata_list` | as above | violated: `ListedIsStored` |
| `connection_mesh` | 3 nodes; node 0 announces a region that node 1 reads | hold: `TypeOK`, `MeshCorrect`, `SemaphoreLive`, `ReadRegistered`, `NothingFlushed`, `NoStandstill` |
| `connection_burst` | 2 nodes, the same programs, `SlowCopy` | violated: `Delivered` |
| `container_migrate` | 2 servers with 2 container objects each, 2 segments, 2 migrations, `OneAtATime`, fairness | hold: `BlocksDisjoint`, `ContainerIntact`, `OneUser`, `NoFault`, `MigrationEnds` |

Every property a passing run checks is also broken by a mutant of a definition it
depends on (`mutants` in `PROJECT.json`).

What the violations show, with the lines they contradict, is under `findings`:
freed addresses are handed out again while the migrated segment lives on
elsewhere; a declined Prepare stops both servers; the asynchronous prefetcher
loses a slot for every page somebody else claims; `removeFromProcessList` drops
the result of its conditional write; of two messages in a row the receiver gets
the second twice.

Where the properties stop, beyond the runs:

* With reuse of a segment that has moved, `SingleHolder`, `NoCrash`, `ReadKeyLive`,
  `RegisteredIsMapped` and `RefinesOwnership` fail too, since two live segments then
  have one address.
* With returns alone, `NoCrash`, `AcceptAtTarget` and `RegisteredIsMapped` fail:
  a sender that has not yet deallocated has the address mapped when the segment
  comes back.  With two segments, returns and failures together `RefinesOwnership`
  fails too, so `migration_roam` has one segment; with two segments on three servers
  and no returns `MigrationInv` holds.
* With `MayOverlap`, `SingleHolder`, `ReadKeyLive` and `NoCrash` fail on two servers
  with two segments: a PREPARE or TRANSFER that is overwritten by another leaves one
  hand-over without its message and the other with two.
* With `SlowCopy` `MeshCorrect` fails too when there are three nodes: a node with
  nothing to do sends its id and then the DONE of its destructor, which can replace the
  id in the receive buffer.  The peer files the connection under an id that nobody has;
  what it does without that peer is not followed.
* `PullPagesAsync` and `PullPagesSync` look a page up by its address where an
  index is wanted, which throws for every page after the first: `paging_pull`
  limits these two to the first page (`UsedSize`), otherwise `NoFailure` fails.
* With a segment that is not a multiple of the page size `OpenIsHere` fails
  (`getPageSize(void*)` returns what the last page lacks).  A program that calls
  `close` before all pages are there finds pages open without their data.
* With migration `HeldIsRecorded`, `ListedIsStored` and (with a crash)
  `RecoveryComplete` fail; `AddressesDisjoint` and `WaitServed` hold.  The source's
  `deallocate` deletes the node that the destination has taken over, and the program
  and the poller of a server lose updates of the process list to each other.  An
  `allocate` that fails leaves its segment node behind, and so does a crash.
* When several containers of one program are on the way at once `OneUser`,
  `ContainerIntact` and `NoFault` fail: `PollForAccept` returns true for a container
  when the oldest accept is another's, and `Transfer` then hands over that one.
* With `EarlyReturn` or `MayReuse` an address can be in use when a container comes to
  it, and the source's poller then uses an address it does not know: `NoFault` fails,
  and with `MayReuse` also `ContainerIntact`.
* With `DestroyGone` `NoFault` fails at once, and `ContainerIntact` when a container
  has come back to the address in the meantime: the old object frees it.
* `NoStandstill` counts a rejected connect as an end, and `WaitServed` the crash of
  the server that was asked: in both cases the program waits for ever.  `WaitServed`
  also takes it that the request and the answer, which are sent without waiting for
  their completion (`rdma_server_prototype.cpp:164`, `:182`), are not overwritten in
  the send buffer.

### Bounds

Three servers let a segment pass through a server that is neither the first nor
the last, and give the mesh a node that both connects and accepts.  Two segments
in opposite directions put messages of both kinds on each connection.
`MaxSegments`, `MaxVersion` and `MaxKeys` bound allocations, writes and
registrations; a hand-over uses one key per side and a chain needs two per
server.  Two pages are the fewest for which a puller skips one, and for which the
count can be short by one; `paging_leak` needs a third, since the prefetcher
stalls only after it lost `MaxPending + 1` races.  With two addresses both ids can
be allocated once; the third of `metadata_allocate` lets an id be allocated again
after a deallocate or a recovery.  `MaxUsed` leaves room for two insertions, before
and after a migration, and two migrations bring a container back, or let two
containers cross.  `metadata_migrate` has no crash: the state space with both does not end in
reasonable time, and the theorem covers it.

### Fairness

`Paging`: every thread and the adapter run; an access that faulted is
repeated by the processor until it succeeds, so `Fault` is fair for the page a
thread is at.  Nothing obliges the application to touch a page.  `Container`: the
pollers run and a program goes on with a migration it has begun, as the loops in
`experiments/container_final/data_transfer.cpp` do.  `Connection` needs none:
every step uses something up, so every behaviour is finite, and `NoStandstill`
says what its last state is like.  `Migration` and `Metadata` are checked for safety
only.

## 4. Proofs

Everything below holds for all values of the constants that meet the named
assumptions of the modules (the kinds of the constants) and the hypotheses given
here.  Section 3 says what fails without them; only `Alone` is a limit of the proof
rather than of the code.

| theorem | statement | hypotheses |
|---|---|---|
| `MigrationProofs!TypeCorrect` | `TypeOK` | none |
| `HandOverProofs!HandOver` | `MigrationInv` | `~MayReuse`, `~MayOverlap` |
| `HandOverProofs!Exclusive`, `KeyLive` | `SingleHolder`, `ReadKeyLive` | the same |
| `HandOverProofs!Assertions` | the assertions of `Prepare` and `allocate` (`PrepareFindsClean`, `BumpAddressFree`) | the same |
| `PagingProofs!TypeCorrect`, `CountCorrect` | `TypeOK`, `CountExact` | none |
| `PagingProofs!PagingHolds`, `OpenCorrect`, `CloseCorrect`, `WritesKept` | `PagingInv`, `OpenIsHere`, `CloseIsLast`, `WritesSurvive` | `WholePages`, `OnlyPullAllCloses` |
| `PagingProofs!FailureFree` | `NoFailure` | these and `IndexInTable` |
| `MetadataProofs!Disjoint`, `TypeCorrect`, `WaitCorrect` | `AddressesDisjoint`, `TypeOK`, `WaitServed` | none: with migration, crashes, restarts and recovery |
| `MetadataRecords!RecordsHold`, `HeldCorrect`, `ListCorrect`, `RecoveryCorrect` | `MetadataInv`, `HeldIsRecorded`, `ListedIsStored`, `RecoveryComplete` | `~MayMigrate`, `[]OneRecoverer` |
| `MetadataRecords!TwoServers`, `PairCorrect` | `OneRecoverer`, and the three without it | two servers, `~MayMigrate` for the second |
| `ContainerProofs!ContainerHolds`, `BlocksCorrect`, `IntactCorrect`, `UserCorrect`, `FaultFree` | `ContainerInv`, `BlocksDisjoint`, `ContainerIntact`, `OneUser`, `NoFault` | `Alone`, `~EarlyReturn`, `~MayReuse`, `~DestroyGone` |

**Hand-over.**  `SingleHolder` is not inductive: whether `PollForTransfer` may hand a
segment out depends on what the sender did before.  `MigrationInv` states, for every
moment of a hand-over, that the one message or queue entry that carries it on fixes
the phase of both programs and who they are paired with: `PrepareSent`, `AcceptSent`,
`AcceptQueued`, `AcceptPolled`, `TransferSent`, `TransferQueued`, `TransferPolled`,
`DoneSent`, `DoneQueued`.  `OneHolder` counts a segment in transit with those in use;
`MessagesDistinct` and `QueuesDistinct` say that no message or entry is doubled, so
that taking one leaves none behind; `FreshUnknown` that nobody knows an address not
yet handed out; `KnownMapped` that what a program knows is mapped.  The proof has one
lemma per action and, in it, one step per conjunct the action can disturb; those that
begin or announce no hand-over are in `MigrationProofs`, the others and the theorems
in `HandOverProofs`.

**Paging.**  `PagingInvariant` has the invariant `PagingInv`: a page in flight has
exactly one thread or pending read at work on it (`OwnInv`), a page is open only when
its data is there (`DataInv`), and whoever ends the migration finds nothing left to
pull (`SettledInv`).  `CountExact` follows from the first, because the page is then
counted once; the count itself needs the theorems about cardinality and is in
`PagingProofs`.

**Metadata.**  `AddressesDisjoint` is not inductive: between the allocator node and
`local_segments` an address is in the locals of a thread, and between two servers in a
PREPARE.  `Claim` collects these places.  `GivenOut` says that every claimed address
is below the value of the allocator node, `OneId` that it is claimed for one id, and
`ReadIsOld` that a thread about to write the node has its present value or an old
version.  Every action but one claims only what was claimed before (lemma
`ClaimsKept`); `SetAddress` claims the value of the node, which nobody has yet, and
raises it.  `AskInv` follows a query to its answer.  `MetadataInv` follows a segment
through the calls that record it and remove its record, through a crash at any point
of them, and through a recovery; `MetadataSteps` has one lemma per action.  Two
servers that recover a third at the same time may both free its segments, hence
`OneRecoverer`, which two servers alone can not break.

**Container.**  `FlowInv` gives for each phase of the migration under way the one
message, queue entry or program that has the segment's turn, which copy of the segment
is whole and who may use it.  With `Alone` there is one such flow; the run has two,
one from each server.

Only model-checked: liveness (`PullAllPagesCloses`, `FaultServed`, `MigrationEnds`)
and `NoStandstill`, which are out of the prover's reach, `RefinesOwnership`,
`AcceptAtTarget`, `RegisteredIsMapped` and `NoRegistrationLeak` of `Migration`, and
all of `Connection`.

## 5. Not modelled

* `Push`, `rdma_write` and the atomic operations: `on_rdma_write_finish` and the
  handlers of the others throw that they are not implemented, so the first
  completion ends the process; nothing in the hand-over uses them.
* `SetPageSize`, ragged segments, and other values of the uninitialised counter
  of the asynchronous pullers.
* A `send` of user data out of a paged segment, whose fault would want the mutex
  that `send` holds; no program does it.
* The memory that `on_disconnect` frees while the completion thread may still
  handle a completion of that connection: `Connection` keeps the end of a
  connection readable.
* Failures of verbs and system calls other than `mmap`: the code ends the process.
* The character loops of the metadata codecs, and the truncation of a process
  list longer than `BUFLEN`.
* ZooKeeper watches and sessions, the creation of the first nodes.
* The ZooKeeper headers (third-party), timers, logging, the configuration file,
  and the experiments other than the order of calls in them.
* A message buffer of which one part is from one message and the rest from the next.

Worth proving next: `RefinesOwnership`, from `MigrationInv`; and the theorems about
containers for `OneAtATime` in place of `Alone`, with one flow per server.
