------------------------------ MODULE Metadata -------------------------------
(***************************************************************************)
(* The metadata of the fault-tolerant build (FAULT_TOLERANT 1) in          *)
(* ZooKeeper: the allocator node that gives out addresses, a node for      *)
(* every memory segment and a process list for every server, and the       *)
(* operations of RDMAMemNode and RDMAMemoryManager that read and update    *)
(* them.  An update reads a node and writes it back on condition of the    *)
(* version it read.  On each server the program and the poller thread      *)
(* interleave at every request to ZooKeeper.  A server can crash and start *)
(* again, which resets its process list, and the others can recover what   *)
(* it had from the metadata, or ask a server that is up what it has.       *)
(*                                                                         *)
(* All segments have the same size, one unit.  A process list is a set:    *)
(* its order is not used and removing an id removes every occurrence.      *)
(***************************************************************************)
EXTENDS Integers, Sequences, FiniteSets

CONSTANTS
  Server,
  Id,             \* application ids of the segments
  MaxAddress,     \* bound: addresses the allocator node can give out
  MayMigrate,     \* programs hand segments over
  MaxCrashes,     \* bound: servers that crash, each at most once
  MayQuery        \* programs ask a server for its live segments

ASSUME ConstantsAssumption ==
  /\ Server \subseteq Int
  /\ Id # {}
  /\ MaxAddress \in Nat
  /\ MayMigrate \in BOOLEAN
  /\ MaxCrashes \in Nat
  /\ MayQuery \in BOOLEAN

Role   == {"app", "poller"}
Thread == Server \X Role

Unset  == -1        \* destination given to createMemorySegmentNode
Empty  == -2        \* destination written by cleanMemorySegment
NoNode == [address |-> 0, source |-> Unset, destination |-> Unset, version |-> -1]

AnyVersion == -1    \* ZooKeeper compares no version
BadVersion == -2

\* The stat of a get that failed is uninitialised: its version matches or does not.
Garbage == {AnyVersion, BadVersion}

\* A server is none of these two values.
ASSUME ServerAssumption == Server \cap {Unset, Empty} = {}

Unmapped == -1

\* What ZStoMAP makes of the empty string that a failed get leaves.
NoFields == [address |-> Unmapped, source |-> Unset, destination |-> Unset, version |-> 0]

Segment ==
  [address : Int, source : Server \cup {Unset}, destination : Server \cup {Unset, Empty},
   version : Nat]

Message ==
  [type : {"PREPARE", "ACCEPT", "TRANSFER", "DONE"}, id : Id, address : Int]
    \cup [type : {"GETPARTITIONS"}]
    \cup [type : {"SENTPARTITIONS"}, list : SUBSET Id]

VARIABLES
  allocator,       \* allocator_node: [data, version]
  segment,         \* segment[i]: the node of id i, or NoNode
  process,         \* process[n]: [list, version]
  local_segments,  \* local_segments[n][i]: address of i mapped on n, or Unmapped
  pair,            \* pair[n][i]: the peer of n's migration of i
  phase,           \* phase[n][i]: how far n's program is with i
  chan,            \* chan[s][d]: messages from s to d
  pc,              \* pc[t]
  id,              \* id[t]: the id thread t works on
  address,         \* address[t]
  result,          \* result[t]: what its last get returned
  version,         \* version[t]: stat.version of that get
  halted,          \* servers ended by an exception
  down,            \* servers that crashed and have not started again
  lost,            \* servers that have crashed; their connections are gone
  had,             \* had[n]: the <<id, address>> that n's program held when n crashed
  asked,           \* asked[n]: the server whose segments n's program asks for
  partitions,      \* partitions[n]: what GetPartitionsForProcess has returned to it
  recovered        \* recovered[n]: servers whose segments it has asked for

zkVars     == <<allocator, segment, process>>
memVars    == <<local_segments, pair>>
threadVars == <<pc, id, address, result, version>>
crashVars  == <<down, lost, had>>
askVars    == <<asked, partitions, recovered>>
vars == <<zkVars, memVars, phase, chan, threadVars, halted, crashVars, askVars>>

NoResult == "none"
FirstId == CHOOSE i \in Id : TRUE

Init ==
  /\ allocator = [data |-> 0, version |-> 0]
  /\ segment = [i \in Id |-> NoNode]
  /\ process = [n \in Server |-> [list |-> {}, version |-> 0]]
  /\ local_segments = [n \in Server |-> [i \in Id |-> Unmapped]]
  /\ pair = [n \in Server |-> [i \in Id |-> Unset]]
  /\ phase = [n \in Server |-> [i \in Id |-> "none"]]
  /\ chan = [s \in Server |-> [d \in Server |-> <<>>]]
  /\ pc = [t \in Thread |-> "idle"]
  /\ id = [t \in Thread |-> FirstId]
  /\ address = [t \in Thread |-> 0]
  /\ result = [t \in Thread |-> NoResult]
  /\ version = [t \in Thread |-> 0]
  /\ halted = {}
  /\ down = {}
  /\ lost = {}
  /\ had = [n \in Server |-> {}]
  /\ asked = [n \in Server |-> Unset]
  /\ partitions = [n \in Server |-> {}]
  /\ recovered = [n \in Server |-> {}]

-----------------------------------------------------------------------------

At(t, label) == t[1] \notin halted \cup down /\ pc[t] = label

Goto(t, label) == pc' = [pc EXCEPT ![t] = label]

\* Thread t begins at label an operation on i.
Begin(t, label, i) ==
  /\ pc' = [pc EXCEPT ![t] = label]
  /\ id' = [id EXCEPT ![t] = i]

\* Thread t returns from its operation, and has no use for its locals any more.
Return(t) ==
  /\ pc' = [pc EXCEPT ![t] = "idle"]
  /\ id' = [id EXCEPT ![t] = FirstId]
  /\ address' = [address EXCEPT ![t] = 0]
  /\ result' = [result EXCEPT ![t] = NoResult]
  /\ version' = [version EXCEPT ![t] = 0]

\* zk->get
Get(t, data, v) ==
  /\ result' = [result EXCEPT ![t] = data]
  /\ version' = [version EXCEPT ![t] = v]

\* zk->set and zk->remove succeed with the version thread t has for the node.
Matches(t, node) == node # NoNode /\ version[t] \in {AnyVersion, node.version}

\* zk->create fails when the node exists, zk->remove when it has another version.
Create(i, node) == segment' = IF segment[i] = NoNode THEN [segment EXCEPT ![i] = node] ELSE segment
Remove(t, i)    == segment' = IF Matches(t, segment[i]) THEN [segment EXCEPT ![i] = NoNode]
                              ELSE segment

\* getMemorySegment
GetMemorySegment(i) == IF segment[i] = NoNode THEN NoFields ELSE segment[i]

\* ZStoProcessList, the removal of every occurrence of i, and ProcessListtoZS
WithoutId(list, i) == list \ {i}

\* RDMAMemoryManager::UpdatePair
UpdatePair(n, i, peer) == pair' = [pair EXCEPT ![n][i] = peer]

Send(s, d, type, i, a) ==
  chan' = [chan EXCEPT ![s][d] = Append(@, [type |-> type, id |-> i, address |-> a])]

SetPhase(n, i, p) == phase' = [phase EXCEPT ![n][i] = p]

-----------------------------------------------------------------------------
(* allocate(size, application_id)                                          *)

BeginAllocate(n, i) ==
  /\ At(<<n, "app">>, "idle")
  /\ phase[n][i] = "none"
  /\ Begin(<<n, "app">>, "getAddress", i)
  /\ UNCHANGED <<zkVars, memVars, phase, chan, address, result, version, halted>>

\* getAllocationAddress: get
GetAddress(t) ==
  /\ At(t, "getAddress")
  /\ allocator.data < MaxAddress
  /\ Get(t, allocator.data, allocator.version)
  /\ Goto(t, "setAddress")
  /\ UNCHANGED <<zkVars, memVars, phase, chan, id, address, halted>>

\* Mutant: the version -1 matches every version.
SetAddressAnyVersion(t) ==
  /\ At(t, "setAddress")
  /\ allocator' = [data |-> result[t] + 1, version |-> allocator.version + 1]
  /\ address' = [address EXCEPT ![t] = result[t]]
  /\ Goto(t, "create")
  /\ UNCHANGED <<segment, process, memVars, phase, chan, id, result, version, halted>>

\* getAllocationAddress: set, again from the start when it fails; then mmap.
SetAddress(t) ==
  /\ At(t, "setAddress")
  /\ IF version[t] = allocator.version
     THEN /\ allocator' = [data |-> result[t] + 1, version |-> allocator.version + 1]
          /\ address' = [address EXCEPT ![t] = result[t]]
          /\ Goto(t, "create")
     ELSE Goto(t, "getAddress") /\ UNCHANGED <<allocator, address>>
  /\ UNCHANGED <<segment, process, memVars, phase, chan, id, result, version, halted>>

\* Mutant: creating a node that exists overwrites it.
CreateOver(t) ==
  /\ At(t, "create")
  /\ segment' = [segment EXCEPT ![id[t]] =
                   [address |-> address[t], source |-> t[1], destination |-> Unset,
                    version |-> 0]]
  /\ Goto(t, "getList")
  /\ UNCHANGED <<allocator, process, memVars, phase, chan, id, address, result, version, halted>>

\* createMemorySegmentNode; when the node exists the memory is unmapped.
CreateSegment(t) ==
  /\ At(t, "create")
  /\ Create(id[t], [address |-> address[t], source |-> t[1], destination |-> Unset, version |-> 0])
  /\ IF segment[id[t]] = NoNode
     THEN Goto(t, "getList") /\ UNCHANGED <<id, address, result, version>>
     ELSE Return(t)
  /\ UNCHANGED <<allocator, process, memVars, phase, chan, halted>>

\* addToProcessList: get
GetList(t) ==
  /\ At(t, "getList")
  /\ Get(t, process[t[1]].list, process[t[1]].version)
  /\ Goto(t, "setList")
  /\ UNCHANGED <<zkVars, memVars, phase, chan, id, address, halted>>

\* Mutants: the address is added for the id, and the new list has the new id only.
SetListAddress(t) ==
  /\ At(t, "setList")
  /\ process' = [process EXCEPT ![t[1]] = [list |-> result[t] \cup {address[t]},
                                          version |-> @.version + 1]]
  /\ Return(t)
  /\ UNCHANGED <<allocator, segment, memVars, phase, chan, halted>>

SetListOverwrites(t) ==
  /\ At(t, "setList")
  /\ t[2] = "app"
  /\ process' = [process EXCEPT ![t[1]] = [list |-> {id[t]}, version |-> @.version + 1]]
  /\ local_segments' = [local_segments EXCEPT ![t[1]][id[t]] = address[t]]
  /\ SetPhase(t[1], id[t], "held")
  /\ Return(t)
  /\ UNCHANGED <<allocator, segment, pair, chan, halted>>

\* The end of allocate: it undoes the mapping when addToProcessList has failed, and leaves
\* the segment node.
EndAllocate(n, i, a, added) ==
  IF added
  THEN local_segments' = [local_segments EXCEPT ![n][i] = a] /\ SetPhase(n, i, "held")
  ELSE UNCHANGED <<local_segments, phase>>

\* addToProcessList: set; accept goes on whether it fails or not.
SetList(t) ==
  LET n == t[1]
      i == id[t]
      done == version[t] = process[n].version
  IN
  /\ At(t, "setList")
  /\ process' = IF done
                THEN [process EXCEPT ![n] = [list |-> result[t] \cup {i}, version |-> @.version + 1]]
                ELSE process
  /\ IF t[2] = "app"
     THEN EndAllocate(n, i, address[t], done) /\ UNCHANGED chan
     ELSE /\ Send(n, pair[n][i], "ACCEPT", i, address[t])
          /\ UNCHANGED <<local_segments, phase>>
  /\ Return(t)
  /\ UNCHANGED <<allocator, segment, pair, halted>>

-----------------------------------------------------------------------------
(* deallocate(application_id), for a segment the program holds or has      *)
(* handed over, or that it cleans up after the server that had it.         *)

\* The program of n has found i among the segments of a server that crashed.
Recovered(n, i) == pc[<<n, "app">>] = "idle" /\ \E p \in partitions[n] : p.id = i

\* getMemorySegment; converting an address that is not there throws.  The memory is
\* unmapped when the address is found in local_segments.
Deallocate(n, i) ==
  LET t == <<n, "app">> IN
  /\ At(t, "idle")
  /\ phase[n][i] \in {"held", "closed"} \/ Recovered(n, i)
  /\ partitions' = [partitions EXCEPT ![n] = {p \in @ : p.id # i}]
  /\ IF GetMemorySegment(i).address = Unmapped
     THEN halted' = halted \cup {n} /\ UNCHANGED <<pc, id, phase>>
     ELSE /\ Begin(t, IF local_segments[n][i] = GetMemorySegment(i).address
                      THEN "getRemove" ELSE "getDelete", i)
          /\ SetPhase(n, i, IF phase[n][i] = "closed" THEN "closed" ELSE "freeing")
          /\ UNCHANGED halted
  /\ UNCHANGED <<zkVars, memVars, chan, address, result, version, asked, recovered>>

\* removeFromProcessList: get
GetRemove(t) ==
  /\ At(t, "getRemove")
  /\ Get(t, process[t[1]].list, process[t[1]].version)
  /\ Goto(t, "setRemove")
  /\ UNCHANGED <<zkVars, memVars, phase, chan, id, address, halted>>

\* Mutant: the list is left alone.
KeepInList(t) ==
  /\ At(t, "setRemove")
  /\ local_segments' = [local_segments EXCEPT ![t[1]][id[t]] = Unmapped]
  /\ Goto(t, "getDelete")
  /\ UNCHANGED <<zkVars, pair, phase, chan, id, address, result, version, halted>>

\* removeFromProcessList: set, whose result is not looked at; then erase.
SetRemove(t) ==
  LET n == t[1] IN
  /\ At(t, "setRemove")
  /\ process' = IF version[t] = process[n].version
                THEN [process EXCEPT ![n] = [list |-> WithoutId(result[t], id[t]), version |-> @.version + 1]]
                ELSE process
  /\ local_segments' = [local_segments EXCEPT ![n][id[t]] = Unmapped]
  /\ Goto(t, "getDelete")
  /\ UNCHANGED <<allocator, segment, pair, phase, chan, id, address, result, version, halted>>

\* The versions a get of node i can leave in stat.
StatOf(i) == IF segment[i] = NoNode THEN Garbage ELSE {segment[i].version}

\* deleteMemorySegment: get
GetDelete(t) ==
  /\ At(t, "getDelete")
  /\ \E v \in StatOf(id[t]) : Get(t, NoResult, v)
  /\ Goto(t, "delete")
  /\ UNCHANGED <<zkVars, memVars, phase, chan, id, address, halted>>

\* deleteMemorySegment: remove, whoever the source of the segment is.
DeleteSegment(t) ==
  LET i == id[t] IN
  /\ At(t, "delete")
  /\ Remove(t, i)
  /\ SetPhase(t[1], i, "none")
  /\ Return(t)
  /\ UNCHANGED <<allocator, process, memVars, chan, halted>>

-----------------------------------------------------------------------------
(* The hand-over of a segment; Migration has the details of the protocol.  *)

\* Prepare, for a destination that does not have the segment mapped.
Prepare(n, i, d) ==
  /\ MayMigrate
  /\ At(<<n, "app">>, "idle")
  /\ d # n
  /\ phase[n][i] = "held"
  /\ phase[d][i] = "none" /\ local_segments[d][i] = Unmapped
  /\ SetPhase(n, i, "preparing")
  /\ UpdatePair(n, i, d)
  /\ Send(n, d, "PREPARE", i, local_segments[n][i])
  /\ UNCHANGED <<zkVars, local_segments, threadVars, halted>>

\* The poller of d takes the next message from s, of that type.
GetMessage(d, s, type) ==
  /\ At(<<d, "poller">>, "idle")
  /\ chan[s][d] # <<>>
  /\ Head(chan[s][d]).type = type
  /\ chan' = [chan EXCEPT ![s][d] = Tail(@)]

\* accept: map the segment, addToProcessList, send_accept.
Accept(d, s) ==
  LET m == Head(chan[s][d]) IN
  /\ GetMessage(d, s, "PREPARE")
  /\ local_segments' = [local_segments EXCEPT ![d][m.id] = m.address]
  /\ UpdatePair(d, m.id, s)
  /\ Begin(<<d, "poller">>, "getList", m.id)
  /\ address' = [address EXCEPT ![<<d, "poller">>] = m.address]
  /\ UNCHANGED <<zkVars, phase, result, version, halted>>

\* An ACCEPT: updateSegmentDestination, then incoming_accepts.
OnAccept(d, s) ==
  /\ GetMessage(d, s, "ACCEPT")
  /\ Begin(<<d, "poller">>, "getDestination", Head(chan[s][d]).id)
  /\ UNCHANGED <<zkVars, memVars, phase, address, result, version, halted>>

\* The get of updateSegmentDestination and of cleanMemorySegment.
GetSegment(t) ==
  LET i == id[t] IN
  /\ t[1] \notin halted \cup down
  /\ pc[t] \in {"getDestination", "getClean"}
  /\ \E v \in StatOf(i) : Get(t, GetMemorySegment(i), v)
  /\ Goto(t, IF pc[t] = "getClean" THEN "setClean" ELSE "setDestination")
  /\ UNCHANGED <<zkVars, memVars, phase, chan, id, address, halted>>

\* zk->set of a segment node, with the fields given
SetSegment(t, source, destination) ==
  LET node == segment[id[t]] IN
  segment' =
    IF Matches(t, node)
    THEN [segment EXCEPT ![id[t]] =
            [result[t] EXCEPT !.source = source, !.destination = destination,
                              !.version = node.version + 1]]
    ELSE segment

\* updateSegmentDestination: set; its result is not looked at.
SetDestination(t) ==
  /\ At(t, "setDestination")
  /\ SetSegment(t, result[t].source, pair[t[1]][id[t]])
  /\ SetPhase(t[1], id[t], "accepted")
  /\ Return(t)
  /\ UNCHANGED <<allocator, process, memVars, chan, halted>>

Transfer(n, i) ==
  /\ At(<<n, "app">>, "idle")
  /\ phase[n][i] = "accepted"
  /\ SetPhase(n, i, "moved")
  /\ Send(n, pair[n][i], "TRANSFER", i, local_segments[n][i])
  /\ UNCHANGED <<zkVars, memVars, threadVars, halted>>

\* on_transfer and PollForTransfer
OnTransfer(d, s) ==
  /\ GetMessage(d, s, "TRANSFER")
  /\ SetPhase(d, Head(chan[s][d]).id, "arrived")
  /\ UNCHANGED <<zkVars, memVars, threadVars, halted>>

\* close: cleanMemorySegment, send_close
Close(n, i) ==
  /\ At(<<n, "app">>, "idle")
  /\ phase[n][i] = "arrived"
  /\ Begin(<<n, "app">>, "getClean", i)
  /\ UNCHANGED <<zkVars, memVars, phase, chan, address, result, version, halted>>

\* cleanMemorySegment: set; its result is not looked at.
SetClean(t) ==
  LET n == t[1] IN
  /\ At(t, "setClean")
  /\ SetSegment(t, n, Empty)
  /\ Send(n, pair[n][id[t]], "DONE", id[t], local_segments[n][id[t]])
  /\ SetPhase(n, id[t], "held")
  /\ Return(t)
  /\ UNCHANGED <<allocator, process, memVars, halted>>

\* on_close and PollForClose
OnDone(d, s) ==
  /\ GetMessage(d, s, "DONE")
  /\ SetPhase(d, Head(chan[s][d]).id, "closed")
  /\ UNCHANGED <<zkVars, memVars, threadVars, halted>>

-----------------------------------------------------------------------------
(* Crashes, and the recovery from the metadata.                            *)

Crash(n) ==
  /\ n \notin halted \cup lost
  /\ Cardinality(lost) < MaxCrashes
  /\ down' = down \cup {n}
  /\ lost' = lost \cup {n}
  /\ had' = [had EXCEPT ![n] =
               {<<i, local_segments[n][i]>> : i \in {j \in Id : phase[n][j] = "held"}}]
  /\ local_segments' = [local_segments EXCEPT ![n] = [i \in Id |-> Unmapped]]
  /\ pair' = [pair EXCEPT ![n] = [i \in Id |-> Unset]]
  /\ phase' = [phase EXCEPT ![n] = [i \in Id |-> "none"]]
  /\ chan' = [s \in Server |-> [d \in Server |-> IF n \in {s, d} THEN <<>> ELSE chan[s][d]]]
  /\ pc' = [t \in Thread |-> IF t[1] = n THEN "idle" ELSE pc[t]]
  /\ id' = [t \in Thread |-> IF t[1] = n THEN FirstId ELSE id[t]]
  /\ address' = [t \in Thread |-> IF t[1] = n THEN 0 ELSE address[t]]
  /\ result' = [t \in Thread |-> IF t[1] = n THEN NoResult ELSE result[t]]
  /\ version' = [t \in Thread |-> IF t[1] = n THEN 0 ELSE version[t]]
  /\ partitions' = [partitions EXCEPT ![n] = {}]
  /\ UNCHANGED <<zkVars, halted, asked, recovered>>

\* RDMAMemNode::RDMAMemNode of a server whose process node exists: exists and set.  The
\* operators start it again when nobody is about to read its old process list: one who
\* read the new list instead would delete the nodes of new segments.
Restart(n) ==
  /\ n \in down
  /\ \A m \in Server : ~(pc[<<m, "app">>] = "getProcess" /\ asked[m] = n)
  /\ process' = [process EXCEPT ![n] = [list |-> {}, version |-> @.version + 1]]
  /\ down' = down \ {n}
  /\ UNCHANGED <<allocator, segment, memVars, phase, chan, threadVars, halted, lost, had, askVars>>

\* GetPartitionsForProcess of a server that is down, once
Recover(n, d) ==
  /\ At(<<n, "app">>, "idle")
  /\ d \in down \ recovered[n]
  /\ asked' = [asked EXCEPT ![n] = d]
  /\ recovered' = [recovered EXCEPT ![n] = @ \cup {d}]
  /\ Goto(<<n, "app">>, "getProcess")
  /\ UNCHANGED <<zkVars, memVars, phase, chan, id, address, result, version, halted, crashVars,
                 partitions>>

\* the get of the process list
GetProcess(n) ==
  LET t == <<n, "app">> IN
  /\ At(t, "getProcess")
  /\ Get(t, process[asked[n]].list, process[asked[n]].version)
  /\ Goto(t, "getPartition")
  /\ UNCHANGED <<zkVars, memVars, phase, chan, id, address, halted, crashVars, askVars>>

\* The get of one of its segments; a node that is not there gives a map without fields,
\* which names no segment.
GetPartition(n, i) ==
  LET t == <<n, "app">> IN
  /\ At(t, "getPartition")
  /\ i \in result[t]
  /\ result' = [result EXCEPT ![t] = @ \ {i}]
  /\ partitions' = [partitions EXCEPT ![n] = @ \cup
                      IF segment[i] = NoNode THEN {}
                      ELSE {[id |-> i, address |-> segment[i].address, source |-> segment[i].source]}]
  /\ UNCHANGED <<zkVars, memVars, phase, chan, pc, id, address, version, halted, crashVars, asked,
                 recovered>>

EndRecover(n) ==
  LET t == <<n, "app">> IN
  /\ At(t, "getPartition")
  /\ result[t] = {}
  /\ Return(t)
  /\ UNCHANGED <<zkVars, memVars, phase, chan, halted, crashVars,
                 askVars>>

-----------------------------------------------------------------------------
(* The live segments of a server that is up.                               *)

\* getPartitionList
GetPartitionList(n, d) == chan' = [chan EXCEPT ![n][d] = Append(@, [type |-> "GETPARTITIONS"])]

\* GetLivePartitionsForProcess of another server, over a connection that is up, and the wait
\* for sem_get_partition_list
QueryLive(n, d) ==
  /\ MayQuery
  /\ At(<<n, "app">>, "idle")
  /\ d # n /\ {n, d} \cap (lost \cup halted) = {}
  /\ asked' = [asked EXCEPT ![n] = d]
  /\ GetPartitionList(n, d)
  /\ Goto(<<n, "app">>, "waitList")
  /\ UNCHANGED <<zkVars, memVars, phase, id, address, result, version, halted, crashVars, partitions,
                 recovered>>

\* Segments of n that are Clean.  Transfer makes a segment Shared at its source, until it is
\* erased there; at the destination it is Clean from accept on, as on_transfer pulls it.
Live(n) ==
  {i \in Id : local_segments[n][i] # Unmapped /\ phase[n][i] \notin {"moved", "closed"}}

\* sendPartitionList, in answer to the request at the head of the channel
SendPartitionList(d, s, list) ==
  LET taken == [chan EXCEPT ![s][d] = Tail(@)] IN
  chan' = [taken EXCEPT ![d][s] = Append(@, [type |-> "SENTPARTITIONS", list |-> list])]

\* Mutant: no answer when there is nothing to tell.
OnGetPartitionsNonEmpty(d, s) ==
  /\ At(<<d, "poller">>, "idle")
  /\ chan[s][d] # <<>> /\ Head(chan[s][d]).type = "GETPARTITIONS"
  /\ IF Live(d) = {}
     THEN chan' = [chan EXCEPT ![s][d] = Tail(@)] ELSE SendPartitionList(d, s, Live(d))
  /\ UNCHANGED <<zkVars, memVars, phase, threadVars, halted, crashVars, askVars>>

\* GETPARTITIONS
OnGetPartitions(d, s) ==
  /\ At(<<d, "poller">>, "idle")
  /\ chan[s][d] # <<>> /\ Head(chan[s][d]).type = "GETPARTITIONS"
  /\ SendPartitionList(d, s, Live(d))
  /\ UNCHANGED <<zkVars, memVars, phase, threadVars, halted, crashVars, askVars>>

\* SENTPARTITIONS: sem_post of sem_get_partition_list
OnSentPartitions(d, s) ==
  /\ GetMessage(d, s, "SENTPARTITIONS")
  /\ Return(<<d, "app">>)
  /\ UNCHANGED <<zkVars, memVars, phase, halted, crashVars, askVars>>

-----------------------------------------------------------------------------

Request(t) ==
  \/ GetAddress(t)
  \/ SetAddress(t)
  \/ CreateSegment(t)
  \/ GetList(t)
  \/ SetList(t)
  \/ GetRemove(t)
  \/ SetRemove(t)
  \/ GetDelete(t)
  \/ DeleteSegment(t)
  \/ GetSegment(t)
  \/ SetDestination(t)
  \/ SetClean(t)

Poller(d, s) ==
  \/ Accept(d, s)
  \/ OnAccept(d, s)
  \/ OnTransfer(d, s)
  \/ OnDone(d, s)

Program(n, i) ==
  \/ BeginAllocate(n, i)
  \/ \E d \in Server : Prepare(n, i, d)
  \/ Transfer(n, i)
  \/ Close(n, i)

Recovery(n) ==
  \/ Crash(n)
  \/ Restart(n)
  \/ \E d \in Server : Recover(n, d)
  \/ GetProcess(n)
  \/ \E i \in Id : GetPartition(n, i)
  \/ EndRecover(n)

Query(n, d) ==
  \/ QueryLive(n, d)
  \/ OnGetPartitions(n, d)
  \/ OnSentPartitions(n, d)

Next ==
  \/ /\ \/ \E t \in Thread : Request(t)
        \/ \E d, s \in Server : Poller(d, s)
        \/ \E n \in Server, i \in Id : Program(n, i)
     /\ UNCHANGED <<crashVars, askVars>>
  \/ \E n \in Server, i \in Id : Deallocate(n, i) /\ UNCHANGED crashVars
  \/ \E n \in Server : Recovery(n)
  \/ \E n, d \in Server : Query(n, d)

Spec == Init /\ [][Next]_vars

-----------------------------------------------------------------------------
(* Properties.                                                             *)

\* Every variable has its type.
TypeOK ==
  /\ allocator \in [data : Nat, version : Nat]
  /\ segment \in [Id -> Segment \cup {NoNode}]
  /\ process \in [Server -> [list : SUBSET Id, version : Nat]]
  /\ local_segments \in [Server -> [Id -> Int]]
  /\ pair \in [Server -> [Id -> Server \cup {Unset}]]
  /\ phase \in [Server -> [Id -> {"none", "held", "preparing", "accepted", "moved", "arrived",
                                 "closed", "freeing"}]]
  /\ chan \in [Server -> [Server -> Seq(Message)]]
  /\ pc \in [Thread -> {"idle", "getAddress", "setAddress", "create", "getList", "setList",
                        "getRemove", "setRemove", "getDelete", "delete", "getDestination",
                        "setDestination", "getClean", "setClean", "getProcess", "getPartition",
                        "waitList"}]
  /\ id \in [Thread -> Id]
  /\ address \in [Thread -> Int]
  /\ version \in [Thread -> Nat \cup Garbage]
  /\ halted \subseteq Server
  /\ down \subseteq lost /\ lost \subseteq Server
  /\ asked \in [Server -> Server \cup {Unset}]
  /\ partitions \in [Server -> SUBSET [id : Id, address : Int, source : Server \cup {Unset}]]
  /\ recovered \in [Server -> SUBSET Server]

\* Different segments are mapped at different addresses everywhere in the cluster,
\* however the servers race for the allocator node.
AddressesDisjoint ==
  \A m, n \in Server, i, j \in Id :
    local_segments[m][i] = local_segments[n][j] /\ local_segments[m][i] # Unmapped => i = j

Holds(n, i) == phase[n][i] = "held"

\* A segment that a program holds is in the process list of its server and has its
\* node, which tells where it is mapped and that this server is its source: that is
\* all that deallocate has, and recovery when the server fails.
HeldIsRecorded ==
  \A n \in Server, i \in Id :
    Holds(n, i) => /\ i \in process[n].list
                   /\ segment[i] # NoNode
                   /\ segment[i].address = local_segments[n][i]
                   /\ segment[i].source = n

\* Every id in the process list of a server that is up has a node
\* (GetPartitionsForProcess logs an error for one that has not).
ListedIsStored ==
  \A n \in Server \ down : \A i \in process[n].list : segment[i] # NoNode

\* When GetPartitionsForProcess returns the segments of a server that is still down, it
\* returns every segment its program held when it crashed, at its address, and none
\* of a server that it has not asked for: wherever the crash cut off an allocate or a
\* deallocate, and whatever the other servers do with the same ids meanwhile.
RecoveryComplete ==
  \A n \in Server :
    pc[<<n, "app">>] = "getPartition" /\ result[<<n, "app">>] = {} /\ asked[n] \in down =>
      /\ \A h \in had[asked[n]] :
           \E p \in partitions[n] : p.id = h[1] /\ p.address = h[2]
      /\ \A p \in partitions[n] : p.source \in recovered[n]

\* A program that waits for the list of live segments has its request or the answer
\* under way, as long as the server it asked does not crash (then it waits for
\* ever: nothing else posts sem_get_partition_list).
WaitServed ==
  \A n \in Server :
    LET d == asked[n] IN
    At(<<n, "app">>, "waitList") =>
      \/ d \in lost \cup halted
      \/ \E k \in 1 .. Len(chan[n][d]) : chan[n][d][k].type = "GETPARTITIONS"
      \/ \E k \in 1 .. Len(chan[d][n]) : chan[d][n][k].type = "SENTPARTITIONS"

=============================================================================
