--------------------------- MODULE MetadataProofs ---------------------------
(***************************************************************************)
(* Addresses, types and queries of the metadata, for any number of         *)
(* servers, ids and crashes, with and without hand-overs.                  *)
(*                                                                         *)
(* Different segments never share an address: the conditional write of the *)
(* allocator node gives out every address once.  A program that waits for  *)
(* the segments of a live server is served, unless one of the two crashes  *)
(* or is ended by an exception.                                            *)
(*                                                                         *)
(* AddressesDisjoint is not inductive, and neither is WaitServed:          *)
(* MetadataInvariant has the invariants that are.                          *)
(***************************************************************************)
EXTENDS MetadataInvariant, TLAPS

USE SMTT(100)

-----------------------------------------------------------------------------
(* What a step must do to keep the invariant.                              *)

Known(i, a) == a = Unmapped \/ Claim(i, a)

\* What is mapped afterwards was claimed before.
MapsKept ==
  /\ local_segments' \in [Server -> [Id -> Int]]
  /\ \A n \in Server, i \in Id : Known(i, local_segments'[n][i])

\* What messages carry afterwards was claimed before.
WireKept ==
  /\ chan' \in [Server -> [Server -> Seq(Message)]]
  /\ \A s, d \in Server, i \in Id, a \in Int : In(chan'[s][d], i, a) => Known(i, a)

\* The address a thread places afterwards was claimed before; what it is about to write to
\* the allocator node it has read before, or reads now.
ThreadKept(t) ==
  /\ pc'[t] \in Placing => Known(id'[t], address'[t])
  /\ pc'[t] = "setAddress" =>
       \/ pc[t] = "setAddress" /\ version'[t] = version[t] /\ result'[t] = result[t]
       \/ version'[t] = allocator.version /\ result'[t] = allocator.data

ThreadsKept == ThreadKinds' /\ \A t \in Thread : ThreadKept(t)

(* A step that gives out no new address keeps the invariant: whatever is claimed afterwards
   was claimed before. *)
LEMMA ClaimsKept ==
  ASSUME AddressInv, allocator' = allocator, MapsKept, WireKept, ThreadsKept
  PROVE  AddressInv'
<1>1. ASSUME NEW i \in Id, NEW a \in Int, Claim(i, a)'
      PROVE  Known(i, a)
  <2>1. CASE \E n \in Server : local_segments'[n][i] = a
    BY <2>1, ZenonT(100) DEF MapsKept
  <2>2. CASE \E t \in Thread : pc'[t] \in Placing /\ id'[t] = i /\ address'[t] = a
    BY <2>2, ZenonT(100) DEF ThreadsKept, ThreadKept
  <2>3. CASE \E s, d \in Server : In(chan'[s][d], i, a)
    BY <2>3, ZenonT(100) DEF WireKept
  <2>. QED BY <1>1, <2>1, <2>2, <2>3, ZenonT(100) DEF Claim, In
<1>2. GivenOut'
  BY <1>1, ZenonT(100) DEF AddressInv, GivenOut, Known
<1>3. OneId'
  BY <1>1, ZenonT(100) DEF AddressInv, OneId, Known
<1>4. ReadIsOld'
  <2>. SUFFICES ASSUME NEW t \in Thread, pc'[t] = "setAddress"
                PROVE  /\ version'[t] \in Nat /\ version'[t] <= allocator.version
                       /\ version'[t] = allocator.version => result'[t] = allocator.data
    BY ZenonT(100) DEF ReadIsOld
  <2>1. allocator.version \in Nat /\ allocator.version <= allocator.version
    BY DEF AddressInv, Kinds
  <2>. QED BY <2>1, ZenonT(100) DEF ThreadsKept, ThreadKept, AddressInv, ReadIsOld
<1>5. Kinds'
  BY ZenonT(100) DEF AddressInv, Kinds, MapsKept, WireKept, ThreadsKept
<1>. QED BY <1>2, <1>3, <1>4, <1>5, ZenonT(100) DEF AddressInv

-----------------------------------------------------------------------------
(* What steps do to the maps, to the messages and to the threads.          *)

\* A step that maps and unmaps nothing keeps the maps.
LEMMA SameMaps ==
  ASSUME Kinds, UNCHANGED local_segments
  PROVE  MapsKept
BY ZenonT(100) DEF Kinds, MapsKept, Known, Claim

\* A step that sends and takes nothing keeps the messages.
LEMMA SameWire ==
  ASSUME Kinds, UNCHANGED chan
  PROVE  WireKept
BY ZenonT(100) DEF Kinds, WireKept, Known, Claim

\* A thread whose locals stay keeps what it places and what it has read.
LEMMA SameThread ==
  ASSUME NEW t \in Thread, pc'[t] = pc[t], id'[t] = id[t], address'[t] = address[t],
         result'[t] = result[t], version'[t] = version[t]
  PROVE  ThreadKept(t)
BY ZenonT(100) DEF ThreadKept, Known, Claim

\* A step in which no thread moves keeps the threads.
LEMMA SameThreads ==
  ASSUME Kinds, UNCHANGED threadVars
  PROVE  ThreadsKept
<1>1. ThreadKinds'
  BY ZenonT(100) DEF Kinds, ThreadKinds, threadVars
<1>. QED BY <1>1, SameThread, ZenonT(100) DEF ThreadsKept, threadVars

\* A segment is mapped where it is known to be, or unmapped.
LEMMA OneMap ==
  ASSUME NEW n \in Server, NEW i \in Id, NEW a \in Int, Kinds, Known(i, a),
         local_segments' = [local_segments EXCEPT ![n][i] = a]
  PROVE  MapsKept
<1>1. local_segments' \in [Server -> [Id -> Int]]
  BY DEF Kinds
<1>2. ASSUME NEW m \in Server, NEW j \in Id
      PROVE  Known(j, local_segments'[m][j])
  <2>1. local_segments'[m][j] = IF m = n /\ j = i THEN a ELSE local_segments[m][j]
    BY DEF Kinds
  <2>. QED BY <2>1, ZenonT(100) DEF Known, Claim
<1>. QED BY <1>1, <1>2, ZenonT(100) DEF MapsKept

\* Taking a message away adds no PREPARE, and a new message is the only one it adds.
LEMMA InTail ==
  ASSUME NEW q \in Seq(Message), q # <<>>, NEW i, NEW a, In(Tail(q), i, a)
  PROVE  In(q, i, a)
<1>1. PICK k \in 1 .. Len(Tail(q)) :
        Tail(q)[k].type = "PREPARE" /\ Tail(q)[k].id = i /\ Tail(q)[k].address = a
  BY DEF In
<1>2. k + 1 \in 1 .. Len(q) /\ Tail(q)[k] = q[k + 1]
  OBVIOUS
<1>. QED BY <1>1, <1>2, ZenonT(100) DEF In

\* A queue with a new message has the PREPAREs it had, and the new one if it is one.
LEMMA InAppend ==
  ASSUME NEW q \in Seq(Message), NEW m, NEW i, NEW a, In(Append(q, m), i, a)
  PROVE  In(q, i, a) \/ (m.type = "PREPARE" /\ m.id = i /\ m.address = a)
<1>1. PICK k \in 1 .. Len(Append(q, m)) :
        Append(q, m)[k].type = "PREPARE" /\ Append(q, m)[k].id = i /\ Append(q, m)[k].address = a
  BY DEF In
<1>2. (k \in 1 .. Len(q) /\ Append(q, m)[k] = q[k]) \/ Append(q, m)[k] = m
  OBVIOUS
<1>. QED BY <1>1, <1>2, ZenonT(100) DEF In

\* Of one channel at a time.
LEMMA OneChannel ==
  ASSUME NEW s \in Server, NEW d, NEW q, Kinds,
         chan' = [chan EXCEPT ![s][d] = q],
         d \in Server => q \in Seq(Message),
         \A i \in Id, a \in Int : d \in Server /\ In(q, i, a) => Known(i, a)
  PROVE  WireKept
<1>1. chan' \in [Server -> [Server -> Seq(Message)]]
  BY ZenonT(100) DEF Kinds
<1>2. ASSUME NEW x \in Server, NEW y \in Server, NEW i \in Id, NEW a \in Int, In(chan'[x][y], i, a)
      PROVE  Known(i, a)
  <2>1. chan'[x][y] = IF x = s /\ y = d THEN q ELSE chan[x][y]
    BY ZenonT(100) DEF Kinds
  <2>. QED BY <1>2, <2>1, ZenonT(100) DEF Known, Claim
<1>. QED BY <1>1, <1>2, ZenonT(100) DEF WireKept

\* Taking a message leaves only known addresses on the wire (GetMessage).
LEMMA TakeWire ==
  ASSUME NEW d \in Server, NEW s \in Server, NEW type, Kinds, GetMessage(d, s, type)
  PROVE  WireKept /\ Head(chan[s][d]) \in Message
<1>. DEFINE q == chan[s][d]
<1>1. q \in Seq(Message) /\ q # <<>>
  BY DEF Kinds, GetMessage
<1>2. Tail(q) \in Seq(Message) /\ Head(q) \in Message
  BY <1>1
<1>3. \A i \in Id, a \in Int : In(Tail(q), i, a) => Known(i, a)
  BY <1>1, InTail, ZenonT(100) DEF Known, Claim
<1>4. chan' = [chan EXCEPT ![s][d] = Tail(q)]
  BY ZenonT(100) DEF GetMessage
<1>. QED BY <1>2, <1>3, <1>4, OneChannel, ZenonT(100)

\* Sending a message does too, when a PREPARE carries a known address.
LEMMA SendWire ==
  ASSUME NEW s \in Server, NEW d, NEW m \in Message, Kinds,
         chan' = [chan EXCEPT ![s][d] = Append(@, m)],
         m.type = "PREPARE" => Known(m.id, m.address)
  PROVE  WireKept
<1>. DEFINE q == Append(chan[s][d], m)
<1>1. d \in Server => chan[s][d] \in Seq(Message)
  BY DEF Kinds
<1>2. d \in Server => q \in Seq(Message)
  BY <1>1
<1>3. ASSUME NEW i \in Id, NEW a \in Int, d \in Server, In(q, i, a)
      PROVE  Known(i, a)
  <2>1. CASE In(chan[s][d], i, a)
    BY <1>3, <2>1, ZenonT(100) DEF Known, Claim
  <2>2. CASE m.type = "PREPARE" /\ m.id = i /\ m.address = a
    BY <2>2, ZenonT(100)
  <2>. QED BY <1>1, <1>3, <2>1, <2>2, InAppend, ZenonT(100)
<1>4. chan' = [chan EXCEPT ![s][d] = q]
  BY ZenonT(100)
<1>. HIDE DEF q
<1>. QED BY <1>2, <1>3, <1>4, OneChannel, ZenonT(100)

\* A thread that is the only one to move.
LEMMA OneThread ==
  ASSUME NEW t \in Thread, ThreadKinds', ThreadKept(t),
         \A u \in Thread \ {t} : /\ pc'[u] = pc[u] /\ id'[u] = id[u] /\ address'[u] = address[u]
                                 /\ result'[u] = result[u] /\ version'[u] = version[u]
  PROVE  ThreadsKept
<1>1. ASSUME NEW u \in Thread, u # t
      PROVE  ThreadKept(u)
  BY <1>1, SameThread, ZenonT(100)
<1>. QED BY <1>1, ZenonT(100) DEF ThreadsKept

\* The id that idle threads have is an id.
LEMMA FirstIdIsId == FirstId \in Id
BY ConstantsAssumption, ZenonT(100) DEF FirstId

\* A thread that returns from its operation places nothing any more.
LEMMA ReturnThread ==
  ASSUME NEW t \in Thread, Kinds, Return(t)
  PROVE  ThreadsKept
<1>1. ThreadKinds'
  BY FirstIdIsId DEF Kinds, ThreadKinds, Return
<1>2. pc'[t] = "idle"
  BY DEF Kinds, ThreadKinds, Return
<1>3. ThreadKept(t)
  BY <1>2 DEF ThreadKept, Placing
<1>4. ASSUME NEW u \in Thread, u # t
      PROVE  /\ pc'[u] = pc[u] /\ id'[u] = id[u] /\ address'[u] = address[u]
             /\ result'[u] = result[u] /\ version'[u] = version[u]
  BY <1>4 DEF Kinds, ThreadKinds, Return
<1>. QED BY <1>1, <1>3, <1>4, OneThread, ZenonT(100)

\* A thread that begins something else than to place an address.
LEMMA BeginThread ==
  ASSUME NEW t \in Thread, Kinds,
         NEW label, NEW i \in Id, Begin(t, label, i), UNCHANGED <<address, result, version>>,
         label \notin Placing \cup {"setAddress"}
  PROVE  ThreadsKept
<1>1. ThreadKinds'
  BY DEF Kinds, ThreadKinds, Begin
<1>2. pc'[t] = label
  BY DEF Kinds, ThreadKinds, Begin
<1>3. ThreadKept(t)
  BY <1>2, ZenonT(100) DEF ThreadKept, Known, Claim
<1>4. ASSUME NEW u \in Thread, u # t
      PROVE  /\ pc'[u] = pc[u] /\ id'[u] = id[u] /\ address'[u] = address[u]
             /\ result'[u] = result[u] /\ version'[u] = version[u]
  BY <1>4 DEF Kinds, ThreadKinds, Begin
<1>. QED BY <1>1, <1>3, <1>4, OneThread, ZenonT(100)

\* A thread that goes on, placing the address it has or none.
LEMMA GotoThread ==
  ASSUME NEW t \in Thread, Kinds,
         NEW label, Goto(t, label), UNCHANGED <<id, address, result, version>>,
         label \in Placing => pc[t] \in Placing, label # "setAddress"
  PROVE  ThreadsKept
<1>1. ThreadKinds'
  BY DEF Kinds, ThreadKinds, Goto
<1>2. pc'[t] = label /\ id'[t] = id[t] /\ address'[t] = address[t]
  BY DEF Kinds, ThreadKinds, Goto
<1>3. ThreadKept(t)
  BY <1>2, ZenonT(100) DEF ThreadKept, Known, Claim
<1>4. ASSUME NEW u \in Thread, u # t
      PROVE  /\ pc'[u] = pc[u] /\ id'[u] = id[u] /\ address'[u] = address[u]
             /\ result'[u] = result[u] /\ version'[u] = version[u]
  BY <1>4 DEF Kinds, ThreadKinds, Goto
<1>. QED BY <1>1, <1>3, <1>4, OneThread, ZenonT(100)

\* The same for a thread that reads a node; before setAddress it reads the allocator.
LEMMA GetThread ==
  ASSUME NEW t \in Thread, Kinds,
         NEW label, NEW r, NEW v, Goto(t, label), Get(t, r, v), UNCHANGED <<id, address>>,
         label \in Placing => pc[t] \in Placing,
         label = "setAddress" => r = allocator.data /\ v = allocator.version
  PROVE  ThreadsKept
<1>1. ThreadKinds'
  BY DEF Kinds, ThreadKinds, Goto, Get
<1>2. /\ pc'[t] = label /\ id'[t] = id[t] /\ address'[t] = address[t]
      /\ result'[t] = r /\ version'[t] = v
  BY DEF Kinds, ThreadKinds, Goto, Get
<1>3. ThreadKept(t)
  BY <1>2, ZenonT(100) DEF ThreadKept, Known, Claim
<1>4. ASSUME NEW u \in Thread, u # t
      PROVE  /\ pc'[u] = pc[u] /\ id'[u] = id[u] /\ address'[u] = address[u]
             /\ result'[u] = result[u] /\ version'[u] = version[u]
  BY <1>4 DEF Kinds, ThreadKinds, Goto, Get
<1>. QED BY <1>1, <1>3, <1>4, OneThread, ZenonT(100)

-----------------------------------------------------------------------------
(* The actions.                                                            *)

\* The two threads of every server are threads, and every thread is of a server.
LEMMA Threads ==
  /\ \A n \in Server : <<n, "app">> \in Thread /\ <<n, "poller">> \in Thread
  /\ \A t \in Thread : t[1] \in Server
BY DEF Thread, Role

\* The messages of the hand-over, as Send makes them.
LEMMA SendKeeps ==
  ASSUME NEW s \in Server, NEW d, NEW type \in {"PREPARE", "ACCEPT", "TRANSFER", "DONE"},
         NEW i \in Id, NEW a \in Int, Kinds, Send(s, d, type, i, a),
         type = "PREPARE" => Known(i, a)
  PROVE  WireKept
<1>. DEFINE m == [type |-> type, id |-> i, address |-> a]
<1>1. m \in Message
  BY DEF Message
<1>2. m.type = type /\ m.id = i /\ m.address = a
  OBVIOUS
<1>3. chan' = [chan EXCEPT ![s][d] = Append(@, m)]
  BY ZenonT(100) DEF Send
<1>. HIDE DEF m
<1>. QED BY <1>1, <1>2, <1>3, SendWire, ZenonT(100)

\* The fields of a message of the hand-over.
LEMMA HandOverFields ==
  ASSUME NEW m \in Message, m.type \in {"PREPARE", "ACCEPT", "TRANSFER", "DONE"}
  PROVE  m.id \in Id /\ m.address \in Int
BY DEF Message

\* A PREPARE that arrives claims the address it carries.
LEMMA HeadKnown ==
  ASSUME NEW d \in Server, NEW s \in Server, Kinds, GetMessage(d, s, "PREPARE")
  PROVE  Known(Head(chan[s][d]).id, Head(chan[s][d]).address)
<1>. DEFINE q == chan[s][d]
<1>1. 1 \in 1 .. Len(q) /\ Head(q) = q[1]
  BY DEF Kinds, GetMessage
<1>2. In(q, Head(q).id, Head(q).address)
  BY <1>1, ZenonT(100) DEF In, GetMessage
<1>. QED BY <1>2, ZenonT(100) DEF Known, Claim

\* The requests to ZooKeeper, other than the one that gives out an address.
LEMMA RequestKeeps ==
  ASSUME NEW t \in Thread, AddressInv, Request(t), allocator' = allocator, ~SetAddress(t)
  PROVE  AddressInv'
<1>. USE DEF AddressInv
<1>0. t[1] \in Server /\ id[t] \in Id /\ address[t] \in Int
  BY Threads DEF Kinds, ThreadKinds
<1>1. CASE GetAddress(t)
  <2>1. ThreadsKept
    BY <1>1, GetThread DEF GetAddress, Placing
  <2>. QED BY <1>1, <2>1, ClaimsKept, SameMaps, SameWire, ZenonT(100) DEF GetAddress, memVars
<1>2. CASE CreateSegment(t)
  <2>1. ThreadsKept
    <3>1. pc[t] \in Placing
      BY <1>2 DEF CreateSegment, At, Placing
    <3>. QED BY <1>2, <3>1, GotoThread, ReturnThread, ZenonT(100) DEF CreateSegment
  <2>. QED BY <1>2, <2>1, ClaimsKept, SameMaps, SameWire, ZenonT(100) DEF CreateSegment, memVars
<1>3. CASE GetList(t)
  <2>1. ThreadsKept
    <3>1. pc[t] \in Placing
      BY <1>3 DEF GetList, At, Placing
    <3>. QED BY <1>3, <3>1, GetThread, ZenonT(100) DEF GetList
  <2>. QED BY <1>3, <2>1, ClaimsKept, SameMaps, SameWire, ZenonT(100) DEF GetList, memVars
<1>4. CASE SetList(t)
  <2>1. ThreadsKept
    BY <1>4, ReturnThread, ZenonT(100) DEF SetList
  <2>2. Known(id[t], address[t])
    BY <1>4 DEF SetList, At, Placing, Known, Claim
  <2>3. MapsKept
    BY <1>0, <1>4, <2>2, OneMap, SameMaps, ZenonT(100) DEF SetList, EndAllocate
  <2>4. WireKept
    <3>1. CASE UNCHANGED chan
      BY <3>1, SameWire, ZenonT(100)
    <3>2. CASE Send(t[1], pair[t[1]][id[t]], "ACCEPT", id[t], address[t])
      BY <1>0, <3>2, SendKeeps
    <3>. QED BY <1>4, <3>1, <3>2, ZenonT(100) DEF SetList
  <2>. QED BY <2>1, <2>3, <2>4, ClaimsKept, ZenonT(100)
<1>5. CASE GetRemove(t)
  <2>1. ThreadsKept
    BY <1>5, GetThread DEF GetRemove, Placing
  <2>. QED BY <1>5, <2>1, ClaimsKept, SameMaps, SameWire, ZenonT(100) DEF GetRemove, memVars
<1>6. CASE SetRemove(t)
  <2>1. ThreadsKept
    BY <1>6, GotoThread DEF SetRemove, Placing
  <2>2. MapsKept
    <3>1. Unmapped \in Int /\ Known(id[t], Unmapped)
      BY DEF Unmapped, Known
    <3>. QED BY <1>0, <1>6, <3>1, OneMap, ZenonT(100) DEF SetRemove
  <2>. QED BY <1>6, <2>1, <2>2, ClaimsKept, SameWire, ZenonT(100) DEF SetRemove
<1>7. CASE GetDelete(t)
  <2>1. ThreadsKept
    BY <1>7, GetThread DEF GetDelete, Placing
  <2>. QED BY <1>7, <2>1, ClaimsKept, SameMaps, SameWire, ZenonT(100) DEF GetDelete, memVars
<1>8. CASE DeleteSegment(t)
  BY <1>8, ReturnThread, ClaimsKept, SameMaps, SameWire, ZenonT(100) DEF DeleteSegment, memVars
<1>9. CASE GetSegment(t)
  <2>1. ThreadsKept
    BY <1>9, GetThread DEF GetSegment, Placing
  <2>. QED BY <1>9, <2>1, ClaimsKept, SameMaps, SameWire, ZenonT(100) DEF GetSegment, memVars
<1>10. CASE SetDestination(t)
  BY <1>10, ReturnThread, ClaimsKept, SameMaps, SameWire, ZenonT(100) DEF SetDestination, memVars
<1>11. CASE SetClean(t)
  <2>1. local_segments[t[1]][id[t]] \in Int
    BY <1>0 DEF Kinds
  <2>2. WireKept
    BY <1>0, <1>11, <2>1, SendKeeps, ZenonT(100) DEF SetClean
  <2>. QED BY <1>11, <2>2, ReturnThread, ClaimsKept, SameMaps, ZenonT(100) DEF SetClean, memVars
<1>. QED
  BY <1>1, <1>2, <1>3, <1>4, <1>5, <1>6, <1>7, <1>8, <1>9, <1>10, <1>11, ZenonT(100) DEF Request

\* The request that gives out an address: nobody else claims what the allocator node holds,
\* and every other thread has an old version of it afterwards.
LEMMA SetAddressKeeps ==
  ASSUME NEW t \in Thread, AddressInv, SetAddress(t)
  PROVE  AddressInv'
<1>. USE DEF AddressInv
<1>1. CASE version[t] # allocator.version
  <2>1. ThreadsKept
    BY <1>1, GotoThread DEF SetAddress, Placing
  <2>. QED BY <1>1, <2>1, ClaimsKept, SameMaps, SameWire, ZenonT(100) DEF SetAddress, memVars
<1>2. CASE version[t] = allocator.version
  <2>. DEFINE new == allocator.data
  <2>1. result[t] = new /\ new \in Nat
    BY <1>2 DEF SetAddress, At, ReadIsOld, Kinds
  <2>2. /\ allocator' = [data |-> new + 1, version |-> allocator.version + 1]
        /\ address' = [address EXCEPT ![t] = new]
        /\ pc' = [pc EXCEPT ![t] = "create"]
        /\ UNCHANGED <<local_segments, chan, id, result, version>>
    BY <1>2, <2>1, ZenonT(100) DEF SetAddress, Goto, memVars
  <2>3. Kinds'
    BY <2>1, <2>2 DEF Kinds, ThreadKinds
  <2>4. \A u \in Thread : pc'[u] = (IF u = t THEN "create" ELSE pc[u])
                          /\ address'[u] = (IF u = t THEN new ELSE address[u])
    BY <2>2 DEF Kinds, ThreadKinds
  <2>5. ASSUME NEW i \in Id, NEW a \in Int, Claim(i, a)'
        PROVE  Claim(i, a) \/ (i = id[t] /\ a = new)
    <3>1. CASE \E u \in Thread : pc'[u] \in Placing /\ id'[u] = i /\ address'[u] = a
      BY <2>2, <2>4, <3>1, ZenonT(100) DEF Claim
    <3>2. CASE \/ \E n \in Server : local_segments'[n][i] = a
               \/ \E s, d \in Server : In(chan'[s][d], i, a)
      BY <2>2, <3>2, ZenonT(100) DEF Claim
    <3>. QED BY <2>5, <3>1, <3>2, ZenonT(100) DEF Claim, In
  <2>6. \A i \in Id : ~Claim(i, new)
    BY <2>1 DEF GivenOut, Unmapped
  <2>7. GivenOut'
    <3>. SUFFICES ASSUME NEW i \in Id, NEW a \in Int, Claim(i, a)', a # Unmapped
                  PROVE  0 <= a /\ a < allocator'.data
      BY ZenonT(100) DEF GivenOut
    <3>1. Claim(i, a) => 0 <= a /\ a < new
      BY ZenonT(100) DEF GivenOut
    <3>2. allocator'.data = new + 1
      BY <2>2
    <3>. QED BY <2>1, <2>5, <3>1, <3>2
  <2>8. OneId'
    BY <2>5, <2>6, ZenonT(100) DEF OneId
  <2>9. ReadIsOld'
    <3>. SUFFICES ASSUME NEW u \in Thread, pc'[u] = "setAddress"
                  PROVE  /\ version[u] \in Nat /\ version[u] <= allocator'.version
                         /\ version[u] # allocator'.version
      BY <2>2, ZenonT(100) DEF ReadIsOld
    <3>1. pc[u] = "setAddress"
      BY <2>4
    <3>2. version[u] \in Nat /\ version[u] <= allocator.version
      BY <3>1, ZenonT(100) DEF ReadIsOld
    <3>. QED BY <2>2, <3>2 DEF Kinds
  <2>. QED BY <2>3, <2>7, <2>8, <2>9, ZenonT(100)
<1>. QED BY <1>1, <1>2

\* The messages of the hand-over.
LEMMA PollerKeeps ==
  ASSUME NEW d \in Server, NEW s \in Server, AddressInv, Poller(d, s)
  PROVE  AddressInv'
<1>. USE DEF AddressInv
<1>. DEFINE m == Head(chan[s][d])
            t == <<d, "poller">>
<1>0. t \in Thread
  BY Threads, ZenonT(100)
<1>1. CASE Accept(d, s)
  <2>1. m.id \in Id /\ m.address \in Int /\ Known(m.id, m.address) /\ WireKept
    BY ZenonT(100), <1>1, TakeWire, HeadKnown, HandOverFields DEF Accept, GetMessage
  <2>. HIDE DEF m
  <2>2. MapsKept
    BY <1>1, <2>1, OneMap, ZenonT(100) DEF Accept, m
  <2>3. /\ pc' = [pc EXCEPT ![t] = "getList"] /\ id' = [id EXCEPT ![t] = m.id]
        /\ address' = [address EXCEPT ![t] = m.address]
        /\ UNCHANGED <<result, version, allocator>>
    BY <1>1, ZenonT(100) DEF Accept, Begin, m, zkVars
  <2>. HIDE DEF t
  <2>4. ThreadKinds'
    BY ZenonT(100), <2>1, <2>3 DEF Kinds, ThreadKinds
  <2>5. ThreadKept(t)
    <3>1. pc'[t] = "getList" /\ id'[t] = m.id /\ address'[t] = m.address
      BY <1>0, <2>3 DEF Kinds, ThreadKinds
    <3>. QED BY <2>1, <3>1 DEF ThreadKept
  <2>6. ASSUME NEW u \in Thread, u # t
        PROVE  /\ pc'[u] = pc[u] /\ id'[u] = id[u] /\ address'[u] = address[u]
               /\ result'[u] = result[u] /\ version'[u] = version[u]
    BY <2>3, <2>6 DEF Kinds, ThreadKinds
  <2>7. ThreadsKept
    BY <1>0, <2>4, <2>5, <2>6, OneThread, ZenonT(100)
  <2>. QED BY <2>1, <2>2, <2>3, <2>7, ClaimsKept, ZenonT(100)
<1>2. CASE OnAccept(d, s)
  <2>1. m.id \in Id /\ WireKept
    BY ZenonT(100), <1>2, TakeWire, HandOverFields DEF OnAccept, GetMessage
  <2>2. ThreadsKept
    BY <1>0, <1>2, <2>1, BeginThread DEF OnAccept, Placing
  <2>. QED BY <1>2, <2>1, <2>2, ClaimsKept, SameMaps, ZenonT(100) DEF OnAccept, memVars, zkVars
<1>3. CASE OnTransfer(d, s)
  BY <1>3, TakeWire, ClaimsKept, SameMaps, SameThreads, ZenonT(100) DEF OnTransfer, memVars, zkVars
<1>4. CASE OnDone(d, s)
  BY <1>4, TakeWire, ClaimsKept, SameMaps, SameThreads, ZenonT(100) DEF OnDone, memVars, zkVars
<1>. QED BY <1>1, <1>2, <1>3, <1>4, ZenonT(100) DEF Poller

\* What the program does with a segment.
LEMMA ProgramKeeps ==
  ASSUME NEW n \in Server, NEW i \in Id, AddressInv, Program(n, i)
  PROVE  AddressInv'
<1>. USE DEF AddressInv
<1>. DEFINE t == <<n, "app">>
<1>0. t \in Thread /\ local_segments[n][i] \in Int
  BY ZenonT(100), Threads DEF Kinds
<1>1. CASE BeginAllocate(n, i)
  <2>1. ThreadsKept
    BY <1>0, <1>1, BeginThread DEF BeginAllocate, Placing
  <2>. QED BY <1>1, <2>1, ClaimsKept, SameMaps, SameWire, ZenonT(100) DEF BeginAllocate, memVars, zkVars
<1>2. ASSUME NEW d \in Server, Prepare(n, i, d)
      PROVE  AddressInv'
  <2>1. Known(i, local_segments[n][i])
    BY ZenonT(100) DEF Known, Claim
  <2>2. WireKept
    BY <1>0, <1>2, <2>1, SendKeeps, ZenonT(100) DEF Prepare
  <2>. QED BY <1>2, <2>2, ClaimsKept, SameMaps, SameThreads, ZenonT(100) DEF Prepare, zkVars
<1>3. CASE Transfer(n, i)
  <2>1. WireKept
    BY <1>0, <1>3, SendKeeps DEF Transfer
  <2>. QED BY <1>3, <2>1, ClaimsKept, SameMaps, SameThreads, ZenonT(100) DEF Transfer, memVars, zkVars
<1>4. CASE Close(n, i)
  <2>1. ThreadsKept
    BY <1>0, <1>4, BeginThread DEF Close, Placing
  <2>. QED BY <1>4, <2>1, ClaimsKept, SameMaps, SameWire, ZenonT(100) DEF Close, memVars, zkVars
<1>. QED BY <1>1, <1>2, <1>3, <1>4, ZenonT(100) DEF Program

\* deallocate starts to remove a segment, and claims nothing.
LEMMA DeallocateKeeps ==
  ASSUME NEW n \in Server, NEW i \in Id, AddressInv, Deallocate(n, i)
  PROVE  AddressInv'
<1>. USE DEF AddressInv
<1>. DEFINE t == <<n, "app">>
<1>1. t \in Thread
  BY Threads, ZenonT(100)
<1>2. ThreadsKept
  <2>1. CASE UNCHANGED <<pc, id>>
    BY <2>1, SameThreads, ZenonT(100) DEF Deallocate, threadVars
  <2>2. ASSUME NEW label \in {"getRemove", "getDelete"}, Begin(t, label, i)
        PROVE  ThreadsKept
    BY <1>1, <2>2, BeginThread DEF Deallocate, Placing
  <2>. QED BY <2>1, <2>2 DEF Deallocate
<1>. QED BY <1>2, ClaimsKept, SameMaps, SameWire, ZenonT(100) DEF Deallocate, memVars, zkVars

\* A crash takes claims away and adds none; who recovers reads only.
LEMMA RecoveryKeeps ==
  ASSUME NEW n \in Server, AddressInv, Recovery(n)
  PROVE  AddressInv'
<1>. USE DEF AddressInv
<1>. DEFINE t == <<n, "app">>
<1>0. t \in Thread
  BY Threads, ZenonT(100)
<1>1. CASE Crash(n)
  <2>1. MapsKept
    <3>1. local_segments' \in [Server -> [Id -> Int]]
      BY <1>1 DEF Crash, Kinds, Unmapped
    <3>2. ASSUME NEW x \in Server, NEW i \in Id
          PROVE  local_segments'[x][i] \in {Unmapped, local_segments[x][i]}
      BY <1>1 DEF Crash, Kinds
    <3>. QED BY <3>1, <3>2, ZenonT(100) DEF MapsKept, Known, Claim
  <2>2. WireKept
    <3>1. chan' \in [Server -> [Server -> Seq(Message)]]
      BY <1>1 DEF Crash, Kinds
    <3>2. ASSUME NEW s \in Server, NEW d \in Server
          PROVE  chan'[s][d] = <<>> \/ chan'[s][d] = chan[s][d]
      BY <1>1 DEF Crash
    <3>3. \A i \in Id, a \in Int : ~In(<<>>, i, a)
      BY DEF In
    <3>4. ASSUME NEW s \in Server, NEW d \in Server, NEW i \in Id, NEW a \in Int,
                 In(chan'[s][d], i, a)
          PROVE  Known(i, a)
      <4>1. chan'[s][d] = chan[s][d]
        BY <3>2, <3>3, <3>4
      <4>. QED BY <3>4, <4>1, ZenonT(100) DEF Known, Claim
    <3>. QED BY <3>1, <3>4, ZenonT(100) DEF WireKept
  <2>3. ThreadsKept
    <3>1. ThreadKinds'
      BY <1>1, FirstIdIsId DEF Crash, Kinds, ThreadKinds
    <3>2. ASSUME NEW u \in Thread
          PROVE  ThreadKept(u)
      <4>1. CASE u[1] = n
        <5>1. pc'[u] = "idle"
          BY <1>1, <4>1 DEF Crash
        <5>. QED BY <5>1 DEF ThreadKept, Placing
      <4>2. CASE u[1] # n
        <5>1. /\ pc'[u] = pc[u] /\ id'[u] = id[u] /\ address'[u] = address[u]
              /\ result'[u] = result[u] /\ version'[u] = version[u]
          BY <1>1, <4>2 DEF Crash
        <5>. QED BY <5>1, SameThread, ZenonT(100)
      <4>. QED BY <4>1, <4>2
    <3>. QED BY <3>1, <3>2, ZenonT(100) DEF ThreadsKept
  <2>. QED BY <1>1, <2>1, <2>2, <2>3, ClaimsKept, ZenonT(100) DEF Crash, zkVars
<1>2. CASE Restart(n)
  BY <1>2, ClaimsKept, SameMaps, SameWire, SameThreads, ZenonT(100) DEF Restart, memVars
<1>3. ASSUME NEW d \in Server, Recover(n, d)
      PROVE  AddressInv'
  <2>1. ThreadsKept
    BY <1>0, <1>3, GotoThread DEF Recover, Placing
  <2>. QED BY <1>3, <2>1, ClaimsKept, SameMaps, SameWire, ZenonT(100) DEF Recover, memVars, zkVars
<1>4. CASE GetProcess(n)
  <2>1. ThreadsKept
    BY <1>0, <1>4, GetThread DEF GetProcess, Placing
  <2>. QED BY <1>4, <2>1, ClaimsKept, SameMaps, SameWire, ZenonT(100) DEF GetProcess, memVars, zkVars
<1>5. ASSUME NEW i \in Id, GetPartition(n, i)
      PROVE  AddressInv'
  <2>1. ThreadKinds'
    BY ZenonT(100), <1>5 DEF GetPartition, Kinds, ThreadKinds
  <2>2. ThreadKept(t)
    BY <1>0, <1>5 DEF GetPartition, At, ThreadKept, Placing
  <2>3. ASSUME NEW u \in Thread, u # t
        PROVE  /\ pc'[u] = pc[u] /\ id'[u] = id[u] /\ address'[u] = address[u]
               /\ result'[u] = result[u] /\ version'[u] = version[u]
    BY <1>5, <2>3 DEF GetPartition, Kinds, ThreadKinds
  <2>4. ThreadsKept
    BY <1>0, <2>1, <2>2, <2>3, OneThread, ZenonT(100)
  <2>. QED BY <1>5, <2>4, ClaimsKept, SameMaps, SameWire, ZenonT(100) DEF GetPartition, memVars, zkVars
<1>6. CASE EndRecover(n)
  BY <1>0, <1>6, ReturnThread, ClaimsKept, SameMaps, SameWire, ZenonT(100) DEF EndRecover, memVars, zkVars
<1>. QED BY <1>1, <1>2, <1>3, <1>4, <1>5, <1>6, ZenonT(100) DEF Recovery

\* The answer to a request for the live segments carries no PREPARE.
LEMMA AnswerKeeps ==
  ASSUME NEW d \in Server, NEW s \in Server, NEW list \in SUBSET Id, Kinds,
         chan[s][d] # <<>>, SendPartitionList(d, s, list)
  PROVE  WireKept
<1>. DEFINE m == [type |-> "SENTPARTITIONS", list |-> list]
            mid == [chan EXCEPT ![s][d] = Tail(@)]
<1>1. m \in Message /\ m.type # "PREPARE"
  BY DEF Message
<1>2. mid \in [Server -> [Server -> Seq(Message)]]
  BY DEF Kinds
<1>3. ASSUME NEW x \in Server, NEW y \in Server, NEW i \in Id, NEW a \in Int, In(mid[x][y], i, a)
      PROVE  Known(i, a)
  <2>1. mid[x][y] = IF x = s /\ y = d THEN Tail(chan[s][d]) ELSE chan[x][y]
    BY ZenonT(100) DEF Kinds
  <2>2. chan[s][d] \in Seq(Message)
    BY DEF Kinds
  <2>. QED BY <1>3, <2>1, <2>2, InTail, ZenonT(100) DEF Known, Claim
<1>4. chan' = [mid EXCEPT ![d][s] = Append(@, m)]
  BY ZenonT(100) DEF SendPartitionList
<1>. HIDE DEF m, mid
<1>5. chan' \in [Server -> [Server -> Seq(Message)]]
  BY <1>1, <1>2, <1>4
<1>6. ASSUME NEW x \in Server, NEW y \in Server, NEW i \in Id, NEW a \in Int, In(chan'[x][y], i, a)
      PROVE  In(mid[x][y], i, a)
  <2>1. mid[x][y] \in Seq(Message)
    BY <1>2
  <2>2. CASE chan'[x][y] = Append(mid[x][y], m)
    <3>1. In(Append(mid[x][y], m), i, a)
      BY <1>6, <2>2
    <3>. QED BY <1>1, <2>1, <3>1, InAppend, ZenonT(100)
  <2>3. CASE chan'[x][y] = mid[x][y]
    BY <1>6, <2>3
  <2>. QED BY <1>2, <1>4, <2>2, <2>3
<1>. QED BY <1>3, <1>5, <1>6, ZenonT(100) DEF WireKept

\* Asking for the live segments of a server claims nothing.
LEMMA QueryKeeps ==
  ASSUME NEW n \in Server, NEW d \in Server, AddressInv, Query(n, d)
  PROVE  AddressInv'
<1>. USE DEF AddressInv
<1>. DEFINE t == <<n, "app">>
<1>0. t \in Thread
  BY Threads, ZenonT(100)
<1>1. CASE QueryLive(n, d)
  <2>1. ThreadsKept
    BY <1>0, <1>1, GotoThread DEF QueryLive, Placing
  <2>2. WireKept
    <3>. DEFINE m == [type |-> "GETPARTITIONS"]
    <3>1. m \in Message /\ m.type # "PREPARE"
      BY DEF Message
    <3>2. chan' = [chan EXCEPT ![n][d] = Append(@, m)]
      BY <1>1, ZenonT(100) DEF QueryLive, GetPartitionList
    <3>. HIDE DEF m
    <3>. QED BY <3>1, <3>2, SendWire, ZenonT(100)
  <2>. QED BY <1>1, <2>1, <2>2, ClaimsKept, SameMaps, ZenonT(100) DEF QueryLive, memVars, zkVars
<1>2. CASE OnGetPartitions(n, d)
  <2>1. WireKept
    <3>1. Live(n) \in SUBSET Id
      BY DEF Live
    <3>. QED BY <1>2, <3>1, AnswerKeeps, ZenonT(100) DEF OnGetPartitions
  <2>. QED
    BY <1>2, <2>1, ClaimsKept, SameMaps, SameThreads, ZenonT(100) DEF OnGetPartitions, memVars, zkVars
<1>3. CASE OnSentPartitions(n, d)
  <2>1. ThreadsKept /\ WireKept
    BY <1>0, <1>3, ReturnThread, TakeWire, ZenonT(100) DEF OnSentPartitions
  <2>. QED BY <1>3, <2>1, ClaimsKept, SameMaps, ZenonT(100) DEF OnSentPartitions, memVars, zkVars
<1>. QED BY <1>1, <1>2, <1>3, ZenonT(100) DEF Query

-----------------------------------------------------------------------------

\* At the start nothing is claimed.
LEMMA InitKeeps ==
  ASSUME Init
  PROVE  AddressInv
<1>1. Kinds
  BY FirstIdIsId DEF Init, Kinds, ThreadKinds, Unmapped
<1>2. \A i \in Id, a \in Int : ~In(<<>>, i, a)
  BY DEF In
<1>3. ASSUME NEW i \in Id, NEW a \in Int, Claim(i, a)
      PROVE  a = Unmapped
  <2>1. /\ \A n \in Server : local_segments[n][i] = Unmapped
        /\ \A t \in Thread : pc[t] \notin Placing
        /\ \A s, d \in Server : chan[s][d] = <<>>
    BY DEF Init, Placing
  <2>2. \A s, d \in Server : ~In(chan[s][d], i, a)
    BY <1>2, <2>1
  <2>. QED BY <1>3, <2>1, <2>2 DEF Claim
<1>4. GivenOut /\ OneId
  BY <1>3, ZenonT(100) DEF GivenOut, OneId
<1>5. ReadIsOld
  BY DEF Init, ReadIsOld
<1>. QED BY <1>1, <1>4, <1>5, ZenonT(100) DEF AddressInv

\* Every step keeps the invariant.
LEMMA NextKeeps ==
  ASSUME AddressInv, [Next]_vars
  PROVE  AddressInv'
<1>1. ASSUME NEW t \in Thread, Request(t)
      PROVE  AddressInv'
  <2>1. SetAddress(t) \/ allocator' = allocator
    BY <1>1, ZenonT(100) DEF Request, GetAddress, CreateSegment, GetList, SetList, GetRemove, SetRemove,
       GetDelete, DeleteSegment, GetSegment, SetDestination, SetClean, zkVars
  <2>. QED BY <1>1, <2>1, SetAddressKeeps, RequestKeeps, ZenonT(100)
<1>2. CASE UNCHANGED vars
  BY <1>2, ClaimsKept, SameMaps, SameWire, SameThreads, ZenonT(100) DEF AddressInv, vars, zkVars, memVars
<1>. QED
  BY <1>1, <1>2, PollerKeeps, ProgramKeeps, DeallocateKeeps, RecoveryKeeps, QueryKeeps, ZenonT(100)
  DEF Next

\* Different segments are never mapped at the same address, whatever the number of servers,
\* of segments and of crashes: the allocator node is written on condition of its version
\* (getAllocationAddress), so no two calls of allocate get the same address.
THEOREM Disjoint == Spec => []AddressesDisjoint
<1>1. Init => AddressInv
  BY InitKeeps
<1>2. AddressInv /\ [Next]_vars => AddressInv'
  BY NextKeeps
<1>3. AddressInv => AddressesDisjoint
  <2>. SUFFICES ASSUME AddressInv, NEW m \in Server, NEW n \in Server, NEW i \in Id, NEW j \in Id,
                       local_segments[m][i] = local_segments[n][j],
                       local_segments[m][i] # Unmapped
                PROVE  i = j
    BY DEF AddressesDisjoint
  <2>1. local_segments[m][i] \in Int
    BY DEF AddressInv, Kinds
  <2>2. Claim(i, local_segments[m][i]) /\ Claim(j, local_segments[m][i])
    BY ZenonT(100) DEF Claim
  <2>. QED BY <2>1, <2>2, ZenonT(100) DEF AddressInv, OneId
<1>. QED BY <1>1, <1>2, <1>3, PTL DEF Spec

-----------------------------------------------------------------------------
(* Types.                                                                  *)

\* A thread moves to label l, with a result of the kind that l needs.
LEMMA CallMove ==
  ASSUME Kinds, CallKinds, NEW t \in Thread, NEW l \in Label, pc' = [pc EXCEPT ![t] = l],
         NEW r, NEW v \in Nat \cup Garbage, Get(t, r, v),
         l \in HasList => r \in SUBSET Id, l \in HasFields => r \in Segment
  PROVE  CallKinds'
<1>1. pc' \in [Thread -> Label] /\ version' \in [Thread -> Nat \cup Garbage]
  BY ZenonT(100) DEF CallKinds, Get
<1>2. pc'[t] = l /\ result'[t] = r /\ \A u \in Thread : u # t => pc'[u] = pc[u] /\ result'[u] = result[u]
  BY ZenonT(100) DEF CallKinds, Kinds, ThreadKinds, Get
<1>3. ASSUME NEW u \in Thread PROVE Result(u)'
  <2>1. CASE u = t
    BY ZenonT(100), <1>2, <2>1 DEF Result
  <2>2. CASE u # t
    BY ZenonT(100), <1>2, <2>2 DEF CallKinds, Result
  <2>. QED BY <2>1, <2>2
<1>. QED BY ZenonT(100), <1>1, <1>3 DEF CallKinds

\* A thread moves without a new result, to a label that needs none.
LEMMA CallGoto ==
  ASSUME Kinds, CallKinds, NEW t \in Thread, NEW l \in Label \ (HasList \cup HasFields),
         pc' = [pc EXCEPT ![t] = l], UNCHANGED <<result, version>>
  PROVE  CallKinds'
<1>1. pc' \in [Thread -> Label] /\ version' \in [Thread -> Nat \cup Garbage]
  BY ZenonT(100) DEF CallKinds
<1>2. pc'[t] = l /\ \A u \in Thread : u # t => pc'[u] = pc[u]
  BY ZenonT(100) DEF CallKinds
<1>3. ASSUME NEW u \in Thread PROVE Result(u)'
  <2>1. CASE u = t
    BY ZenonT(100), <1>2, <2>1 DEF Result
  <2>2. CASE u # t
    BY ZenonT(100), <1>2, <2>2 DEF CallKinds, Result
  <2>. QED BY <2>1, <2>2
<1>. QED BY ZenonT(100), <1>1, <1>3 DEF CallKinds

\* A thread returns.
LEMMA CallReturn ==
  ASSUME Kinds, CallKinds, NEW t \in Thread, Return(t)
  PROVE  CallKinds'
<1>1. "idle" \in Label /\ "idle" \notin HasList \cup HasFields /\ 0 \in Nat \cup Garbage
  BY DEF Label, HasList, HasFields
<1>2. Get(t, NoResult, 0) /\ pc' = [pc EXCEPT ![t] = "idle"]
  BY Zenon DEF Return, Get
<1>. QED BY ZenonT(100), <1>1, <1>2, CallMove

\* No thread moves.
LEMMA CallSame ==
  ASSUME CallKinds, UNCHANGED <<pc, result, version>>
  PROVE  CallKinds'
BY ZenonT(100) DEF CallKinds, Result

\* The server that is asked stays, and no program begins to ask.
LEMMA AskSame ==
  ASSUME AskKinds, UNCHANGED asked,
         \A n \in Server : pc'[<<n, "app">>] = "getProcess" => pc[<<n, "app">>] = "getProcess"
  PROVE  AskKinds'
BY ZenonT(100) DEF AskKinds

\* A thread that moves, but not to getProcess.
LEMMA AskMove ==
  ASSUME Kinds, AskKinds, UNCHANGED asked, NEW t \in Thread, NEW l, l # "getProcess",
         pc' = [pc EXCEPT ![t] = l]
  PROVE  AskKinds'
<1>1. \A u \in Thread : pc'[u] = "getProcess" => pc[u] = "getProcess"
  BY ZenonT(100) DEF Kinds, ThreadKinds
<1>2. \A n \in Server : <<n, "app">> \in Thread
  BY ZenonT(100), Threads
<1>. QED BY ZenonT(100), <1>1, <1>2, AskSame

\* The fields that a get returns, and the versions of a node.
LEMMA Fields ==
  ASSUME StoreKinds, NEW i \in Id
  PROVE  /\ GetMemorySegment(i) \in Segment
         /\ StatOf(i) \subseteq Nat \cup Garbage
         /\ segment[i] # NoNode => segment[i] \in Segment
<1>1. segment[i] \in Segment \cup {NoNode}
  BY Zenon DEF StoreKinds
<1>2. NoFields \in Segment
  BY DEF NoFields, Segment, Unmapped, Unset
<1>3. segment[i] # NoNode => segment[i] \in Segment /\ segment[i].version \in Nat
  BY <1>1 DEF Segment
<1>. QED BY ZenonT(100), <1>2, <1>3 DEF GetMemorySegment, StatOf

\* A node is stored or removed.
LEMMA StoreNode ==
  ASSUME StoreKinds, UNCHANGED process, NEW i \in Id, NEW node \in Segment \cup {NoNode},
         segment' \in {segment, [segment EXCEPT ![i] = node]}
  PROVE  StoreKinds'
BY ZenonT(100) DEF StoreKinds

\* A process list is stored.
LEMMA StoreList ==
  ASSUME StoreKinds, UNCHANGED segment, NEW n \in Server, NEW list \in SUBSET Id,
         process' \in {process, [process EXCEPT ![n] = [list |-> list, version |-> @.version + 1]]}
  PROVE  StoreKinds'
<1>1. process[n].version + 1 \in Nat
  BY DEF StoreKinds
<1>2. [list |-> list, version |-> process[n].version + 1] \in [list : SUBSET Id, version : Nat]
  BY <1>1
<1>. QED BY ZenonT(100), <1>2 DEF StoreKinds

\* The fields of a node with a new source and destination.
LEMMA NewFields ==
  ASSUME NEW r \in Segment, NEW source \in Server \cup {Unset},
         NEW destination \in Server \cup {Unset, Empty}, NEW v \in Nat
  PROVE  [r EXCEPT !.source = source, !.destination = destination, !.version = v] \in Segment
BY ZenonT(100) DEF Segment

\* What SetSegment writes back is a node.
LEMMA StoreFields ==
  ASSUME StoreKinds, UNCHANGED process, NEW t \in Thread, id[t] \in Id, result[t] \in Segment,
         NEW source \in Server \cup {Unset}, NEW destination \in Server \cup {Unset, Empty},
         SetSegment(t, source, destination)
  PROVE  StoreKinds'
<1>. DEFINE node == segment[id[t]]
            new == [result[t] EXCEPT !.source = source, !.destination = destination,
                                     !.version = node.version + 1]
<1>1. CASE Matches(t, node)
  <2>1. node \in Segment
    BY ZenonT(100), <1>1, Fields DEF Matches
  <2>2. node.version + 1 \in Nat
    BY <2>1 DEF Segment
  <2>3. new \in Segment
    BY ZenonT(100), <2>2, NewFields
  <2>4. segment' = [segment EXCEPT ![id[t]] = new]
    BY Zenon, <1>1 DEF SetSegment
  <2>. HIDE DEF new
  <2>. QED BY ZenonT(100), <2>3, <2>4, StoreNode
<1>2. CASE ~Matches(t, node)
  BY ZenonT(100), <1>2 DEF SetSegment, StoreKinds
<1>. QED BY <1>1, <1>2

\* A program is at another phase with a segment, or has another peer for it.
LEMMA PeerStep ==
  ASSUME PeerKinds, NEW n \in Server, NEW i \in Id, NEW d \in Server,
         NEW p \in {"none", "held", "preparing", "accepted", "moved", "arrived", "closed", "freeing"},
         phase' \in {phase, [phase EXCEPT ![n][i] = p]}, pair' \in {pair, [pair EXCEPT ![n][i] = d]}
  PROVE  PeerKinds'
<1>1. [phase EXCEPT ![n][i] = p] \in
        [Server -> [Id -> {"none", "held", "preparing", "accepted", "moved", "arrived", "closed", "freeing"}]]
  BY ZenonT(100) DEF PeerKinds
<1>2. [pair EXCEPT ![n][i] = d] \in [Server -> [Id -> Server \cup {Unset}]]
  BY ZenonT(100) DEF PeerKinds
<1>. QED BY ZenonT(100), <1>1, <1>2 DEF PeerKinds

\* The requests to ZooKeeper.
LEMMA RequestTypes ==
  ASSUME TypeInv, NEW t \in Thread, Request(t), UNCHANGED <<crashVars, askVars>>
  PROVE  StoreKinds' /\ PeerKinds' /\ CallKinds' /\ AskKinds'
<1>. USE DEF TypeInv
<1>0. /\ t[1] \in Server /\ id[t] \in Id /\ address[t] \in Int /\ Result(t) /\ UNCHANGED asked
      /\ process[t[1]].list \in SUBSET Id /\ process[t[1]].version \in Nat
  <2>1. t[1] \in Server /\ id[t] \in Id /\ address[t] \in Int /\ Result(t) /\ UNCHANGED asked
    BY ZenonT(100), Threads DEF Kinds, ThreadKinds, CallKinds, askVars
  <2>. QED BY <2>1 DEF StoreKinds
<1>a. {"idle", "setAddress", "create", "getAddress", "getList", "setList", "setRemove", "getDelete", "delete",
       "setClean", "setDestination"} \subseteq Label
  BY DEF Label
<1>b. /\ {"idle", "setAddress", "create", "getAddress", "getList", "getDelete", "delete"} \cap (HasList \cup HasFields) = {}
      /\ {"setList", "setRemove"} \cap HasFields = {} /\ {"setClean", "setDestination"} \cap HasList = {}
      /\ {"setList", "setRemove"} \subseteq HasList /\ {"setClean", "setDestination"} \subseteq HasFields
  BY DEF HasList, HasFields
<1>c. UNCHANGED <<segment, process>> => StoreKinds'
  BY Zenon DEF StoreKinds
<1>d. UNCHANGED <<pair, phase>> => PeerKinds'
  BY Zenon DEF PeerKinds
<1>e. ASSUME Return(t) PROVE CallKinds' /\ AskKinds'
  <2>1. pc' = [pc EXCEPT ![t] = "idle"] /\ "idle" # "getProcess"
    BY Zenon, <1>e DEF Return
  <2>. QED BY ZenonT(100), <1>0, <1>e, <2>1, CallReturn, AskMove
<1>f. ASSUME NEW p \in {"none", "held", "accepted"}, SetPhase(t[1], id[t], p), UNCHANGED pair PROVE PeerKinds'
  BY ZenonT(100), <1>0, <1>f, PeerStep DEF SetPhase
<1>1. CASE GetAddress(t)
  <2>1. Get(t, allocator.data, allocator.version) /\ pc' = [pc EXCEPT ![t] = "setAddress"]
    BY Zenon, <1>1 DEF GetAddress, Goto
  <2>2. allocator.version \in Nat /\ "setAddress" # "getProcess"
    BY DEF Kinds
  <2>3. CallKinds' /\ AskKinds'
    BY ZenonT(100), <1>0, <1>a, <1>b, <2>1, <2>2, CallMove, AskMove
  <2>. QED BY ZenonT(100), <1>1, <1>c, <1>d, <2>3 DEF GetAddress, zkVars, memVars
<1>2. CASE SetAddress(t)
  <2>1. PICK l \in {"create", "getAddress"} : pc' = [pc EXCEPT ![t] = l]
    BY ZenonT(100), <1>2 DEF SetAddress, Goto
  <2>2. l # "getProcess" /\ UNCHANGED <<result, version>>
    BY ZenonT(100), <1>2, <2>1 DEF SetAddress
  <2>3. CallKinds' /\ AskKinds'
    BY ZenonT(100), <1>0, <1>a, <1>b, <2>1, <2>2, CallGoto, AskMove
  <2>. QED BY ZenonT(100), <1>2, <1>c, <1>d, <2>3 DEF SetAddress, memVars
<1>3. CASE CreateSegment(t)
  <2>. DEFINE node == [address |-> address[t], source |-> t[1], destination |-> Unset, version |-> 0]
  <2>1. node \in Segment
    BY <1>0 DEF Segment
  <2>2. UNCHANGED process /\ segment' \in {segment, [segment EXCEPT ![id[t]] = node]}
    BY ZenonT(100), <1>3 DEF CreateSegment, Create
  <2>. HIDE DEF node
  <2>3. StoreKinds'
    BY ZenonT(100), <1>0, <2>1, <2>2, StoreNode
  <2>4. CASE Goto(t, "getList") /\ UNCHANGED <<result, version>>
    <3>1. pc' = [pc EXCEPT ![t] = "getList"] /\ "getList" # "getProcess"
      BY Zenon, <2>4 DEF Goto
    <3>2. CallKinds' /\ AskKinds'
      BY ZenonT(100), <1>0, <1>a, <1>b, <2>4, <3>1, CallGoto, AskMove
    <3>. QED BY ZenonT(100), <1>3, <1>d, <2>3, <3>2 DEF CreateSegment, memVars
  <2>5. CASE Return(t)
    BY ZenonT(100), <1>3, <1>d, <1>e, <2>3, <2>5 DEF CreateSegment, memVars
  <2>. QED BY ZenonT(100), <1>3, <2>4, <2>5 DEF CreateSegment
<1>4. CASE GetList(t) \/ GetRemove(t)
  <2>1. PICK l \in {"setList", "setRemove"} :
          pc' = [pc EXCEPT ![t] = l] /\ Get(t, process[t[1]].list, process[t[1]].version)
    BY ZenonT(100), <1>4 DEF GetList, GetRemove, Goto
  <2>2. l # "getProcess" /\ process[t[1]].version \in Nat \cup Garbage
    BY <1>0, <2>1
  <2>3. CallKinds'
    BY ZenonT(100), <1>0, <1>a, <1>b, <2>1, <2>2, CallMove
  <2>4. AskKinds'
    BY ZenonT(100), <1>0, <2>1, <2>2, AskMove
  <2>. QED BY ZenonT(100), <1>4, <1>c, <1>d, <2>3, <2>4 DEF GetList, GetRemove, zkVars, memVars
<1>5. CASE SetList(t)
  <2>1. pc[t] \in HasList
    <3>1. pc[t] = "setList"
      BY ZenonT(100), <1>5 DEF SetList, At
    <3>. QED BY ZenonT(100), <3>1 DEF HasList
  <2>2. result[t] \cup {id[t]} \in SUBSET Id
    BY ZenonT(100), <1>0, <2>1 DEF Result
  <2>3. process' \in {process, [process EXCEPT ![t[1]] = [list |-> result[t] \cup {id[t]}, version |-> @.version + 1]]}
    BY ZenonT(100), <1>5 DEF SetList
  <2>4. StoreKinds'
    BY ZenonT(100), <1>0, <1>5, <2>2, <2>3, StoreList DEF SetList
  <2>5. PeerKinds'
    <3>1. UNCHANGED pair /\ (UNCHANGED phase \/ SetPhase(t[1], id[t], "held"))
      BY ZenonT(100), <1>5 DEF SetList, EndAllocate
    <3>. QED BY ZenonT(100), <1>d, <1>f, <3>1
  <2>. QED BY ZenonT(100), <1>5, <1>e, <2>4, <2>5 DEF SetList
<1>6. CASE SetRemove(t)
  <2>1. pc[t] \in HasList
    <3>1. pc[t] = "setRemove"
      BY ZenonT(100), <1>6 DEF SetRemove, At
    <3>. QED BY ZenonT(100), <3>1 DEF HasList
  <2>2. WithoutId(result[t], id[t]) \in SUBSET Id
    BY ZenonT(100), <1>0, <2>1 DEF Result, WithoutId
  <2>3. process' \in {process, [process EXCEPT ![t[1]] = [list |-> WithoutId(result[t], id[t]), version |-> @.version + 1]]}
    BY ZenonT(100), <1>6 DEF SetRemove
  <2>4. StoreKinds'
    BY ZenonT(100), <1>0, <1>6, <2>2, <2>3, StoreList DEF SetRemove
  <2>5. pc' = [pc EXCEPT ![t] = "getDelete"] /\ "getDelete" # "getProcess"
    BY Zenon, <1>6 DEF SetRemove, Goto
  <2>6. CallKinds' /\ AskKinds'
    BY ZenonT(100), <1>0, <1>6, <1>a, <1>b, <2>5, CallGoto, AskMove DEF SetRemove
  <2>. QED BY ZenonT(100), <1>6, <1>d, <2>4, <2>6 DEF SetRemove
<1>7. CASE GetDelete(t) \/ GetSegment(t)
  <2>0. PICK l \in {"delete", "setClean", "setDestination"}, v \in StatOf(id[t]) :
          /\ pc' = [pc EXCEPT ![t] = l]
          /\ \E r : Get(t, r, v) /\ (l = "delete" \/ r = GetMemorySegment(id[t]))
    <3>1. CASE GetDelete(t)
      BY ZenonT(100), <3>1 DEF GetDelete, Goto
    <3>2. CASE GetSegment(t)
      BY ZenonT(100), <3>2 DEF GetSegment, Goto
    <3>. QED BY <1>7, <3>1, <3>2
  <2>1. PICK r : Get(t, r, v) /\ (l = "delete" \/ r = GetMemorySegment(id[t]))
    BY Zenon, <2>0
  <2>2. v \in Nat \cup Garbage /\ (l # "delete" => r \in Segment)
    BY ZenonT(100), <1>0, <2>0, <2>1, Fields
  <2>3. l # "getProcess" /\ l \in Label /\ l \notin HasList /\ (l \in HasFields => l # "delete")
    BY <2>0 DEF Label, HasList, HasFields
  <2>4. CallKinds'
    BY ZenonT(100), <2>0, <2>1, <2>2, <2>3, CallMove
  <2>5. AskKinds'
    BY ZenonT(100), <1>0, <2>0, <2>3, AskMove
  <2>. QED BY ZenonT(100), <1>7, <1>c, <1>d, <2>4, <2>5 DEF GetDelete, GetSegment, zkVars, memVars
<1>8. CASE DeleteSegment(t)
  <2>1. segment' \in {segment, [segment EXCEPT ![id[t]] = NoNode]}
    BY ZenonT(100), <1>8 DEF DeleteSegment, Remove
  <2>2. StoreKinds'
    BY ZenonT(100), <1>0, <1>8, <2>1, StoreNode DEF DeleteSegment
  <2>3. PeerKinds'
    BY ZenonT(100), <1>8, <1>f DEF DeleteSegment, memVars
  <2>. QED BY ZenonT(100), <1>8, <1>e, <2>2, <2>3 DEF DeleteSegment
<1>9. CASE SetDestination(t)
  <2>1. pc[t] \in HasFields
    <3>1. pc[t] = "setDestination"
      BY ZenonT(100), <1>9 DEF SetDestination, At
    <3>. QED BY ZenonT(100), <3>1 DEF HasFields
  <2>2. result[t] \in Segment
    BY Zenon, <1>0, <2>1 DEF Result
  <2>3. result[t].source \in Server \cup {Unset}
    BY <2>2 DEF Segment
  <2>4. pair[t[1]][id[t]] \in Server \cup {Unset, Empty}
    <3>1. pair[t[1]][id[t]] \in Server \cup {Unset}
      BY <1>0 DEF PeerKinds
    <3>. QED BY Zenon, <3>1
  <2>5. StoreKinds'
    BY ZenonT(100), <1>0, <1>9, <2>2, <2>3, <2>4, StoreFields DEF SetDestination
  <2>6. PeerKinds'
    BY ZenonT(100), <1>9, <1>f DEF SetDestination, memVars
  <2>. QED BY ZenonT(100), <1>9, <1>e, <2>5, <2>6 DEF SetDestination
<1>10. CASE SetClean(t)
  <2>1. pc[t] \in HasFields
    <3>1. pc[t] = "setClean"
      BY ZenonT(100), <1>10 DEF SetClean, At
    <3>. QED BY ZenonT(100), <3>1 DEF HasFields
  <2>2. result[t] \in Segment
    BY Zenon, <1>0, <2>1 DEF Result
  <2>3. StoreKinds'
    BY ZenonT(100), <1>0, <1>10, <2>2, StoreFields DEF SetClean
  <2>4. PeerKinds'
    BY ZenonT(100), <1>10, <1>f DEF SetClean, memVars
  <2>. QED BY ZenonT(100), <1>10, <1>e, <2>3, <2>4 DEF SetClean
<1>. QED BY ZenonT(100), <1>1, <1>2, <1>3, <1>4, <1>5, <1>6, <1>7, <1>8, <1>9, <1>10 DEF Request

\* The steps of a poller and of a program.
LEMMA ProgramTypes ==
  ASSUME TypeInv, UNCHANGED <<crashVars, askVars>>,
         \/ \E d, s \in Server : Poller(d, s)
         \/ \E n \in Server, i \in Id : Program(n, i)
  PROVE  StoreKinds' /\ PeerKinds' /\ CallKinds' /\ AskKinds'
<1>. USE DEF TypeInv
<1>1. UNCHANGED <<segment, process, asked>>
  BY ZenonT(100) DEF Poller, Accept, OnAccept, OnTransfer, OnDone, Program, BeginAllocate, Prepare, Transfer,
     Close, zkVars, askVars
<1>2. StoreKinds'
  BY Zenon, <1>1 DEF StoreKinds
<1>3. ASSUME NEW t \in Thread, NEW l \in {"getAddress", "getList", "getDestination", "getClean"},
             pc' = [pc EXCEPT ![t] = l], UNCHANGED <<result, version>>
      PROVE  CallKinds' /\ AskKinds'
  <2>1. l \in Label \ (HasList \cup HasFields) /\ l # "getProcess"
    BY <1>3 DEF Label, HasList, HasFields
  <2>. QED BY ZenonT(100), <1>1, <1>3, <2>1, CallGoto, AskMove
<1>4. ASSUME UNCHANGED threadVars PROVE CallKinds' /\ AskKinds'
  BY ZenonT(100), <1>1, <1>4, CallSame, AskSame DEF threadVars
<1>5. UNCHANGED <<pair, phase>> => PeerKinds'
  BY Zenon DEF PeerKinds
<1>6. \A n \in Server : <<n, "app">> \in Thread /\ <<n, "poller">> \in Thread
  BY Zenon, Threads
<1>7. ASSUME NEW d \in Server, NEW s \in Server, Poller(d, s)
      PROVE  PeerKinds' /\ CallKinds' /\ AskKinds'
  <2>1. PICK type \in {"PREPARE", "ACCEPT", "TRANSFER", "DONE"} : GetMessage(d, s, type)
    BY ZenonT(100), <1>7 DEF Poller, Accept, OnAccept, OnTransfer, OnDone
  <2>2. Head(chan[s][d]).id \in Id
    BY ZenonT(100), <2>1, TakeWire, HandOverFields DEF GetMessage
  <2>3. CASE Accept(d, s)
    <3>1. pc' = [pc EXCEPT ![<<d, "poller">>] = "getList"] /\ UNCHANGED <<result, version>>
      BY ZenonT(100), <2>3 DEF Accept, Begin
    <3>2. UNCHANGED phase /\ pair' = [pair EXCEPT ![d][Head(chan[s][d]).id] = s]
      BY ZenonT(100), <2>3 DEF Accept, UpdatePair
    <3>3. PeerKinds'
      BY ZenonT(100), <2>2, <3>2, PeerStep
    <3>. QED BY ZenonT(100), <1>3, <1>6, <3>1, <3>3
  <2>4. CASE OnAccept(d, s)
    <3>1. pc' = [pc EXCEPT ![<<d, "poller">>] = "getDestination"] /\ UNCHANGED <<result, version, pair, phase>>
      BY ZenonT(100), <2>4 DEF OnAccept, Begin, memVars
    <3>. QED BY ZenonT(100), <1>3, <1>5, <1>6, <3>1
  <2>5. CASE OnTransfer(d, s) \/ OnDone(d, s)
    <3>1. PICK p \in {"arrived", "closed"} :
            phase' = [phase EXCEPT ![d][Head(chan[s][d]).id] = p] /\ UNCHANGED <<pair, threadVars>>
      BY ZenonT(100), <2>5 DEF OnTransfer, OnDone, SetPhase, memVars
    <3>2. PeerKinds'
      BY ZenonT(100), <2>2, <3>1, PeerStep
    <3>. QED BY ZenonT(100), <1>4, <3>1, <3>2
  <2>. QED BY ZenonT(100), <1>7, <2>3, <2>4, <2>5 DEF Poller
<1>8. ASSUME NEW n \in Server, NEW i \in Id, Program(n, i)
      PROVE  PeerKinds' /\ CallKinds' /\ AskKinds'
  <2>1. CASE BeginAllocate(n, i) \/ Close(n, i)
    <3>1. PICK l \in {"getAddress", "getClean"} :
            pc' = [pc EXCEPT ![<<n, "app">>] = l] /\ UNCHANGED <<result, version, pair, phase>>
      BY ZenonT(100), <2>1 DEF BeginAllocate, Close, Begin, memVars
    <3>. QED BY ZenonT(100), <1>3, <1>5, <1>6, <3>1
  <2>2. CASE (\E d \in Server : Prepare(n, i, d)) \/ Transfer(n, i)
    <3>1. PICK p \in {"preparing", "moved"}, d \in Server :
            /\ phase' = [phase EXCEPT ![n][i] = p] /\ pair' \in {pair, [pair EXCEPT ![n][i] = d]}
            /\ UNCHANGED threadVars
      <4>1. CASE Transfer(n, i)
        BY ZenonT(100), <4>1 DEF Transfer, SetPhase, memVars
      <4>2. ASSUME NEW d \in Server, Prepare(n, i, d)
            PROVE  /\ phase' = [phase EXCEPT ![n][i] = "preparing"] /\ pair' \in {pair, [pair EXCEPT ![n][i] = d]}
                   /\ UNCHANGED threadVars
        BY ZenonT(100), <4>2 DEF Prepare, SetPhase, UpdatePair
      <4>. QED BY ZenonT(100), <2>2, <4>1, <4>2
    <3>2. PeerKinds'
      BY ZenonT(100), <3>1, PeerStep
    <3>. QED BY ZenonT(100), <1>4, <3>1, <3>2
  <2>. QED BY ZenonT(100), <1>8, <2>1, <2>2 DEF Program
<1>. QED BY ZenonT(100), <1>2, <1>7, <1>8

\* deallocate begins.
LEMMA DeallocateTypes ==
  ASSUME TypeInv, NEW n \in Server, NEW i \in Id, Deallocate(n, i), UNCHANGED crashVars
  PROVE  StoreKinds' /\ PeerKinds' /\ CallKinds' /\ AskKinds' /\ CrashKinds'
<1>. USE DEF TypeInv
<1>1. UNCHANGED <<segment, process, asked, pair, result, version, down, lost, recovered>>
  BY ZenonT(100) DEF Deallocate, zkVars, memVars, crashVars
<1>2. StoreKinds'
  BY Zenon, <1>1 DEF StoreKinds
<1>3. PeerKinds'
  <2>1. PICK p \in {"closed", "freeing"} :
          phase' \in {phase, [phase EXCEPT ![n][i] = p]} /\ pair' \in {pair, [pair EXCEPT ![n][i] = n]}
    BY ZenonT(100), <1>1 DEF Deallocate, SetPhase
  <2>. QED BY ZenonT(100), <2>1, PeerStep
<1>4. CallKinds' /\ AskKinds'
  <2>1. CASE UNCHANGED pc
    BY ZenonT(100), <1>1, <2>1, CallSame, AskSame
  <2>2. ASSUME NEW l \in {"getRemove", "getDelete"}, Begin(<<n, "app">>, l, i) PROVE CallKinds' /\ AskKinds'
    <3>1. l \in Label \ (HasList \cup HasFields) /\ l # "getProcess"
      BY <2>2 DEF Label, HasList, HasFields
    <3>2. <<n, "app">> \in Thread /\ pc' = [pc EXCEPT ![<<n, "app">>] = l]
      BY ZenonT(100), <2>2, Threads DEF Begin
    <3>. QED BY ZenonT(100), <1>1, <3>1, <3>2, CallGoto, AskMove
  <2>. QED BY ZenonT(100), <2>1, <2>2 DEF Deallocate
<1>5. CrashKinds'
  <2>1. halted' \in {halted, halted \cup {n}} /\ partitions' = [partitions EXCEPT ![n] = {p \in @ : p.id # i}]
    BY ZenonT(100) DEF Deallocate
  <2>2. halted' \subseteq Server
    BY ZenonT(100), <2>1 DEF CrashKinds
  <2>3. partitions' \in [Server -> SUBSET [id : Id, address : Int, source : Server \cup {Unset}]]
    BY ZenonT(100), <2>1 DEF CrashKinds
  <2>. QED BY ZenonT(100), <1>1, <2>2, <2>3 DEF CrashKinds
<1>. QED BY <1>2, <1>3, <1>4, <1>5

\* A server crashes: its calls are over.
LEMMA CrashTypes ==
  ASSUME TypeInv, NEW n \in Server, Crash(n)
  PROVE  StoreKinds' /\ PeerKinds' /\ CallKinds' /\ AskKinds' /\ CrashKinds'
<1>. USE DEF TypeInv
<1>1. StoreKinds'
  BY ZenonT(100) DEF Crash, zkVars, StoreKinds
<1>2. PeerKinds'
  <2>1. [i \in Id |-> "none"] \in
          [Id -> {"none", "held", "preparing", "accepted", "moved", "arrived", "closed", "freeing"}]
    BY ZenonT(100)
  <2>2. [i \in Id |-> Unset] \in [Id -> Server \cup {Unset}]
    BY ZenonT(100)
  <2>3. phase' = [phase EXCEPT ![n] = [i \in Id |-> "none"]] /\ pair' = [pair EXCEPT ![n] = [i \in Id |-> Unset]]
    BY Zenon DEF Crash
  <2>. QED BY ZenonT(100), <2>1, <2>2, <2>3 DEF PeerKinds
<1>3. \A t \in Thread : /\ pc'[t] = IF t[1] = n THEN "idle" ELSE pc[t]
                        /\ result'[t] = IF t[1] = n THEN NoResult ELSE result[t]
  BY ZenonT(100) DEF Crash
<1>4. CallKinds'
  <2>1. "idle" \in Label /\ "idle" \notin HasList \cup HasFields /\ 0 \in Nat \cup Garbage
    BY DEF Label, HasList, HasFields
  <2>2. pc' \in [Thread -> Label] /\ version' \in [Thread -> Nat \cup Garbage]
    BY ZenonT(100), <2>1 DEF Crash, CallKinds
  <2>3. ASSUME NEW t \in Thread PROVE Result(t)'
    BY ZenonT(100), <1>3, <2>1 DEF CallKinds, Result
  <2>. QED BY ZenonT(100), <2>2, <2>3 DEF CallKinds
<1>5. AskKinds'
  <2>1. \A m \in Server : pc'[<<m, "app">>] = "getProcess" => pc[<<m, "app">>] = "getProcess"
    BY ZenonT(100), <1>3, Threads
  <2>. QED BY ZenonT(100), <2>1, AskSame DEF Crash
<1>6. CrashKinds'
  <2>1. /\ down' = down \cup {n} /\ lost' = lost \cup {n} /\ partitions' = [partitions EXCEPT ![n] = {}]
        /\ UNCHANGED <<halted, recovered>>
    BY Zenon DEF Crash
  <2>2. partitions' \in [Server -> SUBSET [id : Id, address : Int, source : Server \cup {Unset}]]
    BY ZenonT(100), <2>1 DEF CrashKinds
  <2>3. down' \subseteq lost' /\ lost' \subseteq Server
    BY ZenonT(100), <2>1 DEF CrashKinds
  <2>. QED BY ZenonT(100), <2>1, <2>2, <2>3 DEF CrashKinds
<1>. QED BY <1>1, <1>2, <1>4, <1>5, <1>6

\* A server starts again, and others recover what it had.
LEMMA RecoveryTypes ==
  ASSUME TypeInv, NEW n \in Server, Recovery(n)
  PROVE  StoreKinds' /\ PeerKinds' /\ CallKinds' /\ AskKinds' /\ CrashKinds'
<1>. USE DEF TypeInv
<1>. DEFINE t == <<n, "app">>
<1>0. t \in Thread /\ Result(t) /\ \A m \in Server : <<m, "app">> \in Thread
  BY ZenonT(100), Threads DEF CallKinds
<1>2. UNCHANGED <<segment, process>> => StoreKinds'
  BY Zenon DEF StoreKinds
<1>3. UNCHANGED <<pair, phase>> => PeerKinds'
  BY Zenon DEF PeerKinds
<1>4. CASE Restart(n)
  <2>1. StoreKinds'
    <3>1. {} \in SUBSET Id
      BY Zenon
    <3>. QED BY ZenonT(100), <1>4, <3>1, StoreList DEF Restart
  <2>2. CallKinds' /\ AskKinds'
    BY ZenonT(100), <1>4, CallSame, AskSame DEF Restart, threadVars, askVars
  <2>3. CrashKinds'
    BY ZenonT(100), <1>4 DEF Restart, askVars, CrashKinds
  <2>. QED BY ZenonT(100), <1>3, <1>4, <2>1, <2>2, <2>3 DEF Restart, memVars
<1>5. ASSUME NEW d \in Server, Recover(n, d) PROVE CallKinds' /\ AskKinds' /\ CrashKinds'
  <2>1. /\ pc' = [pc EXCEPT ![t] = "getProcess"] /\ asked' = [asked EXCEPT ![n] = d]
        /\ recovered' = [recovered EXCEPT ![n] = @ \cup {d}] /\ UNCHANGED <<result, version, partitions, halted, down, lost>>
    BY ZenonT(100), <1>5 DEF Recover, Goto, crashVars
  <2>2. "getProcess" \in Label \ (HasList \cup HasFields)
    BY DEF Label, HasList, HasFields
  <2>3. CallKinds'
    BY ZenonT(100), <1>0, <2>1, <2>2, CallGoto
  <2>4. asked' \in [Server -> Server \cup {Unset}]
    BY ZenonT(100), <2>1 DEF AskKinds
  <2>5. ASSUME NEW m \in Server, pc'[<<m, "app">>] = "getProcess" PROVE asked'[m] \in Server
    <3>1. CASE m = n
      BY <2>1, <3>1 DEF AskKinds
    <3>2. CASE m # n
      <4>1. pc[<<m, "app">>] = "getProcess" /\ asked'[m] = asked[m]
        BY <1>0, <2>1, <2>5, <3>2 DEF AskKinds, CallKinds
      <4>. QED BY Zenon, <4>1 DEF AskKinds
    <3>. QED BY <3>1, <3>2
  <2>6. recovered' \in [Server -> SUBSET Server]
    BY ZenonT(100), <2>1 DEF CrashKinds
  <2>7. CrashKinds'
    BY ZenonT(100), <2>1, <2>6 DEF CrashKinds
  <2>. QED BY ZenonT(100), <2>3, <2>4, <2>5, <2>7 DEF AskKinds
<1>7. CASE GetProcess(n)
  <2>1. /\ pc' = [pc EXCEPT ![t] = "getPartition"] /\ Get(t, process[asked[n]].list, process[asked[n]].version)
        /\ UNCHANGED <<segment, process, pair, phase, asked, halted, down, lost, partitions, recovered>>
        /\ asked[n] \in Server
    BY ZenonT(100), <1>7 DEF GetProcess, At, Goto, zkVars, memVars, crashVars, askVars, AskKinds
  <2>2. process[asked[n]].list \in SUBSET Id /\ process[asked[n]].version \in Nat \cup Garbage
    BY <2>1 DEF StoreKinds
  <2>3. "getPartition" \in Label \ HasFields /\ "getPartition" # "getProcess"
    BY DEF Label, HasFields
  <2>4. CallKinds' /\ AskKinds'
    BY ZenonT(100), <1>0, <2>1, <2>2, <2>3, CallMove, AskMove
  <2>5. CrashKinds'
    BY ZenonT(100), <2>1 DEF CrashKinds
  <2>. QED BY ZenonT(100), <1>2, <1>3, <2>1, <2>4, <2>5
<1>8. ASSUME NEW i \in Id, GetPartition(n, i) PROVE CallKinds' /\ AskKinds' /\ CrashKinds'
  <2>1. pc[t] = "getPartition" /\ "getPartition" \in HasList /\ "getPartition" \in Label \ HasFields
    BY ZenonT(100), <1>8 DEF GetPartition, At, HasList, HasFields, Label
  <2>2. result[t] \ {i} \in SUBSET Id
    BY ZenonT(100), <1>0, <2>1 DEF Result
  <2>3. UNCHANGED <<pc, version, asked, halted, down, lost, recovered>> /\ result' = [result EXCEPT ![t] = result[t] \ {i}]
    BY ZenonT(100), <1>8 DEF GetPartition, crashVars
  <2>4. CallKinds'
    <3>1. \A u \in Thread : result'[u] = IF u = t THEN result[t] \ {i} ELSE result[u]
      BY ZenonT(100), <2>3 DEF Kinds, ThreadKinds
    <3>2. ASSUME NEW u \in Thread PROVE Result(u)'
      <4>1. CASE u = t
        BY ZenonT(100), <1>0, <2>1, <2>2, <2>3, <3>1, <4>1 DEF Result
      <4>2. CASE u # t
        BY ZenonT(100), <2>3, <3>1, <4>2 DEF CallKinds, Result
      <4>. QED BY <4>1, <4>2
    <3>. QED BY ZenonT(100), <2>3, <3>2 DEF CallKinds
  <2>5. AskKinds'
    BY ZenonT(100), <2>3, AskSame
  <2>6. CrashKinds'
    <3>. DEFINE new == IF segment[i] = NoNode THEN {}
                       ELSE {[id |-> i, address |-> segment[i].address, source |-> segment[i].source]}
    <3>1. new \subseteq [id : Id, address : Int, source : Server \cup {Unset}]
      <4>1. CASE segment[i] # NoNode
        <5>1. segment[i] \in Segment
          BY ZenonT(100), <4>1, Fields
        <5>2. segment[i].address \in Int /\ segment[i].source \in Server \cup {Unset}
          BY <5>1 DEF Segment
        <5>. QED BY <5>2
      <4>2. CASE segment[i] = NoNode
        BY Zenon, <4>2
      <4>. QED BY <4>1, <4>2
    <3>2. partitions' = [partitions EXCEPT ![n] = @ \cup new]
      BY Zenon, <1>8 DEF GetPartition
    <3>. HIDE DEF new
    <3>3. partitions' \in [Server -> SUBSET [id : Id, address : Int, source : Server \cup {Unset}]]
      BY ZenonT(100), <3>1, <3>2 DEF CrashKinds
    <3>. QED BY ZenonT(100), <2>3, <3>3 DEF CrashKinds
  <2>. QED BY <2>4, <2>5, <2>6
<1>9. CASE EndRecover(n)
  <2>1. pc' = [pc EXCEPT ![t] = "idle"] /\ "idle" # "getProcess" /\ UNCHANGED asked
    BY ZenonT(100), <1>9 DEF EndRecover, Return, askVars
  <2>2. CallKinds' /\ AskKinds'
    BY ZenonT(100), <1>0, <1>9, <2>1, CallReturn, AskMove DEF EndRecover
  <2>3. CrashKinds'
    BY ZenonT(100), <1>9 DEF EndRecover, CrashKinds, crashVars, askVars
  <2>. QED BY ZenonT(100), <1>2, <1>3, <1>9, <2>2, <2>3 DEF EndRecover, zkVars, memVars
<1>10. ASSUME NEW i \in Id, GetPartition(n, i) PROVE UNCHANGED <<segment, process, pair, phase>>
  BY ZenonT(100), <1>10 DEF GetPartition, zkVars, memVars
<1>11. ASSUME NEW d \in Server, Recover(n, d) PROVE UNCHANGED <<segment, process, pair, phase>>
  BY ZenonT(100), <1>11 DEF Recover, zkVars, memVars
<1>. QED BY ZenonT(100), <1>2, <1>3, <1>4, <1>5, <1>7, <1>8, <1>9, <1>10, <1>11, CrashTypes DEF Recovery

\* The query for the live segments.
LEMMA QueryTypes ==
  ASSUME TypeInv, NEW n \in Server, NEW d \in Server, Query(n, d)
  PROVE  StoreKinds' /\ PeerKinds' /\ CallKinds' /\ AskKinds' /\ CrashKinds'
<1>. USE DEF TypeInv
<1>. DEFINE t == <<n, "app">>
<1>0. t \in Thread /\ \A m \in Server : <<m, "app">> \in Thread
  BY ZenonT(100), Threads
<1>1. /\ UNCHANGED <<segment, process, pair, phase>>
      /\ UNCHANGED <<halted, down, lost, partitions, recovered>>
  BY ZenonT(100) DEF Query, QueryLive, OnGetPartitions, OnSentPartitions, zkVars, memVars, crashVars, askVars
<1>2. StoreKinds' /\ PeerKinds' /\ CrashKinds'
  BY ZenonT(100), <1>1 DEF StoreKinds, PeerKinds, CrashKinds
<1>3. CASE QueryLive(n, d)
  <2>1. /\ pc' = [pc EXCEPT ![t] = "waitList"] /\ asked' = [asked EXCEPT ![n] = d]
        /\ UNCHANGED <<result, version>>
    BY ZenonT(100), <1>3 DEF QueryLive, Goto
  <2>2. "waitList" \in Label \ (HasList \cup HasFields)
    BY DEF Label, HasList, HasFields
  <2>3. CallKinds'
    BY ZenonT(100), <1>0, <2>1, <2>2, CallGoto
  <2>4. asked' \in [Server -> Server \cup {Unset}]
    BY ZenonT(100), <2>1 DEF AskKinds
  <2>5. ASSUME NEW m \in Server, pc'[<<m, "app">>] = "getProcess" PROVE asked'[m] \in Server
    <3>1. m # n
      BY <1>0, <2>1, <2>5 DEF CallKinds
    <3>2. pc[<<m, "app">>] = "getProcess" /\ asked'[m] = asked[m]
      BY <1>0, <2>1, <2>5, <3>1 DEF AskKinds, CallKinds
    <3>. QED BY Zenon, <3>2 DEF AskKinds
  <2>. QED BY ZenonT(100), <1>2, <2>3, <2>4, <2>5 DEF AskKinds
<1>4. CASE OnGetPartitions(n, d)
  BY ZenonT(100), <1>2, <1>4, CallSame, AskSame DEF OnGetPartitions, threadVars, askVars
<1>5. CASE OnSentPartitions(n, d)
  <2>1. Return(t) /\ pc' = [pc EXCEPT ![t] = "idle"] /\ "idle" # "getProcess" /\ UNCHANGED asked
    BY ZenonT(100), <1>5 DEF OnSentPartitions, Return, askVars
  <2>. QED BY ZenonT(100), <1>0, <1>2, <2>1, CallReturn, AskMove
<1>. QED BY ZenonT(100), <1>3, <1>4, <1>5 DEF Query

\* Every step keeps the types, given that it keeps those of the addresses.
LEMMA TypeStep ==
  ASSUME TypeInv, [Next]_vars, Kinds'
  PROVE  TypeInv'
<1>1. CASE UNCHANGED <<crashVars, askVars, halted>> /\ StoreKinds' /\ PeerKinds' /\ CallKinds' /\ AskKinds'
  BY ZenonT(100), <1>1 DEF TypeInv, CrashKinds, crashVars, askVars
<1>2. ASSUME UNCHANGED <<crashVars, askVars>>,
             \/ \E t \in Thread : Request(t)
             \/ \E d, s \in Server : Poller(d, s)
             \/ \E n \in Server, i \in Id : Program(n, i)
      PROVE  UNCHANGED halted
  BY ZenonT(100), <1>2 DEF Request, GetAddress, SetAddress, CreateSegment, GetList, SetList, GetRemove, SetRemove,
     GetDelete, DeleteSegment, GetSegment, SetDestination, SetClean, Poller, Accept, OnAccept, OnTransfer, OnDone,
     Program, BeginAllocate, Prepare, Transfer, Close
<1>3. CASE UNCHANGED vars
  <2>1. UNCHANGED <<segment, process, pair, phase, pc, result, version, asked, crashVars, askVars, halted>>
    BY ZenonT(100), <1>3 DEF vars, zkVars, memVars, threadVars, askVars
  <2>2. StoreKinds' /\ PeerKinds'
    BY ZenonT(100), <2>1 DEF TypeInv, StoreKinds, PeerKinds
  <2>3. CallKinds' /\ AskKinds'
    BY ZenonT(100), <2>1, CallSame, AskSame DEF TypeInv
  <2>. QED BY ZenonT(100), <1>1, <2>1, <2>2, <2>3
<1>4. ASSUME UNCHANGED <<crashVars, askVars>>,
             \/ \E t \in Thread : Request(t)
             \/ \E d, s \in Server : Poller(d, s)
             \/ \E n \in Server, i \in Id : Program(n, i)
      PROVE  TypeInv'
  BY ZenonT(100), <1>1, <1>2, <1>4, RequestTypes, ProgramTypes
<1>5. CASE \E n \in Server, i \in Id : Deallocate(n, i) /\ UNCHANGED crashVars
  BY ZenonT(100), <1>5, DeallocateTypes DEF TypeInv
<1>6. CASE \/ \E n \in Server : Recovery(n)
           \/ \E n, d \in Server : Query(n, d)
  BY ZenonT(100), <1>6, RecoveryTypes, QueryTypes DEF TypeInv
<1>. QED BY ZenonT(100), <1>3, <1>4, <1>5, <1>6 DEF Next

\* The inductive invariant holds of every behaviour.
THEOREM TypeHolds == Spec => [](AddressInv /\ TypeInv)
<1>1. Init => AddressInv /\ TypeInv
  <2>. SUFFICES ASSUME Init PROVE AddressInv /\ TypeInv
    OBVIOUS
  <2>1. AddressInv
    BY Zenon, InitKeeps
  <2>2. StoreKinds
    BY ZenonT(100) DEF Init, StoreKinds
  <2>3. PeerKinds
    BY ZenonT(100) DEF Init, PeerKinds
  <2>4. CallKinds
    BY DEF Init, CallKinds, Label, Result, HasList, HasFields
  <2>5. AskKinds /\ CrashKinds
    BY DEF Init, AskKinds, CrashKinds, Thread, Role
  <2>. QED BY Zenon, <2>1, <2>2, <2>3, <2>4, <2>5 DEF TypeInv, AddressInv
<1>2. (AddressInv /\ TypeInv) /\ [Next]_vars => (AddressInv /\ TypeInv)'
  BY Zenon, NextKeeps, TypeStep DEF AddressInv
<1>. QED BY <1>1, <1>2, PTL DEF Spec

\* Every variable keeps its type, also when the version that a failed get leaves lets a write of
\* fields that were never read go through (updateSegmentDestination, cleanMemorySegment).
THEOREM TypeCorrect == Spec => []TypeOK
<1>1. AddressInv /\ TypeInv => TypeOK
  <2>. SUFFICES ASSUME TypeInv PROVE TypeOK
    OBVIOUS
  <2>. QED BY ZenonT(100) DEF TypeInv, Kinds, ThreadKinds, StoreKinds, PeerKinds, CallKinds, AskKinds, CrashKinds,
              TypeOK, Label
<1>. QED BY <1>1, TypeHolds, PTL

-----------------------------------------------------------------------------
(* Queries.  A program that waits has one request or one answer under way, and *)
(* who does not wait has none: the semaphore is posted once for every wait.    *)

\* The messages of a queue with its head taken.
LEMMA HasTail ==
  ASSUME NEW q \in Seq(Message), q # <<>>, NEW type
  PROVE  /\ Has(Tail(q), type) => Has(q, type)
         /\ Head(q).type # type => (Has(q, type) => Has(Tail(q), type))
         /\ Once(q, type) => Once(Tail(q), type)
         /\ Once(q, type) /\ Head(q).type = type => ~Has(Tail(q), type)
         /\ Head(q).type = type => Has(q, type)
<1>1. Head(q) = q[1] /\ 1 \in 1 .. Len(q)
  OBVIOUS
<1>2. \A k \in 1 .. Len(Tail(q)) : k + 1 \in 1 .. Len(q) /\ Tail(q)[k] = q[k + 1] /\ k + 1 # 1
  OBVIOUS
<1>3. \A k \in 1 .. Len(q) : k # 1 => k - 1 \in 1 .. Len(Tail(q)) /\ Tail(q)[k - 1] = q[k]
  OBVIOUS
<1>4. Has(Tail(q), type) => Has(q, type)
  BY ZenonT(100), <1>2 DEF Has
<1>5. Head(q).type # type => (Has(q, type) => Has(Tail(q), type))
  BY ZenonT(100), <1>1, <1>3 DEF Has
<1>6. Once(q, type) => Once(Tail(q), type)
  <2>. SUFFICES ASSUME Once(q, type), NEW k \in 1 .. Len(Tail(q)), NEW l \in 1 .. Len(Tail(q)),
                       Tail(q)[k].type = type, Tail(q)[l].type = type
                PROVE  k = l
    BY ZenonT(100) DEF Once
  <2>1. k + 1 \in 1 .. Len(q) /\ l + 1 \in 1 .. Len(q) /\ q[k + 1].type = type /\ q[l + 1].type = type
    BY ZenonT(100), <1>2
  <2>2. k + 1 = l + 1
    BY ZenonT(100), <2>1 DEF Once
  <2>3. k \in Int /\ l \in Int
    OBVIOUS
  <2>. QED BY <2>2, <2>3
<1>7. Once(q, type) /\ Head(q).type = type => ~Has(Tail(q), type)
  BY ZenonT(100), <1>1, <1>2 DEF Has, Once
<1>8. Head(q).type = type => Has(q, type)
  BY ZenonT(100), <1>1 DEF Has
<1>. QED BY Zenon, <1>4, <1>5, <1>6, <1>7, <1>8

\* The messages of a queue with a new one.
LEMMA HasAppend ==
  ASSUME NEW q \in Seq(Message), NEW m, NEW type
  PROVE  /\ Has(Append(q, m), type) <=> Has(q, type) \/ m.type = type
         /\ Once(q, type) /\ (m.type = type => ~Has(q, type)) => Once(Append(q, m), type)
<1>1. /\ Append(q, m)[Len(q) + 1] = m
      /\ Len(q) + 1 \in 1 .. Len(Append(q, m))
      /\ \A k \in 1 .. Len(q) : k \in 1 .. Len(Append(q, m)) /\ Append(q, m)[k] = q[k]
      /\ \A k \in 1 .. Len(Append(q, m)) : k \in 1 .. Len(q) \/ k = Len(q) + 1
  <2>1. Len(q) \in Nat /\ Len(Append(q, m)) = Len(q) + 1
    OBVIOUS
  <2>2. Append(q, m)[Len(q) + 1] = m
    OBVIOUS
  <2>3. ASSUME NEW k \in 1 .. Len(q) PROVE Append(q, m)[k] = q[k]
    OBVIOUS
  <2>4. /\ \A k \in 1 .. Len(q) : k \in 1 .. Len(q) + 1
        /\ \A k \in 1 .. Len(q) + 1 : k \in 1 .. Len(q) \/ k = Len(q) + 1
        /\ Len(q) + 1 \in 1 .. Len(q) + 1
    BY <2>1
  <2>. QED BY Zenon, <2>1, <2>2, <2>3, <2>4
<1>2. Has(Append(q, m), type) => Has(q, type) \/ m.type = type
  BY ZenonT(100), <1>1 DEF Has
<1>3. Has(q, type) \/ m.type = type => Has(Append(q, m), type)
  BY ZenonT(100), <1>1 DEF Has
<1>4. ASSUME Once(q, type), m.type = type => ~Has(q, type) PROVE Once(Append(q, m), type)
  <2>. SUFFICES ASSUME NEW k \in 1 .. Len(Append(q, m)), NEW l \in 1 .. Len(Append(q, m)),
                       Append(q, m)[k].type = type, Append(q, m)[l].type = type
                PROVE  k = l
    BY ZenonT(100) DEF Once
  <2>1. CASE m.type = type
    BY ZenonT(100), <1>1, <1>4, <2>1 DEF Has
  <2>2. CASE m.type # type
    <3>1. k \in 1 .. Len(q) /\ l \in 1 .. Len(q) /\ q[k].type = type /\ q[l].type = type
      BY ZenonT(100), <1>1, <2>2
    <3>. QED BY Zenon, <1>4, <3>1 DEF Once
  <2>. QED BY <2>1, <2>2
<1>. QED BY <1>2, <1>3, <1>4

\* A step that leaves the queries on the wire alone, and lets no program begin or end to wait.
SameQueries ==
  \A s, d \in Server, type \in QueryType :
    /\ Has(chan'[s][d], type) <=> Has(chan[s][d], type)
    /\ Once(chan[s][d], type) => Once(chan'[s][d], type)

Moves ==
  \/ pc' = pc
  \/ \E t \in Thread, l \in Label \ {"waitList"} :
       t[1] \notin down /\ pc[t] # "waitList" /\ pc' = [pc EXCEPT ![t] = l]

LEMMA AskFrame ==
  ASSUME TypeInv, AskInv, SameQueries, Moves, halted \subseteq halted', lost \subseteq lost', down' \subseteq down,
         \A n \in Server : pc[<<n, "app">>] = "waitList" => asked'[n] = asked[n]
  PROVE  AskInv'
<1>1. /\ \A n \in Server : pc'[<<n, "app">>] = "waitList" <=> pc[<<n, "app">>] = "waitList"
      /\ \A n \in Server : n \in down => pc'[<<n, "app">>] = pc[<<n, "app">>]
  <2>1. \A n \in Server : <<n, "app">> \in Thread /\ <<n, "app">>[1] = n
    <3>1. \A n \in Server : <<n, "app">>[1] = n
      OBVIOUS
    <3>. QED BY Zenon, <3>1, Threads
  <2>2. CASE pc' = pc
    BY Zenon, <2>2
  <2>3. ASSUME NEW t \in Thread, NEW l \in Label \ {"waitList"}, t[1] \notin down, pc[t] # "waitList",
               pc' = [pc EXCEPT ![t] = l], NEW n \in Server
        PROVE  /\ pc'[<<n, "app">>] = "waitList" <=> pc[<<n, "app">>] = "waitList"
               /\ n \in down => pc'[<<n, "app">>] = pc[<<n, "app">>]
    <3>1. pc'[t] = l /\ \A u \in Thread : u # t => pc'[u] = pc[u]
      BY ZenonT(100), <2>3 DEF TypeInv, CallKinds
    <3>. QED BY ZenonT(100), <2>1, <2>3, <3>1
  <2>. QED BY ZenonT(100), <2>2, <2>3 DEF Moves
<1>2. down \subseteq Server
  BY DEF TypeInv, CrashKinds
<1>3. \A n, d \in Server : Asks(n, d)' <=> Asks(n, d)
  <2>1. "GETPARTITIONS" \in QueryType /\ "SENTPARTITIONS" \in QueryType
    BY DEF QueryType
  <2>. QED BY ZenonT(100), <2>1 DEF SameQueries, Asks
<1>4. AsksWaits'
  BY ZenonT(100), <1>1, <1>3 DEF AskInv, AsksWaits, Waits
<1>5. AsksOnce'
  <2>1. "GETPARTITIONS" \in QueryType /\ "SENTPARTITIONS" \in QueryType
    BY DEF QueryType
  <2>. QED BY ZenonT(100), <2>1 DEF AskInv, AsksOnce, SameQueries
<1>6. Served'
  <2>. SUFFICES ASSUME NEW n \in Server, pc'[<<n, "app">>] = "waitList"
                PROVE  /\ asked'[n] \in Server \ {n}
                       /\ n \in halted' \/ asked'[n] \in lost' \cup halted' \/ Asks(n, asked[n])'
    <3>1. \A n \in Server : pc'[<<n, "app">>] = "waitList" => asked'[n] = asked[n]
      BY Zenon, <1>1
    <3>. QED BY ZenonT(100), <3>1 DEF Served
  <2>1. asked'[n] = asked[n] /\ asked[n] \in Server \ {n}
    BY ZenonT(100), <1>1 DEF AskInv, Served
  <2>2. n \in halted \/ asked[n] \in lost \cup halted \/ Asks(n, asked[n])
    BY ZenonT(100), <1>1 DEF AskInv, Served
  <2>. QED BY ZenonT(100), <1>3, <2>1, <2>2
<1>7. DownIdle'
  BY ZenonT(100), <1>1, <1>2 DEF AskInv, DownIdle
<1>. QED BY Zenon, <1>4, <1>5, <1>6, <1>7 DEF AskInv

\* A message of the hand-over is sent or taken.
LEMMA HandOverQueries ==
  ASSUME Kinds, NEW s \in Server, NEW d, NEW type \in {"PREPARE", "ACCEPT", "TRANSFER", "DONE"},
         \/ \E i \in Id, a \in Int : Send(s, d, type, i, a)
         \/ d \in Server /\ GetMessage(d, s, type)
  PROVE  SameQueries
<1>1. type \notin QueryType
  BY DEF QueryType
<1>2. ASSUME NEW i \in Id, NEW a \in Int, Send(s, d, type, i, a) PROVE SameQueries
  <2>. DEFINE m == [type |-> type, id |-> i, address |-> a]
              q == Append(chan[s][d], m)
  <2>1. m.type = type
    OBVIOUS
  <2>2. chan' = [chan EXCEPT ![s][d] = q]
    BY ZenonT(100), <1>2 DEF Send
  <2>. HIDE DEF m
  <2>3. ASSUME d \in Server, NEW ty \in QueryType
        PROVE  (Has(q, ty) <=> Has(chan[s][d], ty)) /\ (Once(chan[s][d], ty) => Once(q, ty))
    <3>1. chan[s][d] \in Seq(Message) /\ m.type # ty
      BY ZenonT(100), <1>1, <2>1, <2>3 DEF Kinds
    <3>. QED BY ZenonT(100), <3>1, HasAppend
  <2>. HIDE DEF q
  <2>4. \A x, y \in Server : chan'[x][y] = IF x = s /\ y = d THEN q ELSE chan[x][y]
    BY ZenonT(100), <2>2 DEF Kinds
  <2>. QED BY ZenonT(100), <2>3, <2>4 DEF SameQueries
<1>3. ASSUME d \in Server, GetMessage(d, s, type) PROVE SameQueries
  <2>. DEFINE q == chan[s][d]
  <2>1. q \in Seq(Message) /\ q # <<>> /\ Head(q).type = type /\ chan' = [chan EXCEPT ![s][d] = Tail(q)]
    BY ZenonT(100), <1>3 DEF Kinds, GetMessage
  <2>2. ASSUME NEW ty \in QueryType
        PROVE  (Has(Tail(q), ty) <=> Has(q, ty)) /\ (Once(q, ty) => Once(Tail(q), ty))
    <3>1. Head(q).type # ty
      BY Zenon, <1>1, <2>1, <2>2
    <3>. QED BY ZenonT(100), <2>1, <3>1, HasTail
  <2>3. \A x, y \in Server : chan'[x][y] = IF x = s /\ y = d THEN Tail(q) ELSE chan[x][y]
    BY ZenonT(100), <2>1 DEF Kinds
  <2>. QED BY ZenonT(100), <2>2, <2>3 DEF SameQueries
<1>. QED BY Zenon, <1>2, <1>3

\* A program asks: it has nothing under way.
LEMMA QueryAsks ==
  ASSUME TypeInv, AskInv, NEW n \in Server, NEW d \in Server, QueryLive(n, d)
  PROVE  AskInv'
<1>. DEFINE t == <<n, "app">>
            m == [type |-> "GETPARTITIONS"]
            q == chan[n][d]
<1>0. /\ t \in Thread /\ pc[t] = "idle" /\ n \notin down /\ d # n /\ UNCHANGED <<halted, lost, down>>
      /\ pc' = [pc EXCEPT ![t] = "waitList"] /\ asked' = [asked EXCEPT ![n] = d]
      /\ \A x \in Server : <<x, "app">> \in Thread
  BY ZenonT(100), Threads DEF QueryLive, At, Goto, crashVars
<1>1. q \in Seq(Message) /\ \A x, y \in Server : chan'[x][y] = IF x = n /\ y = d THEN Append(q, m) ELSE chan[x][y]
  <2>1. chan' = [chan EXCEPT ![n][d] = Append(q, m)]
    BY Zenon DEF QueryLive, GetPartitionList
  <2>. QED BY ZenonT(100), <2>1 DEF TypeInv, Kinds
<1>2. m.type = "GETPARTITIONS"
  OBVIOUS
<1>. HIDE DEF m
<1>3. \A y \in Server : ~Asks(n, y)
  BY ZenonT(100), <1>0 DEF AskInv, AsksWaits, Waits
<1>4. /\ \A x, y \in Server, type \in QueryType : x # n \/ y # d \/ type # "GETPARTITIONS" =>
           (Has(chan'[x][y], type) <=> Has(chan[x][y], type))
      /\ Has(chan'[n][d], "GETPARTITIONS")
  <2>1. ASSUME NEW type \in QueryType, type # "GETPARTITIONS" PROVE Has(Append(q, m), type) <=> Has(q, type)
    BY ZenonT(100), <1>1, <1>2, <2>1, HasAppend
  <2>2. Has(Append(q, m), "GETPARTITIONS")
    BY ZenonT(100), <1>1, <1>2, HasAppend
  <2>. QED BY ZenonT(100), <1>1, <2>1, <2>2
<1>q. "GETPARTITIONS" \in QueryType /\ "SENTPARTITIONS" \in QueryType /\ "GETPARTITIONS" # "SENTPARTITIONS"
  BY DEF QueryType
<1>5. /\ \A x, y \in Server : x # n \/ y # d => (Asks(x, y)' <=> Asks(x, y))
      /\ Asks(n, d)'
  BY ZenonT(100), <1>4, <1>q DEF Asks
<1>6. /\ pc'[t] = "waitList" /\ asked'[n] = d
      /\ \A x \in Server : x # n => pc'[<<x, "app">>] = pc[<<x, "app">>] /\ asked'[x] = asked[x]
  <2>1. \A x \in Server : x # n => <<x, "app">> # t
    OBVIOUS
  <2>. QED BY ZenonT(100), <1>0, <2>1 DEF TypeInv, CallKinds, AskKinds
<1>7. AsksWaits'
  <2>. SUFFICES ASSUME NEW x \in Server, NEW y \in Server, Asks(x, y)' PROVE Waits(x, y)'
    BY Zenon DEF AsksWaits
  <2>1. CASE x # n
    BY ZenonT(100), <1>5, <1>6, <2>1 DEF AskInv, AsksWaits, Waits
  <2>2. CASE x = n
    <3>1. y = d
      BY ZenonT(100), <1>3, <1>5, <2>2
    <3>. QED BY Zenon, <1>6, <2>2, <3>1 DEF Waits
  <2>. QED BY <2>1, <2>2
<1>8. AsksOnce'
  <2>1. ~Has(q, "GETPARTITIONS") /\ ~Has(chan[d][n], "SENTPARTITIONS")
    BY ZenonT(100), <1>3 DEF Asks
  <2>2. ASSUME NEW x \in Server, NEW y \in Server
        PROVE  ~(Has(chan'[x][y], "GETPARTITIONS") /\ Has(chan'[y][x], "SENTPARTITIONS"))
    <3>1. CASE x = n /\ y = d
      BY ZenonT(100), <1>4, <1>q, <2>1, <3>1
    <3>2. CASE x # n \/ y # d
      <4>1. Has(chan[x][y], "GETPARTITIONS") <=> Has(chan'[x][y], "GETPARTITIONS")
        BY ZenonT(100), <1>4, <1>q, <3>2
      <4>2. Has(chan[y][x], "SENTPARTITIONS") <=> Has(chan'[y][x], "SENTPARTITIONS")
        BY ZenonT(100), <1>4, <1>q
      <4>. QED BY ZenonT(100), <4>1, <4>2 DEF AskInv, AsksOnce
    <3>. QED BY <3>1, <3>2
  <2>3. ASSUME NEW x \in Server, NEW y \in Server, NEW type \in QueryType PROVE Once(chan'[x][y], type)
    <3>1. Once(chan[x][y], type) /\ Once(q, type)
      BY ZenonT(100) DEF AskInv, AsksOnce
    <3>2. m.type = type => ~Has(q, type)
      BY Zenon, <1>2, <2>1
    <3>3. Once(Append(q, m), type)
      BY ZenonT(100), <1>1, <3>1, <3>2, HasAppend
    <3>. QED BY ZenonT(100), <1>1, <3>1, <3>3
  <2>. QED BY Zenon, <2>2, <2>3 DEF AsksOnce
<1>9. Served'
  <2>1. ASSUME NEW x \in Server, pc'[<<x, "app">>] = "waitList", x # n
        PROVE  /\ asked'[x] = asked[x] /\ asked[x] \in Server \ {x}
               /\ x \in halted \/ asked[x] \in lost \cup halted \/ Asks(x, asked[x])
    BY ZenonT(100), <1>6, <2>1 DEF AskInv, Served
  <2>2. ASSUME NEW x \in Server, pc'[<<x, "app">>] = "waitList"
        PROVE  \E y \in Server \ {x} : y = asked'[x] /\ (x \in halted' \/ y \in lost' \cup halted' \/ Asks(x, y)')
    <3>1. CASE x = n
      BY ZenonT(100), <1>0, <1>5, <1>6, <3>1
    <3>2. CASE x # n
      BY ZenonT(100), <1>0, <1>5, <2>1, <2>2, <3>2
    <3>. QED BY <3>1, <3>2
  <2>. QED BY ZenonT(100), <2>2 DEF Served
<1>10. DownIdle'
  <2>1. down \subseteq Server
    BY ZenonT(100) DEF TypeInv, CrashKinds
  <2>. QED BY ZenonT(100), <1>0, <1>6, <2>1 DEF AskInv, DownIdle
<1>. QED BY Zenon, <1>7, <1>8, <1>9, <1>10 DEF AskInv

\* A server answers: the answer replaces the request.
LEMMA AnswerAsks ==
  ASSUME TypeInv, AskInv, NEW d \in Server, NEW s \in Server, OnGetPartitions(d, s)
  PROVE  AskInv'
<1>. DEFINE m == [type |-> "SENTPARTITIONS", list |-> Live(d)]
            q == chan[s][d]
            b == chan[d][s]
<1>q. "GETPARTITIONS" \in QueryType /\ "SENTPARTITIONS" \in QueryType /\ "GETPARTITIONS" # "SENTPARTITIONS"
  BY DEF QueryType
<1>0. /\ q \in Seq(Message) /\ q # <<>> /\ Head(q).type = "GETPARTITIONS" /\ b \in Seq(Message)
      /\ UNCHANGED <<halted, lost, down, pc, asked>>
  BY ZenonT(100) DEF OnGetPartitions, TypeInv, Kinds, crashVars, askVars, threadVars
<1>1. Has(q, "GETPARTITIONS")
  BY ZenonT(100), <1>0, HasTail
<1>2. s # d
  <2>1. Waits(s, d)
    BY ZenonT(100), <1>1 DEF AskInv, AsksWaits, Asks
  <2>. QED BY ZenonT(100), <2>1 DEF AskInv, Served, Waits
<1>3. m.type = "SENTPARTITIONS"
  OBVIOUS
<1>4. \A x, y \in Server : chan'[x][y] = IF x = s /\ y = d THEN Tail(q)
                                         ELSE IF x = d /\ y = s THEN Append(b, m) ELSE chan[x][y]
  <2>. DEFINE mid == [chan EXCEPT ![s][d] = Tail(q)]
  <2>1. chan' = [mid EXCEPT ![d][s] = Append(@, m)]
    BY Zenon DEF OnGetPartitions, SendPartitionList
  <2>2. mid \in [Server -> [Server -> Seq(Message)]]
    <3>1. Tail(q) \in Seq(Message)
      BY <1>0
    <3>. QED BY ZenonT(100), <3>1 DEF TypeInv, Kinds
  <2>3. \A x, y \in Server : mid[x][y] = IF x = s /\ y = d THEN Tail(q) ELSE chan[x][y]
    BY ZenonT(100) DEF TypeInv, Kinds
  <2>. HIDE DEF mid, m
  <2>4. \A x, y \in Server : chan'[x][y] = IF x = d /\ y = s THEN Append(mid[d][s], m) ELSE mid[x][y]
    BY ZenonT(100), <2>1, <2>2
  <2>5. mid[d][s] = b
    BY ZenonT(100), <1>2, <2>3
  <2>6. ASSUME NEW x \in Server, NEW y \in Server
        PROVE  chan'[x][y] = IF x = s /\ y = d THEN Tail(q)
                             ELSE IF x = d /\ y = s THEN Append(b, m) ELSE chan[x][y]
    <3>1. CASE x = d /\ y = s
      BY ZenonT(100), <1>2, <2>4, <2>5, <3>1
    <3>2. CASE ~(x = d /\ y = s)
      <4>1. chan'[x][y] = mid[x][y]
        BY ZenonT(100), <2>4, <3>2
      <4>. QED BY ZenonT(100), <2>3, <3>2, <4>1
    <3>. QED BY <3>1, <3>2
  <2>. QED BY Zenon, <2>6
<1>. HIDE DEF m
<1>5. ~Has(b, "SENTPARTITIONS") /\ Once(q, "GETPARTITIONS") /\ Once(q, "SENTPARTITIONS")
      /\ Once(b, "GETPARTITIONS") /\ Once(b, "SENTPARTITIONS")
  BY ZenonT(100), <1>1, <1>q DEF AskInv, AsksOnce
<1>6. /\ ~Has(Tail(q), "GETPARTITIONS") /\ (Has(Tail(q), "SENTPARTITIONS") <=> Has(q, "SENTPARTITIONS"))
      /\ Once(Tail(q), "GETPARTITIONS") /\ Once(Tail(q), "SENTPARTITIONS")
  BY ZenonT(100), <1>0, <1>5, <1>q, HasTail
<1>7. /\ Has(Append(b, m), "SENTPARTITIONS") /\ (Has(Append(b, m), "GETPARTITIONS") <=> Has(b, "GETPARTITIONS"))
      /\ Once(Append(b, m), "GETPARTITIONS") /\ Once(Append(b, m), "SENTPARTITIONS")
  <2>1. Has(Append(b, m), "SENTPARTITIONS") /\ (Has(Append(b, m), "GETPARTITIONS") <=> Has(b, "GETPARTITIONS"))
    BY ZenonT(100), <1>0, <1>3, <1>q, HasAppend
  <2>2. Once(Append(b, m), "GETPARTITIONS") /\ Once(Append(b, m), "SENTPARTITIONS")
    BY ZenonT(100), <1>0, <1>3, <1>5, <1>q, HasAppend
  <2>. QED BY <2>1, <2>2
<1>8. chan'[s][d] = Tail(q) /\ chan'[d][s] = Append(b, m)
      /\ \A x, y \in Server : ~(x = s /\ y = d) /\ ~(x = d /\ y = s) => chan'[x][y] = chan[x][y]
  BY ZenonT(100), <1>2, <1>4
<1>9. \A x, y \in Server : Asks(x, y)' <=> Asks(x, y)
  <2>. SUFFICES ASSUME NEW x \in Server, NEW y \in Server PROVE Asks(x, y)' <=> Asks(x, y)
    OBVIOUS
  <2>1. CASE x = s /\ y = d
    BY ZenonT(100), <1>1, <1>7, <1>8, <2>1 DEF Asks
  <2>2. CASE x = d /\ y = s
    BY ZenonT(100), <1>6, <1>7, <1>8, <2>2 DEF Asks
  <2>3. CASE ~(x = s /\ y = d) /\ ~(x = d /\ y = s)
    BY ZenonT(100), <1>8, <2>3 DEF Asks
  <2>. QED BY <2>1, <2>2, <2>3
<1>10. AsksWaits'
  BY ZenonT(100), <1>0, <1>9 DEF AskInv, AsksWaits, Waits
<1>11. AsksOnce'
  <2>1. ASSUME NEW x \in Server, NEW y \in Server
        PROVE  ~(Has(chan'[x][y], "GETPARTITIONS") /\ Has(chan'[y][x], "SENTPARTITIONS"))
    <3>1. CASE x = s /\ y = d
      BY ZenonT(100), <1>6, <1>8, <3>1
    <3>2. CASE x = d /\ y = s
      BY ZenonT(100), <1>6, <1>7, <1>8, <3>2 DEF AskInv, AsksOnce
    <3>3. CASE ~(x = s /\ y = d) /\ ~(x = d /\ y = s)
      BY ZenonT(100), <1>8, <3>3 DEF AskInv, AsksOnce
    <3>. QED BY <3>1, <3>2, <3>3
  <2>2. ASSUME NEW x \in Server, NEW y \in Server, NEW type \in QueryType PROVE Once(chan'[x][y], type)
    <3>1. type = "GETPARTITIONS" \/ type = "SENTPARTITIONS"
      BY DEF QueryType
    <3>. QED BY ZenonT(100), <1>6, <1>7, <1>8, <3>1 DEF AskInv, AsksOnce
  <2>. QED BY Zenon, <2>1, <2>2 DEF AsksOnce
<1>12. Served'
  BY ZenonT(100), <1>0, <1>9 DEF AskInv, Served
<1>13. DownIdle'
  BY ZenonT(100), <1>0 DEF AskInv, DownIdle
<1>. QED BY Zenon, <1>10, <1>11, <1>12, <1>13 DEF AskInv

\* The answer arrives at a program that waits for it, and for nothing else.
LEMMA ArrivalAsks ==
  ASSUME TypeInv, AskInv, NEW n \in Server, NEW d \in Server, OnSentPartitions(n, d)
  PROVE  AskInv' /\ pc[<<n, "app">>] = "waitList"
<1>. DEFINE t == <<n, "app">>
            q == chan[d][n]
<1>q. "GETPARTITIONS" \in QueryType /\ "SENTPARTITIONS" \in QueryType /\ "GETPARTITIONS" # "SENTPARTITIONS"
  BY DEF QueryType
<1>0. /\ q \in Seq(Message) /\ q # <<>> /\ Head(q).type = "SENTPARTITIONS" /\ t \in Thread
      /\ UNCHANGED <<halted, lost, down, asked>> /\ pc' = [pc EXCEPT ![t] = "idle"]
      /\ \A x \in Server : <<x, "app">> \in Thread
  BY ZenonT(100), Threads DEF OnSentPartitions, GetMessage, Return, TypeInv, Kinds, crashVars, askVars
<1>1. Has(q, "SENTPARTITIONS")
  BY ZenonT(100), <1>0, HasTail
<1>2. Waits(n, d) /\ ~Has(chan[n][d], "GETPARTITIONS")
  BY ZenonT(100), <1>1 DEF AskInv, AsksWaits, AsksOnce, Asks
<1>3. chan'[d][n] = Tail(q) /\ \A x, y \in Server : ~(x = d /\ y = n) => chan'[x][y] = chan[x][y]
  <2>1. chan' = [chan EXCEPT ![d][n] = Tail(q)]
    BY Zenon DEF OnSentPartitions, GetMessage
  <2>. QED BY ZenonT(100), <2>1 DEF TypeInv, Kinds
<1>4. /\ ~Has(Tail(q), "SENTPARTITIONS") /\ (Has(Tail(q), "GETPARTITIONS") => Has(q, "GETPARTITIONS"))
      /\ \A type \in QueryType : Once(Tail(q), type)
  <2>1. \A type \in QueryType : Once(q, type)
    BY ZenonT(100) DEF AskInv, AsksOnce
  <2>. QED BY ZenonT(100), <1>0, <1>q, <2>1, HasTail
<1>5. \A x, y \in Server, type \in QueryType : Has(chan'[x][y], type) => Has(chan[x][y], type)
  <2>1. \A type \in QueryType : Has(Tail(q), type) => Has(q, type)
    BY ZenonT(100), <1>0, HasTail
  <2>2. ASSUME NEW x \in Server, NEW y \in Server, NEW type \in QueryType, Has(chan'[x][y], type)
        PROVE  Has(chan[x][y], type)
    <3>1. CASE x = d /\ y = n
      BY ZenonT(100), <1>3, <2>1, <2>2, <3>1
    <3>2. CASE ~(x = d /\ y = n)
      BY ZenonT(100), <1>3, <2>2, <3>2
    <3>. QED BY <3>1, <3>2
  <2>. QED BY Zenon, <2>2
<1>6. /\ \A x, y \in Server : Asks(x, y)' => Asks(x, y)
      /\ \A x, y \in Server : Asks(x, y) /\ x # n => Asks(x, y)'
      /\ d # n
  <2>1. d # n
    BY ZenonT(100), <1>2 DEF AskInv, Served, Waits
  <2>2. \A x, y \in Server : Asks(x, y)' => Asks(x, y)
    BY ZenonT(100), <1>5, <1>q DEF Asks
  <2>3. ASSUME NEW x \in Server, NEW y \in Server, Asks(x, y), x # n PROVE Asks(x, y)'
    <3>1. CASE Has(chan[x][y], "GETPARTITIONS")
      <4>1. CASE x = d /\ y = n
        <5>1. Has(Tail(q), "GETPARTITIONS")
          BY ZenonT(100), <1>0, <1>q, <3>1, <4>1, HasTail
        <5>. QED BY ZenonT(100), <1>3, <4>1, <5>1 DEF Asks
      <4>2. CASE ~(x = d /\ y = n)
        BY ZenonT(100), <1>3, <3>1, <4>2 DEF Asks
      <4>. QED BY <4>1, <4>2
    <3>2. CASE Has(chan[y][x], "SENTPARTITIONS")
      BY ZenonT(100), <1>3, <2>3, <3>2 DEF Asks
    <3>. QED BY Zenon, <2>3, <3>1, <3>2 DEF Asks
  <2>. QED BY <2>1, <2>2, <2>3
<1>7. ~Asks(n, d)'
  BY ZenonT(100), <1>2, <1>3, <1>4, <1>6 DEF Asks
<1>8. /\ pc'[t] = "idle" /\ \A x \in Server : x # n => pc'[<<x, "app">>] = pc[<<x, "app">>]
  <2>1. \A x \in Server : x # n => <<x, "app">> # t
    OBVIOUS
  <2>. QED BY ZenonT(100), <1>0, <2>1 DEF TypeInv, CallKinds
<1>9. AsksWaits'
  <2>. SUFFICES ASSUME NEW x \in Server, NEW y \in Server, Asks(x, y)' PROVE Waits(x, y)'
    BY Zenon DEF AsksWaits
  <2>1. Waits(x, y)
    BY ZenonT(100), <1>6 DEF AskInv, AsksWaits
  <2>2. x # n
    BY ZenonT(100), <1>2, <1>7, <2>1 DEF Waits
  <2>. QED BY ZenonT(100), <1>0, <1>8, <2>1, <2>2 DEF Waits
<1>10. AsksOnce'
  <2>1. \A x, y \in Server : ~(Has(chan'[x][y], "GETPARTITIONS") /\ Has(chan'[y][x], "SENTPARTITIONS"))
    BY ZenonT(100), <1>5, <1>q DEF AskInv, AsksOnce
  <2>2. ASSUME NEW x \in Server, NEW y \in Server, NEW type \in QueryType PROVE Once(chan'[x][y], type)
    <3>1. CASE x = d /\ y = n
      BY ZenonT(100), <1>3, <1>4, <3>1
    <3>2. CASE ~(x = d /\ y = n)
      BY ZenonT(100), <1>3, <3>2 DEF AskInv, AsksOnce
    <3>. QED BY <3>1, <3>2
  <2>. QED BY Zenon, <2>1, <2>2 DEF AsksOnce
<1>11. Served'
  <2>1. ASSUME NEW x \in Server, pc'[<<x, "app">>] = "waitList"
        PROVE  \E y \in Server \ {x} : y = asked[x] /\ (x \in halted \/ y \in lost \cup halted \/ Asks(x, y)')
    <3>1. x # n /\ pc[<<x, "app">>] = "waitList"
      BY ZenonT(100), <1>8, <2>1
    <3>. QED BY ZenonT(100), <1>6, <3>1 DEF AskInv, Served
  <2>. QED BY ZenonT(100), <1>0, <2>1 DEF Served
<1>12. DownIdle'
  <2>1. down \subseteq Server
    BY ZenonT(100) DEF TypeInv, CrashKinds
  <2>. QED BY ZenonT(100), <1>0, <1>8, <2>1 DEF AskInv, DownIdle
<1>. QED BY Zenon, <1>2, <1>9, <1>10, <1>11, <1>12 DEF AskInv, Waits

\* A server crashes, and its connections are gone.
LEMMA CrashAsks ==
  ASSUME TypeInv, AskInv, NEW n \in Server, Crash(n)
  PROVE  AskInv'
<1>0. /\ down' = down \cup {n} /\ lost' = lost \cup {n} /\ UNCHANGED <<halted, asked>>
      /\ \A x, y \in Server : chan'[x][y] = IF n \in {x, y} THEN <<>> ELSE chan[x][y]
      /\ \A t \in Thread : pc'[t] = IF t[1] = n THEN "idle" ELSE pc[t]
  BY ZenonT(100) DEF Crash
<1>1. pc'[<<n, "app">>] = "idle" /\ \A x \in Server : x # n => pc'[<<x, "app">>] = pc[<<x, "app">>]
  <2>1. \A x \in Server : <<x, "app">> \in Thread
    BY Zenon, Threads
  <2>2. \A x \in Server : <<x, "app">>[1] = x
    OBVIOUS
  <2>. QED BY ZenonT(100), <1>0, <2>1, <2>2
<1>2. \A type : ~Has(<<>>, type) /\ Once(<<>>, type)
  BY DEF Has, Once
<1>3. /\ \A x, y \in Server : x # n /\ y # n => chan'[x][y] = chan[x][y]
      /\ \A x, y \in Server : x = n \/ y = n => chan'[x][y] = <<>>
  BY ZenonT(100), <1>0
<1>4. /\ \A x, y \in Server : Asks(x, y)' => x # n /\ y # n
      /\ \A x, y \in Server : x # n /\ y # n => (Asks(x, y)' <=> Asks(x, y))
  BY ZenonT(100), <1>2, <1>3 DEF Asks
<1>5. AsksWaits'
  <2>1. ASSUME NEW x \in Server, NEW y \in Server, Asks(x, y)'
        PROVE  pc'[<<x, "app">>] = "waitList" /\ asked'[x] = y
    <3>1. x # n /\ Asks(x, y)
      BY ZenonT(100), <1>4, <2>1
    <3>2. pc[<<x, "app">>] = "waitList" /\ asked[x] = y
      BY ZenonT(100), <3>1 DEF AskInv, AsksWaits, Waits
    <3>. QED BY ZenonT(100), <1>0, <1>1, <3>1, <3>2
  <2>. QED BY Zenon, <2>1 DEF AsksWaits, Waits
<1>6. AsksOnce'
  <2>1. ASSUME NEW x \in Server, NEW y \in Server
        PROVE  /\ ~(Has(chan'[x][y], "GETPARTITIONS") /\ Has(chan'[y][x], "SENTPARTITIONS"))
               /\ \A type \in QueryType : Once(chan'[x][y], type)
    <3>1. CASE x # n /\ y # n
      BY ZenonT(100), <1>3, <3>1 DEF AskInv, AsksOnce
    <3>2. CASE x = n \/ y = n
      BY ZenonT(100), <1>2, <1>3, <3>2
    <3>. QED BY <3>1, <3>2
  <2>. QED BY Zenon, <2>1 DEF AsksOnce
<1>7. Served'
  <2>. SUFFICES ASSUME NEW x \in Server, pc'[<<x, "app">>] = "waitList", NEW y, y = asked'[x]
                PROVE  y \in Server \ {x} /\ (x \in halted' \/ y \in lost' \cup halted' \/ Asks(x, y)')
    BY ZenonT(100) DEF Served
  <2>1. x # n /\ pc[<<x, "app">>] = "waitList"
    BY ZenonT(100), <1>1
  <2>2. y \in Server \ {x} /\ (x \in halted \/ y \in lost \cup halted \/ Asks(x, y))
    BY ZenonT(100), <1>0, <2>1 DEF AskInv, Served
  <2>. QED BY ZenonT(100), <1>0, <1>4, <2>1, <2>2
<1>8. DownIdle'
  <2>1. down \subseteq Server
    BY ZenonT(100) DEF TypeInv, CrashKinds
  <2>. QED BY ZenonT(100), <1>0, <1>1, <2>1 DEF AskInv, DownIdle
<1>. QED BY Zenon, <1>5, <1>6, <1>7, <1>8 DEF AskInv

\* The calls move no program from or to the wait.
LEMMA CallMoves ==
  ASSUME TypeInv, NEW t \in Thread, Request(t)
  PROVE  Moves
<1>1. t[1] \notin down /\ pc[t] # "waitList"
  <2>1. CASE GetAddress(t) \/ SetAddress(t) \/ CreateSegment(t) \/ GetList(t) \/ SetList(t) \/ GetRemove(t)
    BY ZenonT(100), <2>1 DEF GetAddress, SetAddress, CreateSegment, GetList, SetList, GetRemove, At
  <2>2. CASE SetRemove(t) \/ GetDelete(t) \/ DeleteSegment(t) \/ GetSegment(t) \/ SetDestination(t) \/ SetClean(t)
    BY ZenonT(100), <2>2 DEF SetRemove, GetDelete, DeleteSegment, GetSegment, SetDestination, SetClean, At
  <2>. QED BY Zenon, <2>1, <2>2 DEF Request
<1>2. \E l \in {"setAddress", "create", "getAddress", "getList", "idle", "setList", "setRemove", "getDelete",
                "delete", "setClean", "setDestination"} : pc' = [pc EXCEPT ![t] = l]
  <2>1. CASE GetAddress(t) \/ SetAddress(t) \/ CreateSegment(t) \/ GetList(t) \/ SetList(t) \/ GetRemove(t)
    BY ZenonT(100), <2>1 DEF GetAddress, SetAddress, CreateSegment, GetList, SetList, GetRemove, Goto, Return
  <2>2. CASE SetRemove(t) \/ GetDelete(t) \/ DeleteSegment(t) \/ GetSegment(t) \/ SetDestination(t) \/ SetClean(t)
    BY ZenonT(100), <2>2 DEF SetRemove, GetDelete, DeleteSegment, GetSegment, SetDestination, SetClean, Goto, Return
  <2>. QED BY Zenon, <2>1, <2>2 DEF Request
<1>3. {"setAddress", "create", "getAddress", "getList", "idle", "setList", "setRemove", "getDelete",
       "delete", "setClean", "setDestination"} \subseteq Label \ {"waitList"}
  BY DEF Label
<1>. QED BY ZenonT(100), <1>1, <1>2, <1>3 DEF Moves

\* The same for the other steps that have nothing to do with a query.
LEMMA ProgramMoves ==
  ASSUME TypeInv,
         \/ \E d, s \in Server : Poller(d, s)
         \/ \E n \in Server, i \in Id : Program(n, i) \/ Deallocate(n, i)
         \/ \E n \in Server : \/ Restart(n) \/ GetProcess(n) \/ EndRecover(n)
                              \/ \E d \in Server : Recover(n, d)
                              \/ \E i \in Id : GetPartition(n, i)
  PROVE  Moves
<1>1. ASSUME NEW n \in Server, NEW role \in Role, n \notin down, pc[<<n, role>>] # "waitList",
             NEW l \in {"getList", "getDestination", "getAddress", "getClean", "getRemove", "getDelete",
                        "getProcess", "getPartition", "idle"},
             pc' = [pc EXCEPT ![<<n, role>>] = l]
      PROVE  Moves
  <2>1. <<n, role>> \in Thread /\ <<n, role>>[1] = n
    BY DEF Thread
  <2>2. l \in Label \ {"waitList"}
    BY <1>1 DEF Label
  <2>. QED BY ZenonT(100), <1>1, <2>1, <2>2 DEF Moves
<1>2. "app" \in Role /\ "poller" \in Role
  BY DEF Role
<1>3. ASSUME NEW d \in Server, NEW s \in Server, Poller(d, s) PROVE Moves
  <2>1. CASE OnTransfer(d, s) \/ OnDone(d, s)
    BY ZenonT(100), <2>1 DEF OnTransfer, OnDone, threadVars, Moves
  <2>2. CASE Accept(d, s) \/ OnAccept(d, s)
    <3>1. d \notin down /\ pc[<<d, "poller">>] # "waitList"
      BY ZenonT(100), <2>2 DEF Accept, OnAccept, GetMessage, At
    <3>2. \E l \in {"getList", "getDestination"} : pc' = [pc EXCEPT ![<<d, "poller">>] = l]
      BY ZenonT(100), <2>2 DEF Accept, OnAccept, Begin
    <3>. QED BY ZenonT(100), <1>1, <1>2, <3>1, <3>2
  <2>. QED BY Zenon, <1>3, <2>1, <2>2 DEF Poller
<1>4. ASSUME NEW n \in Server, NEW i \in Id, Program(n, i) \/ Deallocate(n, i) PROVE Moves
  <2>1. CASE (\E d \in Server : Prepare(n, i, d)) \/ Transfer(n, i)
    BY ZenonT(100), <2>1 DEF Prepare, Transfer, threadVars, Moves
  <2>2. CASE BeginAllocate(n, i) \/ Close(n, i) \/ Deallocate(n, i)
    <3>1. n \notin down /\ pc[<<n, "app">>] # "waitList"
      BY ZenonT(100), <2>2 DEF BeginAllocate, Close, Deallocate, At
    <3>2. pc' = pc \/ \E l \in {"getAddress", "getClean", "getRemove", "getDelete"} : pc' = [pc EXCEPT ![<<n, "app">>] = l]
      BY ZenonT(100), <2>2 DEF BeginAllocate, Close, Deallocate, Begin
    <3>3. CASE pc' = pc
      BY Zenon, <3>3 DEF Moves
    <3>. QED BY ZenonT(100), <1>1, <1>2, <3>1, <3>2, <3>3
  <2>. QED BY Zenon, <1>4, <2>1, <2>2 DEF Program
<1>5. ASSUME NEW n \in Server, \/ GetProcess(n) \/ EndRecover(n)
                               \/ \E d \in Server : Recover(n, d)
      PROVE  Moves
  <2>1. n \notin down /\ pc[<<n, "app">>] # "waitList"
    BY ZenonT(100), <1>5 DEF GetProcess, EndRecover, Recover, At
  <2>2. \E l \in {"getPartition", "idle", "getProcess"} : pc' = [pc EXCEPT ![<<n, "app">>] = l]
    BY ZenonT(100), <1>5 DEF GetProcess, EndRecover, Recover, Goto, Return
  <2>. QED BY ZenonT(100), <1>1, <1>2, <2>1, <2>2
<1>6. ASSUME NEW n \in Server, Restart(n) \/ \E i \in Id : GetPartition(n, i) PROVE Moves
  BY ZenonT(100), <1>6 DEF Restart, GetPartition, threadVars, Moves
<1>. QED BY ZenonT(100), <1>3, <1>4, <1>5, <1>6

\* The steps that have nothing to do with a query leave those on the wire alone.
LEMMA OtherQueries ==
  ASSUME TypeInv,
         \/ \E t \in Thread : Request(t)
         \/ \E d, s \in Server : Poller(d, s)
         \/ \E n \in Server, i \in Id : Program(n, i) \/ Deallocate(n, i)
         \/ \E n \in Server : \/ Restart(n) \/ GetProcess(n) \/ EndRecover(n)
                              \/ \E d \in Server : Recover(n, d)
                              \/ \E i \in Id : GetPartition(n, i)
  PROVE  SameQueries
<1>0. Kinds
  BY Zenon DEF TypeInv
<1>1. chan' = chan => SameQueries
  BY ZenonT(100) DEF SameQueries
<1>2. ASSUME NEW s \in Server, NEW d, NEW type \in {"PREPARE", "ACCEPT", "TRANSFER", "DONE"}, NEW i \in Id,
             NEW a \in Int, Send(s, d, type, i, a)
      PROVE  SameQueries
  BY Zenon, <1>0, <1>2, HandOverQueries
<1>3. ASSUME NEW t \in Thread, Request(t) PROVE SameQueries
  <2>1. t[1] \in Server /\ id[t] \in Id /\ address[t] \in Int /\ local_segments[t[1]][id[t]] \in Int
    <3>1. t[1] \in Server
      BY DEF Thread
    <3>2. id[t] \in Id /\ address[t] \in Int
      BY ZenonT(100) DEF TypeInv, Kinds, ThreadKinds
    <3>3. local_segments[t[1]][id[t]] \in Int
      BY ZenonT(100), <3>1, <3>2 DEF TypeInv, Kinds
    <3>. QED BY Zenon, <3>1, <3>2, <3>3
  <2>2. CASE SetList(t)
    BY ZenonT(100), <1>1, <1>2, <2>1, <2>2 DEF SetList
  <2>3. CASE SetClean(t)
    BY ZenonT(100), <1>2, <2>1, <2>3 DEF SetClean
  <2>4. CASE GetAddress(t) \/ SetAddress(t) \/ CreateSegment(t) \/ GetList(t) \/ GetRemove(t)
    BY ZenonT(100), <1>1, <2>4 DEF GetAddress, SetAddress, CreateSegment, GetList, GetRemove
  <2>5. CASE SetRemove(t) \/ GetDelete(t) \/ DeleteSegment(t) \/ GetSegment(t) \/ SetDestination(t)
    BY ZenonT(100), <1>1, <2>5 DEF SetRemove, GetDelete, DeleteSegment, GetSegment, SetDestination
  <2>. QED BY Zenon, <1>3, <2>2, <2>3, <2>4, <2>5 DEF Request
<1>4. ASSUME NEW d \in Server, NEW s \in Server, Poller(d, s) PROVE SameQueries
  BY ZenonT(100), <1>0, <1>4, HandOverQueries DEF Poller, Accept, OnAccept, OnTransfer, OnDone
<1>5. ASSUME NEW n \in Server, NEW i \in Id, Program(n, i) \/ Deallocate(n, i) PROVE SameQueries
  <2>1. local_segments[n][i] \in Int
    BY ZenonT(100) DEF TypeInv, Kinds
  <2>2. CASE (\E d \in Server : Prepare(n, i, d)) \/ Transfer(n, i)
    BY ZenonT(100), <1>2, <2>1, <2>2 DEF Prepare, Transfer
  <2>3. CASE BeginAllocate(n, i) \/ Close(n, i) \/ Deallocate(n, i)
    BY ZenonT(100), <1>1, <2>3 DEF BeginAllocate, Close, Deallocate
  <2>. QED BY Zenon, <1>5, <2>2, <2>3 DEF Program
<1>6. ASSUME NEW n \in Server, \/ Restart(n) \/ GetProcess(n) \/ EndRecover(n)
                               \/ \E d \in Server : Recover(n, d)
                               \/ \E i \in Id : GetPartition(n, i)
      PROVE  SameQueries
  BY ZenonT(100), <1>1, <1>6 DEF Restart, GetProcess, EndRecover, Recover, GetPartition
<1>. QED BY ZenonT(100), <1>3, <1>4, <1>5, <1>6

\* Every step keeps the queries in order.
LEMMA AskStep ==
  ASSUME TypeInv, AskInv, [Next]_vars
  PROVE  AskInv'
<1>1. ASSUME UNCHANGED vars PROVE AskInv'
  <2>1. UNCHANGED <<chan, pc, halted, lost, down, asked>>
    BY <1>1 DEF vars, zkVars, memVars, threadVars, crashVars, askVars
  <2>2. SameQueries /\ Moves
    BY ZenonT(100), <2>1 DEF SameQueries, Moves
  <2>. QED BY ZenonT(100), <2>1, <2>2, AskFrame
<1>2. ASSUME \/ \E t \in Thread : Request(t)
             \/ \E d, s \in Server : Poller(d, s)
             \/ \E n \in Server, i \in Id : Program(n, i),
             UNCHANGED <<crashVars, askVars>>
      PROVE  AskInv'
  <2>1. SameQueries
    BY ZenonT(100), <1>2, OtherQueries
  <2>2. Moves
    BY ZenonT(100), <1>2, CallMoves, ProgramMoves
  <2>3. halted' = halted
    <3>1. ASSUME NEW t \in Thread, Request(t) PROVE halted' = halted
      BY ZenonT(100), <3>1 DEF Request, GetAddress, SetAddress, CreateSegment, GetList, SetList, GetRemove,
         SetRemove, GetDelete, DeleteSegment, GetSegment, SetDestination, SetClean
    <3>2. ASSUME NEW d \in Server, NEW s \in Server, Poller(d, s) PROVE halted' = halted
      BY ZenonT(100), <3>2 DEF Poller, Accept, OnAccept, OnTransfer, OnDone
    <3>3. ASSUME NEW n \in Server, NEW i \in Id, Program(n, i) PROVE halted' = halted
      BY ZenonT(100), <3>3 DEF Program, BeginAllocate, Prepare, Transfer, Close
    <3>. QED BY ZenonT(100), <1>2, <3>1, <3>2, <3>3
  <2>4. UNCHANGED <<lost, down, asked>>
    BY Zenon, <1>2 DEF crashVars, askVars
  <2>. QED BY ZenonT(100), <2>1, <2>2, <2>3, <2>4, AskFrame
<1>3. ASSUME NEW n \in Server, NEW i \in Id, Deallocate(n, i), UNCHANGED crashVars PROVE AskInv'
  <2>1. SameQueries /\ Moves
    BY ZenonT(100), <1>3, OtherQueries, ProgramMoves
  <2>2. halted \subseteq halted' /\ UNCHANGED <<lost, down, asked>>
    BY ZenonT(100), <1>3 DEF Deallocate, crashVars
  <2>. QED BY ZenonT(100), <2>1, <2>2, AskFrame
<1>4. ASSUME NEW n \in Server, Recovery(n) PROVE AskInv'
  <2>1. CASE Crash(n)
    BY Zenon, <2>1, CrashAsks
  <2>2. CASE \/ Restart(n) \/ GetProcess(n) \/ EndRecover(n)
             \/ \E d \in Server : Recover(n, d)
             \/ \E i \in Id : GetPartition(n, i)
    <3>1. SameQueries /\ Moves
      BY ZenonT(100), <2>2, OtherQueries, ProgramMoves
    <3>2. halted' = halted /\ lost' = lost /\ down' \subseteq down
      BY ZenonT(100), <2>2 DEF Restart, GetProcess, EndRecover, Recover, GetPartition, crashVars
    <3>3. \A x \in Server : pc[<<x, "app">>] = "waitList" => asked'[x] = asked[x]
      <4>1. CASE Restart(n) \/ GetProcess(n) \/ EndRecover(n) \/ \E i \in Id : GetPartition(n, i)
        BY ZenonT(100), <4>1 DEF Restart, GetProcess, EndRecover, GetPartition, askVars
      <4>2. ASSUME NEW d \in Server, Recover(n, d), NEW x \in Server, pc[<<x, "app">>] = "waitList"
            PROVE  asked'[x] = asked[x]
        <5>1. x # n /\ asked' = [asked EXCEPT ![n] = d]
          BY ZenonT(100), <4>2 DEF Recover, At
        <5>. QED BY ZenonT(100), <5>1 DEF TypeInv, AskKinds
      <4>. QED BY ZenonT(100), <2>2, <4>1, <4>2
    <3>. QED BY ZenonT(100), <3>1, <3>2, <3>3, AskFrame
  <2>. QED BY Zenon, <1>4, <2>1, <2>2 DEF Recovery
<1>5. ASSUME NEW n \in Server, NEW d \in Server, Query(n, d) PROVE AskInv'
  BY ZenonT(100), <1>5, QueryAsks, AnswerAsks, ArrivalAsks DEF Query
<1>. QED BY ZenonT(100), <1>1, <1>2, <1>3, <1>4, <1>5 DEF Next

\* A program that waits for a list has its request or the answer under way, or the server it asked has
\* crashed or ended (RDMAMemoryManager: the wait for sem_get_partition_list).
THEOREM WaitCorrect == Spec => []WaitServed
<1>1. Init => AskInv
  <2>. SUFFICES ASSUME Init PROVE AskInv
    OBVIOUS
  <2>1. \A n \in Server : <<n, "app">> \in Thread /\ pc[<<n, "app">>] # "waitList"
    BY ZenonT(100), Threads DEF Init
  <2>2. \A s, d \in Server, type \in QueryType : ~Has(chan[s][d], type) /\ Once(chan[s][d], type)
    <3>1. \A type : ~Has(<<>>, type) /\ Once(<<>>, type)
      BY DEF Has, Once
    <3>. QED BY ZenonT(100), <3>1 DEF Init
  <2>3. "GETPARTITIONS" \in QueryType /\ "SENTPARTITIONS" \in QueryType
    BY DEF QueryType
  <2>4. down = {}
    BY Zenon DEF Init
  <2>. QED BY ZenonT(100), <2>1, <2>2, <2>3, <2>4 DEF AskInv, AsksWaits, AsksOnce, Served, DownIdle, Asks
<1>2. TypeInv /\ AskInv /\ [Next]_vars => AskInv'
  BY Zenon, AskStep
<1>3. AskInv => WaitServed
  <2>. SUFFICES ASSUME AskInv, NEW n \in Server, At(<<n, "app">>, "waitList"), NEW d, d = asked[n]
                PROVE  \/ d \in lost \cup halted
                       \/ \E k \in 1 .. Len(chan[n][d]) : chan[n][d][k].type = "GETPARTITIONS"
                       \/ \E k \in 1 .. Len(chan[d][n]) : chan[d][n][k].type = "SENTPARTITIONS"
    BY Zenon DEF WaitServed
  <2>1. n \notin halted /\ pc[<<n, "app">>] = "waitList"
    <3>1. <<n, "app">>[1] = n
      OBVIOUS
    <3>. QED BY Zenon, <3>1 DEF At
  <2>. QED BY ZenonT(100), <2>1 DEF AskInv, Served, Asks, Has
<1>. QED BY <1>1, <1>2, <1>3, TypeHolds, PTL DEF Spec

=============================================================================
