--------------------------- MODULE MigrationProofs ---------------------------
(***************************************************************************)
(* Proofs about Migration for every number of servers, segments and keys:  *)
(* type correctness, and that the steps which begin or announce no         *)
(* hand-over preserve the invariant MigrationInv.  HandOverProofs has the  *)
(* other steps and the theorems.                                           *)
(***************************************************************************)
EXTENDS Migration, TLAPS

USE SMTT(100)

\* Appending adds one element to the range of a sequence.
LEMMA RangeAppend ==
  ASSUME NEW S, NEW q \in Seq(S), NEW m \in S
  PROVE  /\ Append(q, m) \in Seq(S)
         /\ Range(Append(q, m)) = Range(q) \cup {m}
<1>. DEFINE p == Append(q, m)
<1>1. /\ p \in Seq(S)
      /\ DOMAIN p = DOMAIN q \cup {Len(q) + 1}
      /\ p[Len(q) + 1] = m
      /\ \A i \in DOMAIN q : p[i] = q[i]
  OBVIOUS
<1>. HIDE DEF p
<1>2. Range(p) = Range(q) \cup {m}
  BY <1>1, ZenonT(100) DEF Range
<1>. QED BY <1>1, <1>2 DEF p

\* Head and tail of a queue that is not empty.
LEMMA RangeTail ==
  ASSUME NEW S, NEW q \in Seq(S), q # <<>>
  PROVE  /\ Head(q) \in S
         /\ Tail(q) \in Seq(S)
         /\ Range(q) = {Head(q)} \cup Range(Tail(q))
<1>1. Head(q) \in S /\ Tail(q) \in Seq(S)
  OBVIOUS
<1>2. Range(Tail(q)) \subseteq Range(q)
  BY DEF Range
<1>3. Head(q) \in Range(q)
  BY DEF Range
<1>4. ASSUME NEW i \in DOMAIN q
      PROVE  q[i] \in {Head(q)} \cup Range(Tail(q))
  <2>1. CASE i = 1
    BY <2>1
  <2>2. CASE i # 1
    <3>1. i - 1 \in DOMAIN Tail(q) /\ Tail(q)[i - 1] = q[i]
      BY <2>2
    <3>. QED BY <3>1 DEF Range
  <2>. QED BY <2>1, <2>2
<1>. QED BY <1>1, <1>2, <1>3, <1>4 DEF Range

-----------------------------------------------------------------------------
(* Type correctness.                                                       *)

\* What the slices of the address range need of the constants.
LEMMA AddressFacts ==
  /\ Server \subseteq Nat
  /\ Addr \subseteq Nat
  /\ NullAddr \notin Addr /\ Elsewhere \notin Addr /\ NullAddr # Elsewhere
  /\ NoServer \notin Server
BY ConstantsAssumption DEF Server, Addr, NullAddr, Elsewhere, NoServer

\* A fresh address that fits in the slice of a server is an address.
LEMMA SliceInRange ==
  ASSUME NEW n \in Server, NEW a \in Nat, Start(n) <= a, a + 1 <= End(n)
  PROVE  a \in Addr
<1>1. n + 1 <= NumServers /\ n \in Nat /\ NumServers \in Nat /\ PerServer \in Nat
  BY ConstantsAssumption DEF Server
<1>2. (n + 1) * PerServer <= NumServers * PerServer
  BY <1>1
<1>3. End(n) = (n + 1) * PerServer
  BY <1>1 DEF End, Start
<1>. QED BY <1>1, <1>2, <1>3 DEF Addr

\* The updates of the model at one segment of one server.
PutMemory(n, a, v) == memory' = [memory EXCEPT ![n][a] = v]
PutObject(n, a, o) == memory_map' = [memory_map EXCEPT ![n][a] = o]
PutPhase(n, a, p)  == phase' = [phase EXCEPT ![n][a] = p]

LEMMA PutMemoryEffect ==
  ASSUME TypeOK, NEW n \in Server, NEW a \in Addr, NEW v \in Nat \cup {Unmapped}, PutMemory(n, a, v)
  PROVE  /\ memory' \in [Server -> [Addr -> Nat \cup {Unmapped}]]
         /\ \A x \in Server, b \in Addr :
              memory'[x][b] = IF x = n /\ b = a THEN v ELSE memory[x][b]
<1>1. memory \in [Server -> [Addr -> Nat \cup {Unmapped}]]
  BY DEF TypeOK
<1>. QED BY <1>1 DEF PutMemory

LEMMA PutObjectEffect ==
  ASSUME TypeOK, NEW n \in Server, NEW a \in Addr, NEW o \in Object, PutObject(n, a, o)
  PROVE  /\ memory_map' \in [Server -> [Addr -> Object]]
         /\ \A x \in Server, b \in Addr :
              memory_map'[x][b] = IF x = n /\ b = a THEN o ELSE memory_map[x][b]
<1>1. memory_map \in [Server -> [Addr -> Object]]
  BY DEF TypeOK
<1>. QED BY <1>1 DEF PutObject

LEMMA PutPhaseEffect ==
  ASSUME TypeOK, NEW n \in Server, NEW a \in Addr, NEW p \in Phase, PutPhase(n, a, p)
  PROVE  /\ phase' \in [Server -> [Addr -> Phase]]
         /\ \A x \in Server, b \in Addr :
              phase'[x][b] = IF x = n /\ b = a THEN p ELSE phase[x][b]
<1>1. phase \in [Server -> [Addr -> Phase]]
  BY DEF TypeOK
<1>. QED BY <1>1 DEF PutPhase

\* Changing one entry of a table of the connections.
LEMMA PutType ==
  ASSUME NEW T, NEW f \in [Server -> [Server -> T]], NEW s \in Server, NEW d, NEW v,
         d \in Server => v \in T
  PROVE  [f EXCEPT ![s][d] = v] \in [Server -> [Server -> T]]
<1>1. [f[s] EXCEPT ![d] = v] \in [Server -> T]
  BY ZenonT(100)
<1>. QED BY ZenonT(100), <1>1

\* Send keeps the type of the channels, whatever it overwrites.
LEMMA SendType ==
  ASSUME TypeOK, NEW s \in Server, NEW d, NEW m, d \in Server => m \in Message, Send(s, d, m)
  PROVE  chan' \in [Server -> [Server -> Seq(Message)]] /\ fetched' \in [Server -> [Server -> Nat]]
<1>1. chan \in [Server -> [Server -> Seq(Message)]] /\ fetched \in [Server -> [Server -> Nat]]
  BY DEF TypeOK
<1>2. ASSUME d \in Server, NEW k \in fetched[s][d] .. Len(chan[s][d])
      PROVE  Append(Overwritten(chan[s][d], k, m), m) \in Seq(Message) /\ k \in Nat
  <2>1. m \in Message /\ fetched[s][d] \in Nat /\ chan[s][d] \in Seq(Message)
    BY ZenonT(100), <1>1, <1>2
  <2>2. Overwritten(chan[s][d], k, m) \in Seq(Message)
    BY <2>1 DEF Overwritten
  <2>. QED BY <1>2, <2>1, <2>2, RangeAppend
<1>3. d \in Server => Append(chan[s][d], m) \in Seq(Message)
  BY <1>1, RangeAppend
<1>4. PICK q : chan' = [chan EXCEPT ![s][d] = q] /\ (d \in Server => q \in Seq(Message))
  BY ZenonT(100), <1>2, <1>3 DEF Send
<1>5. chan' \in [Server -> [Server -> Seq(Message)]]
  BY ZenonT(100), <1>1, <1>4, PutType
<1>6. \/ fetched' = fetched
      \/ \E k : fetched' = [fetched EXCEPT ![s][d] = k] /\ (d \in Server => k \in Nat)
  BY ZenonT(100), <1>2 DEF Send
<1>7. ASSUME NEW k, fetched' = [fetched EXCEPT ![s][d] = k], d \in Server => k \in Nat
      PROVE  fetched' \in [Server -> [Server -> Nat]]
  BY ZenonT(100), <1>1, <1>7, PutType
<1>. QED BY ZenonT(100), <1>1, <1>5, <1>6, <1>7

\* Where messages do not meet in the buffers, Send appends to one channel.
LEMMA SendEffect ==
  ASSUME TypeOK, ~MayOverlap, NEW s \in Server, NEW d \in Server, NEW m, Send(s, d, m)
  PROVE  \A x, y \in Server :
           chan'[x][y] = IF x = s /\ y = d THEN Append(chan[s][d], m) ELSE chan[x][y]
<1>1. chan \in [Server -> [Server -> Seq(Message)]]
  BY DEF TypeOK
<1>2. chan' = [chan EXCEPT ![s][d] = Append(chan[s][d], m)]
  BY DEF Send
<1>. QED BY ZenonT(100), <1>1, <1>2

\* register_memory sets one registration to a new key.
LEMMA RegisterEffect ==
  ASSUME TypeOK, NEW n \in Server, NEW p, NEW a, Register(n, p, a)
  PROVE  /\ registrations' \in [Server -> [Server -> [Addr -> Nat]]]
         /\ \A x, y \in Server, b \in Addr :
              registrations'[x][y][b] = IF x = n /\ y = p /\ b = a THEN next_key[n]
                                        ELSE registrations[x][y][b]
         /\ remote_registrations' = remote_registrations
         /\ next_key' \in [Server -> Nat \ {0}]
<1>1. PICK k \in Nat : k = next_key[n]
  BY DEF TypeOK
<1>2. registrations \in [Server -> [Server -> [Addr -> Nat]]]
  BY DEF TypeOK
<1>3. registrations' = [registrations EXCEPT ![n][p][a] = k]
  BY <1>1 DEF Register
<1>4. /\ registrations' \in [Server -> [Server -> [Addr -> Nat]]]
      /\ \A x, y \in Server, b \in Addr :
           registrations'[x][y][b] = IF x = n /\ y = p /\ b = a THEN k
                                     ELSE registrations[x][y][b]
  <2>1. CASE p \in Server /\ a \in Addr
    BY <1>2, <1>3, <2>1
  <2>2. CASE p \in Server /\ a \notin Addr
    BY ZenonT(100), <1>2, <1>3, <2>2
  <2>3. CASE p \notin Server
    BY ZenonT(100), <1>2, <1>3, <2>3
  <2>. QED BY <2>1, <2>2, <2>3
<1>5. next_key' \in [Server -> Nat \ {0}] /\ remote_registrations' = remote_registrations
  BY DEF Register, TypeOK
<1>. QED BY <1>1, <1>4, <1>5

\* deregister_memory clears one registration, or halts the server.
LEMMA DeregisterEffect ==
  ASSUME TypeOK, NEW n \in Server, NEW p, NEW a, Deregister(n, p, a)
  PROVE  /\ registrations' \in [Server -> [Server -> [Addr -> Nat]]]
         /\ \A x, y \in Server, b \in Addr :
              registrations'[x][y][b] # registrations[x][y][b] => x = n /\ y = p /\ b = a
         /\ remote_registrations' = remote_registrations
         /\ next_key' = next_key
         /\ halted' \subseteq Server
<1>1. registrations \in [Server -> [Server -> [Addr -> Nat]]]
  BY DEF TypeOK
<1>2. /\ halted' \subseteq Server
      /\ remote_registrations' = remote_registrations
      /\ next_key' = next_key
  BY DEF Deregister, TypeOK
<1>3. CASE a \in Addr /\ p \in Server /\ registrations' = [registrations EXCEPT ![n][p][a] = 0]
  <2>1. /\ registrations' \in [Server -> [Server -> [Addr -> Nat]]]
        /\ \A x, y \in Server, b \in Addr :
             registrations'[x][y][b] = IF x = n /\ y = p /\ b = a THEN 0
                                       ELSE registrations[x][y][b]
    BY <1>1, <1>3
  <2>. QED BY <1>2, <2>1
<1>4. CASE p \notin Server /\ registrations' = [registrations EXCEPT ![n][p][a] = 0]
  <2>1. registrations' = registrations
    BY <1>1, <1>4
  <2>. QED BY <1>1, <1>2, <2>1
<1>5. CASE registrations' = registrations
  BY <1>1, <1>2, <1>5
<1>. QED BY <1>3, <1>4, <1>5 DEF Deregister, NoKey

\* The registration that differs after a step, if any, is that of a on the connection of n to p.
OnlyDiffers(n, p, a) ==
  \A x, y \in Server, b \in Addr :
    registrations'[x][y][b] # registrations[x][y][b] => x = n /\ y = p /\ b = a

\* deregister_memory drops no other registration than the one that it names.
LEMMA DeregisterOnly ==
  ASSUME TypeOK, NEW n \in Server, NEW p, NEW a, Deregister(n, p, a)
  PROVE  OnlyDiffers(n, p, a)
<1>1. \A x, y \in Server, b \in Addr :
        registrations'[x][y][b] # registrations[x][y][b] => x = n /\ y = p /\ b = a
  BY SMTT(100), DeregisterEffect
<1>. QED BY ZenonT(100), <1>1 DEF OnlyDiffers

\* GetMessage removes the head of one queue.
LEMMA GetEffect ==
  ASSUME TypeOK, NEW n \in Server, NEW s \in Server, NEW t, GetMessage(n, s, t)
  PROVE  /\ Head(recv_queue[n][s]) \in Message
         /\ Head(recv_queue[n][s]).type = t
         /\ recv_queue[n][s] # <<>>
         /\ recv_queue' \in [Server -> [Server -> Seq(Message)]]
         /\ \A x, y \in Server :
              recv_queue'[x][y] = IF x = n /\ y = s THEN Tail(recv_queue[n][s])
                                  ELSE recv_queue[x][y]
<1>1. recv_queue[n][s] \in Seq(Message) /\ recv_queue[n][s] # <<>>
  BY DEF TypeOK, GetMessage
<1>2. Head(recv_queue[n][s]) \in Message /\ Tail(recv_queue[n][s]) \in Seq(Message)
  BY <1>1, RangeTail
<1>3. recv_queue \in [Server -> [Server -> Seq(Message)]]
  BY DEF TypeOK
<1>4. recv_queue' = [recv_queue EXCEPT ![n][s] = Tail(recv_queue[n][s])]
  BY DEF GetMessage
<1>5. Head(recv_queue[n][s]).type = t
  BY DEF GetMessage
<1>. QED BY ZenonT(100), <1>1, <1>2, <1>3, <1>4, <1>5

\* The variables start with their types and every action keeps them.
LEMMA TypeInit == Init => TypeOK
<1>. SUFFICES ASSUME Init PROVE TypeOK
  OBVIOUS
<1>1. \A n \in Server : Start(n) \in Nat /\ Start(n) \in Start(n) .. End(n)
  <2>. SUFFICES ASSUME NEW n \in Server PROVE Start(n) \in Nat /\ Start(n) \in Start(n) .. End(n)
    OBVIOUS
  <2>1. n \in Nat /\ PerServer \in Nat
    BY ConstantsAssumption DEF Server
  <2>2. n * PerServer \in Nat
    BY <2>1
  <2>. QED BY <2>1, <2>2 DEF Start, End
<1>2. Absent \in Object
  BY DEF Absent, Object
<1>. QED BY <1>1, <1>2 DEF Init, TypeOK, Unmapped, NoKey, Phase

LEMMA TypeStep == TypeOK /\ [Next]_vars => TypeOK'
<1>. SUFFICES ASSUME TypeOK, [Next]_vars PROVE TypeOK'
  OBVIOUS
<1>. USE DEF managerVars, connVars, netVars, queueVars, appVars
<1>a. incoming_accepts \in [Server -> Seq(Addr)]
  BY DEF TypeOK
<1>b. incoming_transfers \in [Server -> Seq(Addr)]
  BY DEF TypeOK
<1>c. incoming_dones \in [Server -> Seq(Addr)]
  BY DEF TypeOK
<1>d. memory_map \in [Server -> [Addr -> Object]]
  BY DEF TypeOK
<1>e. memory \in [Server -> [Addr -> Nat \cup {Unmapped}]]
  BY DEF TypeOK
<1>f. phase \in [Server -> [Addr -> Phase]]
  BY DEF TypeOK
<1>g. free_map \in [Server -> Seq([vaddr : Addr, object : Object])]
  BY ZenonT(100) DEF TypeOK
<1>h. visited \in [Addr -> SUBSET Server]
  BY DEF TypeOK
<1>1. ASSUME NEW s \in Server, NEW d \in Server, OnRecvFinish(s, d) PROVE TypeOK'
  <2>1. PICK i \in Landed(s, d) :
          /\ chan' = [chan EXCEPT ![s][d] = Tail(@)]
          /\ fetched' = [fetched EXCEPT ![s][d] = IF @ > i THEN @ - 1 ELSE i - 1]
          /\ recv_queue' = [recv_queue EXCEPT ![d][s] = Append(@, chan[s][d][i])]
          /\ remote_registrations' =
               IF Head(chan[s][d]).type = "TRANSFER"
               THEN [remote_registrations EXCEPT ![d][s][chan[s][d][i].addr] = chan[s][d][i].rkey]
               ELSE remote_registrations
    BY ZenonT(100), <1>1 DEF OnRecvFinish
  <2>2. PICK m : m = chan[s][d][i]
    OBVIOUS
  <2>3. chan[s][d] \in Seq(Message) /\ recv_queue[d][s] \in Seq(Message) /\ fetched[s][d] \in Nat
    BY DEF TypeOK
  <2>4. i \in DOMAIN chan[s][d] /\ i \in Nat \ {0} /\ chan[s][d] # <<>> /\ m \in Message
    BY <2>2, <2>3 DEF Landed
  <2>5. Tail(chan[s][d]) \in Seq(Message) /\ Append(recv_queue[d][s], m) \in Seq(Message)
    BY <2>3, <2>4, RangeTail, RangeAppend
  <2>6. chan' \in [Server -> [Server -> Seq(Message)]]
    BY ZenonT(100), <2>1, <2>5 DEF TypeOK
  <2>7. recv_queue' \in [Server -> [Server -> Seq(Message)]]
    BY ZenonT(100), <2>1, <2>2, <2>5 DEF TypeOK
  <2>8. fetched' \in [Server -> [Server -> Nat]]
    <3>1. PICK k : k = IF fetched[s][d] > i THEN fetched[s][d] - 1 ELSE i - 1
      OBVIOUS
    <3>2. k \in Nat
      BY <2>3, <2>4, <3>1
    <3>3. fetched' = [fetched EXCEPT ![s][d] = k]
      BY ZenonT(100), <2>1, <3>1
    <3>. QED BY ZenonT(100), <3>2, <3>3 DEF TypeOK
  <2>9. remote_registrations' \in [Server -> [Server -> [Addr -> Nat]]]
    <3>1. remote_registrations \in [Server -> [Server -> [Addr -> Nat]]]
      BY DEF TypeOK
    <3>2. m.rkey \in Nat
      BY <2>4 DEF Message
    <3>3. \/ remote_registrations' = remote_registrations
          \/ \E a, k : k \in Nat /\ remote_registrations' = [remote_registrations EXCEPT ![d][s][a] = k]
      BY ZenonT(100), <2>1, <2>2, <3>2
    <3>4. ASSUME NEW a, NEW k \in Nat,
                 remote_registrations' = [remote_registrations EXCEPT ![d][s][a] = k]
          PROVE  remote_registrations' \in [Server -> [Server -> [Addr -> Nat]]]
      <4>1. [remote_registrations[d][s] EXCEPT ![a] = k] \in [Addr -> Nat]
        BY ZenonT(100), <3>1
      <4>2. [remote_registrations EXCEPT ![d][s] = [remote_registrations[d][s] EXCEPT ![a] = k]]
              \in [Server -> [Server -> [Addr -> Nat]]]
        BY ZenonT(100), <3>1, <4>1, PutType
      <4>. QED BY ZenonT(100), <3>4, <4>2
    <3>. QED BY ZenonT(100), <3>1, <3>3, <3>4
  <2>. QED BY ZenonT(100), <1>1, <2>6, <2>7, <2>8, <2>9 DEF OnRecvFinish, TypeOK
<1>2. ASSUME NEW n \in Server, OnSendFinish(n) PROVE TypeOK'
  BY ZenonT(100), <1>2 DEF OnSendFinish, TypeOK
<1>3. ASSUME NEW n \in Server, NEW s \in Server, Accept(n, s) PROVE TypeOK'
  <2>. DEFINE a == Head(recv_queue[n][s]).addr
              o == [RDMAMemory(n) EXCEPT !.pair = s]
  <2>1. /\ GetMessage(n, s, "PREPARE") /\ Register(n, s, a)
        /\ \E b \in {a, Elsewhere} : Send(n, s, Msg("ACCEPT", b, NoKey))
    BY ZenonT(100), <1>3 DEF Accept
  <2>2. a \in Addr /\ recv_queue' \in [Server -> [Server -> Seq(Message)]]
    <3>1. Head(recv_queue[n][s]) \in Message /\ Head(recv_queue[n][s]).type = "PREPARE"
      BY <2>1, GetEffect
    <3>. QED BY ZenonT(100), <2>1, <3>1, GetEffect DEF Message
  <2>3. \A b \in {a, Elsewhere} : Msg("ACCEPT", b, NoKey) \in Message
    BY <2>2 DEF Msg, Message, NoKey
  <2>4. chan' \in [Server -> [Server -> Seq(Message)]] /\ fetched' \in [Server -> [Server -> Nat]]
    BY <2>1, <2>3, SendType
  <2>5. o \in Object
    BY ZenonT(100) DEF Object, RDMAMemory
  <2>6. \/ PutMemory(n, a, 0) /\ PutObject(n, a, o)
        \/ UNCHANGED <<memory, memory_map>>
    BY <1>3 DEF Accept, PutMemory, PutObject
  <2>. HIDE DEF a, o
  <2>7. /\ memory' \in [Server -> [Addr -> Nat \cup {Unmapped}]]
        /\ memory_map' \in [Server -> [Addr -> Object]]
    BY ZenonT(100), <2>2, <2>5, <2>6, PutMemoryEffect, PutObjectEffect DEF TypeOK
  <2>. QED BY ZenonT(100), <1>3, <2>1, <2>2, <2>4, <2>7, RegisterEffect DEF Accept, TypeOK
<1>4. ASSUME NEW n \in Server, NEW s \in Server, AcceptFails(n, s) PROVE TypeOK'
  <2>1. GetMessage(n, s, "PREPARE") /\ Send(n, s, Msg("DECLINE", NullAddr, NoKey))
    BY <1>4 DEF AcceptFails
  <2>2. Msg("DECLINE", NullAddr, NoKey) \in Message
    BY DEF Msg, Message, NoKey
  <2>3. /\ chan' \in [Server -> [Server -> Seq(Message)]] /\ fetched' \in [Server -> [Server -> Nat]]
        /\ recv_queue' \in [Server -> [Server -> Seq(Message)]]
    BY <2>1, <2>2, SendType, GetEffect
  <2>. QED BY ZenonT(100), <1>4, <2>3 DEF AcceptFails, TypeOK
<1>5. ASSUME NEW n \in Server, NEW s \in Server, OnAccept(n, s) PROVE TypeOK'
  <2>. DEFINE a == Head(recv_queue[n][s]).addr
  <2>1. GetMessage(n, s, "ACCEPT")
    BY <1>5 DEF OnAccept
  <2>2. recv_queue' \in [Server -> [Server -> Seq(Message)]]
    BY <2>1, GetEffect
  <2>3. \/ a \in Addr /\ incoming_accepts' = [incoming_accepts EXCEPT ![n] = Append(@, a)]
        \/ incoming_accepts' = incoming_accepts
    BY <1>5, ZenonT(100) DEF OnAccept, Known
  <2>. HIDE DEF a
  <2>4. incoming_accepts' \in [Server -> Seq(Addr)]
    <3>1. incoming_accepts[n] \in Seq(Addr)
      BY <1>a
    <3>2. a \in Addr => Append(incoming_accepts[n], a) \in Seq(Addr)
      BY <3>1, RangeAppend
    <3>. QED BY ZenonT(100), <1>a, <2>3, <3>2
  <2>5. halted' \subseteq Server
    BY ZenonT(100), <1>5 DEF OnAccept, TypeOK
  <2>. QED BY ZenonT(100), <1>5, <2>2, <2>4, <2>5 DEF OnAccept, TypeOK
<1>6. ASSUME NEW n \in Server, NEW s \in Server, OnDecline(n, s) PROVE TypeOK'
  <2>. DEFINE a == Head(recv_queue[n][s]).addr
  <2>1. GetMessage(n, s, "DECLINE") /\ Deregister(n, s, a)
        /\ UNCHANGED <<managerVars, chan, fetched, declined, queueVars, appVars>>
    BY <1>6 DEF OnDecline
  <2>2. recv_queue' \in [Server -> [Server -> Seq(Message)]]
    BY <2>1, GetEffect
  <2>. HIDE DEF a
  <2>3. /\ registrations' \in [Server -> [Server -> [Addr -> Nat]]]
        /\ UNCHANGED <<remote_registrations, next_key>>
        /\ halted' \subseteq Server
    BY <2>1, DeregisterEffect
  <2>. QED BY ZenonT(100), <2>1, <2>2, <2>3 DEF TypeOK
<1>7. ASSUME NEW n \in Server, NEW s \in Server, OnTransfer(n, s) PROVE TypeOK'
  <2>. DEFINE a == Head(recv_queue[n][s]).addr
              o == [memory_map[n][a] EXCEPT !.state = "Clean"]
  <2>1. GetMessage(n, s, "TRANSFER")
    BY ZenonT(100), <1>7 DEF OnTransfer
  <2>2. a \in Addr /\ recv_queue' \in [Server -> [Server -> Seq(Message)]]
    <3>1. Head(recv_queue[n][s]) \in Message /\ Head(recv_queue[n][s]).type = "TRANSFER"
      BY <2>1, GetEffect
    <3>. QED BY ZenonT(100), <2>1, <3>1, GetEffect DEF Message
  <2>3. memory_map[n][a] \in Object /\ memory[s][a] \in Nat \cup {Unmapped}
    BY <1>d, <1>e, <2>2
  <2>4. o \in Object
    BY ZenonT(100), <2>3 DEF Object
  <2>5. /\ PutMemory(n, a, memory[s][a]) \/ memory' = memory
        /\ PutObject(n, a, o) \/ memory_map' = memory_map
        /\ \/ incoming_transfers' = [incoming_transfers EXCEPT ![n] = Append(@, a)]
           \/ incoming_transfers' = incoming_transfers
        /\ halted' \subseteq Server
    BY ZenonT(100), <1>7 DEF OnTransfer, PutMemory, PutObject, TypeOK
  <2>. HIDE DEF a, o
  <2>6. /\ memory' \in [Server -> [Addr -> Nat \cup {Unmapped}]]
        /\ memory_map' \in [Server -> [Addr -> Object]]
    BY ZenonT(100), <2>2, <2>3, <2>4, <2>5, PutMemoryEffect, PutObjectEffect DEF TypeOK
  <2>7. incoming_transfers' \in [Server -> Seq(Addr)]
    <3>1. incoming_transfers[n] \in Seq(Addr)
      BY <1>b
    <3>2. Append(incoming_transfers[n], a) \in Seq(Addr)
      BY <2>2, <3>1, RangeAppend
    <3>. QED BY ZenonT(100), <1>b, <2>5, <3>2
  <2>. QED BY ZenonT(100), <1>7, <2>2, <2>5, <2>6, <2>7 DEF OnTransfer, TypeOK
<1>8. ASSUME NEW n \in Server, NEW s \in Server, OnClose(n, s) PROVE TypeOK'
  <2>. DEFINE a == Head(recv_queue[n][s]).addr
  <2>1. /\ GetMessage(n, s, "DONE") /\ Deregister(n, s, a)
        /\ incoming_dones' = [incoming_dones EXCEPT ![n] = Append(@, a)]
        /\ UNCHANGED <<managerVars, chan, fetched, declined, incoming_accepts, incoming_transfers,
                       appVars>>
    BY <1>8 DEF OnClose
  <2>2. a \in Addr /\ recv_queue' \in [Server -> [Server -> Seq(Message)]]
    <3>1. Head(recv_queue[n][s]) \in Message /\ Head(recv_queue[n][s]).type = "DONE"
      BY <2>1, GetEffect
    <3>. QED BY ZenonT(100), <2>1, <3>1, GetEffect DEF Message
  <2>. HIDE DEF a
  <2>3. incoming_dones' \in [Server -> Seq(Addr)]
    BY <1>c, <2>1, <2>2
  <2>4. /\ registrations' \in [Server -> [Server -> [Addr -> Nat]]]
        /\ UNCHANGED <<remote_registrations, next_key>>
        /\ halted' \subseteq Server
    BY <2>1, DeregisterEffect
  <2>. QED BY ZenonT(100), <2>1, <2>2, <2>3, <2>4 DEF TypeOK
<1>9. ASSUME NEW n \in Server, AllocateFresh(n) PROVE TypeOK'
  <2>. DEFINE a == alloc_address[n]
  <2>1. a \in Nat /\ Start(n) <= a /\ a + 1 <= End(n) /\ Start(n) \in Nat /\ End(n) \in Nat
    BY <1>9, ConstantsAssumption DEF AllocateFresh, TypeOK, Server, Start, End
  <2>2. a \in Addr
    BY <2>1, SliceInRange
  <2>3. /\ alloc_address' \in [Server -> Nat]
        /\ \A m \in Server : alloc_address'[m] \in Start(m) .. End(m)
    <3>1. alloc_address' = [alloc_address EXCEPT ![n] = a + 1]
      BY <1>9 DEF AllocateFresh
    <3>2. /\ alloc_address \in [Server -> Nat]
          /\ \A m \in Server : alloc_address[m] \in Start(m) .. End(m)
      BY ZenonT(100) DEF TypeOK
    <3>. QED BY <2>1, <3>1, <3>2
  <2>4. RDMAMemory(n) \in Object /\ "held" \in Phase
    BY DEF RDMAMemory, Object, Phase
  <2>5. \/ /\ PutMemory(n, a, 0) /\ PutObject(n, a, RDMAMemory(n)) /\ PutPhase(n, a, "held")
           /\ visited' = [visited EXCEPT ![a] = {n}]
        \/ UNCHANGED <<memory, memory_map, phase, visited>>
    BY <1>9 DEF AllocateFresh, PutMemory, PutObject, PutPhase
  <2>. HIDE DEF a
  <2>6. /\ memory' \in [Server -> [Addr -> Nat \cup {Unmapped}]]
        /\ memory_map' \in [Server -> [Addr -> Object]]
        /\ phase' \in [Server -> [Addr -> Phase]]
    BY <1>d, <1>e, <1>f, <2>2, <2>4, <2>5, PutMemoryEffect, PutObjectEffect, PutPhaseEffect
  <2>7. visited' \in [Addr -> SUBSET Server]
    BY <1>h, <2>5
  <2>. QED BY ZenonT(100), <1>9, <2>3, <2>6, <2>7 DEF AllocateFresh, TypeOK
<1>10. ASSUME NEW n \in Server, AllocateFreed(n) PROVE TypeOK'
  <2>. DEFINE S == [vaddr : Addr, object : Object]
              f == Head(free_map[n])
              a == f.vaddr
  <2>1. free_map[n] \in Seq(S) /\ free_map[n] # <<>>
    BY ZenonT(100), <1>10, <1>g DEF AllocateFreed
  <2>2. f \in S /\ Tail(free_map[n]) \in Seq(S)
    BY ZenonT(100), <2>1, RangeTail
  <2>3. a \in Addr /\ f.object \in Object
    BY <2>2
  <2>4. free_map' \in [Server -> Seq(S)]
    BY ZenonT(100), <1>10, <1>g, <2>2 DEF AllocateFreed
  <2>5. memory[n][a] \in Nat \cup {Unmapped} /\ "held" \in Phase
    BY <1>e, <2>3 DEF Phase
  <2>6. /\ \E v \in Nat \cup {Unmapped} : PutMemory(n, a, v)
        /\ PutObject(n, a, f.object) /\ PutPhase(n, a, "held")
        /\ visited' = [visited EXCEPT ![a] = {n}]
    BY ZenonT(100), <1>10, <2>5 DEF AllocateFreed, PutMemory, PutObject, PutPhase
  <2>. HIDE DEF f, a, S
  <2>7. /\ memory' \in [Server -> [Addr -> Nat \cup {Unmapped}]]
        /\ memory_map' \in [Server -> [Addr -> Object]]
        /\ phase' \in [Server -> [Addr -> Phase]]
    BY <2>3, <2>5, <2>6, PutMemoryEffect, PutObjectEffect, PutPhaseEffect
  <2>8. visited' \in [Addr -> SUBSET Server]
    BY ZenonT(100), <1>h, <2>6
  <2>. QED BY ZenonT(100), <1>10, <2>4, <2>7, <2>8 DEF AllocateFreed, TypeOK, S
<1>11. ASSUME NEW n \in Server, NEW a \in Addr, Deallocate(n, a) PROVE TypeOK'
  <2>. DEFINE S == [vaddr : Addr, object : Object]
              f == [vaddr |-> a, object |-> memory_map[n][a]]
  <2>1. f \in S /\ free_map[n] \in Seq(S)
    BY ZenonT(100), <1>d, <1>g
  <2>2. Append(free_map[n], f) \in Seq(S)
    BY <2>1, RangeAppend
  <2>3. free_map' \in [Server -> Seq(S)]
    BY ZenonT(100), <1>11, <1>g, <2>2 DEF Deallocate
  <2>4. memory' \in [Server -> [Addr -> Nat \cup {Unmapped}]]
    BY <1>11, <1>e DEF Deallocate
  <2>5. phase' \in [Server -> [Addr -> Phase]]
    BY <1>11, <1>f DEF Deallocate, Phase
  <2>. QED BY ZenonT(100), <1>11, <2>3, <2>4, <2>5 DEF Deallocate, TypeOK
<1>12. ASSUME NEW n \in Server, NEW a \in Addr, Write(n, a) PROVE TypeOK'
  <2>1. memory[n][a] + 1 \in Nat
    BY <1>12, ConstantsAssumption DEF Write
  <2>2. PutMemory(n, a, memory[n][a] + 1)
    BY <1>12 DEF Write, PutMemory
  <2>3. memory' \in [Server -> [Addr -> Nat \cup {Unmapped}]]
    BY <2>1, <2>2, PutMemoryEffect
  <2>. QED BY ZenonT(100), <1>12, <2>3 DEF Write, TypeOK
<1>13. ASSUME NEW n \in Server, NEW d \in Server, NEW a \in Addr, Prepare(n, a, d) PROVE TypeOK'
  <2>. DEFINE o == [memory_map[n][a] EXCEPT !.pair = d]
  <2>1. Register(n, d, a) /\ Send(n, d, Msg("PREPARE", a, next_key[n])) /\ PutObject(n, a, o)
    BY <1>13 DEF Prepare, PutObject
  <2>2. Msg("PREPARE", a, next_key[n]) \in Message
    BY DEF Msg, Message, TypeOK
  <2>3. chan' \in [Server -> [Server -> Seq(Message)]] /\ fetched' \in [Server -> [Server -> Nat]]
    BY <2>1, <2>2, SendType
  <2>4. o \in Object
    <3>1. memory_map[n][a] \in Object
      BY <1>d
    <3>. QED BY <3>1 DEF Object
  <2>. HIDE DEF o
  <2>5. memory_map' \in [Server -> [Addr -> Object]]
    BY <2>1, <2>4, PutObjectEffect
  <2>6. phase' \in [Server -> [Addr -> Phase]] /\ visited' \in [Addr -> SUBSET Server]
    BY <1>13, <1>f, <1>h DEF Prepare, Phase
  <2>. QED BY ZenonT(100), <1>13, <2>1, <2>3, <2>5, <2>6, RegisterEffect DEF Prepare, TypeOK
<1>14. ASSUME NEW n \in Server, PollForAccept(n) PROVE TypeOK'
  <2>1. incoming_accepts[n] \in Seq(Addr) /\ incoming_accepts[n] # <<>>
    BY <1>14 DEF PollForAccept, TypeOK
  <2>2. Head(incoming_accepts[n]) \in Addr /\ Tail(incoming_accepts[n]) \in Seq(Addr)
    BY <2>1, RangeTail
  <2>. QED BY ZenonT(100), <1>14, <2>2 DEF PollForAccept, TypeOK, Phase
<1>15. ASSUME NEW n \in Server, NEW a \in Addr, Transfer(n, a) PROVE TypeOK'
  <2>. DEFINE d == memory_map[n][a].pair
              m == Msg("TRANSFER", a, registrations[n][d][a])
              p == [memory_map[n][a] EXCEPT !.owner = d]
              o == [p EXCEPT !.state = "Shared"]
  <2>1. memory_map[n][a] \in Object
    BY <1>d
  <2>2. p \in Object
    BY <2>1 DEF Object
  <2>3. o \in Object /\ "moved" \in Phase
    BY ZenonT(100), <2>2 DEF Object, Phase
  <2>4. PutObject(n, a, o) /\ PutPhase(n, a, "moved")
    BY ZenonT(100), <1>15, <2>1, <1>d DEF Transfer, PutObject, PutPhase
  <2>5. d \in Server => m \in Message
    BY DEF TypeOK, Msg, Message
  <2>6. /\ chan' \in [Server -> [Server -> Seq(Message)]] /\ fetched' \in [Server -> [Server -> Nat]]
        /\ halted' \subseteq Server
    <3>1. CASE Send(n, d, m) /\ UNCHANGED halted
      BY ZenonT(100), <2>5, <3>1, SendType DEF TypeOK
    <3>2. CASE halted' = halted \cup {n} /\ UNCHANGED <<chan, fetched>>
      BY <3>2 DEF TypeOK
    <3>. QED BY <1>15, <3>1, <3>2 DEF Transfer
  <2>. HIDE DEF o, p
  <2>7. memory_map' \in [Server -> [Addr -> Object]] /\ phase' \in [Server -> [Addr -> Phase]]
    BY <2>3, <2>4, PutObjectEffect, PutPhaseEffect
  <2>. QED BY ZenonT(100), <1>15, <2>6, <2>7 DEF Transfer, TypeOK
<1>16. ASSUME NEW n \in Server, PollForTransfer(n) PROVE TypeOK'
  <2>1. incoming_transfers[n] \in Seq(Addr) /\ incoming_transfers[n] # <<>>
    BY <1>16 DEF PollForTransfer, TypeOK
  <2>2. Head(incoming_transfers[n]) \in Addr /\ Tail(incoming_transfers[n]) \in Seq(Addr)
    BY <2>1, RangeTail
  <2>. QED BY ZenonT(100), <1>16, <2>2 DEF PollForTransfer, TypeOK, Phase
<1>17. ASSUME NEW n \in Server, NEW a \in Addr, Close(n, a) PROVE TypeOK'
  <2>1. Msg("DONE", a, NoKey) \in Message
    BY DEF Msg, Message, NoKey
  <2>2. chan' \in [Server -> [Server -> Seq(Message)]] /\ fetched' \in [Server -> [Server -> Nat]]
    BY <1>17, <2>1, SendType DEF Close
  <2>. DEFINE o == [memory_map[n][a] EXCEPT !.state = "Clean"]
  <2>3. o \in Object /\ "closing" \in Phase
    <3>1. memory_map[n][a] \in Object
      BY <1>d
    <3>. QED BY <3>1 DEF Object, Phase
  <2>4. PutObject(n, a, o) /\ PutPhase(n, a, "closing")
    BY <1>17 DEF Close, PutObject, PutPhase
  <2>. HIDE DEF o
  <2>5. memory_map' \in [Server -> [Addr -> Object]] /\ phase' \in [Server -> [Addr -> Phase]]
    BY <2>3, <2>4, PutObjectEffect, PutPhaseEffect
  <2>. QED BY ZenonT(100), <1>17, <2>2, <2>5 DEF Close, TypeOK
<1>18. ASSUME NEW n \in Server, NEW a \in Addr, CloseDeregister(n, a) PROVE TypeOK'
  <2>1. Deregister(n, memory_map[n][a].pair, a)
    BY <1>18 DEF CloseDeregister
  <2>2. phase' \in [Server -> [Addr -> Phase]]
    BY <1>18 DEF CloseDeregister, TypeOK, Phase
  <2>3. /\ registrations' \in [Server -> [Server -> [Addr -> Nat]]]
        /\ UNCHANGED <<remote_registrations, next_key>>
        /\ halted' \subseteq Server
    BY <2>1, DeregisterEffect
  <2>. QED BY ZenonT(100), <1>18, <2>2, <2>3 DEF CloseDeregister, TypeOK
<1>19. ASSUME NEW n \in Server, PollForClose(n) PROVE TypeOK'
  <2>1. incoming_dones[n] \in Seq(Addr) /\ incoming_dones[n] # <<>>
    BY <1>19 DEF PollForClose, TypeOK
  <2>2. Head(incoming_dones[n]) \in Addr /\ Tail(incoming_dones[n]) \in Seq(Addr)
    BY <2>1, RangeTail
  <2>. QED BY ZenonT(100), <1>19, <2>2 DEF PollForClose, TypeOK, Phase
<1>20. CASE UNCHANGED vars
  BY ZenonT(100), <1>20 DEF vars, TypeOK
<1>. QED BY ZenonT(100), <1>1, <1>2, <1>3, <1>4, <1>5, <1>6, <1>7, <1>8, <1>9, <1>10, <1>11, <1>12, <1>13,
            <1>14, <1>15, <1>16, <1>17, <1>18, <1>19, <1>20 DEF Next, Poller

\* Every variable keeps its type, whatever the programs do.
THEOREM TypeCorrect == Spec => []TypeOK
BY TypeInit, TypeStep, PTL DEF Spec

-----------------------------------------------------------------------------
(* Queues without duplicates.                                                *)

LEMMA DistinctSymmetric ==
  ASSUME NEW p, NEW q, Distinct(p, q)
  PROVE  Distinct(q, p)
BY ZenonT(100) DEF Distinct

\* Appending a message that differs from all those in the queue.
LEMMA AppendDistinct ==
  ASSUME NEW q \in Seq(Message), NEW m \in Message, AllDistinct(q),
         \A p \in Range(q) : Distinct(p, m)
  PROVE  AllDistinct(Append(q, m))
<1>. DEFINE r == Append(q, m)
<1>1. /\ DOMAIN r = DOMAIN q \cup {Len(q) + 1}
      /\ r[Len(q) + 1] = m
      /\ \A i \in DOMAIN q : r[i] = q[i]
  OBVIOUS
<1>. HIDE DEF r
<1>2. SUFFICES ASSUME NEW i \in DOMAIN r, NEW j \in DOMAIN r, i # j
               PROVE  Distinct(r[i], r[j])
  BY ZenonT(100) DEF AllDistinct, r
<1>3. CASE i \in DOMAIN q /\ j \in DOMAIN q
  BY <1>1, <1>2, <1>3, ZenonT(100) DEF AllDistinct
<1>4. CASE i \in DOMAIN q /\ j = Len(q) + 1
  <2>1. q[i] \in Range(q)
    BY <1>4, ZenonT(100) DEF Range
  <2>. QED BY <1>1, <1>4, <2>1, ZenonT(100)
<1>5. CASE i = Len(q) + 1 /\ j \in DOMAIN q
  <2>1. q[j] \in Range(q)
    BY <1>5, ZenonT(100) DEF Range
  <2>2. Distinct(q[j], m)
    BY <2>1, ZenonT(100)
  <2>. QED BY <1>1, <1>5, <2>2, DistinctSymmetric, ZenonT(100)
<1>. QED BY <1>1, <1>2, <1>3, <1>4, <1>5, ZenonT(100)

\* The tail of a queue without duplicates holds nothing like its head.
LEMMA TailDistinct ==
  ASSUME NEW q \in Seq(Message), q # <<>>, AllDistinct(q)
  PROVE  /\ AllDistinct(Tail(q))
         /\ \A p \in Range(Tail(q)) : Distinct(Head(q), p)
<1>. DEFINE r == Tail(q)
<1>1. /\ Len(q) \in Nat \ {0} /\ DOMAIN q = 1 .. Len(q) /\ DOMAIN r = 1 .. Len(q) - 1
      /\ \A i \in DOMAIN r : i + 1 \in DOMAIN q /\ r[i] = q[i + 1]
      /\ Head(q) = q[1]
  OBVIOUS
<1>. HIDE DEF r
<1>2. AllDistinct(r)
  BY <1>1 DEF AllDistinct
<1>3. \A i \in DOMAIN r : Distinct(Head(q), r[i])
  BY <1>1 DEF AllDistinct
<1>. QED BY <1>2, <1>3, ZenonT(100) DEF Range, r

LEMMA AppendInjective ==
  ASSUME NEW q \in Seq(Addr), NEW a \in Addr, IsInjective(q), a \notin Range(q)
  PROVE  IsInjective(Append(q, a))
<1>. DEFINE r == Append(q, a)
<1>1. /\ DOMAIN r = DOMAIN q \cup {Len(q) + 1}
      /\ r[Len(q) + 1] = a
      /\ \A i \in DOMAIN q : r[i] = q[i]
  OBVIOUS
<1>2. \A i \in DOMAIN q : q[i] # a
  BY ZenonT(100) DEF Range
<1>. HIDE DEF r
<1>3. IsInjective(r)
  BY <1>1, <1>2, ZenonT(100) DEF IsInjective
<1>. QED BY ZenonT(100), <1>3 DEF r

LEMMA TailInjective ==
  ASSUME NEW q \in Seq(Addr), q # <<>>, IsInjective(q)
  PROVE  IsInjective(Tail(q)) /\ Head(q) \notin Range(Tail(q))
<1>. DEFINE r == Tail(q)
<1>1. /\ Len(q) \in Nat \ {0} /\ DOMAIN q = 1 .. Len(q) /\ DOMAIN r = 1 .. Len(q) - 1
      /\ \A i \in DOMAIN r : i + 1 \in DOMAIN q /\ r[i] = q[i + 1]
      /\ Head(q) = q[1]
  OBVIOUS
<1>. HIDE DEF r
<1>2. IsInjective(r)
  BY <1>1 DEF IsInjective
<1>3. \A i \in DOMAIN r : Head(q) # r[i]
  BY <1>1 DEF IsInjective
<1>. QED BY <1>2, <1>3, ZenonT(100) DEF Range, r

\* Taking a segment from a queue between the poller and the program.
Pop(q, r, n) == q[n] # <<>> /\ r = [q EXCEPT ![n] = Tail(@)]

LEMMA PopEffect ==
  ASSUME NEW q \in [Server -> Seq(Addr)], NEW r, NEW n \in Server, Pop(q, r, n),
         \A x \in Server : IsInjective(q[x])
  PROVE  /\ Head(q[n]) \in Addr /\ Head(q[n]) \in Range(q[n])
         /\ \A x \in Server : IsInjective(r[x])
         /\ \A x \in Server, b \in Addr :
              b \in Range(r[x]) => b \in Range(q[x]) /\ ~(x = n /\ b = Head(q[n]))
<1>1. /\ q[n] \in Seq(Addr) /\ q[n] # <<>>
      /\ r[n] = Tail(q[n]) /\ \A x \in Server : x # n => r[x] = q[x]
  BY ZenonT(100) DEF Pop
<1>2. Head(q[n]) \in Addr /\ Range(q[n]) = {Head(q[n])} \cup Range(Tail(q[n]))
  BY ZenonT(100), <1>1, RangeTail
<1>3. IsInjective(Tail(q[n])) /\ Head(q[n]) \notin Range(Tail(q[n]))
  BY ZenonT(100), <1>1, TailInjective
<1>. QED BY ZenonT(100), <1>1, <1>2, <1>3

\* Adding a segment to a queue between the poller and the program.
Push(q, r, n, a) == r = [q EXCEPT ![n] = Append(@, a)]

LEMMA PushEffect ==
  ASSUME NEW q \in [Server -> Seq(Addr)], NEW r, NEW n \in Server, NEW a \in Addr,
         Push(q, r, n, a), a \notin Range(q[n]), \A x \in Server : IsInjective(q[x])
  PROVE  /\ \A x \in Server : IsInjective(r[x])
         /\ \A x \in Server, b \in Addr :
              b \in Range(r[x]) <=> b \in Range(q[x]) \/ (x = n /\ b = a)
<1>1. q[n] \in Seq(Addr) /\ r[n] = Append(q[n], a) /\ \A x \in Server : x # n => r[x] = q[x]
  BY ZenonT(100) DEF Push
<1>2. Range(r[n]) = Range(q[n]) \cup {a}
  BY <1>1, RangeAppend
<1>3. IsInjective(r[n])
  BY ZenonT(100), <1>1, AppendInjective
<1>. QED BY ZenonT(100), <1>1, <1>2, <1>3

-----------------------------------------------------------------------------
(* The network.                                                              *)

\* What is pending is a message; a TRANSFER or a DONE is about an address.
LEMMA PendingMessage ==
  ASSUME TypeOK, NEW s \in Server, NEW d \in Server, NEW p \in Pending(s, d)
  PROVE  p \in Message /\ (p.type \in {"PREPARE", "TRANSFER", "DONE"} => p.addr \in Addr)
<1>1. chan[s][d] \in Seq(Message) /\ recv_queue[d][s] \in Seq(Message)
  BY DEF TypeOK
<1>2. p \in Message
  BY <1>1 DEF Pending, Range
<1>. QED BY ZenonT(100), <1>2 DEF Message

\* ReadKeyLive survives a step that adds no TRANSFER and leaves the registrations
\* that a pending TRANSFER is about.
LEMMA KeysKept ==
  ASSUME TypeOK, ReadKeyLive,
         \A x, y \in Server : \A p \in Pending(x, y)' : p.type = "TRANSFER" => p \in Pending(x, y),
         \A x, y \in Server, b \in Addr :
           Token(x, y, "TRANSFER", b) => registrations'[x][y][b] = registrations[x][y][b]
  PROVE  ReadKeyLive'
BY PendingMessage DEF ReadKeyLive, Token

\* Receiving a message leaves it pending.
LEMMA NetReceive ==
  ASSUME TypeOK, MessagesDistinct, ~MayOverlap, NEW s \in Server, NEW d \in Server,
         OnRecvFinish(s, d)
  PROVE  /\ MessagesDistinct'
         /\ \A x, y \in Server : Pending(x, y)' = Pending(x, y)
<1>. DEFINE c == chan[s][d]
            r == recv_queue[d][s]
            m == Head(c)
<1>1. c \in Seq(Message) /\ r \in Seq(Message) /\ c # <<>>
  <2>1. chan[s][d] \in Seq(Message) /\ recv_queue[d][s] \in Seq(Message)
    BY DEF TypeOK
  <2>2. 1 \in DOMAIN chan[s][d]
    BY ZenonT(100) DEF OnRecvFinish, Landed
  <2>. QED BY <2>1, <2>2
<1>2. /\ m \in Message /\ Range(c) = {m} \cup Range(Tail(c))
      /\ Range(Append(r, m)) = Range(r) \cup {m}
  BY <1>1, RangeTail, RangeAppend
<1>3. AllDistinct(c) /\ AllDistinct(r) /\ \A p \in Range(c), q \in Range(r) : Distinct(p, q)
  BY ZenonT(100) DEF MessagesDistinct
<1>4. AllDistinct(Tail(c)) /\ \A p \in Range(Tail(c)) : Distinct(m, p)
  BY ZenonT(100), <1>1, <1>3, TailDistinct
<1>5. \A q \in Range(r) : Distinct(q, m)
  BY <1>2, <1>3, DistinctSymmetric, ZenonT(100)
<1>6. AllDistinct(Append(r, m))
  BY ZenonT(100), <1>1, <1>2, <1>3, <1>5, AppendDistinct
<1>7. \A p \in Range(Tail(c)), q \in Range(Append(r, m)) : Distinct(p, q)
  BY <1>2, <1>3, <1>4, DistinctSymmetric, ZenonT(100)
<1>8. \A x, y \in Server :
        /\ chan'[x][y] = IF x = s /\ y = d THEN Tail(c) ELSE chan[x][y]
        /\ recv_queue'[y][x] = IF x = s /\ y = d THEN Append(r, m) ELSE recv_queue[y][x]
  <2>1. c[1] = m
    BY <1>1
  <2>2. /\ chan' = [chan EXCEPT ![s][d] = Tail(c)]
        /\ recv_queue' = [recv_queue EXCEPT ![d][s] = Append(r, m)]
    BY ZenonT(100), <2>1 DEF OnRecvFinish, Landed
  <2>. QED BY ZenonT(100), <2>2 DEF TypeOK
<1>. HIDE DEF c, r, m
<1>9. MessagesDistinct'
  BY ZenonT(100), <1>4, <1>6, <1>7, <1>8 DEF MessagesDistinct
<1>10. \A x, y \in Server : Pending(x, y)' = Pending(x, y)
  <2>. SUFFICES ASSUME NEW x \in Server, NEW y \in Server PROVE Pending(x, y)' = Pending(x, y)
    BY ZenonT(100)
  <2>1. CASE x = s /\ y = d
    <3>1. Range(chan'[x][y]) \cup Range(recv_queue'[y][x]) = Range(c) \cup Range(r)
      BY ZenonT(100), <1>2, <1>8, <2>1
    <3>. QED BY ZenonT(100), <2>1, <3>1 DEF Pending, c, r
  <2>2. CASE ~(x = s /\ y = d)
    BY ZenonT(100), <1>8, <2>2 DEF Pending
  <2>. QED BY ZenonT(100), <2>1, <2>2
<1>. QED BY ZenonT(100), <1>9, <1>10

\* Sending adds one message to those pending.
LEMMA NetSend ==
  ASSUME TypeOK, MessagesDistinct, ~MayOverlap,
         NEW s \in Server, NEW d \in Server, NEW m \in Message,
         Send(s, d, m), recv_queue' = recv_queue, \A p \in Pending(s, d) : Distinct(p, m)
  PROVE  /\ MessagesDistinct'
         /\ \A x, y \in Server :
              Pending(x, y)' = IF x = s /\ y = d THEN Pending(x, y) \cup {m} ELSE Pending(x, y)
<1>. DEFINE c == chan[s][d]
            r == recv_queue[d][s]
<1>1. c \in Seq(Message)
  BY DEF TypeOK
<1>2. Range(Append(c, m)) = Range(c) \cup {m}
  BY <1>1, RangeAppend
<1>3. AllDistinct(c) /\ AllDistinct(r) /\ \A p \in Range(c), q \in Range(r) : Distinct(p, q)
  BY ZenonT(100) DEF MessagesDistinct
<1>4. AllDistinct(Append(c, m))
  BY ZenonT(100), <1>1, <1>3, AppendDistinct DEF Pending
<1>5. \A p \in Range(r) : Distinct(m, p)
  BY DistinctSymmetric, ZenonT(100) DEF Pending
<1>6. \A x, y \in Server : chan'[x][y] = IF x = s /\ y = d THEN Append(c, m) ELSE chan[x][y]
  BY SendEffect
<1>. HIDE DEF c, r
<1>7. \A p \in Range(Append(c, m)), q \in Range(r) : Distinct(p, q)
  BY ZenonT(100), <1>2, <1>3, <1>5
<1>8. MessagesDistinct'
  BY ZenonT(100), <1>3, <1>4, <1>6, <1>7 DEF MessagesDistinct, r
<1>9. \A x, y \in Server :
        Pending(x, y)' = IF x = s /\ y = d THEN Pending(x, y) \cup {m} ELSE Pending(x, y)
  BY ZenonT(100), <1>2, <1>6 DEF Pending, c
<1>. QED BY ZenonT(100), <1>8, <1>9

\* Handling a message removes it, and nothing like it is left.
LEMMA NetGet ==
  ASSUME TypeOK, MessagesDistinct, NEW n \in Server, NEW s \in Server, NEW t,
         GetMessage(n, s, t), chan' = chan
  PROVE  LET h == Head(recv_queue[n][s]) IN
         /\ MessagesDistinct'
         /\ h \in Message /\ h.type = t /\ h \in Pending(s, n)
         /\ \A x, y \in Server : Pending(x, y)' \subseteq Pending(x, y)
         /\ \A p \in Pending(s, n)' : Distinct(h, p)
<1>. DEFINE r == recv_queue[n][s]
            h == Head(r)
<1>1. r \in Seq(Message)
  BY DEF TypeOK
<1>2. /\ r # <<>> /\ h \in Message /\ h.type = t
      /\ \A x, y \in Server : recv_queue'[x][y] = IF x = n /\ y = s THEN Tail(r) ELSE recv_queue[x][y]
  BY GetEffect
<1>3. Range(r) = {h} \cup Range(Tail(r))
  BY ZenonT(100), <1>1, <1>2, RangeTail
<1>4. AllDistinct(r) /\ \A p \in Range(chan[s][n]), q \in Range(r) : Distinct(p, q)
  BY ZenonT(100) DEF MessagesDistinct
<1>5. AllDistinct(Tail(r)) /\ \A p \in Range(Tail(r)) : Distinct(h, p)
  BY ZenonT(100), <1>1, <1>2, <1>4, TailDistinct
<1>6. \A p \in Range(chan[s][n]) : Distinct(h, p)
  BY <1>3, <1>4, DistinctSymmetric, ZenonT(100)
<1>. HIDE DEF r, h
<1>7. MessagesDistinct'
  BY ZenonT(100), <1>2, <1>3, <1>4, <1>5 DEF MessagesDistinct
<1>8. h \in Pending(s, n)
  BY ZenonT(100), <1>3 DEF Pending, r
<1>9. \A x, y \in Server : Pending(x, y)' \subseteq Pending(x, y)
  BY ZenonT(100), <1>2, <1>3 DEF Pending, r
<1>10. \A p \in Pending(s, n)' : Distinct(h, p)
  BY ZenonT(100), <1>2, <1>5, <1>6 DEF Pending
<1>. QED BY ZenonT(100), <1>2, <1>7, <1>8, <1>9, <1>10 DEF h, r

\* Handling a message and answering it.
LEMMA NetAnswer ==
  ASSUME TypeOK, MessagesDistinct, ~MayOverlap,
         NEW n \in Server, NEW s \in Server, NEW t, NEW m \in Message,
         GetMessage(n, s, t), Send(n, s, m), m.type # t, \A p \in Pending(n, s) : Distinct(p, m)
  PROVE  LET h == Head(recv_queue[n][s]) IN
         /\ MessagesDistinct'
         /\ h \in Message /\ h.type = t /\ h \in Pending(s, n)
         /\ \A x, y \in Server : \A p \in Pending(x, y)' :
              p \in Pending(x, y) \/ (x = n /\ y = s /\ p = m)
         /\ \A p \in Pending(s, n)' : Distinct(h, p)
<1>. DEFINE r == recv_queue[n][s]
            h == Head(r)
            c == chan[n][s]
<1>1. r \in Seq(Message) /\ c \in Seq(Message)
  BY DEF TypeOK
<1>2. /\ r # <<>> /\ h \in Message /\ h.type = t
      /\ \A x, y \in Server : recv_queue'[x][y] = IF x = n /\ y = s THEN Tail(r) ELSE recv_queue[x][y]
  BY ZenonT(100), GetEffect
<1>3. Range(r) = {h} \cup Range(Tail(r)) /\ Range(Append(c, m)) = Range(c) \cup {m}
  BY <1>1, <1>2, RangeTail, RangeAppend
<1>4. /\ AllDistinct(r) /\ AllDistinct(c)
      /\ \A p \in Range(chan[s][n]), q \in Range(r) : Distinct(p, q)
  BY ZenonT(100) DEF MessagesDistinct
<1>5. AllDistinct(Tail(r)) /\ \A p \in Range(Tail(r)) : Distinct(h, p)
  BY ZenonT(100), <1>1, <1>2, <1>4, TailDistinct
<1>6. \A p \in Range(chan[s][n]) : Distinct(h, p)
  BY <1>3, <1>4, DistinctSymmetric, ZenonT(100)
<1>7. AllDistinct(Append(c, m))
  BY ZenonT(100), <1>1, <1>4, AppendDistinct DEF Pending
<1>8. \A x, y \in Server : chan'[x][y] = IF x = n /\ y = s THEN Append(c, m) ELSE chan[x][y]
  BY SendEffect
<1>9. Distinct(h, m)
  BY ZenonT(100), <1>2 DEF Distinct
<1>10. \A p \in Range(recv_queue[s][n]) : Distinct(m, p)
  BY DistinctSymmetric, ZenonT(100) DEF Pending
<1>. HIDE DEF r, h, c
<1>11. MessagesDistinct'
  <2>. SUFFICES ASSUME NEW x \in Server, NEW y \in Server
                PROVE  /\ AllDistinct(chan'[x][y])
                       /\ AllDistinct(recv_queue'[y][x])
                       /\ \A p \in Range(chan'[x][y]), q \in Range(recv_queue'[y][x]) : Distinct(p, q)
    BY ZenonT(100) DEF MessagesDistinct
  <2>1. AllDistinct(chan'[x][y]) /\ AllDistinct(recv_queue'[y][x])
    BY <1>2, <1>5, <1>7, <1>8 DEF MessagesDistinct
  <2>2. /\ Range(recv_queue'[y][x]) \subseteq Range(recv_queue[y][x])
        /\ \A p \in Range(chan'[x][y]) : p \in Range(chan[x][y]) \/ (x = n /\ y = s /\ p = m)
    BY ZenonT(100), <1>2, <1>3, <1>8 DEF r, c
  <2>3. \A p \in Range(chan[x][y]), q \in Range(recv_queue[y][x]) : Distinct(p, q)
    BY ZenonT(100) DEF MessagesDistinct
  <2>. QED BY ZenonT(100), <2>1, <2>2, <2>3, <1>10
<1>12. h \in Pending(s, n)
  BY ZenonT(100), <1>3 DEF Pending, r
<1>13. \A x, y \in Server : \A p \in Pending(x, y)' :
         p \in Pending(x, y) \/ (x = n /\ y = s /\ p = m)
  BY ZenonT(100), <1>2, <1>3, <1>8 DEF Pending, r, c
<1>14. \A p \in Pending(s, n)' : Distinct(h, p)
  BY ZenonT(100), <1>2, <1>3, <1>5, <1>6, <1>8, <1>9 DEF Pending, c
<1>. QED BY ZenonT(100), <1>2, <1>11, <1>12, <1>13, <1>14 DEF h, r

\* Without network traffic the messages pending stay the same.
LEMMA NetSame ==
  ASSUME UNCHANGED <<chan, recv_queue>>, MigrationInv
  PROVE  /\ MessagesDistinct'
         /\ \A x, y \in Server : Pending(x, y)' = Pending(x, y)
         /\ \A x, y, t, b : Token(x, y, t, b)' <=> Token(x, y, t, b)
BY ZenonT(100) DEF MigrationInv, MessagesDistinct, Pending, Token

-----------------------------------------------------------------------------
(* What a step may do without disturbing one part of the invariant.          *)

\* No address beyond alloc_address becomes known to a server.
LEMMA FreshKept ==
  ASSUME MigrationInv, alloc_address' = alloc_address,
         \A b \in Addr : (\A y \in Server : phase[y][b] = "none" /\ memory[y][b] = Unmapped) =>
           \A x \in Server : phase'[x][b] = "none" /\ memory'[x][b] = Unmapped
  PROVE  FreshUnknown'
<1>. SUFFICES ASSUME NEW m \in Server, NEW n \in Server, NEW b \in Addr,
                     alloc_address[n] <= b, b < End(n)
              PROVE  phase'[m][b] = "none" /\ memory'[m][b] = Unmapped
  BY ZenonT(100) DEF FreshUnknown
<1>1. \A y \in Server : phase[y][b] = "none" /\ memory[y][b] = Unmapped
  BY ZenonT(100) DEF MigrationInv, FreshUnknown
<1>. QED BY ZenonT(100), <1>1

\* A segment that a program knows stays mapped, and one it uses Clean.
LEMMA KnownKept ==
  ASSUME MigrationInv,
         \A x \in Server, b \in Addr :
           /\ phase'[x][b] # "none" => phase[x][b] # "none" \/ memory'[x][b] # Unmapped
           /\ phase'[x][b] # "none" /\ memory[x][b] # Unmapped => memory'[x][b] # Unmapped
           /\ Usable(x, b)' => Usable(x, b) \/ memory_map'[x][b].state = "Clean"
           /\ Usable(x, b)' /\ memory_map[x][b].state = "Clean" => memory_map'[x][b].state = "Clean"
  PROVE  KnownMapped'
<1>. SUFFICES ASSUME NEW x \in Server, NEW b \in Addr
              PROVE  /\ phase'[x][b] # "none" => memory'[x][b] # Unmapped
                     /\ Usable(x, b)' => memory_map'[x][b].state = "Clean"
  BY ZenonT(100) DEF KnownMapped
<1>1. /\ phase[x][b] # "none" => memory[x][b] # Unmapped
      /\ Usable(x, b) => memory_map[x][b].state = "Clean"
  BY ZenonT(100) DEF MigrationInv, KnownMapped
<1>. QED BY ZenonT(100), <1>1

\* The half from Prepare to PollForAccept, when no program leaves preparing or
\* learns of an ACCEPT.
LEMMA AcceptsKept ==
  ASSUME MigrationInv,
         \A x \in Server, b \in Addr :
           /\ phase[x][b] = "preparing" => phase'[x][b] = "preparing"
           /\ phase'[x][b] = "accepted" => phase[x][b] = "accepted"
           /\ phase[x][b] = "preparing" \/ phase[x][b] = "accepted" => pair(x, b)' = pair(x, b)
           /\ b \in Range(incoming_accepts'[x]) => b \in Range(incoming_accepts[x]),
         \A x, y \in Server, b \in Addr :
           /\ Token(x, y, "PREPARE", b)' => Token(x, y, "PREPARE", b)
           /\ Token(x, y, "ACCEPT", b)' => Token(x, y, "ACCEPT", b)
           /\ Reserved(x, y, b) => Reserved(x, y, b)' \/ phase[y][b] = "moved"
  PROVE  PrepareSent' /\ AcceptSent' /\ AcceptQueued' /\ AcceptPolled'
<1>1. ASSUME NEW x \in Server, NEW b \in Addr, phase[x][b] = "preparing" \/ phase[x][b] = "accepted",
             pair(x, b) \in Server, Reserved(pair(x, b), x, b)
      PROVE  (pair(x, b) \in Server /\ Reserved(pair(x, b), x, b))'
  <2>1. PICK y \in Server : y = pair(x, b) /\ pair(x, b)' = y
    BY ZenonT(100), <1>1
  <2>2. phase[x][b] # "moved"
    BY <1>1
  <2>3. Reserved(y, x, b)
    BY ZenonT(100), <1>1, <2>1
  <2>4. Reserved(y, x, b)'
    BY ZenonT(100), <2>2, <2>3
  <2>. QED BY ZenonT(100), <2>1, <2>4
<1>2. PrepareSent'
  <2>. SUFFICES ASSUME NEW x \in Server, NEW y \in Server, NEW b \in Addr, Token(x, y, "PREPARE", b)'
                PROVE  /\ phase'[x][b] = "preparing" /\ pair(x, b)' = y
                       /\ ~Token(y, x, "ACCEPT", b)' /\ b \notin Range(incoming_accepts'[x])
    BY ZenonT(100) DEF PrepareSent
  <2>1. /\ phase[x][b] = "preparing" /\ pair(x, b) = y
        /\ ~Token(y, x, "ACCEPT", b) /\ b \notin Range(incoming_accepts[x])
    BY ZenonT(100) DEF MigrationInv, PrepareSent
  <2>. QED BY ZenonT(100), <2>1
<1>3. AcceptSent'
  <2>. SUFFICES ASSUME NEW x \in Server, NEW y \in Server, NEW b \in Addr, Token(y, x, "ACCEPT", b)'
                PROVE  /\ phase'[x][b] = "preparing" /\ pair(x, b)' = y /\ Reserved(y, x, b)'
                       /\ b \notin Range(incoming_accepts'[x])
    BY ZenonT(100) DEF AcceptSent
  <2>1. /\ phase[x][b] = "preparing" /\ pair(x, b) = y /\ Reserved(y, x, b)
        /\ b \notin Range(incoming_accepts[x])
    BY ZenonT(100) DEF MigrationInv, AcceptSent
  <2>2. phase[x][b] # "moved"
    BY <2>1
  <2>. QED BY ZenonT(100), <2>1, <2>2
<1>4. AcceptQueued'
  <2>. SUFFICES ASSUME NEW x \in Server, NEW b \in Addr, b \in Range(incoming_accepts'[x])
                PROVE  /\ phase'[x][b] = "preparing"
                       /\ (pair(x, b) \in Server /\ Reserved(pair(x, b), x, b))'
    BY ZenonT(100) DEF AcceptQueued
  <2>1. phase[x][b] = "preparing" /\ pair(x, b) \in Server /\ Reserved(pair(x, b), x, b)
    BY ZenonT(100) DEF MigrationInv, AcceptQueued
  <2>. QED BY ZenonT(100), <1>1, <2>1
<1>5. AcceptPolled'
  <2>. SUFFICES ASSUME NEW x \in Server, NEW b \in Addr, phase'[x][b] = "accepted"
                PROVE  (pair(x, b) \in Server /\ Reserved(pair(x, b), x, b))'
    BY ZenonT(100) DEF AcceptPolled
  <2>1. phase[x][b] = "accepted" /\ pair(x, b) \in Server /\ Reserved(pair(x, b), x, b)
    BY ZenonT(100) DEF MigrationInv, AcceptPolled
  <2>. QED BY ZenonT(100), <1>1, <2>1
<1>. QED BY ZenonT(100), <1>2, <1>3, <1>4, <1>5

\* The half from Transfer to PollForClose, when no TRANSFER is sent, handled or
\* polled.
LEMMA TransfersKept ==
  ASSUME MigrationInv,
         \A x, y \in Server, b \in Addr :
           /\ Token(x, y, "TRANSFER", b)' => Token(x, y, "TRANSFER", b)
           /\ Given(x, y, b) /\ (phase[y][b] = "none" \/ phase[y][b] = "arrived") =>
                Given(x, y, b)' \/ Finishing(x, y, b)
           /\ Given(x, y, b) /\ Finishing(x, y, b)' => Finishing(x, y, b)
           /\ Reserved(x, y, b) /\ phase[y][b] = "moved" => Reserved(x, y, b)',
         \A x \in Server, b \in Addr :
           /\ b \in Range(incoming_transfers'[x]) => b \in Range(incoming_transfers[x])
           /\ b \in Range(incoming_transfers'[x]) /\ memory_map[x][b].state = "Clean" =>
                memory_map'[x][b].state = "Clean"
           /\ phase'[x][b] = "arrived" => phase[x][b] = "arrived"
  PROVE  TransferSent' /\ TransferQueued' /\ TransferPolled'
<1>2. TransferSent'
  <2>. SUFFICES ASSUME NEW x \in Server, NEW y \in Server, NEW b \in Addr, Token(x, y, "TRANSFER", b)'
                PROVE  /\ Given(x, y, b)' /\ Reserved(y, x, b)' /\ ~Finishing(x, y, b)'
                       /\ b \notin Range(incoming_transfers'[y])
    BY ZenonT(100) DEF TransferSent
  <2>1. /\ Given(x, y, b) /\ Reserved(y, x, b) /\ ~Finishing(x, y, b)
        /\ b \notin Range(incoming_transfers[y])
    BY ZenonT(100) DEF MigrationInv, TransferSent
  <2>2. phase[x][b] = "moved" /\ phase[y][b] = "none"
    BY <2>1 DEF Given, Reserved
  <2>3. Given(x, y, b)'
    BY ZenonT(100), <2>1, <2>2
  <2>4. Reserved(y, x, b)'
    BY ZenonT(100), <2>1, <2>2
  <2>. QED BY ZenonT(100), <2>1, <2>3, <2>4
<1>3. TransferQueued'
  <2>. SUFFICES ASSUME NEW y \in Server, NEW b \in Addr, b \in Range(incoming_transfers'[y])
                PROVE  \E x \in Server : /\ Given(x, y, b)' /\ Reserved(y, x, b)' /\ ~Finishing(x, y, b)'
                                         /\ memory_map'[y][b].state = "Clean"
    BY ZenonT(100) DEF TransferQueued
  <2>1. PICK x \in Server : /\ Given(x, y, b) /\ Reserved(y, x, b) /\ ~Finishing(x, y, b)
                            /\ memory_map[y][b].state = "Clean"
    BY ZenonT(100) DEF MigrationInv, TransferQueued
  <2>2. phase[x][b] = "moved" /\ phase[y][b] = "none"
    BY <2>1 DEF Given, Reserved
  <2>3. Given(x, y, b)'
    BY ZenonT(100), <2>1, <2>2
  <2>4. Reserved(y, x, b)'
    BY ZenonT(100), <2>1, <2>2
  <2>5. ~Finishing(x, y, b)' /\ memory_map'[y][b].state = "Clean"
    BY ZenonT(100), <2>1
  <2>. QED BY ZenonT(100), <2>3, <2>4, <2>5
<1>4. TransferPolled'
  <2>. SUFFICES ASSUME NEW y \in Server, NEW b \in Addr, phase'[y][b] = "arrived"
                PROVE  \E x \in Server : Given(x, y, b)' /\ ~Finishing(x, y, b)'
    BY ZenonT(100) DEF TransferPolled
  <2>1. PICK x \in Server : Given(x, y, b) /\ ~Finishing(x, y, b)
    BY ZenonT(100) DEF MigrationInv, TransferPolled
  <2>. QED BY ZenonT(100), <2>1
<1>. QED BY ZenonT(100), <1>2, <1>3, <1>4

\* The DONEs, when none is sent or handled, and who a segment was given to.
LEMMA DonesKept ==
  ASSUME MigrationInv,
         \A x \in Server, b \in Addr :
           /\ phase[x][b] = "moved" => \/ phase'[x][b] = "moved"
                                       \/ /\ b \notin Range(incoming_dones'[x])
                                          /\ \A y \in Server : ~Token(y, x, "DONE", b)
           /\ phase'[x][b] = "moved" => phase[x][b] = "moved" \/ pair(x, b)' \in Server
           /\ phase[x][b] = "moved" => pair(x, b)' = pair(x, b)
           /\ b \in Range(incoming_dones'[x]) => b \in Range(incoming_dones[x]),
         \A x, y \in Server, b \in Addr : Token(x, y, "DONE", b)' => Token(x, y, "DONE", b)
  PROVE  DoneSent' /\ DoneQueued' /\ MovedPaired'
<1>1. DoneSent'
  <2>. SUFFICES ASSUME NEW x \in Server, NEW y \in Server, NEW b \in Addr, Token(y, x, "DONE", b)'
                PROVE  phase'[x][b] = "moved" /\ pair(x, b)' = y /\ b \notin Range(incoming_dones'[x])
    BY ZenonT(100) DEF DoneSent
  <2>1. phase[x][b] = "moved" /\ pair(x, b) = y /\ b \notin Range(incoming_dones[x])
    BY ZenonT(100) DEF MigrationInv, DoneSent
  <2>. QED BY ZenonT(100), <2>1
<1>2. DoneQueued'
  <2>. SUFFICES ASSUME NEW x \in Server, NEW b \in Addr, b \in Range(incoming_dones'[x])
                PROVE  phase'[x][b] = "moved"
    BY ZenonT(100) DEF DoneQueued
  <2>1. phase[x][b] = "moved"
    BY ZenonT(100) DEF MigrationInv, DoneQueued
  <2>. QED BY ZenonT(100), <2>1
<1>3. MovedPaired'
  <2>. SUFFICES ASSUME NEW x \in Server, NEW b \in Addr, phase'[x][b] = "moved"
                PROVE  pair(x, b)' \in Server
    BY ZenonT(100) DEF MovedPaired
  <2>1. phase[x][b] = "moved" => pair(x, b) \in Server
    BY ZenonT(100) DEF MigrationInv, MovedPaired
  <2>. QED BY ZenonT(100), <2>1
<1>. QED BY ZenonT(100), <1>1, <1>2, <1>3

\* A segment given up stays on its way, and no program gets one, in a step that
\* only takes transfers away.
LEMMA HolderKept ==
  ASSUME MigrationInv,
         \A x \in Server, b \in Addr : Usable(x, b)' => Usable(x, b),
         \A x \in Server, b \in Addr : phase'[x][b] = "moved" =>
           /\ phase[x][b] = "moved" /\ pair(x, b)' = pair(x, b)
           /\ \A y \in Server : pair(y, b)' = x => pair(y, b) = x \/ b \notin Range(incoming_transfers'[y]),
         \A x, y \in Server, b \in Addr : Token(x, y, "TRANSFER", b)' => Token(x, y, "TRANSFER", b),
         \A y \in Server, b \in Addr :
           b \in Range(incoming_transfers'[y]) => b \in Range(incoming_transfers[y])
  PROVE  OneHolder'
<1>1. ASSUME NEW x \in Server, NEW b \in Addr, InTransit(x, b)'
      PROVE  InTransit(x, b)
  <2>1. phase[x][b] = "moved" /\ pair(x, b)' = pair(x, b) /\ pair(x, b) \in Server
    BY ZenonT(100), <1>1 DEF InTransit, MigrationInv, MovedPaired
  <2>. QED BY ZenonT(100), <1>1, <2>1 DEF InTransit
<1>. QED BY ZenonT(100), <1>1 DEF MigrationInv, OneHolder

-----------------------------------------------------------------------------
(* Steps that add no message about a segment.                                *)

\* A step that only takes messages away, or adds some that name no segment.
LEMMA FewerMessages ==
  ASSUME MigrationInv, TypeOK', MessagesDistinct',
         UNCHANGED <<alloc_address, memory_map, phase, incoming_accepts, incoming_transfers,
                     incoming_dones>>,
         \A x \in Server, b \in Addr : memory'[x][b] = Unmapped <=> memory[x][b] = Unmapped,
         \A x, y \in Server : \A p \in Pending(x, y)' : p.addr \in Addr => p \in Pending(x, y),
         \A x, y \in Server, b \in Addr :
           Token(x, y, "TRANSFER", b) => registrations'[x][y][b] = registrations[x][y][b]
  PROVE  MigrationInv'
<1>1. \A x \in Server, b \in Addr : pair(x, b)' = pair(x, b)
  BY ZenonT(100) DEF pair
<1>2. \A x, y \in Server, b \in Addr :
        /\ Token(x, y, "PREPARE", b)' => Token(x, y, "PREPARE", b)
        /\ Token(x, y, "ACCEPT", b)' => Token(x, y, "ACCEPT", b)
        /\ Token(x, y, "TRANSFER", b)' => Token(x, y, "TRANSFER", b)
        /\ Token(x, y, "DONE", b)' => Token(x, y, "DONE", b)
  BY ZenonT(100) DEF Token
<1>3. \A x, y \in Server, b \in Addr :
        /\ Reserved(x, y, b)' <=> Reserved(x, y, b)
        /\ Given(x, y, b)' <=> Given(x, y, b)
        /\ Finishing(x, y, b)' => Finishing(x, y, b)
  BY ZenonT(100), <1>1, <1>2 DEF Reserved, Given, Finishing
<1>4. \A x \in Server, b \in Addr : Usable(x, b)' <=> Usable(x, b)
  BY ZenonT(100) DEF Usable
<1>5. FreshUnknown' /\ KnownMapped' /\ QueuesDistinct'
  <2>1. FreshUnknown'
    BY ZenonT(100), FreshKept
  <2>2. KnownMapped'
    BY ZenonT(100), <1>4, KnownKept
  <2>3. QueuesDistinct'
    BY ZenonT(100) DEF MigrationInv, QueuesDistinct
  <2>. QED BY ZenonT(100), <2>1, <2>2, <2>3
<1>6. PrepareSent' /\ AcceptSent' /\ AcceptQueued' /\ AcceptPolled'
  BY ZenonT(100), <1>1, <1>2, <1>3, AcceptsKept
<1>7. TransferSent' /\ TransferQueued' /\ TransferPolled'
  BY ZenonT(100), <1>2, <1>3, TransfersKept
<1>8. DoneSent' /\ DoneQueued' /\ MovedPaired'
  BY ZenonT(100), <1>1, <1>2, DonesKept
<1>9. OneHolder'
  BY ZenonT(100), <1>1, <1>2, <1>4, HolderKept
<1>10. ReadKeyLive'
  <2>1. \A x, y \in Server : \A p \in Pending(x, y)' : p.type = "TRANSFER" => p \in Pending(x, y)
    <3>. SUFFICES ASSUME NEW x \in Server, NEW y \in Server, NEW p \in Pending(x, y)', p.type = "TRANSFER"
                  PROVE  p.addr \in Addr
      BY ZenonT(100)
    <3>1. chan'[x][y] \in Seq(Message) /\ recv_queue'[y][x] \in Seq(Message)
      <4>1. /\ chan' \in [Server -> [Server -> Seq(Message)]]
            /\ recv_queue' \in [Server -> [Server -> Seq(Message)]]
        BY ZenonT(100) DEF TypeOK
      <4>. QED BY <4>1
    <3>2. p \in Message
      BY <3>1 DEF Pending, Range
    <3>. QED BY ZenonT(100), <3>2 DEF Message
  <2>. QED BY ZenonT(100), <2>1, KeysKept DEF MigrationInv
<1>. QED BY ZenonT(100), <1>5, <1>6, <1>7, <1>8, <1>9, <1>10 DEF MigrationInv

\* The steps that FewerMessages covers.
LEMMA OnRecvFinishKeeps ==
  ASSUME MigrationInv, TypeOK', ~MayOverlap, NEW s \in Server, NEW d \in Server,
         OnRecvFinish(s, d)
  PROVE  MigrationInv'
<1>1. TypeOK /\ MessagesDistinct
  BY ZenonT(100) DEF MigrationInv
<1>2. MessagesDistinct' /\ \A x, y \in Server : Pending(x, y)' = Pending(x, y)
  BY ZenonT(100), <1>1, NetReceive
<1>. QED BY ZenonT(100), <1>2, FewerMessages DEF OnRecvFinish, managerVars, queueVars, appVars

LEMMA QuietKeeps ==
  ASSUME MigrationInv, TypeOK', UNCHANGED <<chan, recv_queue, registrations>>,
         UNCHANGED <<alloc_address, memory_map, phase, incoming_accepts, incoming_transfers,
                     incoming_dones>>,
         \A x \in Server, b \in Addr : memory'[x][b] = Unmapped <=> memory[x][b] = Unmapped
  PROVE  MigrationInv'
<1>1. MessagesDistinct' /\ \A x, y \in Server : Pending(x, y)' = Pending(x, y)
  BY ZenonT(100) DEF MigrationInv, MessagesDistinct, Pending
<1>. QED BY ZenonT(100), <1>1, FewerMessages

LEMMA OnSendFinishKeeps ==
  ASSUME MigrationInv, TypeOK', NEW n \in Server, OnSendFinish(n)
  PROVE  MigrationInv'
BY ZenonT(100), QuietKeeps DEF OnSendFinish, managerVars, connVars, netVars, queueVars, appVars

LEMMA WriteKeeps ==
  ASSUME MigrationInv, TypeOK', NEW n \in Server, NEW a \in Addr, Write(n, a)
  PROVE  MigrationInv'
<1>1. TypeOK /\ memory[n][a] \in Nat /\ memory[n][a] + 1 \in Nat
  BY ConstantsAssumption DEF MigrationInv, Write
<1>2. PutMemory(n, a, memory[n][a] + 1)
  BY ZenonT(100) DEF Write, PutMemory
<1>3. \A x \in Server, b \in Addr :
        memory'[x][b] = IF x = n /\ b = a THEN memory[n][a] + 1 ELSE memory[x][b]
  BY <1>1, <1>2, PutMemoryEffect
<1>4. \A x \in Server, b \in Addr : memory'[x][b] = Unmapped <=> memory[x][b] = Unmapped
  BY <1>1, <1>3 DEF Unmapped
<1>. QED BY ZenonT(100), <1>4, QuietKeeps DEF Write, connVars, netVars, queueVars, appVars

LEMMA AcceptFailsKeeps ==
  ASSUME MigrationInv, TypeOK', ~MayOverlap, NEW n \in Server, NEW s \in Server, AcceptFails(n, s)
  PROVE  MigrationInv'
<1>. DEFINE m == Msg("DECLINE", NullAddr, NoKey)
<1>1. TypeOK /\ MessagesDistinct
  BY ZenonT(100) DEF MigrationInv
<1>2. /\ GetMessage(n, s, "PREPARE") /\ Send(n, s, m)
      /\ UNCHANGED <<managerVars, connVars, queueVars, appVars>>
  BY ZenonT(100) DEF AcceptFails
<1>3. m \in Message /\ m.type = "DECLINE" /\ m.addr \notin Addr
  BY ZenonT(100), AddressFacts DEF m, Msg, Message, NoKey
<1>. HIDE DEF m
<1>4. \A p \in Pending(n, s) : Distinct(p, m)
  BY ZenonT(100), <1>3 DEF Distinct
<1>5. /\ MessagesDistinct'
      /\ \A x, y \in Server : \A p \in Pending(x, y)' :
           p \in Pending(x, y) \/ (x = n /\ y = s /\ p = m)
  BY ZenonT(100), <1>1, <1>2, <1>3, <1>4, NetAnswer
<1>. QED BY ZenonT(100), <1>2, <1>3, <1>5, FewerMessages DEF managerVars, connVars, queueVars, appVars

LEMMA OnDeclineKeeps ==
  ASSUME MigrationInv, TypeOK', NEW n \in Server, NEW s \in Server, OnDecline(n, s)
  PROVE  MigrationInv'
<1>. DEFINE h == Head(recv_queue[n][s])
<1>1. TypeOK /\ MessagesDistinct
  BY ZenonT(100) DEF MigrationInv
<1>2. /\ GetMessage(n, s, "DECLINE") /\ Deregister(n, s, h.addr) /\ chan' = chan
      /\ UNCHANGED <<managerVars, queueVars, appVars>>
  BY ZenonT(100) DEF OnDecline
<1>3. /\ MessagesDistinct' /\ h \in Message /\ h.type = "DECLINE"
      /\ \A x, y \in Server : Pending(x, y)' \subseteq Pending(x, y)
  BY ZenonT(100), <1>1, <1>2, NetGet
<1>4. h.addr \notin Addr
  BY ZenonT(100), <1>3, AddressFacts DEF Message
<1>5. \A x, y \in Server, b \in Addr : registrations'[x][y][b] = registrations[x][y][b]
  <2>1. OnlyDiffers(n, s, h.addr)
    BY ZenonT(100), <1>1, <1>2, DeregisterOnly
  <2>. QED BY SMTT(100), <1>4, <2>1 DEF OnlyDiffers
<1>. QED BY ZenonT(100), <1>2, <1>3, <1>5, FewerMessages DEF managerVars, queueVars, appVars

-----------------------------------------------------------------------------
(* Steps of a program on a segment that is not on its way to or from it.     *)

LEMMA LocalStep ==
  ASSUME MigrationInv, NEW n \in Server, NEW a \in Addr,
         UNCHANGED <<chan, recv_queue, incoming_transfers, incoming_dones>>,
         \A x \in Server, b \in Addr : ~(x = n /\ b = a) =>
           /\ phase'[x][b] = phase[x][b] /\ memory'[x][b] = memory[x][b]
           /\ memory_map'[x][b] = memory_map[x][b],
         \A x \in Server, b \in Addr : b \in Range(incoming_accepts'[x]) =>
           b \in Range(incoming_accepts[x]) /\ ~(x = n /\ b = a),
         \A y \in Server : /\ ~Token(n, y, "PREPARE", a) /\ ~Token(y, n, "ACCEPT", a)
                           /\ ~Reserved(n, y, a),
         phase[n][a] # "moved", phase'[n][a] # "moved", phase'[n][a] # "arrived",
         phase'[n][a] = "accepted" => (pair(n, a) \in Server /\ Reserved(pair(n, a), n, a))',
         pair(n, a)' = pair(n, a) \/ \A x \in Server : phase[x][a] # "moved"
  PROVE  /\ PrepareSent' /\ AcceptSent' /\ AcceptQueued' /\ AcceptPolled'
         /\ TransferSent' /\ TransferQueued' /\ TransferPolled'
         /\ DoneSent' /\ DoneQueued' /\ MovedPaired'
<1>1. \A x, y, t, b : Token(x, y, t, b)' <=> Token(x, y, t, b)
  BY ZenonT(100), NetSame
<1>2. \A x \in Server, b \in Addr : ~(x = n /\ b = a) => pair(x, b)' = pair(x, b)
  BY ZenonT(100) DEF pair
<1>3. ASSUME NEW x \in Server, NEW y \in Server, NEW b \in Addr, Reserved(x, y, b)
      PROVE  Reserved(x, y, b)' /\ memory_map'[x][b] = memory_map[x][b]
  <2>1. ~(x = n /\ b = a)
    BY ZenonT(100), <1>3
  <2>. QED BY ZenonT(100), <1>2, <1>3, <2>1 DEF Reserved
<1>4. ASSUME NEW x \in Server, NEW y \in Server, NEW b \in Addr, Given(x, y, b)
      PROVE  Given(x, y, b)'
  <2>1. ~(x = n /\ b = a) /\ phase[x][b] = "moved"
    BY ZenonT(100), <1>4 DEF Given
  <2>2. pair(y, b)' = pair(y, b)
    BY ZenonT(100), <1>2, <2>1
  <2>. QED BY ZenonT(100), <1>2, <1>4, <2>1, <2>2 DEF Given
<1>5. \A x, y \in Server, b \in Addr : Finishing(x, y, b)' <=> Finishing(x, y, b)
  BY ZenonT(100), <1>1 DEF Finishing
<1>6. PrepareSent'
  <2>. SUFFICES ASSUME NEW s \in Server, NEW d \in Server, NEW b \in Addr, Token(s, d, "PREPARE", b)'
                PROVE  /\ phase'[s][b] = "preparing" /\ pair(s, b)' = d
                       /\ ~Token(d, s, "ACCEPT", b)' /\ b \notin Range(incoming_accepts'[s])
    BY ZenonT(100) DEF PrepareSent
  <2>1. Token(s, d, "PREPARE", b) /\ ~(s = n /\ b = a)
    BY ZenonT(100), <1>1
  <2>2. /\ phase[s][b] = "preparing" /\ pair(s, b) = d
        /\ ~Token(d, s, "ACCEPT", b) /\ b \notin Range(incoming_accepts[s])
    BY ZenonT(100), <2>1 DEF MigrationInv, PrepareSent
  <2>. QED BY ZenonT(100), <1>1, <1>2, <2>1, <2>2
<1>7. AcceptSent'
  <2>. SUFFICES ASSUME NEW s \in Server, NEW d \in Server, NEW b \in Addr, Token(d, s, "ACCEPT", b)
                PROVE  /\ phase'[s][b] = "preparing" /\ pair(s, b)' = d /\ Reserved(d, s, b)'
                       /\ b \notin Range(incoming_accepts'[s])
    BY ZenonT(100), <1>1 DEF AcceptSent
  <2>1. ~(s = n /\ b = a)
    BY ZenonT(100)
  <2>2. /\ phase[s][b] = "preparing" /\ pair(s, b) = d /\ Reserved(d, s, b)
        /\ b \notin Range(incoming_accepts[s])
    BY ZenonT(100) DEF MigrationInv, AcceptSent
  <2>. QED BY ZenonT(100), <1>2, <1>3, <2>1, <2>2
<1>8. AcceptQueued'
  <2>. SUFFICES ASSUME NEW s \in Server, NEW b \in Addr, b \in Range(incoming_accepts'[s])
                PROVE  /\ phase'[s][b] = "preparing" /\ pair(s, b)' \in Server
                       /\ Reserved(pair(s, b), s, b)'
    BY ZenonT(100) DEF AcceptQueued
  <2>1. b \in Range(incoming_accepts[s]) /\ ~(s = n /\ b = a)
    BY ZenonT(100)
  <2>2. phase[s][b] = "preparing" /\ pair(s, b) \in Server /\ Reserved(pair(s, b), s, b)
    BY ZenonT(100), <2>1 DEF MigrationInv, AcceptQueued
  <2>3. PICK d \in Server : d = pair(s, b) /\ pair(s, b)' = d
    BY ZenonT(100), <1>2, <2>1, <2>2
  <2>4. Reserved(d, s, b)'
    BY ZenonT(100), <1>3, <2>2, <2>3
  <2>. QED BY ZenonT(100), <2>1, <2>2, <2>3, <2>4
<1>9. AcceptPolled'
  <2>. SUFFICES ASSUME NEW s \in Server, NEW b \in Addr, phase'[s][b] = "accepted"
                PROVE  pair(s, b)' \in Server /\ Reserved(pair(s, b), s, b)'
    BY ZenonT(100) DEF AcceptPolled
  <2>1. CASE s = n /\ b = a
    BY ZenonT(100), <2>1
  <2>2. CASE ~(s = n /\ b = a)
    <3>1. pair(s, b) \in Server /\ Reserved(pair(s, b), s, b) /\ pair(s, b)' = pair(s, b)
      BY ZenonT(100), <1>2, <2>2 DEF MigrationInv, AcceptPolled
    <3>2. PICK d \in Server : d = pair(s, b) /\ pair(s, b)' = d
      BY ZenonT(100), <3>1
    <3>3. Reserved(d, s, b)'
      BY ZenonT(100), <1>3, <3>1, <3>2
    <3>. QED BY ZenonT(100), <3>2, <3>3
  <2>. QED BY ZenonT(100), <2>1, <2>2
<1>10. TransferSent' /\ TransferQueued' /\ TransferPolled'
  <2>1. \A x \in Server, b \in Addr :
          /\ b \in Range(incoming_transfers'[x]) => b \in Range(incoming_transfers[x])
          /\ b \in Range(incoming_transfers'[x]) /\ memory_map[x][b].state = "Clean" =>
               memory_map'[x][b].state = "Clean"
          /\ phase'[x][b] = "arrived" => phase[x][b] = "arrived"
    <3>1. \A x \in Server, b \in Addr : b \in Range(incoming_transfers[x]) => ~(x = n /\ b = a)
      BY ZenonT(100) DEF MigrationInv, TransferQueued
    <3>. QED BY ZenonT(100), <3>1
  <2>. QED BY ZenonT(100), <1>1, <1>3, <1>4, <1>5, <2>1, TransfersKept
<1>11. DoneSent' /\ DoneQueued' /\ MovedPaired'
  <2>1. ASSUME NEW x \in Server, NEW b \in Addr, phase[x][b] = "moved" \/ phase'[x][b] = "moved"
        PROVE  phase[x][b] = "moved" /\ phase'[x][b] = "moved" /\ pair(x, b)' = pair(x, b)
    <3>1. ~(x = n /\ b = a)
      BY ZenonT(100), <2>1
    <3>. QED BY ZenonT(100), <1>2, <2>1, <3>1
  <2>. QED BY ZenonT(100), <1>1, <2>1, DonesKept
<1>. QED BY ZenonT(100), <1>6, <1>7, <1>8, <1>9, <1>10, <1>11

-----------------------------------------------------------------------------
(* The answer to a Prepare.                                                  *)

LEMMA OnAcceptKeeps ==
  ASSUME MigrationInv, TypeOK', NEW n \in Server, NEW s \in Server, OnAccept(n, s)
  PROVE  MigrationInv'
<1>. DEFINE h == Head(recv_queue[n][s])
            a == h.addr
<1>1. TypeOK /\ MessagesDistinct /\ QueuesDistinct /\ incoming_accepts \in [Server -> Seq(Addr)]
  BY ZenonT(100) DEF MigrationInv, TypeOK
<1>2. /\ GetMessage(n, s, "ACCEPT")
      /\ UNCHANGED <<alloc_address, memory, memory_map, phase, registrations, chan,
                     incoming_transfers, incoming_dones>>
      /\ \/ a \in Addr /\ Push(incoming_accepts, incoming_accepts', n, a)
         \/ incoming_accepts' = incoming_accepts
  BY ZenonT(100) DEF OnAccept, Known, Push, managerVars, connVars, appVars
<1>3. /\ MessagesDistinct' /\ h \in Message /\ h.type = "ACCEPT" /\ h \in Pending(s, n)
      /\ \A x, y \in Server : Pending(x, y)' \subseteq Pending(x, y)
      /\ \A p \in Pending(s, n)' : Distinct(h, p)
  BY ZenonT(100), <1>1, <1>2, NetGet
<1>. HIDE DEF h
<1>4. CASE incoming_accepts' = incoming_accepts
  BY ZenonT(100), <1>2, <1>3, <1>4, FewerMessages
<1>5. CASE a \in Addr /\ Push(incoming_accepts, incoming_accepts', n, a)
  <2>1. Token(s, n, "ACCEPT", a)
    BY ZenonT(100), <1>3 DEF Token
  <2>2. /\ phase[n][a] = "preparing" /\ pair(n, a) = s /\ Reserved(s, n, a)
        /\ a \notin Range(incoming_accepts[n])
    BY ZenonT(100), <1>5, <2>1 DEF MigrationInv, AcceptSent
  <2>3. /\ \A x \in Server : IsInjective(incoming_accepts'[x])
        /\ \A x \in Server, b \in Addr : b \in Range(incoming_accepts'[x]) <=>
             b \in Range(incoming_accepts[x]) \/ (x = n /\ b = a)
    BY ZenonT(100), <1>1, <1>5, <2>2, PushEffect DEF QueuesDistinct
  <2>. HIDE DEF a
  <2>4. \A x, y \in Server, b \in Addr :
          /\ Token(x, y, "PREPARE", b)' => Token(x, y, "PREPARE", b)
          /\ Token(x, y, "ACCEPT", b)' => Token(x, y, "ACCEPT", b) /\ ~(x = s /\ y = n /\ b = a)
          /\ Token(x, y, "TRANSFER", b)' => Token(x, y, "TRANSFER", b)
          /\ Token(x, y, "DONE", b)' => Token(x, y, "DONE", b)
    <3>1. \A b \in Addr : b = a => ~Token(s, n, "ACCEPT", b)'
      BY ZenonT(100), <1>3, <1>5 DEF Token, Distinct, a
    <3>. QED BY ZenonT(100), <1>3, <3>1 DEF Token
  <2>5. \A x \in Server, b \in Addr : pair(x, b)' = pair(x, b)
    BY ZenonT(100), <1>2 DEF pair
  <2>f. \A x, y \in Server, b \in Addr : Finishing(x, y, b)' => Finishing(x, y, b)
    BY ZenonT(100), <1>2, <2>4 DEF Finishing
  <2>6. /\ \A x, y \in Server, b \in Addr :
             (Given(x, y, b)' <=> Given(x, y, b)) /\ (Reserved(x, y, b)' <=> Reserved(x, y, b))
        /\ \A x \in Server, b \in Addr : Usable(x, b)' <=> Usable(x, b)
    BY ZenonT(100), <1>2, <2>5 DEF Given, Reserved, Usable
  <2>7. FreshUnknown' /\ KnownMapped'
    BY ZenonT(100), <1>2, <2>6, FreshKept, KnownKept
  <2>8. PrepareSent' /\ AcceptSent'
    <3>1. ASSUME NEW x \in Server, NEW y \in Server, NEW b \in Addr, Token(x, y, "PREPARE", b)'
          PROVE  /\ phase'[x][b] = "preparing" /\ pair(x, b)' = y
                 /\ ~Token(y, x, "ACCEPT", b)' /\ b \notin Range(incoming_accepts'[x])
      <4>1. /\ phase[x][b] = "preparing" /\ pair(x, b) = y
            /\ ~Token(y, x, "ACCEPT", b) /\ b \notin Range(incoming_accepts[x])
        BY ZenonT(100), <2>4, <3>1 DEF MigrationInv, PrepareSent
      <4>2. ~(x = n /\ b = a)
        BY ZenonT(100), <2>1, <2>2, <4>1
      <4>. QED BY ZenonT(100), <1>2, <2>3, <2>4, <2>5, <4>1, <4>2
    <3>2. ASSUME NEW x \in Server, NEW y \in Server, NEW b \in Addr, Token(y, x, "ACCEPT", b)'
          PROVE  /\ phase'[x][b] = "preparing" /\ pair(x, b)' = y /\ Reserved(y, x, b)'
                 /\ b \notin Range(incoming_accepts'[x])
      <4>1. /\ phase[x][b] = "preparing" /\ pair(x, b) = y /\ Reserved(y, x, b)
            /\ b \notin Range(incoming_accepts[x]) /\ ~(y = s /\ x = n /\ b = a)
        BY ZenonT(100), <2>4, <3>2 DEF MigrationInv, AcceptSent
      <4>2. ~(x = n /\ b = a)
        BY ZenonT(100), <2>2, <4>1
      <4>. QED BY ZenonT(100), <1>2, <2>3, <2>5, <2>6, <4>1, <4>2
    <3>. QED BY ZenonT(100), <3>1, <3>2 DEF PrepareSent, AcceptSent
  <2>9. AcceptQueued' /\ AcceptPolled'
    <3>1. ASSUME NEW x \in Server, NEW b \in Addr, pair(x, b) \in Server, Reserved(pair(x, b), x, b)
          PROVE  (pair(x, b) \in Server /\ Reserved(pair(x, b), x, b))'
      <4>1. PICK y \in Server : y = pair(x, b) /\ pair(x, b)' = y
        BY ZenonT(100), <2>5, <3>1
      <4>. QED BY ZenonT(100), <2>6, <3>1, <4>1
    <3>2. ASSUME NEW x \in Server, NEW b \in Addr, b \in Range(incoming_accepts'[x])
          PROVE  phase[x][b] = "preparing" /\ pair(x, b) \in Server /\ Reserved(pair(x, b), x, b)
      <4>1. CASE x = n /\ b = a
        BY ZenonT(100), <2>2, <4>1
      <4>. QED BY ZenonT(100), <2>3, <3>2, <4>1 DEF MigrationInv, AcceptQueued
    <3>3. AcceptQueued'
      BY ZenonT(100), <1>2, <3>1, <3>2 DEF AcceptQueued
    <3>4. AcceptPolled'
      BY ZenonT(100), <1>2, <3>1 DEF MigrationInv, AcceptPolled
    <3>. QED BY ZenonT(100), <3>3, <3>4
  <2>10. TransferSent' /\ TransferQueued' /\ TransferPolled'
    BY ZenonT(100), <1>2, <2>4, <2>6, <2>f, TransfersKept
  <2>11. DoneSent' /\ DoneQueued' /\ MovedPaired'
    BY ZenonT(100), <1>2, <2>4, <2>5, DonesKept
  <2>12. OneHolder'
    BY ZenonT(100), <1>2, <2>4, <2>5, <2>6, HolderKept
  <2>13. QueuesDistinct' /\ ReadKeyLive'
    <3>1. QueuesDistinct'
      BY ZenonT(100), <1>2, <2>3 DEF MigrationInv, QueuesDistinct
    <3>2. ReadKeyLive'
      BY ZenonT(100), <1>1, <1>2, <1>3, KeysKept DEF MigrationInv
    <3>. QED BY ZenonT(100), <3>1, <3>2
  <2>. QED BY ZenonT(100), <1>3, <2>7, <2>8, <2>9, <2>10, <2>11, <2>12, <2>13 DEF MigrationInv
<1>. QED BY ZenonT(100), <1>2, <1>4, <1>5

-----------------------------------------------------------------------------
(* The polls.                                                                *)

LEMMA PollForAcceptKeeps ==
  ASSUME MigrationInv, TypeOK', NEW n \in Server, PollForAccept(n)
  PROVE  MigrationInv'
<1>1. TypeOK /\ QueuesDistinct /\ incoming_accepts \in [Server -> Seq(Addr)]
  BY ZenonT(100) DEF MigrationInv, TypeOK
<1>2. /\ Pop(incoming_accepts, incoming_accepts', n)
      /\ PutPhase(n, Head(incoming_accepts[n]), "accepted")
      /\ UNCHANGED <<alloc_address, memory, memory_map, registrations, chan, recv_queue,
                     incoming_transfers, incoming_dones>>
  BY ZenonT(100) DEF PollForAccept, Pop, PutPhase, managerVars, connVars, netVars
<1>3. PICK a \in Addr :
        /\ a = Head(incoming_accepts[n]) /\ a \in Range(incoming_accepts[n])
        /\ \A x \in Server : IsInjective(incoming_accepts'[x])
        /\ \A x \in Server, b \in Addr : b \in Range(incoming_accepts'[x]) =>
             b \in Range(incoming_accepts[x]) /\ ~(x = n /\ b = a)
  <2>. DEFINE h == Head(incoming_accepts[n])
  <2>1. /\ h \in Addr /\ h \in Range(incoming_accepts[n])
        /\ \A x \in Server : IsInjective(incoming_accepts'[x])
        /\ \A x \in Server, b \in Addr : b \in Range(incoming_accepts'[x]) =>
             b \in Range(incoming_accepts[x]) /\ ~(x = n /\ b = h)
    BY ZenonT(100), <1>1, <1>2, PopEffect DEF QueuesDistinct
  <2>. HIDE DEF h
  <2>2. \E a \in Addr : a = h
    BY ZenonT(100), <2>1
  <2>. QED BY ZenonT(100), <2>1, <2>2 DEF h
<1>4. phase[n][a] = "preparing" /\ pair(n, a) \in Server /\ Reserved(pair(n, a), n, a)
  BY ZenonT(100), <1>3 DEF MigrationInv, AcceptQueued
<1>5. /\ phase'[n][a] = "accepted"
      /\ \A x \in Server, b \in Addr : ~(x = n /\ b = a) => phase'[x][b] = phase[x][b]
      /\ \A x \in Server, b \in Addr : pair(x, b)' = pair(x, b)
  <2>1. PutPhase(n, a, "accepted")
    BY ZenonT(100), <1>2, <1>3
  <2>. QED BY <1>1, <1>2, <2>1, PutPhaseEffect DEF Phase, pair
<1>6. /\ MessagesDistinct' /\ \A x, y \in Server : Pending(x, y)' = Pending(x, y)
      /\ \A x, y, t, b : Token(x, y, t, b)' <=> Token(x, y, t, b)
  BY ZenonT(100), <1>2, NetSame
<1>7. FreshUnknown' /\ KnownMapped'
  <2>1. \A x \in Server, b \in Addr :
          /\ phase[x][b] = "none" => phase'[x][b] = "none"
          /\ phase'[x][b] # "none" => phase[x][b] # "none"
          /\ Usable(x, b)' => Usable(x, b)
    BY <1>4, <1>5 DEF Usable
  <2>. QED BY ZenonT(100), <1>2, <2>1, FreshKept, KnownKept
<1>8. /\ PrepareSent' /\ AcceptSent' /\ AcceptQueued' /\ AcceptPolled'
      /\ TransferSent' /\ TransferQueued' /\ TransferPolled'
      /\ DoneSent' /\ DoneQueued' /\ MovedPaired'
  <2>1. \A y \in Server : ~Token(n, y, "PREPARE", a) /\ ~Token(y, n, "ACCEPT", a) /\ ~Reserved(n, y, a)
    BY ZenonT(100), <1>3, <1>4 DEF MigrationInv, PrepareSent, AcceptSent, Reserved
  <2>2. PICK d \in Server : d = pair(n, a) /\ pair(n, a)' = d
    BY ZenonT(100), <1>3, <1>4, <1>5
  <2>3. d # n
    BY ZenonT(100), <1>4, <2>2 DEF Reserved
  <2>4. Reserved(d, n, a)'
    BY ZenonT(100), <1>2, <1>3, <1>4, <1>5, <2>2, <2>3 DEF Reserved
  <2>5. (pair(n, a) \in Server /\ Reserved(pair(n, a), n, a))'
    BY ZenonT(100), <2>2, <2>4
  <2>6. \A x \in Server, b \in Addr : ~(x = n /\ b = a) =>
          /\ phase'[x][b] = phase[x][b] /\ memory'[x][b] = memory[x][b]
          /\ memory_map'[x][b] = memory_map[x][b]
    BY ZenonT(100), <1>2, <1>5
  <2>7. phase[n][a] # "moved" /\ phase'[n][a] # "moved" /\ phase'[n][a] # "arrived"
    BY <1>4, <1>5
  <2>. QED BY ZenonT(100), <1>2, <1>3, <1>5, <2>1, <2>5, <2>6, <2>7, LocalStep
<1>11. OneHolder'
  <2>1. \A x \in Server, b \in Addr : Usable(x, b)' => Usable(x, b)
    BY <1>4, <1>5 DEF Usable
  <2>. QED BY ZenonT(100), <1>2, <1>5, <1>6, <2>1, HolderKept
<1>12. QueuesDistinct' /\ ReadKeyLive'
  <2>1. QueuesDistinct'
    BY ZenonT(100), <1>2, <1>3, <1>6 DEF MigrationInv, QueuesDistinct
  <2>2. ReadKeyLive'
    BY ZenonT(100), <1>1, <1>2, <1>6, KeysKept DEF MigrationInv
  <2>. QED BY ZenonT(100), <2>1, <2>2
<1>. QED BY ZenonT(100), <1>6, <1>7, <1>8, <1>11, <1>12 DEF MigrationInv

LEMMA PollForCloseKeeps ==
  ASSUME MigrationInv, TypeOK', NEW n \in Server, PollForClose(n)
  PROVE  MigrationInv'
<1>1. TypeOK /\ QueuesDistinct /\ incoming_dones \in [Server -> Seq(Addr)]
  BY ZenonT(100) DEF MigrationInv, TypeOK
<1>2. /\ Pop(incoming_dones, incoming_dones', n)
      /\ PutPhase(n, Head(incoming_dones[n]), "closed")
      /\ UNCHANGED <<alloc_address, memory, memory_map, registrations, chan, recv_queue,
                     incoming_accepts, incoming_transfers>>
  BY ZenonT(100) DEF PollForClose, Pop, PutPhase, managerVars, connVars, netVars
<1>3. PICK a \in Addr :
        /\ a = Head(incoming_dones[n]) /\ a \in Range(incoming_dones[n])
        /\ \A x \in Server : IsInjective(incoming_dones'[x])
        /\ \A x \in Server, b \in Addr : b \in Range(incoming_dones'[x]) =>
             b \in Range(incoming_dones[x]) /\ ~(x = n /\ b = a)
  <2>. DEFINE h == Head(incoming_dones[n])
  <2>1. /\ h \in Addr /\ h \in Range(incoming_dones[n])
        /\ \A x \in Server : IsInjective(incoming_dones'[x])
        /\ \A x \in Server, b \in Addr : b \in Range(incoming_dones'[x]) =>
             b \in Range(incoming_dones[x]) /\ ~(x = n /\ b = h)
    BY ZenonT(100), <1>1, <1>2, PopEffect DEF QueuesDistinct
  <2>. HIDE DEF h
  <2>2. \E a \in Addr : a = h
    BY ZenonT(100), <2>1
  <2>. QED BY ZenonT(100), <2>1, <2>2 DEF h
<1>4. phase[n][a] = "moved" /\ \A x \in Server : ~Token(x, n, "DONE", a) /\ Finishing(n, x, a)
  BY ZenonT(100), <1>3 DEF MigrationInv, DoneQueued, DoneSent, Finishing
<1>5. /\ phase'[n][a] = "closed"
      /\ \A x \in Server, b \in Addr : ~(x = n /\ b = a) => phase'[x][b] = phase[x][b]
      /\ \A x \in Server, b \in Addr : pair(x, b)' = pair(x, b)
  <2>1. PutPhase(n, a, "closed")
    BY ZenonT(100), <1>2, <1>3
  <2>. QED BY <1>1, <1>2, <2>1, PutPhaseEffect DEF Phase, pair
<1>6. /\ MessagesDistinct' /\ \A x, y \in Server : Pending(x, y)' = Pending(x, y)
      /\ \A x, y, t, b : Token(x, y, t, b)' <=> Token(x, y, t, b)
  BY ZenonT(100), <1>2, NetSame
<1>f. \A x, y \in Server, b \in Addr : Finishing(x, y, b)' => Finishing(x, y, b)
  BY ZenonT(100), <1>3, <1>6 DEF Finishing
<1>7. \A x \in Server, b \in Addr :
        /\ phase[x][b] # "moved" => phase'[x][b] = phase[x][b]
        /\ phase'[x][b] # "closed" => phase'[x][b] = phase[x][b]
        /\ Usable(x, b)' => Usable(x, b)
  BY ZenonT(100), <1>4, <1>5 DEF Usable
<1>8. FreshUnknown' /\ KnownMapped'
  <2>1. \A x \in Server, b \in Addr : phase[x][b] = "none" <=> phase'[x][b] = "none"
    BY <1>4, <1>5
  <2>. QED BY ZenonT(100), <1>2, <1>7, <2>1, FreshKept, KnownKept
<1>g. \A x, y \in Server, b \in Addr :
        /\ Reserved(x, y, b) => Reserved(x, y, b)'
        /\ Given(x, y, b) => Given(x, y, b)' \/ Finishing(x, y, b)
  <2>1. ASSUME NEW x \in Server, NEW y \in Server, NEW b \in Addr, Reserved(x, y, b)
        PROVE  Reserved(x, y, b)'
    <3>1. phase[x][b] = "none" /\ phase'[x][b] = "none"
      BY <1>4, <1>5, <2>1 DEF Reserved
    <3>. QED BY ZenonT(100), <1>2, <1>5, <2>1, <3>1 DEF Reserved
  <2>2. ASSUME NEW x \in Server, NEW y \in Server, NEW b \in Addr, Given(x, y, b)
        PROVE  Given(x, y, b)' \/ Finishing(x, y, b)
    BY ZenonT(100), <1>4, <1>5, <2>2 DEF Given
  <2>. QED BY ZenonT(100), <2>1, <2>2
<1>9. PrepareSent' /\ AcceptSent' /\ AcceptQueued' /\ AcceptPolled'
  <2>1. \A x \in Server, b \in Addr : /\ phase[x][b] = "preparing" => phase'[x][b] = "preparing"
                                      /\ phase'[x][b] = "accepted" => phase[x][b] = "accepted"
    BY <1>4, <1>5
  <2>. QED BY ZenonT(100), <1>2, <1>5, <1>6, <1>g, <2>1, AcceptsKept
<1>10. /\ TransferSent' /\ TransferQueued' /\ TransferPolled'
       /\ DoneSent' /\ DoneQueued' /\ MovedPaired'
  <2>1. \A x \in Server, b \in Addr :
          /\ phase'[x][b] = "arrived" => phase[x][b] = "arrived"
          /\ phase'[x][b] = "moved" => phase[x][b] = "moved"
    BY <1>4, <1>5
  <2>2. TransferSent' /\ TransferQueued' /\ TransferPolled'
    BY ZenonT(100), <1>2, <1>6, <1>f, <1>g, <2>1, TransfersKept
  <2>3. \A x \in Server, b \in Addr : phase[x][b] = "moved" =>
          \/ phase'[x][b] = "moved"
          \/ b \notin Range(incoming_dones'[x]) /\ \A y \in Server : ~Token(y, x, "DONE", b)
    BY ZenonT(100), <1>3, <1>4, <1>5
  <2>4. DoneSent' /\ DoneQueued' /\ MovedPaired'
    BY ZenonT(100), <1>3, <1>5, <1>6, <2>1, <2>3, DonesKept
  <2>. QED BY ZenonT(100), <2>2, <2>4
<1>11. OneHolder'
  <2>1. \A x \in Server, b \in Addr : phase'[x][b] = "moved" => phase[x][b] = "moved"
    BY <1>4, <1>5
  <2>. QED BY ZenonT(100), <1>2, <1>5, <1>6, <1>7, <2>1, HolderKept
<1>12. QueuesDistinct' /\ ReadKeyLive'
  <2>1. QueuesDistinct'
    BY ZenonT(100), <1>2, <1>3, <1>6 DEF MigrationInv, QueuesDistinct
  <2>2. ReadKeyLive'
    BY ZenonT(100), <1>1, <1>2, <1>6, KeysKept DEF MigrationInv
  <2>. QED BY ZenonT(100), <2>1, <2>2
<1>. QED BY ZenonT(100), <1>6, <1>8, <1>9, <1>10, <1>11, <1>12 DEF MigrationInv

LEMMA PollForTransferKeeps ==
  ASSUME MigrationInv, TypeOK', NEW n \in Server, PollForTransfer(n)
  PROVE  MigrationInv'
<1>1. TypeOK /\ QueuesDistinct /\ incoming_transfers \in [Server -> Seq(Addr)]
  BY ZenonT(100) DEF MigrationInv, TypeOK
<1>2. /\ Pop(incoming_transfers, incoming_transfers', n)
      /\ PutPhase(n, Head(incoming_transfers[n]), "arrived")
      /\ UNCHANGED <<alloc_address, memory, memory_map, registrations, chan, recv_queue,
                     incoming_accepts, incoming_dones>>
  BY ZenonT(100) DEF PollForTransfer, Pop, PutPhase, managerVars, connVars, netVars
<1>3. PICK a \in Addr :
        /\ a = Head(incoming_transfers[n]) /\ a \in Range(incoming_transfers[n])
        /\ \A x \in Server : IsInjective(incoming_transfers'[x])
        /\ \A x \in Server, b \in Addr : b \in Range(incoming_transfers'[x]) =>
             b \in Range(incoming_transfers[x]) /\ ~(x = n /\ b = a)
  <2>. DEFINE h == Head(incoming_transfers[n])
  <2>1. /\ h \in Addr /\ h \in Range(incoming_transfers[n])
        /\ \A x \in Server : IsInjective(incoming_transfers'[x])
        /\ \A x \in Server, b \in Addr : b \in Range(incoming_transfers'[x]) =>
             b \in Range(incoming_transfers[x]) /\ ~(x = n /\ b = h)
    BY ZenonT(100), <1>1, <1>2, PopEffect DEF QueuesDistinct
  <2>. HIDE DEF h
  <2>2. \E a \in Addr : a = h
    BY ZenonT(100), <2>1
  <2>. QED BY ZenonT(100), <2>1, <2>2 DEF h
<1>4. PICK s \in Server : /\ Given(s, n, a) /\ Reserved(n, s, a) /\ ~Finishing(s, n, a)
                          /\ memory_map[n][a].state = "Clean"
  BY ZenonT(100), <1>3 DEF MigrationInv, TransferQueued
<1>5. /\ phase'[n][a] = "arrived"
      /\ \A x \in Server, b \in Addr : ~(x = n /\ b = a) => phase'[x][b] = phase[x][b]
      /\ \A x \in Server, b \in Addr : pair(x, b)' = pair(x, b)
  <2>1. PutPhase(n, a, "arrived")
    BY ZenonT(100), <1>2, <1>3
  <2>. QED BY <1>1, <1>2, <2>1, PutPhaseEffect DEF Phase, pair
<1>6. /\ MessagesDistinct' /\ \A x, y \in Server : Pending(x, y)' = Pending(x, y)
      /\ \A x, y, t, b : Token(x, y, t, b)' <=> Token(x, y, t, b)
  BY ZenonT(100), <1>2, NetSame
<1>f. \A x, y \in Server, b \in Addr : Finishing(x, y, b)' <=> Finishing(x, y, b)
  BY ZenonT(100), <1>2, <1>6 DEF Finishing
<1>t. ~Token(s, n, "TRANSFER", a)
  BY ZenonT(100), <1>3 DEF MigrationInv, TransferSent
<1>r. /\ \A x, y \in Server, b \in Addr : Reserved(x, y, b) /\ ~(x = n /\ b = a) => Reserved(x, y, b)'
      /\ \A y \in Server : Reserved(n, y, a) => phase[y][a] = "moved"
  <2>1. ASSUME NEW x \in Server, NEW y \in Server, NEW b \in Addr, Reserved(x, y, b), ~(x = n /\ b = a)
        PROVE  Reserved(x, y, b)'
    BY ZenonT(100), <1>2, <1>5, <2>1 DEF Reserved
  <2>2. ASSUME NEW y \in Server, Reserved(n, y, a)
        PROVE  phase[y][a] = "moved"
    BY ZenonT(100), <1>4, <2>2 DEF Reserved, Given
  <2>. QED BY ZenonT(100), <2>1, <2>2
<1>s. \A x \in Server, b \in Addr : phase[x][b] # "none" =>
        phase'[x][b] = phase[x][b] /\ ~(x = n /\ b = a)
  <2>1. phase[n][a] = "none"
    BY ZenonT(100), <1>4 DEF Reserved
  <2>. QED BY ZenonT(100), <1>5, <2>1
<1>v. \A x, y \in Server, b \in Addr : Given(x, y, b) => Given(x, y, b)'
  BY ZenonT(100), <1>5, <1>s DEF Given
<1>7. FreshUnknown' /\ KnownMapped'
  <2>1. \A b \in Addr : (\A y \in Server : phase[y][b] = "none") => b # a
    <3>1. phase[s][a] # "none"
      BY <1>4 DEF Given
    <3>. QED BY ZenonT(100), <3>1
  <2>2. FreshUnknown'
    BY ZenonT(100), <1>2, <1>5, <2>1, FreshKept
  <2>3. \A x \in Server, b \in Addr :
          /\ phase'[x][b] # "none" => phase[x][b] # "none" \/ memory'[x][b] # Unmapped
          /\ Usable(x, b)' => Usable(x, b) \/ memory_map'[x][b].state = "Clean"
    <3>. SUFFICES ASSUME NEW x \in Server, NEW b \in Addr
                  PROVE  /\ phase'[x][b] # "none" => phase[x][b] # "none" \/ memory'[x][b] # Unmapped
                         /\ Usable(x, b)' => Usable(x, b) \/ memory_map'[x][b].state = "Clean"
      BY ZenonT(100)
    <3>1. CASE x = n /\ b = a
      BY ZenonT(100), <1>2, <1>4, <3>1 DEF Reserved
    <3>2. CASE ~(x = n /\ b = a)
      BY ZenonT(100), <1>5, <3>2 DEF Usable
    <3>. QED BY ZenonT(100), <3>1, <3>2
  <2>4. KnownMapped'
    BY ZenonT(100), <1>2, <2>3, KnownKept
  <2>. QED BY ZenonT(100), <2>2, <2>4
<1>8. PrepareSent' /\ AcceptSent' /\ AcceptQueued' /\ AcceptPolled'
  <2>1. \A x \in Server, b \in Addr :
          /\ phase[x][b] = "preparing" => phase'[x][b] = "preparing"
          /\ phase'[x][b] = "accepted" => phase[x][b] = "accepted"
          /\ phase[x][b] = "preparing" \/ phase[x][b] = "accepted" => pair(x, b)' = pair(x, b)
          /\ b \in Range(incoming_accepts'[x]) => b \in Range(incoming_accepts[x])
    <3>1. \A x \in Server, b \in Addr : /\ phase[x][b] = "preparing" => phase'[x][b] = "preparing"
                                        /\ phase'[x][b] = "accepted" => phase[x][b] = "accepted"
      BY <1>5, <1>s
    <3>2. \A x \in Server, b \in Addr : b \in Range(incoming_accepts'[x]) => b \in Range(incoming_accepts[x])
      BY ZenonT(100), <1>2
    <3>3. \A x \in Server, b \in Addr : pair(x, b)' = pair(x, b)
      BY ZenonT(100), <1>5
    <3>. QED BY ZenonT(100), <3>1, <3>2, <3>3
  <2>2. \A x, y \in Server, b \in Addr :
          /\ Token(x, y, "PREPARE", b)' => Token(x, y, "PREPARE", b)
          /\ Token(x, y, "ACCEPT", b)' => Token(x, y, "ACCEPT", b)
          /\ Reserved(x, y, b) => Reserved(x, y, b)' \/ phase[y][b] = "moved"
    BY ZenonT(100), <1>6, <1>r
  <2>. QED BY ZenonT(100), <2>1, <2>2, AcceptsKept
<1>9. TransferSent'
  <2>. SUFFICES ASSUME NEW x \in Server, NEW y \in Server, NEW b \in Addr, Token(x, y, "TRANSFER", b)'
                PROVE  /\ Given(x, y, b)' /\ Reserved(y, x, b)' /\ ~Finishing(x, y, b)'
                       /\ b \notin Range(incoming_transfers'[y])
    BY ZenonT(100) DEF TransferSent
  <2>1. /\ Given(x, y, b) /\ Reserved(y, x, b) /\ ~Finishing(x, y, b)
        /\ b \notin Range(incoming_transfers[y])
    BY ZenonT(100), <1>6 DEF MigrationInv, TransferSent
  <2>2. ~(y = n /\ b = a)
    BY ZenonT(100), <1>3, <2>1
  <2>. QED BY ZenonT(100), <1>3, <1>f, <1>r, <1>v, <2>1, <2>2
<1>10. TransferQueued' /\ TransferPolled'
  <2>1. TransferQueued'
    <3>. SUFFICES ASSUME NEW y \in Server, NEW b \in Addr, b \in Range(incoming_transfers'[y])
                  PROVE  \E x \in Server : /\ Given(x, y, b)' /\ Reserved(y, x, b)' /\ ~Finishing(x, y, b)'
                                           /\ memory_map'[y][b].state = "Clean"
      BY ZenonT(100) DEF TransferQueued
    <3>1. b \in Range(incoming_transfers[y]) /\ ~(y = n /\ b = a)
      BY ZenonT(100), <1>3
    <3>2. PICK x \in Server : /\ Given(x, y, b) /\ Reserved(y, x, b) /\ ~Finishing(x, y, b)
                              /\ memory_map[y][b].state = "Clean"
      BY ZenonT(100), <3>1 DEF MigrationInv, TransferQueued
    <3>. QED BY ZenonT(100), <1>2, <1>f, <1>r, <1>v, <3>1, <3>2
  <2>2. TransferPolled'
    <3>. SUFFICES ASSUME NEW y \in Server, NEW b \in Addr, phase'[y][b] = "arrived"
                  PROVE  \E x \in Server : Given(x, y, b)' /\ ~Finishing(x, y, b)'
      BY ZenonT(100) DEF TransferPolled
    <3>1. CASE y = n /\ b = a
      BY ZenonT(100), <1>4, <1>f, <1>v, <3>1
    <3>2. CASE ~(y = n /\ b = a)
      <4>1. PICK x \in Server : Given(x, y, b) /\ ~Finishing(x, y, b)
        BY ZenonT(100), <1>5, <3>2 DEF MigrationInv, TransferPolled
      <4>. QED BY ZenonT(100), <1>f, <1>v, <4>1
    <3>. QED BY ZenonT(100), <3>1, <3>2
  <2>. QED BY ZenonT(100), <2>1, <2>2
<1>11. DoneSent' /\ DoneQueued' /\ MovedPaired'
  <2>1. \A x \in Server, b \in Addr : phase[x][b] = "moved" <=> phase'[x][b] = "moved"
    BY <1>5, <1>s
  <2>. QED BY ZenonT(100), <1>2, <1>5, <1>6, <2>1, DonesKept
<1>12. OneHolder'
  <2>1. InTransit(s, a)
    BY ZenonT(100), <1>3, <1>4 DEF InTransit, Given
  <2>2. ASSUME NEW x \in Server, NEW b \in Addr, InTransit(x, b)'
        PROVE  InTransit(x, b) /\ b # a
    <3>1. phase[x][b] = "moved" /\ pair(x, b)' = pair(x, b) /\ pair(x, b) \in Server
      BY ZenonT(100), <1>5, <2>2 DEF InTransit, MigrationInv, MovedPaired
    <3>2. InTransit(x, b)
      BY ZenonT(100), <1>3, <1>5, <1>6, <2>2, <3>1 DEF InTransit
    <3>3. CASE b = a
      <4>1. x = s
        BY ZenonT(100), <2>1, <3>2, <3>3 DEF MigrationInv, OneHolder
      <4>. QED BY ZenonT(100), <1>3, <1>4, <1>5, <1>6, <1>t, <2>2, <3>3, <4>1 DEF InTransit, Given
    <3>. QED BY ZenonT(100), <3>2, <3>3
  <2>3. ASSUME NEW x \in Server, NEW b \in Addr, Usable(x, b)'
        PROVE  IF b = a THEN x = n ELSE Usable(x, b)
    BY <1>4, <1>5, <2>1, <2>3 DEF Usable, MigrationInv, OneHolder, Given
  <2>. QED BY ZenonT(100), <2>2, <2>3 DEF MigrationInv, OneHolder
<1>13. QueuesDistinct' /\ ReadKeyLive'
  <2>1. QueuesDistinct'
    BY ZenonT(100), <1>2, <1>3, <1>6 DEF MigrationInv, QueuesDistinct
  <2>2. ReadKeyLive'
    BY ZenonT(100), <1>1, <1>2, <1>6, KeysKept DEF MigrationInv
  <2>. QED BY ZenonT(100), <2>1, <2>2
<1>. QED BY ZenonT(100), <1>6, <1>7, <1>8, <1>9, <1>10, <1>11, <1>12, <1>13 DEF MigrationInv

-----------------------------------------------------------------------------
(* deallocate, and deregister_memory in close.                               *)

LEMMA DeallocateKeeps ==
  ASSUME MigrationInv, TypeOK', NEW n \in Server, NEW a \in Addr, Deallocate(n, a)
  PROVE  MigrationInv'
<1>1. TypeOK
  BY ZenonT(100) DEF MigrationInv
<1>2. /\ phase[n][a] \in {"held", "closed"}
      /\ PutPhase(n, a, "none") /\ PutMemory(n, a, Unmapped)
      /\ UNCHANGED <<alloc_address, memory_map, registrations, chan, recv_queue,
                     incoming_accepts, incoming_transfers, incoming_dones>>
  BY ZenonT(100) DEF Deallocate, PutPhase, PutMemory, connVars, netVars, queueVars
<1>3. /\ phase'[n][a] = "none" /\ memory'[n][a] = Unmapped
      /\ \A x \in Server, b \in Addr : ~(x = n /\ b = a) =>
           phase'[x][b] = phase[x][b] /\ memory'[x][b] = memory[x][b]
      /\ \A x \in Server, b \in Addr : pair(x, b)' = pair(x, b)
  <2>1. /\ phase'[n][a] = "none"
        /\ \A x \in Server, b \in Addr : ~(x = n /\ b = a) => phase'[x][b] = phase[x][b]
    BY <1>1, <1>2, PutPhaseEffect DEF Phase
  <2>2. \A x \in Server, b \in Addr :
          memory'[x][b] = IF x = n /\ b = a THEN Unmapped ELSE memory[x][b]
    <3>1. memory \in [Server -> [Addr -> Nat \cup {Unmapped}]]
      BY ZenonT(100), <1>1 DEF TypeOK
    <3>. QED BY ZenonT(100), <1>2, <3>1 DEF PutMemory
  <2>3. \A x \in Server, b \in Addr : pair(x, b)' = pair(x, b)
    BY ZenonT(100), <1>2 DEF pair
  <2>. QED BY ZenonT(100), <2>1, <2>2, <2>3
<1>4. /\ MessagesDistinct' /\ \A x, y \in Server : Pending(x, y)' = Pending(x, y)
      /\ \A x, y, t, b : Token(x, y, t, b)' <=> Token(x, y, t, b)
  BY ZenonT(100), <1>2, NetSame
<1>5. FreshUnknown' /\ KnownMapped'
  <2>1. FreshUnknown'
    BY ZenonT(100), <1>2, <1>3, FreshKept
  <2>2. \A x \in Server, b \in Addr : phase'[x][b] # "none" =>
          phase[x][b] # "none" /\ memory'[x][b] = memory[x][b]
    BY ZenonT(100), <1>3
  <2>3. \A x \in Server, b \in Addr : Usable(x, b)' => Usable(x, b) /\ phase'[x][b] # "none"
    BY ZenonT(100), <1>3 DEF Usable
  <2>4. KnownMapped'
    BY ZenonT(100), <1>2, <2>2, <2>3, KnownKept
  <2>. QED BY ZenonT(100), <2>1, <2>4
<1>6. /\ PrepareSent' /\ AcceptSent' /\ AcceptQueued' /\ AcceptPolled'
      /\ TransferSent' /\ TransferQueued' /\ TransferPolled'
      /\ DoneSent' /\ DoneQueued' /\ MovedPaired'
  <2>1. /\ \A y \in Server : /\ ~Token(n, y, "PREPARE", a) /\ ~Token(y, n, "ACCEPT", a)
                             /\ ~Reserved(n, y, a)
        /\ a \notin Range(incoming_accepts[n])
    BY ZenonT(100), <1>2 DEF MigrationInv, PrepareSent, AcceptSent, AcceptQueued, Reserved
  <2>. QED BY ZenonT(100), <1>2, <1>3, <2>1, LocalStep
<1>9. OneHolder'
  <2>1. \A x \in Server, b \in Addr : Usable(x, b)' => Usable(x, b)
    BY ZenonT(100), <1>2, <1>3 DEF Usable
  <2>. QED BY ZenonT(100), <1>2, <1>3, <1>4, <2>1, HolderKept
<1>10. QueuesDistinct' /\ ReadKeyLive'
  <2>1. QueuesDistinct'
    BY ZenonT(100), <1>2, <1>4 DEF MigrationInv, QueuesDistinct
  <2>2. ReadKeyLive'
    BY ZenonT(100), <1>2, <1>4 DEF MigrationInv, ReadKeyLive
  <2>. QED BY ZenonT(100), <2>1, <2>2
<1>. QED BY ZenonT(100), <1>4, <1>5, <1>6, <1>9, <1>10 DEF MigrationInv

LEMMA CloseDeregisterKeeps ==
  ASSUME MigrationInv, TypeOK', NEW n \in Server, NEW a \in Addr, CloseDeregister(n, a)
  PROVE  MigrationInv'
<1>1. TypeOK
  BY ZenonT(100) DEF MigrationInv
<1>2. /\ phase[n][a] = "closing"
      /\ PutPhase(n, a, "held") /\ Deregister(n, pair(n, a), a)
      /\ UNCHANGED <<alloc_address, memory, memory_map, chan, recv_queue,
                     incoming_accepts, incoming_transfers, incoming_dones>>
  BY ZenonT(100) DEF CloseDeregister, PutPhase, pair, managerVars, netVars, queueVars
<1>3. /\ phase'[n][a] = "held"
      /\ \A x \in Server, b \in Addr : ~(x = n /\ b = a) => phase'[x][b] = phase[x][b]
      /\ \A x \in Server, b \in Addr : pair(x, b)' = pair(x, b)
  BY <1>1, <1>2, PutPhaseEffect DEF Phase, pair
<1>4. /\ MessagesDistinct' /\ \A x, y \in Server : Pending(x, y)' = Pending(x, y)
      /\ \A x, y, t, b : Token(x, y, t, b)' <=> Token(x, y, t, b)
  BY ZenonT(100), <1>2, NetSame
<1>5. FreshUnknown' /\ KnownMapped'
  <2>1. \A x \in Server, b \in Addr : phase'[x][b] = "none" <=> phase[x][b] = "none"
    BY <1>2, <1>3
  <2>2. \A x \in Server, b \in Addr : Usable(x, b)' => Usable(x, b)
    BY ZenonT(100), <1>2, <1>3 DEF Usable
  <2>. QED BY ZenonT(100), <1>2, <2>1, <2>2, FreshKept, KnownKept
<1>6. /\ PrepareSent' /\ AcceptSent' /\ AcceptQueued' /\ AcceptPolled'
      /\ TransferSent' /\ TransferQueued' /\ TransferPolled'
      /\ DoneSent' /\ DoneQueued' /\ MovedPaired'
  <2>1. /\ \A y \in Server : /\ ~Token(n, y, "PREPARE", a) /\ ~Token(y, n, "ACCEPT", a)
                             /\ ~Reserved(n, y, a)
        /\ a \notin Range(incoming_accepts[n])
    BY ZenonT(100), <1>2 DEF MigrationInv, PrepareSent, AcceptSent, AcceptQueued, Reserved
  <2>. QED BY ZenonT(100), <1>2, <1>3, <2>1, LocalStep
<1>9. OneHolder'
  <2>1. \A x \in Server, b \in Addr : Usable(x, b)' => Usable(x, b)
    BY ZenonT(100), <1>2, <1>3 DEF Usable
  <2>. QED BY ZenonT(100), <1>2, <1>3, <1>4, <2>1, HolderKept
<1>10. QueuesDistinct'
  BY ZenonT(100), <1>2 DEF MigrationInv, QueuesDistinct
<1>11. ReadKeyLive'
  <2>1. \A x \in Server : ~Token(n, x, "TRANSFER", a)
    BY ZenonT(100), <1>2 DEF MigrationInv, TransferSent, Given
  <2>2. \A x, y \in Server, b \in Addr :
          registrations'[x][y][b] # registrations[x][y][b] => x = n /\ y = pair(n, a) /\ b = a
    <3>1. OnlyDiffers(n, pair(n, a), a)
      BY ZenonT(100), <1>1, <1>2, DeregisterOnly
    <3>. QED BY ZenonT(100), <3>1 DEF OnlyDiffers
  <2>. QED BY <1>1, <1>4, <2>1, <2>2, KeysKept DEF MigrationInv
<1>. QED BY ZenonT(100), <1>4, <1>5, <1>6, <1>9, <1>10, <1>11 DEF MigrationInv

-----------------------------------------------------------------------------
(* The end of a hand-over at its source.                                     *)

LEMMA OnCloseKeeps ==
  ASSUME MigrationInv, TypeOK', NEW n \in Server, NEW s \in Server, OnClose(n, s)
  PROVE  MigrationInv'
<1>. DEFINE h == Head(recv_queue[n][s])
            a == h.addr
<1>1. TypeOK /\ MessagesDistinct /\ QueuesDistinct /\ incoming_dones \in [Server -> Seq(Addr)]
  BY ZenonT(100) DEF MigrationInv, TypeOK
<1>2. /\ GetMessage(n, s, "DONE")
      /\ UNCHANGED <<alloc_address, memory, memory_map, phase, chan, incoming_accepts,
                     incoming_transfers>>
      /\ Push(incoming_dones, incoming_dones', n, a)
      /\ Deregister(n, s, a)
  BY ZenonT(100) DEF OnClose, Push, managerVars, appVars
<1>3. /\ MessagesDistinct' /\ h \in Message /\ h.type = "DONE" /\ h \in Pending(s, n)
      /\ \A x, y \in Server : Pending(x, y)' \subseteq Pending(x, y)
      /\ \A p \in Pending(s, n)' : Distinct(h, p)
  BY ZenonT(100), <1>1, <1>2, NetGet
<1>. HIDE DEF h
<1>4. a \in Addr
  BY ZenonT(100), <1>3 DEF Message
<1>5. Token(s, n, "DONE", a)
  BY ZenonT(100), <1>3 DEF Token
<1>6. phase[n][a] = "moved" /\ pair(n, a) = s /\ a \notin Range(incoming_dones[n])
  BY ZenonT(100), <1>4, <1>5 DEF MigrationInv, DoneSent
<1>7. /\ \A x \in Server : IsInjective(incoming_dones'[x])
      /\ \A x \in Server, b \in Addr : b \in Range(incoming_dones'[x]) <=>
           b \in Range(incoming_dones[x]) \/ (x = n /\ b = a)
  BY ZenonT(100), <1>1, <1>2, <1>4, <1>6, PushEffect DEF QueuesDistinct
<1>. HIDE DEF a
<1>8. \A x, y \in Server, b \in Addr :
        /\ Token(x, y, "PREPARE", b)' => Token(x, y, "PREPARE", b)
        /\ Token(x, y, "ACCEPT", b)' => Token(x, y, "ACCEPT", b)
        /\ Token(x, y, "TRANSFER", b)' => Token(x, y, "TRANSFER", b)
        /\ Token(x, y, "DONE", b)' => Token(x, y, "DONE", b) /\ ~(x = s /\ y = n /\ b = a)
  <2>1. \A b \in Addr : b = a => ~Token(s, n, "DONE", b)'
    BY ZenonT(100), <1>3, <1>4 DEF Token, Distinct, a
  <2>. QED BY ZenonT(100), <1>3, <2>1 DEF Token
<1>9. \A x \in Server, b \in Addr : pair(x, b)' = pair(x, b)
  BY ZenonT(100), <1>2 DEF pair
<1>f. \A x, y \in Server, b \in Addr :
        Finishing(x, y, b)' /\ Given(x, y, b) => Finishing(x, y, b)
  BY ZenonT(100), <1>5, <1>6, <1>7, <1>8 DEF Finishing, Given
<1>10. /\ \A x, y \in Server, b \in Addr :
            (Given(x, y, b)' <=> Given(x, y, b)) /\ (Reserved(x, y, b)' <=> Reserved(x, y, b))
       /\ \A x \in Server, b \in Addr : Usable(x, b)' <=> Usable(x, b)
  BY ZenonT(100), <1>2, <1>9 DEF Given, Reserved, Usable
<1>11. FreshUnknown' /\ KnownMapped'
  BY ZenonT(100), <1>2, <1>10, FreshKept, KnownKept
<1>12. PrepareSent' /\ AcceptSent' /\ AcceptQueued' /\ AcceptPolled'
  BY ZenonT(100), <1>2, <1>8, <1>9, <1>10, AcceptsKept
<1>13. TransferSent' /\ TransferQueued' /\ TransferPolled'
  BY ZenonT(100), <1>2, <1>8, <1>10, <1>f, TransfersKept
<1>14. DoneSent' /\ DoneQueued' /\ MovedPaired'
  <2>1. ASSUME NEW x \in Server, NEW y \in Server, NEW b \in Addr, Token(y, x, "DONE", b)'
        PROVE  phase'[x][b] = "moved" /\ pair(x, b)' = y /\ b \notin Range(incoming_dones'[x])
    <3>1. /\ phase[x][b] = "moved" /\ pair(x, b) = y /\ b \notin Range(incoming_dones[x])
          /\ ~(y = s /\ x = n /\ b = a)
      BY ZenonT(100), <1>8, <2>1 DEF MigrationInv, DoneSent
    <3>2. ~(x = n /\ b = a)
      BY ZenonT(100), <1>6, <3>1
    <3>. QED BY ZenonT(100), <1>2, <1>7, <1>9, <3>1, <3>2
  <2>2. DoneSent'
    BY ZenonT(100), <2>1 DEF DoneSent
  <2>3. ASSUME NEW x \in Server, NEW b \in Addr, b \in Range(incoming_dones'[x])
        PROVE  phase'[x][b] = "moved"
    <3>1. CASE x = n /\ b = a
      BY ZenonT(100), <1>2, <1>6, <3>1
    <3>2. CASE b \in Range(incoming_dones[x])
      BY ZenonT(100), <1>2, <3>2 DEF MigrationInv, DoneQueued
    <3>. QED BY ZenonT(100), <1>7, <2>3, <3>1, <3>2
  <2>4. MovedPaired'
    BY ZenonT(100), <1>2, <1>9 DEF MigrationInv, MovedPaired
  <2>. QED BY ZenonT(100), <2>2, <2>3, <2>4 DEF DoneQueued
<1>15. OneHolder'
  BY ZenonT(100), <1>2, <1>8, <1>9, <1>10, HolderKept
<1>16. QueuesDistinct'
  BY ZenonT(100), <1>2, <1>7 DEF MigrationInv, QueuesDistinct
<1>17. ReadKeyLive'
  <2>1. ~Token(n, s, "TRANSFER", a)
    BY ZenonT(100), <1>4, <1>5 DEF MigrationInv, TransferSent, Finishing
  <2>2. \A x, y \in Server, b \in Addr :
          registrations'[x][y][b] # registrations[x][y][b] => x = n /\ y = s /\ b = a
    <3>1. OnlyDiffers(n, s, a)
      BY ZenonT(100), <1>1, <1>2, DeregisterOnly
    <3>. QED BY ZenonT(100), <3>1 DEF OnlyDiffers
  <2>. QED BY <1>1, <1>3, <2>1, <2>2, KeysKept DEF MigrationInv
<1>. QED BY ZenonT(100), <1>3, <1>11, <1>12, <1>13, <1>14, <1>15, <1>16, <1>17 DEF MigrationInv
=============================================================================
