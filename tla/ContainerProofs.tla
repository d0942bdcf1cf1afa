--------------------------- MODULE ContainerProofs ---------------------------
(***************************************************************************)
(* Theorems about the containers, for every number of servers, objects,    *)
(* segments and migrations, when one container of the cluster migrates at  *)
(* a time (Alone), none returns before its old source has freed the        *)
(* segment (~EarlyReturn), no program instantiates a container once it has *)
(* freed a segment (~MayReuse), and none destroys a container that has no  *)
(* segment (~DestroyGone).                                                 *)
(*                                                                         *)
(* The inductive invariant says how far the one migration is that is under *)
(* way (FlowInv): exactly one message, queue entry or program holds the    *)
(* segment's turn at a time, and each phase says which copy of the segment *)
(* is the whole one and who may use it.  Each step of the hand-over leads  *)
(* from one phase to the next; the other steps keep the phase.             *)
(***************************************************************************)
EXTENDS Container, TLAPS

MsgType == {"PREPARE", "ACCEPT", "TRANSFER", "DONE"}
Block   == Nat \X Nat
Pool    == [mapped : BOOLEAN, unused_past : Nat, slot : Nat, blocks : SUBSET Block]

TypeInv ==
  /\ mem \in [Server -> [Addr -> Pool]]
  /\ pair \in [Server -> [Addr -> Server]]
  /\ wire \in [Server -> [Server -> Seq(MsgType \X Addr)]]
  /\ accepts \in [Server -> Seq(Addr)]
  /\ transfers \in [Server -> Seq(Addr)]
  /\ dones \in [Server -> Seq(Addr)]
  /\ mempool \in [Object -> Addr \cup {Null}]
  /\ rdma_memory \in [Object -> Addr \cup {Null}]
  /\ cont \in [Object -> Nat]
  /\ stage \in [Object -> Stage]
  /\ inserted \in [Addr -> SUBSET Block]

-----------------------------------------------------------------------------
(* What a segment holds.                                                   *)

\* The pool at a on n has every block of its container, below the high watermark.
Whole(n, a) ==
  /\ mem[n][a].mapped
  /\ mem[n][a].blocks = inserted[a] /\ inserted[a] # {}
  /\ mem[n][a].unused_past >= PoolStart
  /\ \A b \in inserted[a] : b[1] + b[2] <= mem[n][a].unused_past

\* Prepare has packed the address of the container object.
Packed(n, a) == mem[n][a].slot = PoolStart

\* No container uses the segment; none on n does.
Unused(a)  == \A o \in Object : stage[o] \in Using => mempool[o] # a
Away(n, a) == \A o \in Object : stage[o] \in Using /\ mempool[o] = a => Home[o] # n

\* The segment is between its two containers, and the whole copy of it on n.
Between(n, a) == Packed(n, a) /\ Whole(n, a) /\ Unused(a)

\* A container in use has its segment.
UseInv ==
  \A o \in Object : stage[o] \in Using =>
    mempool[o] \in Addr /\ Whole(Home[o], mempool[o]) /\ cont[o] = PoolStart

-----------------------------------------------------------------------------
(* How far the migration is that is under way.                             *)

Empty(q)         == \A n \in Server : q[n] = <<>>
HasOnly(q, n, a) == q[n] = <<a>> /\ \A m \in Server : m # n => q[m] = <<>>

Silent == \A n, m \in Server : wire[n][m] = <<>>
SaysOnly(n, m, type, a) ==
  /\ wire[n][m] = << <<type, a>> >>
  /\ \A x, y \in Server : x # n \/ y # m => wire[x][y] = <<>>

Receiving == {"received", "attached"}
NoSource  == \A o \in Object : stage[o] \notin Migrating
NoTarget  == \A o \in Object : stage[o] \notin Receiving

\* Container s, and no other, migrates with segment a from n to d.
Ends(s, n, d, a) ==
  /\ \A o \in Object : o # s => stage[o] \notin Migrating
  /\ Home[s] = n /\ mempool[s] = a /\ pair[n][a] = d /\ d # n
  /\ inserted[a] # {}

\* Container p, and no other, takes segment a on d.
Target(p, d, a, st) ==
  /\ \A o \in Object : o # p => stage[o] \notin Receiving
  /\ stage[p] = st /\ Home[p] = d /\ rdma_memory[p] = a

Announced(s, n, d, a) ==
  /\ stage[s] = "preparing" /\ NoTarget
  /\ SaysOnly(n, d, "PREPARE", a) /\ Empty(accepts) /\ Empty(transfers) /\ Empty(dones)
  /\ Packed(n, a) /\ ~mem[d][a].mapped

Answered(s, n, d, a) ==
  /\ stage[s] = "preparing" /\ NoTarget
  /\ SaysOnly(d, n, "ACCEPT", a) /\ Empty(accepts) /\ Empty(transfers) /\ Empty(dones)
  /\ pair[d][a] = n /\ Packed(n, a)

Queued(s, n, d, a) ==
  /\ stage[s] = "preparing" /\ NoTarget
  /\ Silent /\ HasOnly(accepts, n, a) /\ Empty(transfers) /\ Empty(dones)
  /\ pair[d][a] = n /\ Packed(n, a)

Agreed(s, n, d, a) ==
  /\ stage[s] = "accepted" /\ rdma_memory[s] = a /\ NoTarget
  /\ Silent /\ Empty(accepts) /\ Empty(transfers) /\ Empty(dones)
  /\ pair[d][a] = n /\ Packed(n, a)

Sent(s, n, d, a) ==
  /\ stage[s] = "moved" /\ rdma_memory[s] = a /\ NoTarget
  /\ SaysOnly(n, d, "TRANSFER", a) /\ Empty(accepts) /\ Empty(transfers) /\ Empty(dones)
  /\ pair[d][a] = n /\ Between(n, a)

Pulled(s, n, d, a) ==
  /\ stage[s] = "moved" /\ rdma_memory[s] = a /\ NoTarget
  /\ Silent /\ Empty(accepts) /\ HasOnly(transfers, d, a) /\ Empty(dones)
  /\ pair[d][a] = n /\ Between(d, a)

Taken(s, n, d, a) ==
  /\ stage[s] = "moved" /\ rdma_memory[s] = a /\ \E p \in Object : Target(p, d, a, "received")
  /\ Silent /\ Empty(accepts) /\ Empty(transfers) /\ Empty(dones)
  /\ pair[d][a] = n /\ Between(d, a)

Attached(s, n, d, a) ==
  /\ stage[s] = "moved" /\ rdma_memory[s] = a /\ \E p \in Object : Target(p, d, a, "attached")
  /\ Silent /\ Empty(accepts) /\ Empty(transfers) /\ Empty(dones)
  /\ pair[d][a] = n /\ Away(n, a)

Closing(s, n, d, a) ==
  /\ stage[s] = "moved" /\ rdma_memory[s] = a /\ NoTarget
  /\ SaysOnly(d, n, "DONE", a) /\ Empty(accepts) /\ Empty(transfers) /\ Empty(dones)
  /\ Away(n, a)

Closed(s, n, d, a) ==
  /\ stage[s] = "moved" /\ rdma_memory[s] = a /\ NoTarget
  /\ Silent /\ Empty(accepts) /\ Empty(transfers) /\ HasOnly(dones, n, a)
  /\ Away(n, a)

Phase(s, n, d, a) ==
  \/ Announced(s, n, d, a) \/ Answered(s, n, d, a) \/ Queued(s, n, d, a) \/ Agreed(s, n, d, a)
  \/ Sent(s, n, d, a) \/ Pulled(s, n, d, a) \/ Taken(s, n, d, a) \/ Attached(s, n, d, a)
  \/ Closing(s, n, d, a) \/ Closed(s, n, d, a)

\* No migration is under way.
Still ==
  /\ NoSource /\ NoTarget
  /\ Silent /\ Empty(accepts) /\ Empty(transfers) /\ Empty(dones)

FlowInv ==
  Still \/ \E s \in Object, n, d \in Server, a \in Addr : Ends(s, n, d, a) /\ Phase(s, n, d, a)

\* The inductive invariant.
ContainerInv ==
  TypeInv /\ UseInv /\ FlowInv /\ OneUser /\ BlocksDisjoint /\ NoFault

USE SMTT(100)

-----------------------------------------------------------------------------
(* Updates, sequences and pools.                                           *)

LEMMA Strings ==
  /\ "new" \notin Using /\ "new" \notin Migrating /\ "new" \notin Receiving
  /\ "used" \in Using /\ "used" \notin Migrating /\ "used" \notin Receiving
  /\ "preparing" \in Using /\ "preparing" \in Migrating /\ "preparing" \notin Receiving
  /\ "accepted" \in Using /\ "accepted" \in Migrating /\ "accepted" \notin Receiving
  /\ "moved" \notin Using /\ "moved" \in Migrating /\ "moved" \notin Receiving
  /\ "gone" \notin Using /\ "gone" \notin Migrating /\ "gone" \notin Receiving
  /\ "received" \notin Using /\ "received" \notin Migrating /\ "received" \in Receiving
  /\ "attached" \in Using /\ "attached" \notin Migrating /\ "attached" \in Receiving
  /\ "destroyed" \notin Using /\ "destroyed" \notin Migrating /\ "destroyed" \notin Receiving
  /\ Stage = {"new", "used", "preparing", "accepted", "moved", "gone", "received", "attached",
              "destroyed"}
BY DEF Using, Migrating, Receiving, Stage

\* An update of a function at one place.
LEMMA Update ==
  ASSUME NEW S, NEW T, NEW f \in [S -> T], NEW g, NEW x \in S, NEW v \in T,
         g = [f EXCEPT ![x] = v]
  PROVE  /\ g \in [S -> T] /\ g[x] = v
         /\ \A y \in S : y # x => g[y] = f[y]
OBVIOUS

\* An update of a function of two arguments.
LEMMA Update2 ==
  ASSUME NEW S, NEW R, NEW T, NEW f \in [S -> [R -> T]], NEW g, NEW x \in S, NEW y \in R,
         NEW v \in T, g = [f EXCEPT ![x][y] = v]
  PROVE  /\ g \in [S -> [R -> T]] /\ g[x][y] = v
         /\ \A u \in S, w \in R : u # x \/ w # y => g[u][w] = f[u][w]
OBVIOUS

\* Queues and wires that hold one element.
LEMMA One ==
  ASSUME NEW T, NEW e \in T
  PROVE  /\ Append(<<>>, e) = <<e>> /\ Head(<<e>>) = e /\ Tail(<<e>>) = <<>> /\ <<e>> # <<>>
         /\ <<e>> \in Seq(T) /\ <<>> \in Seq(T)
OBVIOUS

LEMMA HomeType == \A o \in Object : Home[o] \in Server
BY ContainerAssumption

\* Pools with one field changed.
LEMMA PoolFields ==
  ASSUME NEW pool \in Pool
  PROVE  /\ \A v \in BOOLEAN : [pool EXCEPT !.mapped = v] \in Pool
         /\ \A v \in Nat : [pool EXCEPT !.unused_past = v] \in Pool
         /\ \A v \in Nat : [pool EXCEPT !.slot = v] \in Pool
         /\ \A v \in SUBSET Block : [pool EXCEPT !.blocks = v] \in Pool
         /\ pool.unused_past \in Nat /\ pool.slot \in Nat /\ pool.blocks \in SUBSET Block
BY DEF Pool

\* What MemoryPool::allocate makes of a pool.
LEMMA AllocateIs ==
  ASSUME NEW pool \in Pool, NEW k \in Nat
  PROVE  /\ PoolAllocate(pool, k) \in Pool
         /\ PoolAllocate(pool, k).mapped = pool.mapped
         /\ PoolAllocate(pool, k).slot = pool.slot
         /\ PoolAllocate(pool, k).unused_past = pool.unused_past + k
         /\ PoolAllocate(pool, k).blocks = pool.blocks \cup {<<pool.unused_past, k>>}
<1> DEFINE u == pool.unused_past + k
           b == pool.blocks \cup {<<pool.unused_past, k>>}
           half == [pool EXCEPT !.blocks = b]
<1>1. u \in Nat /\ b \in SUBSET Block
  BY PoolFields DEF Block
<1>2. PoolAllocate(pool, k) = [half EXCEPT !.unused_past = u]
  BY Zenon DEF PoolAllocate
<1>3. half \in Pool
  BY Zenon, <1>1, PoolFields
<1>4. [half EXCEPT !.unused_past = u] \in Pool
  <2>. HIDE DEF half, u
  <2>. QED BY Zenon, <1>1, <1>3, PoolFields
<1>5. PoolAllocate(pool, k) \in Pool
  BY Zenon, <1>2, <1>4
<1>6. PoolAllocate(pool, k).mapped = pool.mapped /\ PoolAllocate(pool, k).slot = pool.slot
  BY DEF PoolAllocate, Pool
<1>7. PoolAllocate(pool, k).unused_past = pool.unused_past + k
  BY DEF PoolAllocate, Pool
<1>8. PoolAllocate(pool, k).blocks = pool.blocks \cup {<<pool.unused_past, k>>}
  BY DEF PoolAllocate, Pool
<1>. QED BY Zenon, <1>5, <1>6, <1>7, <1>8

LEMMA EmptyPools == Unmapped \in Pool /\ Zeroed \in Pool
<1>1. Unmapped \in Pool
  BY DEF Unmapped, Pool
<1>. QED BY Zenon, <1>1, PoolFields DEF Zeroed

\* The pool that instantiate leaves.
LEMMA SetUpIs ==
  LET pool == PoolAllocate(SetUpAllocator, ObjectLen) IN
  /\ pool \in Pool /\ pool.mapped /\ pool.unused_past = PoolStart + ObjectLen
  /\ pool.blocks = {<<PoolStart, ObjectLen>>}
<1>1. /\ SetUpAllocator.mapped /\ SetUpAllocator.unused_past = PoolStart
      /\ SetUpAllocator.blocks = {}
  BY DEF SetUpAllocator, Zeroed, Unmapped
<1>2. SetUpAllocator \in Pool /\ ObjectLen \in Nat
  <2>1. PoolStart \in Nat /\ ObjectLen \in Nat
    BY DEF PoolStart, ObjectLen
  <2>. QED BY Zenon, <2>1, EmptyPools, PoolFields DEF SetUpAllocator
<1> DEFINE pool == PoolAllocate(SetUpAllocator, ObjectLen)
<1>3. /\ pool \in Pool /\ pool.mapped = SetUpAllocator.mapped
      /\ pool.unused_past = SetUpAllocator.unused_past + ObjectLen
      /\ pool.blocks = SetUpAllocator.blocks \cup {<<SetUpAllocator.unused_past, ObjectLen>>}
  BY Zenon, <1>2, AllocateIs
<1>. HIDE DEF pool
<1>4. /\ pool \in Pool /\ pool.mapped /\ pool.unused_past = PoolStart + ObjectLen
      /\ pool.blocks = {<<PoolStart, ObjectLen>>}
  BY <1>1, <1>3
<1>. QED BY Zenon, <1>4 DEF pool

\* The poller finds the message that is under way, and no other.
LEMMA MessageIs ==
  ASSUME NEW n \in Server, NEW m \in Server, NEW type, NEW a \in Addr, SaysOnly(n, m, type, a),
         type \in MsgType,
         NEW x \in Server, NEW y \in Server, NEW t, Message(x, y, t)
  PROVE  x = m /\ y = n /\ t = type /\ Named(x, y) = a /\ wire[y][x] = << <<type, a>> >>
<1>1. wire[y][x] # <<>> /\ Head(wire[y][x])[1] = t
  BY Zenon DEF Message
<1>2. y = n /\ x = m /\ wire[y][x] = << <<type, a>> >>
  BY Zenon, <1>1 DEF SaysOnly
<1>3. Head(wire[y][x]) = <<type, a>>
  BY <1>2
<1>. QED BY <1>1, <1>2, <1>3 DEF Named

LEMMA NoMessage ==
  ASSUME Silent, NEW x \in Server, NEW y \in Server, NEW t, Message(x, y, t)
  PROVE  FALSE
BY Zenon DEF Silent, Message

\* What a program finds at the head of a queue.
LEMMA PeekIs ==
  ASSUME NEW q, NEW n \in Server, NEW a \in Addr, HasOnly(q, n, a), NEW x \in Server
  PROVE  /\ x = n => Peek(q, x) = a /\ Tail(q[x]) = <<>>
         /\ x # n => Peek(q, x) = Null
<1>1. x = n => q[x] = <<a>>
  BY Zenon DEF HasOnly
<1>2. x # n => q[x] = <<>>
  BY Zenon DEF HasOnly
<1>3. x = n => Peek(q, x) = a /\ Tail(q[x]) = <<>>
  <2>. SUFFICES ASSUME x = n PROVE Peek(q, x) = a /\ Tail(q[x]) = <<>>
    OBVIOUS
  <2>1. q[x] = <<a>>
    BY Zenon, <1>1
  <2>2. Head(q[x]) = a /\ Tail(q[x]) = <<>> /\ q[x] # <<>>
    BY Zenon, <2>1, One
  <2>. QED BY Zenon, <2>2 DEF Peek
<1>4. x # n => Peek(q, x) = Null
  BY Zenon, <1>2 DEF Peek
<1>. QED BY Zenon, <1>3, <1>4

LEMMA PeekNone ==
  ASSUME NEW q, Empty(q), NEW x \in Server
  PROVE  Peek(q, x) = Null
BY Zenon DEF Empty, Peek

\* The queues after an element was added to, or taken from, the only one that counts.
LEMMA EnqueueIs ==
  ASSUME NEW q \in [Server -> Seq(Addr)], NEW r, Empty(q), NEW n \in Server, NEW a \in Addr,
         r = Enqueue(q, n, a)
  PROVE  r \in [Server -> Seq(Addr)] /\ HasOnly(r, n, a)
<1>1. q[n] = <<>> /\ r = [q EXCEPT ![n] = Append(q[n], a)]
  BY DEF Empty, Enqueue
<1>2. r = [q EXCEPT ![n] = <<a>>] /\ <<a>> \in Seq(Addr)
  BY <1>1
<1>3. r \in [Server -> Seq(Addr)] /\ r[n] = <<a>> /\ \A y \in Server : y # n => r[y] = q[y]
  BY <1>2
<1>. QED BY Zenon, <1>3 DEF Empty, HasOnly

LEMMA DequeueIs ==
  ASSUME NEW q \in [Server -> Seq(Addr)], NEW r, NEW n \in Server, NEW a \in Addr,
         HasOnly(q, n, a), r = Dequeue(q, n)
  PROVE  r \in [Server -> Seq(Addr)] /\ Empty(r)
<1>1. q[n] = <<a>> /\ r = [q EXCEPT ![n] = Tail(q[n])]
  BY DEF HasOnly, Dequeue
<1>2. r = [q EXCEPT ![n] = <<>>] /\ <<>> \in Seq(Addr)
  BY <1>1
<1>3. r \in [Server -> Seq(Addr)] /\ r[n] = <<>> /\ \A y \in Server : y # n => r[y] = q[y]
  BY <1>2
<1>. QED BY Zenon, <1>3 DEF Empty, HasOnly

\* The wires after a message was sent, received, or answered.
LEMMA SendIs ==
  ASSUME TypeInv, Silent, NEW n \in Server, NEW m \in Server, NEW type \in MsgType, NEW a \in Addr,
         Send(n, m, type, a)
  PROVE  wire' \in [Server -> [Server -> Seq(MsgType \X Addr)]] /\ SaysOnly(n, m, type, a)'
<1>1. wire[n][m] = <<>> /\ wire' = [wire EXCEPT ![n][m] = Append(wire[n][m], <<type, a>>)]
  BY DEF Silent, Send
<1>2. /\ wire' = [wire EXCEPT ![n][m] = << <<type, a>> >>]
      /\ << <<type, a>> >> \in Seq(MsgType \X Addr)
  BY <1>1
<1>3. wire \in [Server -> [Server -> Seq(MsgType \X Addr)]]
  BY Zenon DEF TypeInv
<1>4. /\ wire' \in [Server -> [Server -> Seq(MsgType \X Addr)]]
      /\ wire'[n][m] = << <<type, a>> >>
      /\ \A x, y \in Server : x # n \/ y # m => wire'[x][y] = wire[x][y]
  BY ZenonT(100), <1>2, <1>3, Update2
<1>. QED BY Zenon, <1>4 DEF Silent, SaysOnly

LEMMA ReceivedIs ==
  ASSUME TypeInv, NEW n \in Server, NEW m \in Server, NEW type, NEW a \in Addr,
         SaysOnly(n, m, type, a), Received(m, n)
  PROVE  wire' \in [Server -> [Server -> Seq(MsgType \X Addr)]] /\ Silent'
<1>1. wire[n][m] = << <<type, a>> >> /\ wire' = [wire EXCEPT ![n][m] = Tail(wire[n][m])]
  BY DEF SaysOnly, Received
<1>2. wire' = [wire EXCEPT ![n][m] = <<>>] /\ <<>> \in Seq(MsgType \X Addr)
  BY <1>1
<1>3. wire \in [Server -> [Server -> Seq(MsgType \X Addr)]]
  BY Zenon DEF TypeInv
<1>4. /\ wire' \in [Server -> [Server -> Seq(MsgType \X Addr)]]
      /\ wire'[n][m] = <<>>
      /\ \A x, y \in Server : x # n \/ y # m => wire'[x][y] = wire[x][y]
  BY ZenonT(100), <1>2, <1>3, Update2
<1>5. \A x, y \in Server : wire'[x][y] = <<>>
  <2>. TAKE x, y \in Server
  <2>1. CASE x = n /\ y = m
    BY Zenon, <2>1, <1>4
  <2>2. CASE x # n \/ y # m
    <3>1. wire'[x][y] = wire[x][y]
      BY Zenon, <2>2, <1>4
    <3>2. wire[x][y] = <<>>
      BY Zenon, <2>2 DEF SaysOnly
    <3>. QED BY Zenon, <3>1, <3>2
  <2>. QED BY Zenon, <2>1, <2>2
<1>. QED BY Zenon, <1>4, <1>5 DEF Silent

LEMMA AnswerIs ==
  ASSUME TypeInv, NEW n \in Server, NEW m \in Server, n # m, NEW type, NEW a \in Addr,
         SaysOnly(n, m, type, a), NEW t \in MsgType, Answer(m, n, t, a)
  PROVE  wire' \in [Server -> [Server -> Seq(MsgType \X Addr)]] /\ SaysOnly(m, n, t, a)'
<1> DEFINE half == [wire EXCEPT ![n][m] = Tail(wire[n][m])]
<1>0. wire \in [Server -> [Server -> Seq(MsgType \X Addr)]]
  BY Zenon DEF TypeInv
<1>1. /\ wire[n][m] = << <<type, a>> >> /\ wire[m][n] = <<>>
      /\ wire' = [half EXCEPT ![m][n] = Append(wire[m][n], <<t, a>>)]
  <2>1. wire[n][m] = << <<type, a>> >> /\ wire[m][n] = <<>>
    BY DEF SaysOnly
  <2>2. wire' = [half EXCEPT ![m][n] = Append(wire[m][n], <<t, a>>)]
    BY <1>0 DEF Answer
  <2>. QED BY <2>1, <2>2
<1>2. half = [wire EXCEPT ![n][m] = <<>>] /\ <<>> \in Seq(MsgType \X Addr)
  BY <1>1
<1>3. wire' = [half EXCEPT ![m][n] = << <<t, a>> >>] /\ << <<t, a>> >> \in Seq(MsgType \X Addr)
  BY <1>1
<1>. HIDE DEF half
<1>4. /\ half \in [Server -> [Server -> Seq(MsgType \X Addr)]]
      /\ half[n][m] = <<>>
      /\ \A x, y \in Server : x # n \/ y # m => half[x][y] = wire[x][y]
  BY ZenonT(100), <1>0, <1>2, Update2
<1>5. /\ wire' \in [Server -> [Server -> Seq(MsgType \X Addr)]]
      /\ wire'[m][n] = << <<t, a>> >>
      /\ \A x, y \in Server : x # m \/ y # n => wire'[x][y] = half[x][y]
  BY ZenonT(100), <1>3, <1>4, Update2
<1>6. \A x, y \in Server : x # m \/ y # n => wire'[x][y] = <<>>
  <2>. SUFFICES ASSUME NEW x \in Server, NEW y \in Server, x # m \/ y # n
                PROVE  wire'[x][y] = <<>>
    BY Zenon
  <2>0. wire'[x][y] = half[x][y]
    BY Zenon, <1>5
  <2>1. CASE x = n /\ y = m
    BY Zenon, <2>0, <2>1, <1>4
  <2>2. CASE x # n \/ y # m
    <3>1. half[x][y] = wire[x][y]
      BY Zenon, <2>2, <1>4
    <3>2. wire[x][y] = <<>>
      BY Zenon, <2>2 DEF SaysOnly
    <3>. QED BY Zenon, <2>0, <3>1, <3>2
  <2>. QED BY Zenon, <2>1, <2>2
<1>. QED BY Zenon, <1>5, <1>6 DEF SaysOnly

-----------------------------------------------------------------------------
(* The phase that a step of the hand-over finds.                           *)

\* The message t that x has from y is the one of the phase.
MessageOf(x, y, t) ==
  \E s \in Object, n, d \in Server, a \in Addr :
    /\ Ends(s, n, d, a) /\ Named(x, y) = a
    /\ \/ t = "PREPARE" /\ x = d /\ y = n /\ Announced(s, n, d, a)
       \/ t = "ACCEPT" /\ x = n /\ y = d /\ Answered(s, n, d, a)
       \/ t = "TRANSFER" /\ x = d /\ y = n /\ Sent(s, n, d, a)
       \/ t = "DONE" /\ x = n /\ y = d /\ Closing(s, n, d, a)

LEMMA WhenMessage ==
  ASSUME FlowInv, NEW x \in Server, NEW y \in Server, NEW t, Message(x, y, t)
  PROVE  MessageOf(x, y, t)
<1>1. ~Silent
  BY Zenon, NoMessage
<1>2. ~Still
  BY Zenon, <1>1 DEF Still
<1>3. PICK s \in Object, n, d \in Server, a \in Addr : Ends(s, n, d, a) /\ Phase(s, n, d, a)
  BY Zenon, <1>2 DEF FlowInv
<1>4. {"PREPARE", "ACCEPT", "TRANSFER", "DONE"} = MsgType
  BY Zenon DEF MsgType
<1>5. CASE Announced(s, n, d, a)
  <2>1. SaysOnly(n, d, "PREPARE", a) /\ "PREPARE" \in MsgType
    BY Zenon, <1>4, <1>5 DEF Announced
  <2>2. x = d /\ y = n /\ t = "PREPARE" /\ Named(x, y) = a
    BY <2>1, MessageIs
  <2>. QED BY Zenon, <1>3, <1>5, <2>2 DEF MessageOf
<1>6. CASE Answered(s, n, d, a)
  <2>1. SaysOnly(d, n, "ACCEPT", a) /\ "ACCEPT" \in MsgType
    BY Zenon, <1>4, <1>6 DEF Answered
  <2>2. x = n /\ y = d /\ t = "ACCEPT" /\ Named(x, y) = a
    BY <2>1, MessageIs
  <2>. QED BY Zenon, <1>3, <1>6, <2>2 DEF MessageOf
<1>7. CASE Sent(s, n, d, a)
  <2>1. SaysOnly(n, d, "TRANSFER", a) /\ "TRANSFER" \in MsgType
    BY Zenon, <1>4, <1>7 DEF Sent
  <2>2. x = d /\ y = n /\ t = "TRANSFER" /\ Named(x, y) = a
    BY <2>1, MessageIs
  <2>. QED BY Zenon, <1>3, <1>7, <2>2 DEF MessageOf
<1>8. CASE Closing(s, n, d, a)
  <2>1. SaysOnly(d, n, "DONE", a) /\ "DONE" \in MsgType
    BY Zenon, <1>4, <1>8 DEF Closing
  <2>2. x = n /\ y = d /\ t = "DONE" /\ Named(x, y) = a
    BY <2>1, MessageIs
  <2>. QED BY Zenon, <1>3, <1>8, <2>2 DEF MessageOf
<1>9. ~Queued(s, n, d, a) /\ ~Agreed(s, n, d, a) /\ ~Pulled(s, n, d, a) /\ ~Taken(s, n, d, a)
  BY Zenon, <1>1 DEF Queued, Agreed, Pulled, Taken
<1>10. ~Attached(s, n, d, a) /\ ~Closed(s, n, d, a)
  BY Zenon, <1>1 DEF Attached, Closed
<1>. QED BY Zenon, <1>3, <1>5, <1>6, <1>7, <1>8, <1>9, <1>10 DEF Phase

\* A program that migrates a container is the one of the migration under way.
LEMMA WhenMigrating ==
  ASSUME FlowInv, NEW o \in Object, stage[o] \in Migrating
  PROVE  \E n, d \in Server, a \in Addr : Ends(o, n, d, a) /\ Phase(o, n, d, a)
<1>1. ~Still
  BY Zenon DEF Still, NoSource
<1>2. PICK s \in Object, n, d \in Server, a \in Addr : Ends(s, n, d, a) /\ Phase(s, n, d, a)
  BY Zenon, <1>1 DEF FlowInv
<1>3. s = o
  BY Zenon, <1>2 DEF Ends
<1>. QED BY Zenon, <1>2, <1>3

\* PollForAccept finds the accept of its own segment.
LEMMA WhenAccepted ==
  ASSUME FlowInv, NEW o \in Object, stage[o] = "preparing", Peek(accepts, Home[o]) # Null
  PROVE  \E n, d \in Server, a \in Addr :
           Ends(o, n, d, a) /\ Queued(o, n, d, a) /\ Peek(accepts, Home[o]) = a
<1>1. PICK n, d \in Server, a \in Addr : Ends(o, n, d, a) /\ Phase(o, n, d, a)
  BY Zenon, WhenMigrating, Strings
<1>2. ~Empty(accepts)
  BY Zenon, PeekNone, HomeType
<1>3. /\ ~Announced(o, n, d, a) /\ ~Answered(o, n, d, a) /\ ~Agreed(o, n, d, a)
      /\ ~Sent(o, n, d, a) /\ ~Pulled(o, n, d, a)
  BY Zenon, <1>2 DEF Announced, Answered, Agreed, Sent, Pulled
<1>4. /\ ~Taken(o, n, d, a) /\ ~Attached(o, n, d, a) /\ ~Closing(o, n, d, a)
      /\ ~Closed(o, n, d, a)
  BY Zenon, <1>2 DEF Taken, Attached, Closing, Closed
<1>5. Queued(o, n, d, a)
  BY Zenon, <1>1, <1>3, <1>4 DEF Phase
<1>6. HasOnly(accepts, n, a) /\ Home[o] = n
  BY Zenon, <1>1, <1>5 DEF Queued, Ends
<1>7. Peek(accepts, Home[o]) = a
  BY Zenon, <1>6, PeekIs
<1>. QED BY Zenon, <1>1, <1>5, <1>7

LEMMA WhenAgreed ==
  ASSUME FlowInv, NEW o \in Object, stage[o] = "accepted"
  PROVE  \E n, d \in Server, a \in Addr : Ends(o, n, d, a) /\ Agreed(o, n, d, a)
<1>1. PICK n, d \in Server, a \in Addr : Ends(o, n, d, a) /\ Phase(o, n, d, a)
  BY Zenon, WhenMigrating, Strings
<1>2. /\ ~Announced(o, n, d, a) /\ ~Answered(o, n, d, a) /\ ~Queued(o, n, d, a)
      /\ ~Sent(o, n, d, a) /\ ~Pulled(o, n, d, a)
  BY DEF Announced, Answered, Queued, Sent, Pulled
<1>3. /\ ~Taken(o, n, d, a) /\ ~Attached(o, n, d, a) /\ ~Closing(o, n, d, a)
      /\ ~Closed(o, n, d, a)
  BY DEF Taken, Attached, Closing, Closed
<1>. QED BY Zenon, <1>1, <1>2, <1>3 DEF Phase

\* PollForTransfer finds the segment that was pulled.
LEMMA WhenPulled ==
  ASSUME FlowInv, NEW x \in Server, Peek(transfers, x) # Null
  PROVE  \E s \in Object, n, d \in Server, a \in Addr :
           /\ Ends(s, n, d, a) /\ Pulled(s, n, d, a)
           /\ x = d /\ Peek(transfers, x) = a
<1>1. ~Empty(transfers)
  BY Zenon, PeekNone
<1>2. ~Still
  BY Zenon, <1>1 DEF Still
<1>3. PICK s \in Object, n, d \in Server, a \in Addr : Ends(s, n, d, a) /\ Phase(s, n, d, a)
  BY Zenon, <1>2 DEF FlowInv
<1>4. /\ ~Announced(s, n, d, a) /\ ~Answered(s, n, d, a) /\ ~Queued(s, n, d, a)
      /\ ~Agreed(s, n, d, a) /\ ~Sent(s, n, d, a)
  BY Zenon, <1>1 DEF Announced, Answered, Queued, Agreed, Sent
<1>5. /\ ~Taken(s, n, d, a) /\ ~Attached(s, n, d, a) /\ ~Closing(s, n, d, a)
      /\ ~Closed(s, n, d, a)
  BY Zenon, <1>1 DEF Taken, Attached, Closing, Closed
<1>6. Pulled(s, n, d, a)
  BY Zenon, <1>3, <1>4, <1>5 DEF Phase
<1>7. HasOnly(transfers, d, a)
  BY Zenon, <1>6 DEF Pulled
<1>8. /\ x = d => Peek(transfers, x) = a
      /\ x # d => Peek(transfers, x) = Null
  BY <1>7, PeekIs
<1>9. x = d /\ Peek(transfers, x) = a
  BY Zenon, <1>8
<1>. QED BY Zenon, <1>3, <1>6, <1>9

\* PollForClose finds the close of its own segment.
LEMMA WhenClosed ==
  ASSUME FlowInv, NEW o \in Object, stage[o] = "moved", Peek(dones, Home[o]) = mempool[o]
  PROVE  \E n, d \in Server, a \in Addr : Ends(o, n, d, a) /\ Closed(o, n, d, a)
<1>1. PICK n, d \in Server, a \in Addr : Ends(o, n, d, a) /\ Phase(o, n, d, a)
  BY Zenon, WhenMigrating, Strings
<1>2. mempool[o] # Null
  BY Zenon, <1>1, ContainerAssumption DEF Ends
<1>3. ~Empty(dones)
  BY Zenon, <1>2, PeekNone, HomeType
<1>4. /\ ~Announced(o, n, d, a) /\ ~Answered(o, n, d, a) /\ ~Queued(o, n, d, a)
      /\ ~Agreed(o, n, d, a) /\ ~Sent(o, n, d, a)
  BY Zenon, <1>3 DEF Announced, Answered, Queued, Agreed, Sent
<1>5. /\ ~Pulled(o, n, d, a) /\ ~Taken(o, n, d, a) /\ ~Attached(o, n, d, a)
      /\ ~Closing(o, n, d, a)
  BY Zenon, <1>3 DEF Pulled, Taken, Attached, Closing
<1>. QED BY Zenon, <1>1, <1>4, <1>5 DEF Phase

\* A program that has received a segment, or attached it, is the target of the migration.
LEMMA WhenReceiving ==
  ASSUME FlowInv, NEW p \in Object, NEW st \in Receiving, stage[p] = st
  PROVE  \E s \in Object, n, d \in Server, a \in Addr :
           /\ Ends(s, n, d, a) /\ Target(p, d, a, st)
           /\ \/ st = "received" /\ Taken(s, n, d, a)
              \/ st = "attached" /\ Attached(s, n, d, a)
<1>1. ~NoTarget
  BY Zenon DEF NoTarget
<1>2. ~Still
  BY Zenon, <1>1 DEF Still
<1>3. PICK s \in Object, n, d \in Server, a \in Addr : Ends(s, n, d, a) /\ Phase(s, n, d, a)
  BY Zenon, <1>2 DEF FlowInv
<1>4. /\ ~Announced(s, n, d, a) /\ ~Answered(s, n, d, a) /\ ~Queued(s, n, d, a)
      /\ ~Agreed(s, n, d, a) /\ ~Sent(s, n, d, a)
  BY Zenon, <1>1 DEF Announced, Answered, Queued, Agreed, Sent
<1>5. ~Pulled(s, n, d, a) /\ ~Closing(s, n, d, a) /\ ~Closed(s, n, d, a)
  BY Zenon, <1>1 DEF Pulled, Closing, Closed
<1>6. CASE Taken(s, n, d, a)
  <2>1. PICK q \in Object : Target(q, d, a, "received")
    BY Zenon, <1>6 DEF Taken
  <2>2. q = p
    BY Zenon, <2>1 DEF Target
  <2>3. st = "received"
    BY Zenon, <2>1, <2>2 DEF Target
  <2>. QED BY Zenon, <1>3, <1>6, <2>1, <2>2, <2>3
<1>7. CASE Attached(s, n, d, a)
  <2>1. PICK q \in Object : Target(q, d, a, "attached")
    BY Zenon, <1>7 DEF Attached
  <2>2. q = p
    BY Zenon, <2>1 DEF Target
  <2>3. st = "attached"
    BY Zenon, <2>1, <2>2 DEF Target
  <2>. QED BY Zenon, <1>3, <1>7, <2>1, <2>2, <2>3
<1>. QED BY Zenon, <1>3, <1>4, <1>5, <1>6, <1>7 DEF Phase

\* No migration is under way when Prepare is called.
LEMMA WhenStill ==
  ASSUME FlowInv, NoSource
  PROVE  Still
<1>. SUFFICES ASSUME NEW s \in Object, NEW n \in Server, NEW d \in Server, NEW a \in Addr,
                     Phase(s, n, d, a)
              PROVE  FALSE
  BY Zenon DEF FlowInv
<1>1. stage[s] # "preparing" /\ stage[s] # "accepted" /\ stage[s] # "moved"
  BY Zenon, Strings DEF NoSource
<1>2. /\ ~Announced(s, n, d, a) /\ ~Answered(s, n, d, a) /\ ~Queued(s, n, d, a)
      /\ ~Agreed(s, n, d, a) /\ ~Sent(s, n, d, a)
  BY Zenon, <1>1 DEF Announced, Answered, Queued, Agreed, Sent
<1>3. /\ ~Pulled(s, n, d, a) /\ ~Taken(s, n, d, a) /\ ~Attached(s, n, d, a)
      /\ ~Closing(s, n, d, a) /\ ~Closed(s, n, d, a)
  BY Zenon, <1>1 DEF Pulled, Taken, Attached, Closing, Closed
<1>. QED BY Zenon, <1>2, <1>3 DEF Phase

-----------------------------------------------------------------------------
(* Updates of the variables.                                               *)

\* The step writes v at address a of server n.
MemWrite(n, a, v) ==
  /\ mem' \in [Server -> [Addr -> Pool]] /\ mem'[n][a] = v
  /\ \A x \in Server, y \in Addr : x # n \/ y # a => mem'[x][y] = mem[x][y]

LEMMA MemUpdate ==
  ASSUME TypeInv, NEW n \in Server, NEW a \in Addr, NEW v \in Pool,
         mem' = [mem EXCEPT ![n][a] = v]
  PROVE  MemWrite(n, a, v)
<1>1. mem \in [Server -> [Addr -> Pool]]
  BY Zenon DEF TypeInv
<1>. QED BY <1>1 DEF MemWrite

LEMMA InsertedUpdate ==
  ASSUME TypeInv, NEW a \in Addr, NEW v \in SUBSET Block, inserted' = [inserted EXCEPT ![a] = v]
  PROVE  /\ inserted' \in [Addr -> SUBSET Block] /\ inserted'[a] = v
         /\ \A y \in Addr : y # a => inserted'[y] = inserted[y]
<1>1. inserted \in [Addr -> SUBSET Block]
  BY Zenon DEF TypeInv
<1>. QED BY <1>1

LEMMA StageUpdate ==
  ASSUME TypeInv, NEW o \in Object, NEW v \in Stage, GoTo(o, v)
  PROVE  /\ stage' \in [Object -> Stage] /\ stage'[o] = v
         /\ \A q \in Object : q # o => stage'[q] = stage[q]
<1>1. stage \in [Object -> Stage] /\ stage' = [stage EXCEPT ![o] = v]
  BY Zenon DEF TypeInv, GoTo
<1>. QED BY <1>1

LEMMA RdmaUpdate ==
  ASSUME TypeInv, NEW o \in Object, NEW v \in Addr, rdma_memory' = [rdma_memory EXCEPT ![o] = v]
  PROVE  /\ rdma_memory' \in [Object -> Addr \cup {Null}] /\ rdma_memory'[o] = v
         /\ \A q \in Object : q # o => rdma_memory'[q] = rdma_memory[q]
<1>1. rdma_memory \in [Object -> Addr \cup {Null}]
  BY Zenon DEF TypeInv
<1>. QED BY <1>1

LEMMA PoolUpdate ==
  ASSUME TypeInv, NEW o \in Object, NEW v \in Addr, mempool' = [mempool EXCEPT ![o] = v]
  PROVE  /\ mempool' \in [Object -> Addr \cup {Null}] /\ mempool'[o] = v
         /\ \A q \in Object : q # o => mempool'[q] = mempool[q]
<1>1. mempool \in [Object -> Addr \cup {Null}]
  BY Zenon DEF TypeInv
<1>. QED BY <1>1

LEMMA ContUpdate ==
  ASSUME TypeInv, NEW o \in Object, NEW v \in Nat, SetContainerAddress(o, v)
  PROVE  /\ cont' \in [Object -> Nat] /\ cont'[o] = v
         /\ \A q \in Object : q # o => cont'[q] = cont[q]
<1>1. cont \in [Object -> Nat] /\ cont' = [cont EXCEPT ![o] = v]
  BY Zenon DEF TypeInv, SetContainerAddress
<1>. QED BY <1>1

\* The step makes v the pair of a on n.
PairWrite(n, a, v) ==
  /\ pair' \in [Server -> [Addr -> Server]] /\ pair'[n][a] = v
  /\ \A x \in Server, y \in Addr : x # n \/ y # a => pair'[x][y] = pair[x][y]

LEMMA PairUpdate ==
  ASSUME TypeInv, NEW n \in Server, NEW a \in Addr, NEW v \in Server, UpdatePair(n, a, v)
  PROVE  PairWrite(n, a, v)
<1>1. pair \in [Server -> [Addr -> Server]] /\ pair' = [pair EXCEPT ![n][a] = v]
  BY Zenon DEF TypeInv, UpdatePair
<1>. QED BY <1>1 DEF PairWrite

-----------------------------------------------------------------------------
(* What a step leaves alone.                                               *)

\* The pool at a on n keeps its blocks and its high watermark.
SamePool(n, a) ==
  /\ mem'[n][a].mapped = mem[n][a].mapped
  /\ mem'[n][a].blocks = mem[n][a].blocks
  /\ mem'[n][a].unused_past = mem[n][a].unused_past

LEMMA WholeKept ==
  ASSUME NEW n, NEW a, Whole(n, a), SamePool(n, a), inserted'[a] = inserted[a]
  PROVE  Whole(n, a)'
<1>1. mem'[n][a].mapped /\ mem'[n][a].blocks = inserted'[a] /\ inserted'[a] # {}
  BY Zenon DEF Whole, SamePool
<1>2. mem'[n][a].unused_past >= PoolStart
  BY Zenon DEF Whole, SamePool
<1>3. \A b \in inserted'[a] : b[1] + b[2] <= mem'[n][a].unused_past
  BY Zenon DEF Whole, SamePool
<1>. QED BY Zenon, <1>1, <1>2, <1>3 DEF Whole

\* The containers in use after the step were in use before it, with the same segment.
SameUsers ==
  \A o \in Object : stage'[o] \in Using =>
    stage[o] \in Using /\ mempool'[o] = mempool[o] /\ cont'[o] = cont[o]

LEMMA UseKept ==
  ASSUME UseInv, SameUsers, inserted' = inserted,
         \A o \in Object : stage'[o] \in Using => SamePool(Home[o], mempool[o])
  PROVE  UseInv'
<1>. SUFFICES ASSUME NEW o \in Object, stage'[o] \in Using
              PROVE  /\ mempool'[o] \in Addr /\ cont'[o] = PoolStart
                     /\ Whole(Home[o], mempool[o])'
  BY Zenon DEF UseInv
<1>1. stage[o] \in Using /\ mempool'[o] = mempool[o] /\ cont'[o] = cont[o]
  BY Zenon DEF SameUsers
<1>2. mempool[o] \in Addr /\ cont[o] = PoolStart /\ Whole(Home[o], mempool[o])
  BY Zenon, <1>1 DEF UseInv
<1>3. PICK a \in Addr : a = mempool[o]
  BY Zenon, <1>2
<1>4. Whole(Home[o], a)'
  <2>1. Whole(Home[o], a) /\ SamePool(Home[o], a) /\ inserted'[a] = inserted[a]
    BY Zenon, <1>2, <1>3
  <2>. QED BY Zenon, <2>1, WholeKept
<1>5. Whole(Home[o], mempool[o])'
  BY Zenon, <1>1, <1>3, <1>4 DEF Whole
<1>. QED BY Zenon, <1>1, <1>2, <1>5

LEMMA OneUserKept == ASSUME OneUser, SameUsers PROVE OneUser'
BY Zenon DEF OneUser, SameUsers

LEMMA BlocksKept ==
  ASSUME BlocksDisjoint, inserted' = inserted
  PROVE  BlocksDisjoint'
BY Zenon DEF BlocksDisjoint

LEMMA BetweenKept ==
  ASSUME NEW n, NEW a, Between(n, a), mem'[n][a] = mem[n][a], inserted'[a] = inserted[a],
         Unused(a)'
  PROVE  Between(n, a)'
<1>1. Packed(n, a)'
  BY Zenon DEF Between, Packed
<1>2. Whole(n, a)'
  BY Zenon, WholeKept DEF Between, SamePool
<1>. QED BY Zenon, <1>1, <1>2 DEF Between

-----------------------------------------------------------------------------
(* Steps that keep the phase.                                              *)

Busy == Migrating \cup Receiving

\* What such a step leaves to the migration under way.
Aside ==
  /\ UNCHANGED <<pair, wire, accepts, transfers, dones, rdma_memory>>
  /\ \A q \in Object : \/ stage'[q] = stage[q] /\ mempool'[q] = mempool[q]
                       \/ stage[q] \notin Busy /\ stage'[q] \notin Busy
  /\ \A a \in Addr : inserted[a] # {} => inserted'[a] # {}
  /\ \A s \in Object, a \in Addr :
       stage[s] \in Using /\ stage[s] \in Migrating /\ mempool[s] = a /\ Packed(Home[s], a)
         => mem'[Home[s]][a].slot = PoolStart
  /\ \A n \in Server, a \in Addr : Between(n, a) => Between(n, a)'
  /\ \A n \in Server, a \in Addr : inserted[a] # {} /\ Away(n, a) => Away(n, a)'
  /\ \A n \in Server, a \in Addr :
       inserted[a] # {} /\ ~mem[n][a].mapped => ~mem'[n][a].mapped

LEMMA AsideKeeps == ASSUME FlowInv, Aside PROVE FlowInv'
<1>1. /\ Silent => Silent'
      /\ Empty(accepts) => Empty(accepts)'
      /\ Empty(transfers) => Empty(transfers)'
      /\ Empty(dones) => Empty(dones)'
  BY Zenon DEF Aside, Silent, Empty
<1>2. NoSource => NoSource'
  BY Zenon DEF Aside, NoSource, Busy
<1>3. NoTarget => NoTarget'
  BY Zenon DEF Aside, NoTarget, Busy
<1>4. CASE Still
  BY Zenon, <1>1, <1>2, <1>3, <1>4 DEF Still, Empty, FlowInv
<1>5. ASSUME NEW s \in Object, NEW n \in Server, NEW d \in Server, NEW a \in Addr,
             Ends(s, n, d, a), Phase(s, n, d, a)
      PROVE  FlowInv'
  <2>. USE <1>5
  <2>1. stage[s] \in Migrating
    BY Strings DEF Phase, Announced, Answered, Queued, Agreed, Sent, Pulled, Taken, Attached,
                   Closing, Closed
  <2>2. stage'[s] = stage[s] /\ mempool'[s] = mempool[s]
    BY Zenon, <2>1 DEF Aside, Busy
  <2>3. \A o \in Object : o # s => stage'[o] \notin Migrating
    BY Zenon DEF Aside, Busy, Ends
  <2>4. Ends(s, n, d, a)'
    BY Zenon, <2>2, <2>3 DEF Aside, Ends
  <2>5. rdma_memory' = rdma_memory /\ pair' = pair
    BY Zenon DEF Aside
  <2>6. \A x, y \in Server : \A t : SaysOnly(x, y, t, a) => SaysOnly(x, y, t, a)'
    BY Zenon DEF Aside, SaysOnly
  <2>7. \A x \in Server : /\ HasOnly(accepts, x, a) => HasOnly(accepts, x, a)'
                          /\ HasOnly(transfers, x, a) => HasOnly(transfers, x, a)'
                          /\ HasOnly(dones, x, a) => HasOnly(dones, x, a)'
    BY Zenon DEF Aside, HasOnly
  <2>8. stage[s] \in Using /\ Packed(n, a) => Packed(n, a)'
    BY Zenon, <2>1 DEF Aside, Packed, Ends
  <2>9. Away(n, a) => Away(n, a)'
    BY Zenon DEF Aside, Ends
  <2>10. (Between(n, a) => Between(n, a)') /\ (Between(d, a) => Between(d, a)')
    BY Zenon DEF Aside
  <2>11. \A p \in Object, st \in Receiving : Target(p, d, a, st) => Target(p, d, a, st)'
    <3>. SUFFICES ASSUME NEW p \in Object, NEW st \in Receiving, Target(p, d, a, st)
                  PROVE  Target(p, d, a, st)'
      BY Zenon
    <3>1. stage'[p] = stage[p]
      BY Zenon DEF Aside, Busy, Target
    <3>2. \A o \in Object : o # p => stage'[o] \notin Receiving
      BY Zenon DEF Aside, Busy, Target
    <3>. QED BY Zenon, <3>1, <3>2, <2>5 DEF Target
  <2>19. ~mem[d][a].mapped => ~mem'[d][a].mapped
    BY Zenon DEF Aside, Ends
  <2>. USE <1>1, <1>3, <2>2, <2>5
  <2>12. /\ Announced(s, n, d, a) => Announced(s, n, d, a)'
         /\ Answered(s, n, d, a) => Answered(s, n, d, a)'
    BY ZenonT(100), <2>6, <2>8, <2>19, Strings DEF Announced, Answered
  <2>13. /\ Queued(s, n, d, a) => Queued(s, n, d, a)'
         /\ Agreed(s, n, d, a) => Agreed(s, n, d, a)'
    BY ZenonT(100), <2>7, <2>8, Strings DEF Queued, Agreed
  <2>14. /\ Sent(s, n, d, a) => Sent(s, n, d, a)'
         /\ Pulled(s, n, d, a) => Pulled(s, n, d, a)'
    BY ZenonT(100), <2>6, <2>7, <2>10 DEF Sent, Pulled
  <2>15. Taken(s, n, d, a) => Taken(s, n, d, a)'
    BY ZenonT(100), <2>10, <2>11, Strings DEF Taken
  <2>16. Attached(s, n, d, a) => Attached(s, n, d, a)'
    BY ZenonT(100), <2>9, <2>11, Strings DEF Attached
  <2>17. /\ Closing(s, n, d, a) => Closing(s, n, d, a)'
         /\ Closed(s, n, d, a) => Closed(s, n, d, a)'
    BY ZenonT(100), <2>6, <2>7, <2>9 DEF Closing, Closed
  <2>18. Phase(s, n, d, a)'
    BY ZenonT(100), <2>12, <2>13, <2>14, <2>15, <2>16, <2>17 DEF Phase
  <2>. QED BY Zenon, <2>4, <2>18 DEF FlowInv
<1>. QED BY Zenon, <1>4, <1>5 DEF FlowInv

\* A segment that has never had a block belongs to no container.
LEMMA FreshUnused ==
  ASSUME UseInv, NEW a, inserted[a] = {}
  PROVE  Unused(a)
BY Zenon DEF UseInv, Whole, Unused

LEMMA InstantiateStep ==
  ASSUME ContainerInv, ~MayReuse, NEW o \in Object, NEW a \in Addr, Instantiate(o, a)
  PROVE  ContainerInv'
<1> DEFINE n == Home[o]
           pool == PoolAllocate(SetUpAllocator, ObjectLen)
<1>1. /\ stage[o] = "new" /\ inserted[a] = {} /\ n \in Server
      /\ mem' = [mem EXCEPT ![n][a] = pool] /\ mempool' = [mempool EXCEPT ![o] = a]
      /\ SetContainerAddress(o, PoolStart) /\ inserted' = [inserted EXCEPT ![a] = pool.blocks]
      /\ GoTo(o, "used")
  BY Zenon, HomeType DEF Instantiate, Allocate
<1>2. UNCHANGED <<pair, wire, accepts, transfers, dones, rdma_memory, crashed>>
  BY Zenon DEF Instantiate, managerVars
<1>3. /\ pool \in Pool /\ pool.mapped /\ pool.unused_past = PoolStart + ObjectLen
      /\ pool.blocks = {<<PoolStart, ObjectLen>>}
  BY Zenon, SetUpIs
<1>. HIDE DEF pool, n
<1>4. /\ TypeInv /\ UseInv /\ FlowInv /\ OneUser /\ BlocksDisjoint /\ NoFault
  BY Zenon DEF ContainerInv
<1>5. /\ mem' \in [Server -> [Addr -> Pool]] /\ mem'[n][a] = pool
      /\ \A x \in Server, y \in Addr : x # n \/ y # a => mem'[x][y] = mem[x][y]
  <2>1. TypeInv /\ n \in Server /\ pool \in Pool /\ mem' = [mem EXCEPT ![n][a] = pool]
    BY Zenon, <1>1, <1>3, <1>4
  <2>2. MemWrite(n, a, pool)
    BY Zenon, <2>1, MemUpdate
  <2>. QED BY Zenon, <2>2 DEF MemWrite
<1>6. /\ mempool' \in [Object -> Addr \cup {Null}] /\ mempool'[o] = a
      /\ \A q \in Object : q # o => mempool'[q] = mempool[q]
  BY Zenon, <1>1, <1>4, PoolUpdate
<1>7. /\ cont' \in [Object -> Nat] /\ cont'[o] = PoolStart
      /\ \A q \in Object : q # o => cont'[q] = cont[q]
  <2>1. PoolStart \in Nat
    BY DEF PoolStart
  <2>. QED BY Zenon, <2>1, <1>1, <1>4, ContUpdate
<1>8. /\ stage' \in [Object -> Stage] /\ stage'[o] = "used"
      /\ \A q \in Object : q # o => stage'[q] = stage[q]
  BY Zenon, <1>1, <1>4, StageUpdate, Strings
<1>9. /\ inserted' \in [Addr -> SUBSET Block] /\ inserted'[a] = pool.blocks
      /\ \A y \in Addr : y # a => inserted'[y] = inserted[y]
  <2>1. pool.blocks \in SUBSET Block
    BY Zenon, <1>3, PoolFields
  <2>. QED BY Zenon, <2>1, <1>1, <1>4, InsertedUpdate
<1>10. TypeInv'
  BY Zenon, <1>2, <1>4, <1>5, <1>6, <1>7, <1>8, <1>9 DEF TypeInv
<1>11. Unused(a)
  BY Zenon, <1>1, <1>4, FreshUnused
<1>12. \A q \in Object : q # o /\ stage'[q] \in Using =>
         stage[q] \in Using /\ mempool'[q] = mempool[q] /\ cont'[q] = cont[q] /\ mempool[q] # a
  BY Zenon, <1>6, <1>7, <1>8, <1>11 DEF Unused
<1>13. UseInv'
  <2>. SUFFICES ASSUME NEW q \in Object, stage'[q] \in Using
                PROVE  /\ mempool'[q] \in Addr /\ cont'[q] = PoolStart
                       /\ Whole(Home[q], mempool[q])'
    BY Zenon DEF UseInv
  <2>1. CASE q = o
    <3>1. mem'[n][a].mapped /\ mem'[n][a].blocks = inserted'[a] /\ inserted'[a] # {}
      BY <1>3, <1>5, <1>9
    <3>2. /\ mem'[n][a].unused_past >= PoolStart
          /\ \A b \in inserted'[a] : b[1] + b[2] <= mem'[n][a].unused_past
      BY <1>3, <1>5, <1>9 DEF PoolStart, ObjectLen
    <3>3. Whole(n, a)'
      BY Zenon, <3>1, <3>2 DEF Whole
    <3>. QED BY Zenon, <2>1, <3>3, <1>6, <1>7 DEF Whole, n
  <2>2. CASE q # o
    <3>1. stage[q] \in Using /\ mempool'[q] = mempool[q] /\ cont'[q] = cont[q] /\ mempool[q] # a
      BY Zenon, <2>2, <1>12
    <3>2. mempool[q] \in Addr /\ cont[q] = PoolStart /\ Whole(Home[q], mempool[q])
      BY Zenon, <3>1, <1>4 DEF UseInv
    <3>3. PICK b \in Addr : b = mempool[q]
      BY Zenon, <3>2
    <3>4. mem'[Home[q]][b] = mem[Home[q]][b] /\ inserted'[b] = inserted[b]
      BY Zenon, <3>1, <3>3, <1>5, <1>9, HomeType
    <3>5. Whole(Home[q], b)'
      BY Zenon, <3>2, <3>3, <3>4, WholeKept DEF SamePool
    <3>. QED BY Zenon, <3>1, <3>2, <3>3, <3>5 DEF Whole
  <2>. QED BY Zenon, <2>1, <2>2
<1>14. OneUser'
  <2>. SUFFICES ASSUME NEW p \in Object, NEW q \in Object, p # q, stage'[p] \in Using,
                       stage'[q] \in Using, mempool'[p] = mempool'[q]
                PROVE  FALSE
    BY Zenon DEF OneUser
  <2>1. CASE p # o /\ q # o
    BY Zenon, <2>1, <1>4, <1>12 DEF OneUser
  <2>2. CASE p = o
    BY Zenon, <2>2, <1>6, <1>12
  <2>3. CASE q = o
    BY Zenon, <2>3, <1>6, <1>12
  <2>. QED BY Zenon, <2>1, <2>2, <2>3
<1>15. FlowInv'
  <2>1. \A q \in Object : \/ stage'[q] = stage[q] /\ mempool'[q] = mempool[q]
                          \/ stage[q] \notin Busy /\ stage'[q] \notin Busy
    BY Zenon, <1>1, <1>6, <1>8, Strings DEF Busy
  <2>2. \A y \in Addr : inserted[y] # {} => y # a /\ inserted'[y] # {}
    BY Zenon, <1>1, <1>9
  <2>3. \A s \in Object, y \in Addr :
          stage[s] \in Using /\ stage[s] \in Migrating /\ mempool[s] = y /\ Packed(Home[s], y)
            => mem'[Home[s]][y].slot = PoolStart
    BY Zenon, <1>5, <1>11, HomeType DEF Packed, Unused
  <2>4. \A x \in Server, y \in Addr : Between(x, y) => Between(x, y)'
    <3>. SUFFICES ASSUME NEW x \in Server, NEW y \in Addr, Between(x, y)
                  PROVE  Between(x, y)'
      BY Zenon
    <3>1. y # a
      BY Zenon, <1>1 DEF Between, Whole
    <3>2. mem'[x][y] = mem[x][y] /\ inserted'[y] = inserted[y]
      BY Zenon, <3>1, <1>5, <1>9
    <3>3. \A q \in Object : stage'[q] \in Using => mempool'[q] # y
      BY Zenon, <3>1, <1>6, <1>12 DEF Between, Unused
    <3>. QED BY Zenon, <3>2, <3>3, BetweenKept DEF Unused
  <2>5. \A x \in Server, y \in Addr : inserted[y] # {} /\ Away(x, y) => Away(x, y)'
    BY Zenon, <2>2, <1>6, <1>12 DEF Away
  <2>6. \A x \in Server, y \in Addr :
          inserted[y] # {} /\ ~mem[x][y].mapped => ~mem'[x][y].mapped
    BY Zenon, <2>2, <1>5
  <2>7. Aside
    BY Zenon, <1>2, <2>1, <2>2, <2>3, <2>4, <2>5, <2>6 DEF Aside
  <2>. QED BY Zenon, <1>4, <2>7, AsideKeeps
<1>16. BlocksDisjoint'
  <2>. SUFFICES ASSUME NEW y \in Addr
                PROVE  /\ \A b \in inserted'[y] : b[1] >= PoolStart
                       /\ \A b, c \in inserted'[y] : b # c => Cells(b) \cap Cells(c) = {}
    BY Zenon DEF BlocksDisjoint
  <2>1. CASE y # a
    BY Zenon, <2>1, <1>4, <1>9 DEF BlocksDisjoint
  <2>2. CASE y = a
    <3>1. inserted'[y] = {<<PoolStart, ObjectLen>>}
      BY Zenon, <2>2, <1>3, <1>9
    <3>2. \A b \in inserted'[y] : b[1] >= PoolStart
      BY <3>1 DEF PoolStart, ObjectLen
    <3>3. \A b, c \in inserted'[y] : b = c
      BY Zenon, <3>1
    <3>. QED BY Zenon, <3>2, <3>3
  <2>. QED BY Zenon, <2>1, <2>2
<1>. QED
  BY Zenon, <1>2, <1>4, <1>10, <1>13, <1>14, <1>15, <1>16 DEF ContainerInv, NoFault

\* A block at the high watermark shares no cell with a block below it.
LEMMA CellsApart ==
  ASSUME NEW b \in Block, NEW u \in Nat, NEW k \in Nat, b[1] + b[2] <= u
  PROVE  Cells(b) \cap Cells(<<u, k>>) = {} /\ Cells(<<u, k>>) \cap Cells(b) = {}
<1>1. b[1] \in Nat /\ b[2] \in Nat
  BY DEF Block
<1>2. \A c \in Cells(b) : c \in Int /\ c < u
  BY <1>1 DEF Cells
<1>3. \A c \in Cells(<<u, k>>) : c \in Int /\ c >= u
  BY DEF Cells
<1>4. \A c \in Int : ~(c < u /\ c >= u)
  OBVIOUS
<1>. QED BY Zenon, <1>2, <1>3, <1>4

LEMMA InsertStep ==
  ASSUME ContainerInv, NEW o \in Object, NEW k \in BlockSize, Insert(o, k)
  PROVE  ContainerInv'
<1>1. /\ TypeInv /\ UseInv /\ FlowInv /\ OneUser /\ BlocksDisjoint /\ NoFault
  BY Zenon DEF ContainerInv
<1>2. stage[o] \in Using
  BY Zenon DEF Insert
<1>3. mempool[o] \in Addr /\ Whole(Home[o], mempool[o])
  BY Zenon, <1>1, <1>2 DEF UseInv
<1>4. PICK n \in Server : n = Home[o]
  BY Zenon, HomeType
<1>5. PICK a \in Addr : a = mempool[o]
  BY Zenon, <1>3
<1> DEFINE old == mem[n][a]
           u == old.unused_past
           pool == PoolAllocate(old, k)
<1>6. old \in Pool /\ Segment(o) = old /\ k \in Nat /\ k > 0
  <2>1. mem \in [Server -> [Addr -> Pool]]
    BY Zenon, <1>1 DEF TypeInv
  <2>2. old \in Pool
    BY <2>1
  <2>3. Segment(o) = old
    BY Zenon, <1>4, <1>5 DEF Segment
  <2>4. k \in Nat /\ k > 0
    BY ContainerAssumption
  <2>. QED BY Zenon, <2>2, <2>3, <2>4
<1>7. /\ old.mapped /\ old.blocks = inserted[a] /\ inserted[a] # {} /\ u >= PoolStart
      /\ \A b \in inserted[a] : b[1] + b[2] <= u
  BY Zenon, <1>3, <1>4, <1>5 DEF Whole
<1>8. /\ mem' = [mem EXCEPT ![n][a] = pool]
      /\ inserted' = [inserted EXCEPT ![a] = inserted[a] \cup (pool.blocks \ old.blocks)]
      /\ crashed' = crashed
  <2>1. /\ mem' = [mem EXCEPT ![Home[o]][mempool[o]] = PoolAllocate(Segment(o), k)]
        /\ inserted' = [inserted EXCEPT ![mempool[o]] =
             inserted[mempool[o]] \cup (PoolAllocate(Segment(o), k).blocks \ Segment(o).blocks)]
        /\ crashed' = crashed
    <3>1. Segment(o).mapped
      BY Zenon, <1>6, <1>7
    <3>. QED BY <3>1 DEF Insert
  <2>. QED BY Zenon, <2>1, <1>4, <1>5, <1>6
<1>9. UNCHANGED <<pair, wire, accepts, transfers, dones, mempool, rdma_memory, cont, stage>>
  BY Zenon DEF Insert, managerVars, objectVars
<1>10. /\ pool \in Pool /\ pool.mapped = old.mapped /\ pool.slot = old.slot
       /\ pool.unused_past = u + k /\ pool.blocks = old.blocks \cup {<<u, k>>}
  BY Zenon, <1>6, AllocateIs
<1>11. u \in Nat /\ pool.blocks \in SUBSET Block
  BY Zenon, <1>6, <1>10, PoolFields
<1>. HIDE DEF old, u, pool
<1>12. /\ mem' \in [Server -> [Addr -> Pool]] /\ mem'[n][a] = pool
       /\ \A x \in Server, y \in Addr : x # n \/ y # a => mem'[x][y] = mem[x][y]
  <2>1. TypeInv /\ pool \in Pool /\ mem' = [mem EXCEPT ![n][a] = pool]
    BY Zenon, <1>1, <1>8, <1>10
  <2>2. MemWrite(n, a, pool)
    BY Zenon, <2>1, MemUpdate
  <2>. QED BY Zenon, <2>2 DEF MemWrite
<1>13. /\ inserted' \in [Addr -> SUBSET Block]
       /\ inserted'[a] = inserted[a] \cup {<<u, k>>} /\ inserted'[a] = pool.blocks
       /\ \A y \in Addr : y # a => inserted'[y] = inserted[y]
  <2>1. inserted[a] \cup (pool.blocks \ old.blocks) = pool.blocks
    BY <1>7, <1>10
  <2>2. inserted' = [inserted EXCEPT ![a] = pool.blocks]
    BY Zenon, <2>1, <1>8
  <2>3. /\ inserted' \in [Addr -> SUBSET Block] /\ inserted'[a] = pool.blocks
        /\ \A y \in Addr : y # a => inserted'[y] = inserted[y]
    BY Zenon, <2>2, <1>1, <1>11, InsertedUpdate
  <2>. QED BY Zenon, <2>3, <1>7, <1>10
<1>14. TypeInv'
  BY Zenon, <1>1, <1>9, <1>12, <1>13 DEF TypeInv
<1>15. \A q \in Object : q # o /\ stage[q] \in Using => mempool[q] # a
  BY Zenon, <1>1, <1>2, <1>5 DEF OneUser
<1>16. UseInv'
  <2>. SUFFICES ASSUME NEW q \in Object, stage[q] \in Using
                PROVE  /\ mempool[q] \in Addr /\ cont[q] = PoolStart
                       /\ Whole(Home[q], mempool[q])'
    BY Zenon, <1>9 DEF UseInv
  <2>0. mempool[q] \in Addr /\ cont[q] = PoolStart /\ Whole(Home[q], mempool[q])
    BY Zenon, <1>1 DEF UseInv
  <2>1. CASE q = o
    <3>1. mem'[n][a].mapped /\ mem'[n][a].blocks = inserted'[a] /\ inserted'[a] # {}
      BY Zenon, <1>7, <1>10, <1>12, <1>13
    <3>2. u + k >= PoolStart
      BY <1>6, <1>7, <1>11 DEF PoolStart
    <3>3. \A b \in inserted'[a] : b[1] + b[2] <= u + k
      <4>. SUFFICES ASSUME NEW b \in inserted'[a] PROVE b[1] + b[2] <= u + k
        BY Zenon
      <4>1. CASE b = <<u, k>>
        BY <4>1, <1>6, <1>11
      <4>2. CASE b \in inserted[a]
        <5>1. b \in Block /\ b[1] + b[2] <= u
          BY Zenon, <4>2, <1>7, <1>13
        <5>. QED BY <5>1, <1>6, <1>11 DEF Block
      <4>. QED BY Zenon, <4>1, <4>2, <1>13
    <3>4. Whole(n, a)'
      BY Zenon, <3>1, <3>2, <3>3, <1>10, <1>12 DEF Whole
    <3>. QED BY Zenon, <2>0, <2>1, <3>4, <1>4, <1>5, <1>9 DEF Whole
  <2>2. CASE q # o
    <3>1. PICK b \in Addr : b = mempool[q]
      BY Zenon, <2>0
    <3>2. mem'[Home[q]][b] = mem[Home[q]][b] /\ inserted'[b] = inserted[b]
      BY Zenon, <2>2, <3>1, <1>12, <1>13, <1>15, HomeType
    <3>3. Whole(Home[q], b)'
      BY Zenon, <2>0, <3>1, <3>2, WholeKept DEF SamePool
    <3>. QED BY Zenon, <2>0, <3>1, <3>3, <1>9 DEF Whole
  <2>. QED BY Zenon, <2>1, <2>2
<1>17. OneUser'
  BY Zenon, <1>1, <1>9 DEF OneUser
<1>18. FlowInv'
  <2>1. \A y \in Addr : inserted[y] # {} => inserted'[y] # {}
    BY Zenon, <1>7, <1>13
  <2>2. \A s \in Object, y \in Addr :
          stage[s] \in Using /\ stage[s] \in Migrating /\ mempool[s] = y /\ Packed(Home[s], y)
            => mem'[Home[s]][y].slot = PoolStart
    <3>. SUFFICES ASSUME NEW x \in Server, NEW y \in Addr, mem[x][y].slot = PoolStart
                  PROVE  mem'[x][y].slot = PoolStart
      BY Zenon, HomeType DEF Packed
    <3>1. CASE x = n /\ y = a
      BY Zenon, <3>1, <1>10, <1>12 DEF old
    <3>2. CASE x # n \/ y # a
      BY Zenon, <3>2, <1>12
    <3>. QED BY Zenon, <3>1, <3>2
  <2>3. \A x \in Server, y \in Addr : Between(x, y) => Between(x, y)'
    <3>. SUFFICES ASSUME NEW x \in Server, NEW y \in Addr, Between(x, y)
                  PROVE  Between(x, y)'
      BY Zenon
    <3>1. y # a
      BY Zenon, <1>2, <1>5 DEF Between, Unused
    <3>2. mem'[x][y] = mem[x][y] /\ inserted'[y] = inserted[y]
      BY Zenon, <3>1, <1>12, <1>13
    <3>3. Unused(y)'
      BY Zenon, <1>9 DEF Between, Unused
    <3>. QED BY Zenon, <3>2, <3>3, BetweenKept
  <2>4. \A x \in Server, y \in Addr : inserted[y] # {} /\ Away(x, y) => Away(x, y)'
    BY Zenon, <1>9 DEF Away
  <2>5. \A q \in Object : stage'[q] = stage[q] /\ mempool'[q] = mempool[q]
    BY Zenon, <1>9
  <2>6. \A x \in Server, y \in Addr : ~mem[x][y].mapped => ~mem'[x][y].mapped
    BY Zenon, <1>7, <1>12 DEF old
  <2>7. Aside
    BY Zenon, <1>9, <2>1, <2>2, <2>3, <2>4, <2>5, <2>6 DEF Aside
  <2>. QED BY Zenon, <1>1, <2>7, AsideKeeps
<1>19. BlocksDisjoint'
  <2>. SUFFICES ASSUME NEW y \in Addr
                PROVE  /\ \A b \in inserted'[y] : b[1] >= PoolStart
                       /\ \A b, c \in inserted'[y] : b # c => Cells(b) \cap Cells(c) = {}
    BY Zenon DEF BlocksDisjoint
  <2>1. CASE y # a
    BY Zenon, <2>1, <1>1, <1>13 DEF BlocksDisjoint
  <2>2. CASE y = a
    <3>1. \A b \in inserted[a] : b[1] >= PoolStart
      BY Zenon, <1>1 DEF BlocksDisjoint
    <3>2. \A b, c \in inserted[a] : b # c => Cells(b) \cap Cells(c) = {}
      BY Zenon, <1>1 DEF BlocksDisjoint
    <3>3. \A b \in inserted[a] : /\ Cells(b) \cap Cells(<<u, k>>) = {}
                                 /\ Cells(<<u, k>>) \cap Cells(b) = {}
      <4>. SUFFICES ASSUME NEW b \in inserted[a]
                    PROVE  /\ Cells(b) \cap Cells(<<u, k>>) = {}
                           /\ Cells(<<u, k>>) \cap Cells(b) = {}
        BY Zenon
      <4>1. b \in Block /\ b[1] + b[2] <= u
        BY Zenon, <1>7, <1>13
      <4>. QED BY Zenon, <4>1, <1>6, <1>11, CellsApart
    <3>4. <<u, k>>[1] >= PoolStart
      BY <1>7
    <3>5. inserted'[y] = inserted[a] \cup {<<u, k>>}
      BY Zenon, <2>2, <1>13
    <3>6. \A b \in inserted'[y] : b[1] >= PoolStart
      BY Zenon, <3>1, <3>4, <3>5
    <3>7. \A b, c \in inserted'[y] : b # c => Cells(b) \cap Cells(c) = {}
      BY Zenon, <3>2, <3>3, <3>5
    <3>. QED BY Zenon, <3>6, <3>7
  <2>. QED BY Zenon, <2>1, <2>2
<1>20. NoFault'
  BY Zenon, <1>1, <1>8 DEF NoFault
<1>. QED
  BY Zenon, <1>14, <1>16, <1>17, <1>18, <1>19, <1>20 DEF ContainerInv

LEMMA DestroyStep ==
  ASSUME ContainerInv, ~DestroyGone, NEW o \in Object, Destroy(o)
  PROVE  ContainerInv'
<1>1. /\ TypeInv /\ UseInv /\ FlowInv /\ OneUser /\ BlocksDisjoint /\ NoFault
  BY Zenon DEF ContainerInv
<1>2. stage[o] = "used" /\ stage[o] \in Using /\ GoTo(o, "destroyed")
  BY Zenon, Strings DEF Destroy
<1>3. mempool[o] \in Addr /\ Whole(Home[o], mempool[o])
  BY Zenon, <1>1, <1>2 DEF UseInv
<1>4. PICK n \in Server : n = Home[o]
  BY Zenon, HomeType
<1>5. PICK a \in Addr : a = mempool[o]
  BY Zenon, <1>3
<1>6. mem' = [mem EXCEPT ![n][a] = Unmapped] /\ crashed' = crashed
  <2>1. Segment(o).mapped /\ mempool[o] # Null
    BY Zenon, <1>3, ContainerAssumption DEF Segment, Whole
  <2>2. mem' = [mem EXCEPT ![Home[o]][mempool[o]] = Unmapped] /\ crashed' = crashed
    BY Zenon, <2>1 DEF Destroy, Deallocate
  <2>. QED BY Zenon, <2>2, <1>4, <1>5
<1>7. UNCHANGED <<pair, wire, accepts, transfers, dones, mempool, rdma_memory, cont,
                 inserted>>
  BY Zenon DEF Destroy, managerVars, objectVars, ghostVars
<1>8. /\ mem' \in [Server -> [Addr -> Pool]]
      /\ mem'[n][a] = Unmapped
      /\ \A x \in Server, y \in Addr : x # n \/ y # a => mem'[x][y] = mem[x][y]
  <2>1. MemWrite(n, a, Unmapped)
    BY Zenon, <1>1, <1>6, EmptyPools, MemUpdate
  <2>. QED BY Zenon, <2>1 DEF MemWrite
<1>9. /\ stage' \in [Object -> Stage] /\ stage'[o] = "destroyed"
      /\ \A q \in Object : q # o => stage'[q] = stage[q]
  BY Zenon, <1>1, <1>2, StageUpdate, Strings
<1>10. TypeInv'
  BY Zenon, <1>1, <1>7, <1>8, <1>9 DEF TypeInv
<1>11. SameUsers /\ \A q \in Object : stage'[q] \in Using => q # o /\ stage[q] \in Using
  BY Zenon, <1>7, <1>9, Strings DEF SameUsers
<1>12. \A q \in Object : q # o /\ stage[q] \in Using => mempool[q] # a
  BY Zenon, <1>1, <1>2, <1>5 DEF OneUser
<1>13. UseInv'
  <2>1. \A q \in Object : stage'[q] \in Using => SamePool(Home[q], mempool[q])
    <3>. SUFFICES ASSUME NEW q \in Object, stage'[q] \in Using
                  PROVE  SamePool(Home[q], mempool[q])
      BY Zenon
    <3>1. mempool[q] # a /\ mempool[q] \in Addr
      BY Zenon, <1>1, <1>11, <1>12 DEF UseInv
    <3>2. mem'[Home[q]][mempool[q]] = mem[Home[q]][mempool[q]]
      BY Zenon, <3>1, <1>8, HomeType
    <3>. QED BY Zenon, <3>2 DEF SamePool
  <2>. QED BY Zenon, <2>1, <1>1, <1>7, <1>11, UseKept
<1>14. OneUser'
  BY Zenon, <1>1, <1>11, OneUserKept
<1>15. FlowInv'
  <2>1. \A q \in Object : \/ stage'[q] = stage[q] /\ mempool'[q] = mempool[q]
                          \/ stage[q] \notin Busy /\ stage'[q] \notin Busy
    BY Zenon, <1>2, <1>7, <1>9, Strings DEF Busy
  <2>2. \A s \in Object, y \in Addr :
          stage[s] \in Using /\ stage[s] \in Migrating /\ mempool[s] = y /\ Packed(Home[s], y)
            => mem'[Home[s]][y].slot = PoolStart
    <3>. SUFFICES ASSUME NEW s \in Object, NEW y \in Addr, stage[s] \in Using,
                         stage[s] \in Migrating, mempool[s] = y, Packed(Home[s], y)
                  PROVE  mem'[Home[s]][y].slot = PoolStart
      BY Zenon
    <3>1. s # o
      BY Zenon, <1>2, Strings
    <3>2. mem'[Home[s]][y] = mem[Home[s]][y]
      BY Zenon, <3>1, <1>8, <1>12, HomeType
    <3>. QED BY Zenon, <3>2 DEF Packed
  <2>3. \A x \in Server, y \in Addr : Between(x, y) => Between(x, y)'
    <3>. SUFFICES ASSUME NEW x \in Server, NEW y \in Addr, Between(x, y)
                  PROVE  Between(x, y)'
      BY Zenon
    <3>1. y # a
      BY Zenon, <1>2, <1>5 DEF Between, Unused
    <3>2. mem'[x][y] = mem[x][y] /\ inserted'[y] = inserted[y]
      BY Zenon, <3>1, <1>7, <1>8
    <3>3. Unused(y)'
      BY Zenon, <1>7, <1>11 DEF Between, Unused
    <3>. QED BY Zenon, <3>2, <3>3, BetweenKept
  <2>4. \A x \in Server, y \in Addr : inserted[y] # {} /\ Away(x, y) => Away(x, y)'
    BY Zenon, <1>7, <1>11 DEF Away
  <2>5. \A y \in Addr : inserted[y] # {} => inserted'[y] # {}
    BY Zenon, <1>7
  <2>6. \A x \in Server, y \in Addr : ~mem[x][y].mapped => ~mem'[x][y].mapped
    <3>1. ~mem'[n][a].mapped
      BY <1>8 DEF Unmapped
    <3>. QED BY Zenon, <3>1, <1>8
  <2>7. Aside
    BY Zenon, <1>7, <2>1, <2>2, <2>3, <2>4, <2>5, <2>6 DEF Aside
  <2>. QED BY Zenon, <1>1, <2>7, AsideKeeps
<1>16. BlocksDisjoint'
  BY Zenon, <1>1, <1>7, BlocksKept
<1>17. NoFault'
  BY Zenon, <1>1, <1>6 DEF NoFault
<1>. QED BY Zenon, <1>10, <1>13, <1>14, <1>15, <1>16, <1>17 DEF ContainerInv

-----------------------------------------------------------------------------
(* Steps of the hand-over.                                                 *)

\* From one phase to the next.
LEMMA FlowTo ==
  ASSUME NEW s \in Object, NEW n \in Server, NEW d \in Server, NEW a \in Addr,
         Ends(s, n, d, a)', Phase(s, n, d, a)'
  PROVE  FlowInv'
BY Zenon DEF FlowInv

\* Every step but the allocation of a block leaves the blocks and the faults alone.
LEMMA Assemble ==
  ASSUME ContainerInv, UNCHANGED <<inserted, crashed>>,
         TypeInv', UseInv', OneUser', FlowInv'
  PROVE  ContainerInv'
<1>1. BlocksDisjoint'
  BY Zenon, BlocksKept DEF ContainerInv
<1>2. NoFault'
  BY Zenon DEF ContainerInv, NoFault
<1>. QED BY Zenon, <1>1, <1>2 DEF ContainerInv

\* A step that leaves the memory, the containers in use and their segments alone.
LEMMA UseSame ==
  ASSUME UseInv, OneUser, UNCHANGED <<mem, inserted, mempool, cont>>,
         \A q \in Object : stage'[q] \in Using => stage[q] \in Using
  PROVE  UseInv' /\ OneUser'
<1>1. SameUsers
  BY Zenon DEF SameUsers
<1>2. \A q \in Object : SamePool(Home[q], mempool[q])
  BY Zenon DEF SamePool
<1>. QED BY Zenon, <1>1, <1>2, UseKept, OneUserKept

\* The announcement.
LEMMA PrepareStep ==
  ASSUME ContainerInv, Alone, ~EarlyReturn, NEW o \in Object, NEW d \in Server, Prepare(o, d)
  PROVE  ContainerInv'
<1>1. /\ TypeInv /\ UseInv /\ FlowInv /\ OneUser
  BY Zenon DEF ContainerInv
<1>2. stage[o] = "used" /\ stage[o] \in Using /\ GoTo(o, "preparing") /\ d # Home[o]
  BY Zenon, Strings DEF Prepare
<1>3. mempool[o] \in Addr /\ Whole(Home[o], mempool[o]) /\ cont[o] = PoolStart
  BY Zenon, <1>1, <1>2 DEF UseInv
<1>4. PICK n \in Server : n = Home[o]
  BY Zenon, HomeType
<1>5. PICK a \in Addr : a = mempool[o]
  BY Zenon, <1>3
<1>6. Still
  <2>1. NoSource
    BY Zenon DEF Prepare, Rivals, NoSource
  <2>. QED BY Zenon, <2>1, <1>1, WhenStill
<1>7. UNCHANGED <<accepts, transfers, dones, mempool, rdma_memory, cont, inserted, crashed>>
  BY Zenon DEF Prepare, objectVars
<1> DEFINE pool == [mem[n][a] EXCEPT !.slot = PoolStart]
<1>8. mem[n][a] \in Pool
  <2>1. mem \in [Server -> [Addr -> Pool]]
    BY Zenon, <1>1 DEF TypeInv
  <2>. QED BY <2>1
<1>9. pool \in Pool
  <2>1. PoolStart \in Nat
    BY DEF PoolStart
  <2>. QED BY Zenon, <2>1, <1>8, PoolFields
<1>10. /\ pool.mapped = mem[n][a].mapped /\ pool.blocks = mem[n][a].blocks
       /\ pool.unused_past = mem[n][a].unused_past /\ pool.slot = PoolStart
  BY <1>8 DEF Pool
<1>11. mem' = [mem EXCEPT ![n][a] = pool]
  <2>1. mem' = [mem EXCEPT ![Home[o]][mempool[o]].slot = cont[o]]
    BY Zenon DEF Prepare
  <2>2. mem' = [mem EXCEPT ![n][a].slot = PoolStart]
    BY Zenon, <2>1, <1>3, <1>4, <1>5
  <2>. QED BY <2>2
<1>. HIDE DEF pool
<1>12. MemWrite(n, a, pool)
  BY Zenon, <1>1, <1>9, <1>11, MemUpdate
<1>13. /\ pair' \in [Server -> [Addr -> Server]] /\ pair'[n][a] = d
  <2>1. UpdatePair(n, a, d)
    BY Zenon, <1>4, <1>5 DEF Prepare
  <2>2. PairWrite(n, a, d)
    BY Zenon, <2>1, <1>1, PairUpdate
  <2>. QED BY Zenon, <2>2 DEF PairWrite
<1>14. /\ wire' \in [Server -> [Server -> Seq(MsgType \X Addr)]] /\ SaysOnly(n, d, "PREPARE", a)'
  <2>1. Send(n, d, "PREPARE", a)
    BY Zenon, <1>4, <1>5 DEF Prepare
  <2>2. Silent /\ "PREPARE" \in MsgType
    BY Zenon, <1>6 DEF Still, MsgType
  <2>. QED BY Zenon, <2>1, <2>2, <1>1, SendIs
<1>15. /\ stage' \in [Object -> Stage] /\ stage'[o] = "preparing"
       /\ \A q \in Object : q # o => stage'[q] = stage[q]
  BY Zenon, <1>1, <1>2, StageUpdate, Strings
<1>16. TypeInv'
  BY Zenon, <1>1, <1>7, <1>12, <1>13, <1>14, <1>15 DEF TypeInv, MemWrite
<1>17. SameUsers
  BY Zenon, <1>2, <1>7, <1>15 DEF SameUsers
<1>18. \A x \in Server, y \in Addr : SamePool(x, y)
  <2>. SUFFICES ASSUME NEW x \in Server, NEW y \in Addr PROVE SamePool(x, y)
    BY Zenon
  <2>1. CASE x = n /\ y = a
    BY Zenon, <2>1, <1>10, <1>12 DEF MemWrite, SamePool
  <2>2. CASE x # n \/ y # a
    BY Zenon, <2>2, <1>12 DEF MemWrite, SamePool
  <2>. QED BY Zenon, <2>1, <2>2
<1>19. UseInv'
  <2>1. \A q \in Object : stage'[q] \in Using => SamePool(Home[q], mempool[q])
    BY Zenon, <1>1, <1>17, <1>18, HomeType DEF SameUsers, UseInv
  <2>. QED BY Zenon, <2>1, <1>1, <1>7, <1>17, UseKept
<1>20. OneUser'
  BY Zenon, <1>1, <1>17, OneUserKept
<1>21. Announced(o, n, d, a)'
  <2>1. Packed(n, a)'
    BY Zenon, <1>10, <1>12 DEF MemWrite, Packed
  <2>2. NoTarget'
    BY Zenon, <1>6, <1>15, Strings DEF Still, NoTarget
  <2>3. Empty(accepts)' /\ Empty(transfers)' /\ Empty(dones)'
    BY Zenon, <1>6, <1>7 DEF Still, Empty
  <2>4. ~mem'[d][a].mapped
    <3>1. ~mem[d][a].mapped
      BY Zenon, <1>5 DEF Prepare
    <3>. QED BY Zenon, <3>1, <1>18 DEF SamePool
  <2>. QED BY Zenon, <2>1, <2>2, <2>3, <2>4, <1>14, <1>15 DEF Announced
<1>22. Ends(o, n, d, a)'
  <2>1. \A q \in Object : q # o => stage'[q] \notin Migrating
    BY Zenon, <1>6, <1>15 DEF Still, NoSource
  <2>2. inserted'[a] # {}
    BY Zenon, <1>3, <1>5, <1>7 DEF Whole
  <2>. QED BY Zenon, <2>1, <2>2, <1>2, <1>4, <1>5, <1>7, <1>13 DEF Ends
<1>23. FlowInv'
  BY Zenon, <1>21, <1>22, FlowTo DEF Phase
<1>. QED BY Zenon, <1>7, <1>16, <1>19, <1>20, <1>23, Assemble

\* What the steps of the poller leave alone.
PollerFrame == UNCHANGED <<mempool, rdma_memory, cont, stage, inserted>>

\* The accept.
LEMMA OnPrepareStep ==
  ASSUME ContainerInv, NEW x \in Server, NEW y \in Server, OnPrepare(x, y), PollerFrame
  PROVE  ContainerInv'
<1>1. /\ TypeInv /\ UseInv /\ FlowInv /\ OneUser
  BY Zenon DEF ContainerInv
<1>2. Message(x, y, "PREPARE")
  BY Zenon DEF OnPrepare
<1>3. PICK s \in Object, n, d \in Server, a \in Addr :
        Ends(s, n, d, a) /\ Named(x, y) = a /\ x = d /\ y = n /\ Announced(s, n, d, a)
  <2>1. MessageOf(x, y, "PREPARE")
    BY Zenon, <1>1, <1>2, WhenMessage
  <2>. QED BY <2>1 DEF MessageOf
<1>4. /\ mem' = [mem EXCEPT ![d][a] = Zeroed] /\ UpdatePair(d, a, n)
      /\ Answer(d, n, "ACCEPT", a) /\ UNCHANGED <<accepts, transfers, dones, crashed>>
  <2>1. ~mem[d][a].mapped
    BY Zenon, <1>3 DEF Announced
  <2>. QED BY Zenon, <1>3, <2>1 DEF OnPrepare
<1>5. MemWrite(d, a, Zeroed) /\ PairWrite(d, a, n)
  BY Zenon, <1>1, <1>4, EmptyPools, MemUpdate, PairUpdate
<1>6. d # n /\ Home[s] = n /\ mempool[s] = a /\ stage[s] \in Using
  BY Zenon, <1>3, Strings DEF Ends, Announced
<1>7. wire' \in [Server -> [Server -> Seq(MsgType \X Addr)]] /\ SaysOnly(d, n, "ACCEPT", a)'
  <2>1. SaysOnly(n, d, "PREPARE", a) /\ "ACCEPT" \in MsgType /\ n # d
    BY Zenon, <1>3, <1>6 DEF Announced, MsgType
  <2>. QED BY Zenon, <2>1, <1>1, <1>4, AnswerIs
<1>8. TypeInv'
  BY Zenon, <1>1, <1>4, <1>5, <1>7 DEF TypeInv, MemWrite, PairWrite, PollerFrame
<1>9. SameUsers
  BY Zenon DEF SameUsers, PollerFrame
<1>10. UseInv'
  <2>1. \A q \in Object : stage'[q] \in Using => SamePool(Home[q], mempool[q])
    <3>. SUFFICES ASSUME NEW q \in Object, stage[q] \in Using
                  PROVE  SamePool(Home[q], mempool[q])
      BY Zenon DEF PollerFrame
    <3>1. mempool[q] \in Addr
      BY Zenon, <1>1 DEF UseInv
    <3>2. Home[q] # d \/ mempool[q] # a
      BY Zenon, <1>1, <1>6 DEF OneUser
    <3>3. mem'[Home[q]][mempool[q]] = mem[Home[q]][mempool[q]]
      BY Zenon, <3>1, <3>2, <1>5, HomeType DEF MemWrite
    <3>. QED BY Zenon, <3>3 DEF SamePool
  <2>. QED BY Zenon, <2>1, <1>1, <1>9, UseKept DEF PollerFrame
<1>11. OneUser'
  BY Zenon, <1>1, <1>9, OneUserKept
<1>12. Ends(s, n, d, a)'
  <2>1. pair'[n][a] = d
    BY Zenon, <1>3, <1>5, <1>6 DEF PairWrite, Ends
  <2>. QED BY Zenon, <2>1, <1>3 DEF Ends, PollerFrame
<1>13. Answered(s, n, d, a)'
  <2>1. Packed(n, a)'
    BY Zenon, <1>3, <1>5, <1>6 DEF MemWrite, Packed, Announced
  <2>2. NoTarget' /\ stage'[s] = "preparing"
    BY Zenon, <1>3 DEF Announced, NoTarget, PollerFrame
  <2>3. Empty(accepts)' /\ Empty(transfers)' /\ Empty(dones)'
    BY Zenon, <1>3, <1>4 DEF Announced, Empty
  <2>4. pair'[d][a] = n
    BY Zenon, <1>5 DEF PairWrite
  <2>. QED BY Zenon, <2>1, <2>2, <2>3, <2>4, <1>7 DEF Answered
<1>14. FlowInv'
  BY Zenon, <1>12, <1>13, FlowTo DEF Phase
<1>. QED BY Zenon, <1>4, <1>8, <1>10, <1>11, <1>14, Assemble DEF PollerFrame

LEMMA OnAcceptStep ==
  ASSUME ContainerInv, NEW x \in Server, NEW y \in Server, OnAccept(x, y), PollerFrame
  PROVE  ContainerInv'
<1>1. /\ TypeInv /\ UseInv /\ FlowInv /\ OneUser
  BY Zenon DEF ContainerInv
<1>2. Message(x, y, "ACCEPT")
  BY Zenon DEF OnAccept
<1>3. PICK s \in Object, n, d \in Server, a \in Addr :
        Ends(s, n, d, a) /\ Named(x, y) = a /\ x = n /\ y = d /\ Answered(s, n, d, a)
  <2>1. MessageOf(x, y, "ACCEPT")
    BY Zenon, <1>1, <1>2, WhenMessage
  <2>. QED BY <2>1 DEF MessageOf
<1>4. /\ Received(n, d) /\ accepts' = Enqueue(accepts, n, a)
      /\ UNCHANGED <<mem, pair, transfers, dones, crashed>>
  <2>1. Named(x, y) # Elsewhere
    BY Zenon, <1>3, ContainerAssumption
  <2>. QED BY Zenon, <1>3, <2>1 DEF OnAccept
<1>5. wire' \in [Server -> [Server -> Seq(MsgType \X Addr)]] /\ Silent'
  <2>1. SaysOnly(d, n, "ACCEPT", a)
    BY Zenon, <1>3 DEF Answered
  <2>. QED BY Zenon, <2>1, <1>1, <1>4, ReceivedIs
<1>6. accepts' \in [Server -> Seq(Addr)] /\ HasOnly(accepts', n, a)
  <2>1. Empty(accepts) /\ accepts \in [Server -> Seq(Addr)]
    BY Zenon, <1>1, <1>3 DEF Answered, TypeInv
  <2>. QED BY Zenon, <2>1, <1>4, EnqueueIs
<1>7. TypeInv'
  BY Zenon, <1>1, <1>4, <1>5, <1>6 DEF TypeInv, PollerFrame
<1>8. UseInv' /\ OneUser'
  BY Zenon, <1>1, <1>4, UseSame DEF PollerFrame
<1>9. Ends(s, n, d, a)'
  BY Zenon, <1>3, <1>4 DEF Ends, PollerFrame
<1>10. Queued(s, n, d, a)'
  <2>1. Packed(n, a)' /\ pair'[d][a] = n
    BY Zenon, <1>3, <1>4 DEF Packed, Answered
  <2>2. NoTarget' /\ stage'[s] = "preparing"
    BY Zenon, <1>3 DEF Answered, NoTarget, PollerFrame
  <2>3. Empty(transfers)' /\ Empty(dones)'
    BY Zenon, <1>3, <1>4 DEF Answered, Empty
  <2>4. HasOnly(accepts, n, a)'
    BY Zenon, <1>6 DEF HasOnly
  <2>. QED BY Zenon, <2>1, <2>2, <2>3, <2>4, <1>5 DEF Queued
<1>11. FlowInv'
  BY Zenon, <1>9, <1>10, FlowTo DEF Phase
<1>. QED BY Zenon, <1>4, <1>7, <1>8, <1>11, Assemble DEF PollerFrame

LEMMA PollForAcceptStep ==
  ASSUME ContainerInv, NEW o \in Object, PollForAccept(o)
  PROVE  ContainerInv'
<1>1. /\ TypeInv /\ UseInv /\ FlowInv /\ OneUser
  BY Zenon DEF ContainerInv
<1>2. stage[o] = "preparing" /\ Peek(accepts, Home[o]) # Null /\ GoTo(o, "accepted")
  BY Zenon DEF PollForAccept
<1>3. PICK n, d \in Server, a \in Addr :
        Ends(o, n, d, a) /\ Queued(o, n, d, a) /\ Peek(accepts, Home[o]) = a
  BY Zenon, <1>1, <1>2, WhenAccepted
<1>4. Home[o] = n /\ mempool[o] = a
  BY Zenon, <1>3 DEF Ends
<1>5. rdma_memory' = [rdma_memory EXCEPT ![o] = a] /\ accepts' = Dequeue(accepts, n)
  BY Zenon, <1>3, <1>4 DEF PollForAccept
<1>6. UNCHANGED <<mem, pair, wire, transfers, dones, mempool, cont, inserted, crashed>>
  BY Zenon DEF PollForAccept, ghostVars
<1>7. accepts' \in [Server -> Seq(Addr)] /\ Empty(accepts')
  <2>1. HasOnly(accepts, n, a) /\ accepts \in [Server -> Seq(Addr)]
    BY Zenon, <1>1, <1>3 DEF Queued, TypeInv
  <2>. QED BY Zenon, <2>1, <1>5, DequeueIs
<1>8. rdma_memory' \in [Object -> Addr \cup {Null}] /\ rdma_memory'[o] = a
  BY Zenon, <1>1, <1>5, RdmaUpdate
<1>9. /\ stage' \in [Object -> Stage] /\ stage'[o] = "accepted"
      /\ \A q \in Object : q # o => stage'[q] = stage[q]
  BY Zenon, <1>1, <1>2, StageUpdate, Strings
<1>10. TypeInv'
  BY Zenon, <1>1, <1>6, <1>7, <1>8, <1>9 DEF TypeInv
<1>11. UseInv' /\ OneUser'
  <2>1. \A q \in Object : stage'[q] \in Using => stage[q] \in Using
    BY Zenon, <1>2, <1>9, Strings
  <2>. QED BY Zenon, <2>1, <1>1, <1>6, UseSame
<1>12. Ends(o, n, d, a)'
  <2>1. \A q \in Object : q # o => stage'[q] \notin Migrating
    BY Zenon, <1>3, <1>9 DEF Ends
  <2>. QED BY Zenon, <2>1, <1>3, <1>6 DEF Ends
<1>13. Agreed(o, n, d, a)'
  <2>1. Packed(n, a)' /\ pair'[d][a] = n
    BY Zenon, <1>3, <1>6 DEF Packed, Queued
  <2>2. NoTarget'
    BY Zenon, <1>3, <1>9, Strings DEF Queued, NoTarget
  <2>3. Empty(accepts)' /\ Empty(transfers)' /\ Empty(dones)' /\ Silent'
    BY Zenon, <1>3, <1>6, <1>7 DEF Queued, Empty, Silent
  <2>. QED BY Zenon, <2>1, <2>2, <2>3, <1>8, <1>9 DEF Agreed
<1>14. FlowInv'
  BY Zenon, <1>12, <1>13, FlowTo DEF Phase
<1>. QED BY Zenon, <1>6, <1>10, <1>11, <1>14, Assemble

LEMMA TransferStep ==
  ASSUME ContainerInv, NEW o \in Object, Transfer(o)
  PROVE  ContainerInv'
<1>1. /\ TypeInv /\ UseInv /\ FlowInv /\ OneUser
  BY Zenon DEF ContainerInv
<1>2. stage[o] = "accepted" /\ stage[o] \in Using /\ GoTo(o, "moved")
  BY Zenon, Strings DEF Transfer
<1>3. PICK n, d \in Server, a \in Addr : Ends(o, n, d, a) /\ Agreed(o, n, d, a)
  BY Zenon, <1>1, <1>2, WhenAgreed
<1>4. Home[o] = n /\ mempool[o] = a /\ rdma_memory[o] = a /\ pair[n][a] = d
  BY Zenon, <1>3 DEF Ends, Agreed
<1>5. Send(n, d, "TRANSFER", a)
  BY Zenon, <1>4 DEF Transfer
<1>6. UNCHANGED <<mem, pair, accepts, transfers, dones, mempool, rdma_memory, cont, inserted,
                  crashed>>
  BY Zenon DEF Transfer, objectVars, ghostVars
<1>7. wire' \in [Server -> [Server -> Seq(MsgType \X Addr)]] /\ SaysOnly(n, d, "TRANSFER", a)'
  <2>1. Silent /\ "TRANSFER" \in MsgType
    BY Zenon, <1>3 DEF Agreed, MsgType
  <2>. QED BY Zenon, <2>1, <1>1, <1>5, SendIs
<1>8. /\ stage' \in [Object -> Stage] /\ stage'[o] = "moved"
      /\ \A q \in Object : q # o => stage'[q] = stage[q]
  BY Zenon, <1>1, <1>2, StageUpdate, Strings
<1>9. TypeInv'
  BY Zenon, <1>1, <1>6, <1>7, <1>8 DEF TypeInv
<1>10. UseInv' /\ OneUser'
  <2>1. \A q \in Object : stage'[q] \in Using => stage[q] \in Using
    BY Zenon, <1>8, Strings
  <2>. QED BY Zenon, <2>1, <1>1, <1>6, UseSame
<1>11. Ends(o, n, d, a)'
  <2>1. \A q \in Object : q # o => stage'[q] \notin Migrating
    BY Zenon, <1>3, <1>8 DEF Ends
  <2>. QED BY Zenon, <2>1, <1>3, <1>6 DEF Ends
<1>12. Between(n, a)'
  <2>1. Packed(n, a)'
    BY Zenon, <1>3, <1>6 DEF Packed, Agreed
  <2>2. Whole(n, a)
    BY Zenon, <1>1, <1>2, <1>4 DEF UseInv
  <2>3. Whole(n, a)'
    BY Zenon, <2>2, <1>6, WholeKept DEF SamePool
  <2>4. \A q \in Object : stage'[q] \in Using => q # o /\ stage[q] \in Using
    BY Zenon, <1>8, Strings
  <2>5. Unused(a)'
    BY Zenon, <2>4, <1>1, <1>2, <1>4, <1>6 DEF OneUser, Unused
  <2>. QED BY Zenon, <2>1, <2>3, <2>5 DEF Between
<1>13. Sent(o, n, d, a)'
  <2>1. rdma_memory'[o] = a /\ pair'[d][a] = n
    BY Zenon, <1>3, <1>4, <1>6 DEF Agreed
  <2>2. NoTarget'
    BY Zenon, <1>3, <1>8, Strings DEF Agreed, NoTarget
  <2>3. Empty(accepts)' /\ Empty(transfers)' /\ Empty(dones)'
    BY Zenon, <1>3, <1>6 DEF Agreed, Empty
  <2>. QED BY Zenon, <2>1, <2>2, <2>3, <1>7, <1>8, <1>12 DEF Sent
<1>14. FlowInv'
  BY Zenon, <1>11, <1>13, FlowTo DEF Phase
<1>. QED BY Zenon, <1>6, <1>9, <1>10, <1>14, Assemble

\* The pull.
LEMMA OnTransferStep ==
  ASSUME ContainerInv, NEW x \in Server, NEW y \in Server, OnTransfer(x, y), PollerFrame
  PROVE  ContainerInv'
<1>1. /\ TypeInv /\ UseInv /\ FlowInv /\ OneUser
  BY Zenon DEF ContainerInv
<1>2. Message(x, y, "TRANSFER")
  BY Zenon DEF OnTransfer
<1>3. PICK s \in Object, n, d \in Server, a \in Addr :
        Ends(s, n, d, a) /\ Named(x, y) = a /\ x = d /\ y = n /\ Sent(s, n, d, a)
  <2>1. MessageOf(x, y, "TRANSFER")
    BY Zenon, <1>1, <1>2, WhenMessage
  <2>. QED BY <2>1 DEF MessageOf
<1>4. /\ Received(d, n) /\ transfers' = Enqueue(transfers, d, a)
      /\ mem' = [mem EXCEPT ![d][a] = mem[n][a]] /\ UNCHANGED <<pair, accepts, dones, crashed>>
  BY Zenon, <1>3 DEF OnTransfer
<1>5. MemWrite(d, a, mem[n][a])
  <2>1. mem \in [Server -> [Addr -> Pool]]
    BY Zenon, <1>1 DEF TypeInv
  <2>2. mem[n][a] \in Pool
    BY <2>1
  <2>. QED BY Zenon, <2>2, <1>1, <1>4, MemUpdate
<1>6. wire' \in [Server -> [Server -> Seq(MsgType \X Addr)]] /\ Silent'
  <2>1. SaysOnly(n, d, "TRANSFER", a)
    BY Zenon, <1>3 DEF Sent
  <2>. QED BY Zenon, <2>1, <1>1, <1>4, ReceivedIs
<1>7. transfers' \in [Server -> Seq(Addr)] /\ HasOnly(transfers', d, a)
  <2>1. Empty(transfers) /\ transfers \in [Server -> Seq(Addr)]
    BY Zenon, <1>1, <1>3 DEF Sent, TypeInv
  <2>. QED BY Zenon, <2>1, <1>4, EnqueueIs
<1>8. TypeInv'
  BY Zenon, <1>1, <1>4, <1>5, <1>6, <1>7 DEF TypeInv, PollerFrame, MemWrite
<1>9. SameUsers
  BY Zenon DEF SameUsers, PollerFrame
<1>10. Between(n, a)
  BY Zenon, <1>3 DEF Sent
<1>11. UseInv'
  <2>1. \A q \in Object : stage'[q] \in Using => SamePool(Home[q], mempool[q])
    <3>. SUFFICES ASSUME NEW q \in Object, stage[q] \in Using
                  PROVE  SamePool(Home[q], mempool[q])
      BY Zenon DEF PollerFrame
    <3>1. mempool[q] \in Addr /\ mempool[q] # a
      BY Zenon, <1>1, <1>10 DEF UseInv, Between, Unused
    <3>2. mem'[Home[q]][mempool[q]] = mem[Home[q]][mempool[q]]
      BY Zenon, <3>1, <1>5, HomeType DEF MemWrite
    <3>. QED BY Zenon, <3>2 DEF SamePool
  <2>. QED BY Zenon, <2>1, <1>1, <1>9, UseKept DEF PollerFrame
<1>12. OneUser'
  BY Zenon, <1>1, <1>9, OneUserKept
<1>13. Ends(s, n, d, a)'
  BY Zenon, <1>3, <1>4 DEF Ends, PollerFrame
<1>14. Between(d, a)'
  <2>1. mem'[d][a] = mem[n][a] /\ inserted'[a] = inserted[a]
    BY Zenon, <1>5 DEF MemWrite, PollerFrame
  <2>2. Packed(d, a)'
    BY Zenon, <2>1, <1>10 DEF Between, Packed
  <2>3. Whole(d, a)'
    BY Zenon, <2>1, <1>10 DEF Between, Whole
  <2>4. Unused(a)'
    BY Zenon, <1>10 DEF Between, Unused, PollerFrame
  <2>. QED BY Zenon, <2>2, <2>3, <2>4 DEF Between
<1>15. Pulled(s, n, d, a)'
  <2>1. stage'[s] = "moved" /\ rdma_memory'[s] = a /\ pair'[d][a] = n
    BY Zenon, <1>3, <1>4 DEF Sent, PollerFrame
  <2>2. NoTarget'
    BY Zenon, <1>3 DEF Sent, NoTarget, PollerFrame
  <2>3. Empty(accepts)' /\ Empty(dones)'
    BY Zenon, <1>3, <1>4 DEF Sent, Empty
  <2>4. HasOnly(transfers, d, a)'
    BY Zenon, <1>7 DEF HasOnly
  <2>. QED BY Zenon, <2>1, <2>2, <2>3, <2>4, <1>6, <1>14 DEF Pulled
<1>16. FlowInv'
  BY Zenon, <1>13, <1>15, FlowTo DEF Phase
<1>. QED BY Zenon, <1>4, <1>8, <1>11, <1>12, <1>16, Assemble DEF PollerFrame

\* The target program takes the segment.
LEMMA PollForTransferStep ==
  ASSUME ContainerInv, NEW o \in Object, PollForTransfer(o)
  PROVE  ContainerInv'
<1>1. /\ TypeInv /\ UseInv /\ FlowInv /\ OneUser
  BY Zenon DEF ContainerInv
<1>2. /\ stage[o] \in {"new", "gone"} /\ Peek(transfers, Home[o]) # Null /\ GoTo(o, "received")
      /\ Home[o] \in Server
  BY Zenon, HomeType DEF PollForTransfer
<1>3. PICK s \in Object, n, d \in Server, a \in Addr :
        /\ Ends(s, n, d, a) /\ Pulled(s, n, d, a)
        /\ Home[o] = d /\ Peek(transfers, Home[o]) = a
  BY Zenon, <1>1, <1>2, WhenPulled
<1>4. s # o
  BY <1>2, <1>3 DEF Pulled
<1>5. rdma_memory' = [rdma_memory EXCEPT ![o] = a] /\ transfers' = Dequeue(transfers, d)
  BY Zenon, <1>3 DEF PollForTransfer
<1>6. UNCHANGED <<mem, pair, wire, accepts, dones, mempool, cont, inserted, crashed>>
  BY Zenon DEF PollForTransfer, ghostVars
<1>7. transfers' \in [Server -> Seq(Addr)] /\ Empty(transfers')
  <2>1. HasOnly(transfers, d, a) /\ transfers \in [Server -> Seq(Addr)]
    BY Zenon, <1>1, <1>3 DEF Pulled, TypeInv
  <2>. QED BY Zenon, <2>1, <1>5, DequeueIs
<1>8. /\ rdma_memory' \in [Object -> Addr \cup {Null}] /\ rdma_memory'[o] = a
      /\ \A q \in Object : q # o => rdma_memory'[q] = rdma_memory[q]
  BY Zenon, <1>1, <1>5, RdmaUpdate
<1>9. /\ stage' \in [Object -> Stage] /\ stage'[o] = "received"
      /\ \A q \in Object : q # o => stage'[q] = stage[q]
  BY Zenon, <1>1, <1>2, StageUpdate, Strings
<1>10. TypeInv'
  BY Zenon, <1>1, <1>6, <1>7, <1>8, <1>9 DEF TypeInv
<1>11. \A q \in Object : stage'[q] \in Using => stage[q] \in Using
  BY Zenon, <1>9, Strings
<1>12. UseInv' /\ OneUser'
  BY Zenon, <1>1, <1>6, <1>11, UseSame
<1>13. Ends(s, n, d, a)'
  <2>1. \A q \in Object : q # s => stage'[q] \notin Migrating
    BY Zenon, <1>3, <1>9, Strings DEF Ends
  <2>. QED BY Zenon, <2>1, <1>3, <1>6 DEF Ends
<1>14. Between(d, a)'
  <2>1. Between(d, a)
    BY Zenon, <1>3 DEF Pulled
  <2>2. Unused(a)'
    BY Zenon, <2>1, <1>6, <1>11 DEF Between, Unused
  <2>. QED BY Zenon, <2>1, <2>2, <1>6, BetweenKept
<1>15. Taken(s, n, d, a)'
  <2>1. stage'[s] = "moved" /\ rdma_memory'[s] = a /\ pair'[d][a] = n
    BY Zenon, <1>3, <1>4, <1>6, <1>8, <1>9 DEF Pulled
  <2>2. \A q \in Object : q # o => stage'[q] \notin Receiving
    BY Zenon, <1>3, <1>9 DEF Pulled, NoTarget
  <2>3. Target(o, d, a, "received")'
    BY Zenon, <2>2, <1>3, <1>8, <1>9 DEF Target
  <2>4. Empty(accepts)' /\ Empty(transfers)' /\ Empty(dones)' /\ Silent'
    BY Zenon, <1>3, <1>6, <1>7 DEF Pulled, Empty, Silent
  <2>. QED BY Zenon, <2>1, <2>3, <2>4, <1>14 DEF Taken
<1>16. FlowInv'
  BY Zenon, <1>13, <1>15, FlowTo DEF Phase
<1>. QED BY Zenon, <1>6, <1>10, <1>12, <1>16, Assemble

\* The segment is whole, its container object is where the packed address says, and no other
\* container uses it.
LEMMA RemoteInstantiateStep ==
  ASSUME ContainerInv, NEW o \in Object, RemoteInstantiate(o)
  PROVE  ContainerInv'
<1>1. /\ TypeInv /\ UseInv /\ FlowInv /\ OneUser
  BY Zenon DEF ContainerInv
<1>2. stage[o] = "received" /\ GoTo(o, "attached")
  BY Zenon DEF RemoteInstantiate
<1>3. PICK s \in Object, n, d \in Server, a \in Addr :
        Ends(s, n, d, a) /\ Target(o, d, a, "received") /\ Taken(s, n, d, a)
  <2>1. \E s \in Object, n, d \in Server, a \in Addr :
          /\ Ends(s, n, d, a) /\ Target(o, d, a, "received")
          /\ \/ "received" = "received" /\ Taken(s, n, d, a)
             \/ "received" = "attached" /\ Attached(s, n, d, a)
    BY Zenon, <1>1, <1>2, WhenReceiving, Strings
  <2>. QED BY <2>1
<1>4. /\ Home[o] = d /\ rdma_memory[o] = a /\ d # n /\ Home[s] = n
  BY Zenon, <1>3 DEF Target, Ends
<1>5. Packed(d, a) /\ Whole(d, a) /\ Unused(a)
  BY Zenon, <1>3 DEF Taken, Between
<1>6. mempool' = [mempool EXCEPT ![o] = a] /\ SetContainerAddress(o, PoolStart)
  BY Zenon, <1>4, <1>5 DEF RemoteInstantiate, Packed
<1>7. UNCHANGED <<mem, pair, wire, accepts, transfers, dones, rdma_memory, inserted,
                  crashed>>
  BY Zenon DEF RemoteInstantiate, managerVars, ghostVars
<1>8. /\ mempool' \in [Object -> Addr \cup {Null}] /\ mempool'[o] = a
      /\ \A q \in Object : q # o => mempool'[q] = mempool[q]
  BY Zenon, <1>1, <1>6, PoolUpdate
<1>9. /\ cont' \in [Object -> Nat] /\ cont'[o] = PoolStart
      /\ \A q \in Object : q # o => cont'[q] = cont[q]
  <2>1. PoolStart \in Nat
    BY DEF PoolStart
  <2>. QED BY Zenon, <2>1, <1>1, <1>6, ContUpdate
<1>10. /\ stage' \in [Object -> Stage] /\ stage'[o] = "attached"
       /\ \A q \in Object : q # o => stage'[q] = stage[q]
  BY Zenon, <1>1, <1>2, StageUpdate, Strings
<1>11. TypeInv'
  BY Zenon, <1>1, <1>7, <1>8, <1>9, <1>10 DEF TypeInv
<1>12. \A q \in Object : q # o /\ stage'[q] \in Using =>
         stage[q] \in Using /\ mempool'[q] = mempool[q] /\ cont'[q] = cont[q] /\ mempool[q] # a
  BY Zenon, <1>5, <1>8, <1>9, <1>10 DEF Unused
<1>13. UseInv'
  <2>. SUFFICES ASSUME NEW q \in Object, stage'[q] \in Using
                PROVE  /\ mempool'[q] \in Addr /\ cont'[q] = PoolStart
                       /\ Whole(Home[q], mempool'[q])
    BY Zenon, <1>7 DEF UseInv, Whole
  <2>1. CASE q = o
    BY Zenon, <2>1, <1>4, <1>5, <1>8, <1>9
  <2>2. CASE q # o
    BY Zenon, <2>2, <1>1, <1>12 DEF UseInv
  <2>. QED BY Zenon, <2>1, <2>2
<1>14. OneUser'
  <2>. SUFFICES ASSUME NEW p \in Object, NEW q \in Object, p # q, stage'[p] \in Using,
                       stage'[q] \in Using, mempool'[p] = mempool'[q]
                PROVE  FALSE
    BY Zenon DEF OneUser
  <2>1. CASE p # o /\ q # o
    BY Zenon, <2>1, <1>1, <1>12 DEF OneUser
  <2>2. CASE p = o
    BY Zenon, <2>2, <1>8, <1>12
  <2>3. CASE q = o
    BY Zenon, <2>3, <1>8, <1>12
  <2>. QED BY Zenon, <2>1, <2>2, <2>3
<1>15. s # o
  BY Zenon, <1>4
<1>16. Ends(s, n, d, a)'
  <2>1. \A q \in Object : q # s => stage'[q] \notin Migrating
    BY Zenon, <1>3, <1>10, Strings DEF Ends
  <2>2. mempool'[s] = a
    BY Zenon, <1>3, <1>8, <1>15 DEF Ends
  <2>. QED BY Zenon, <2>1, <2>2, <1>3, <1>7 DEF Ends
<1>17. Attached(s, n, d, a)'
  <2>1. stage'[s] = "moved" /\ rdma_memory'[s] = a /\ pair'[d][a] = n
    BY Zenon, <1>3, <1>7, <1>10, <1>15 DEF Taken
  <2>2. \A q \in Object : q # o => stage'[q] \notin Receiving
    BY Zenon, <1>3, <1>10 DEF Target
  <2>3. Target(o, d, a, "attached")'
    BY Zenon, <2>2, <1>4, <1>7, <1>10 DEF Target
  <2>4. Empty(accepts)' /\ Empty(transfers)' /\ Empty(dones)' /\ Silent'
    BY Zenon, <1>3, <1>7 DEF Taken, Empty, Silent
  <2>5. Away(n, a)'
    BY Zenon, <1>4, <1>12 DEF Away
  <2>. QED BY Zenon, <2>1, <2>3, <2>4, <2>5 DEF Attached
<1>18. FlowInv'
  BY Zenon, <1>16, <1>17, FlowTo DEF Phase
<1>. QED BY Zenon, <1>7, <1>11, <1>13, <1>14, <1>18, Assemble

LEMMA CloseStep ==
  ASSUME ContainerInv, NEW o \in Object, Close(o)
  PROVE  ContainerInv'
<1>1. /\ TypeInv /\ UseInv /\ FlowInv /\ OneUser
  BY Zenon DEF ContainerInv
<1>2. stage[o] = "attached" /\ GoTo(o, "used")
  BY Zenon DEF Close
<1>3. PICK s \in Object, n, d \in Server, a \in Addr :
        Ends(s, n, d, a) /\ Target(o, d, a, "attached") /\ Attached(s, n, d, a)
  <2>1. \E s \in Object, n, d \in Server, a \in Addr :
          /\ Ends(s, n, d, a) /\ Target(o, d, a, "attached")
          /\ \/ "attached" = "received" /\ Taken(s, n, d, a)
             \/ "attached" = "attached" /\ Attached(s, n, d, a)
    BY Zenon, <1>1, <1>2, WhenReceiving, Strings
  <2>. QED BY <2>1
<1>4. Home[o] = d /\ rdma_memory[o] = a /\ d # n /\ Home[s] = n /\ pair[d][a] = n
  BY Zenon, <1>3 DEF Target, Ends, Attached
<1>5. Send(d, n, "DONE", a)
  BY Zenon, <1>4 DEF Close
<1>6. UNCHANGED <<mem, pair, accepts, transfers, dones, mempool, rdma_memory, cont, inserted,
                  crashed>>
  BY Zenon DEF Close, objectVars, ghostVars
<1>7. wire' \in [Server -> [Server -> Seq(MsgType \X Addr)]] /\ SaysOnly(d, n, "DONE", a)'
  <2>1. Silent /\ "DONE" \in MsgType
    BY Zenon, <1>3 DEF Attached, MsgType
  <2>. QED BY Zenon, <2>1, <1>1, <1>5, SendIs
<1>8. /\ stage' \in [Object -> Stage] /\ stage'[o] = "used"
      /\ \A q \in Object : q # o => stage'[q] = stage[q]
  BY Zenon, <1>1, <1>2, StageUpdate, Strings
<1>9. TypeInv'
  BY Zenon, <1>1, <1>6, <1>7, <1>8 DEF TypeInv
<1>10. \A q \in Object : stage'[q] \in Using => stage[q] \in Using
  BY Zenon, <1>2, <1>8, Strings
<1>11. UseInv' /\ OneUser'
  BY Zenon, <1>1, <1>6, <1>10, UseSame
<1>12. Ends(s, n, d, a)'
  <2>1. \A q \in Object : q # s => stage'[q] \notin Migrating
    BY Zenon, <1>3, <1>8, Strings DEF Ends
  <2>. QED BY Zenon, <2>1, <1>3, <1>6 DEF Ends
<1>13. Closing(s, n, d, a)'
  <2>1. stage'[s] = "moved" /\ rdma_memory'[s] = a
    BY Zenon, <1>3, <1>4, <1>6, <1>8 DEF Attached
  <2>2. NoTarget'
    BY Zenon, <1>3, <1>8, Strings DEF Target, NoTarget
  <2>3. Empty(accepts)' /\ Empty(transfers)' /\ Empty(dones)'
    BY Zenon, <1>3, <1>6 DEF Attached, Empty
  <2>4. Away(n, a)'
    BY Zenon, <1>3, <1>6, <1>10 DEF Attached, Away
  <2>. QED BY Zenon, <2>1, <2>2, <2>3, <2>4, <1>7 DEF Closing
<1>14. FlowInv'
  BY Zenon, <1>12, <1>13, FlowTo DEF Phase
<1>. QED BY Zenon, <1>6, <1>9, <1>11, <1>14, Assemble

LEMMA OnCloseStep ==
  ASSUME ContainerInv, NEW x \in Server, NEW y \in Server, OnClose(x, y), PollerFrame
  PROVE  ContainerInv'
<1>1. /\ TypeInv /\ UseInv /\ FlowInv /\ OneUser
  BY Zenon DEF ContainerInv
<1>2. Message(x, y, "DONE")
  BY Zenon DEF OnClose
<1>3. PICK s \in Object, n, d \in Server, a \in Addr :
        Ends(s, n, d, a) /\ Named(x, y) = a /\ x = n /\ y = d /\ Closing(s, n, d, a)
  <2>1. MessageOf(x, y, "DONE")
    BY Zenon, <1>1, <1>2, WhenMessage
  <2>. QED BY <2>1 DEF MessageOf
<1>4. /\ Received(n, d) /\ dones' = Enqueue(dones, n, a)
      /\ UNCHANGED <<mem, pair, accepts, transfers, crashed>>
  BY Zenon, <1>3 DEF OnClose
<1>5. wire' \in [Server -> [Server -> Seq(MsgType \X Addr)]] /\ Silent'
  <2>1. SaysOnly(d, n, "DONE", a)
    BY Zenon, <1>3 DEF Closing
  <2>. QED BY Zenon, <2>1, <1>1, <1>4, ReceivedIs
<1>6. dones' \in [Server -> Seq(Addr)] /\ HasOnly(dones', n, a)
  <2>1. Empty(dones) /\ dones \in [Server -> Seq(Addr)]
    BY Zenon, <1>1, <1>3 DEF Closing, TypeInv
  <2>. QED BY Zenon, <2>1, <1>4, EnqueueIs
<1>7. TypeInv'
  BY Zenon, <1>1, <1>4, <1>5, <1>6 DEF TypeInv, PollerFrame
<1>8. UseInv' /\ OneUser'
  BY Zenon, <1>1, <1>4, UseSame DEF PollerFrame
<1>9. Ends(s, n, d, a)'
  BY Zenon, <1>3, <1>4 DEF Ends, PollerFrame
<1>10. Closed(s, n, d, a)'
  <2>1. stage'[s] = "moved" /\ rdma_memory'[s] = a
    BY Zenon, <1>3 DEF Closing, PollerFrame
  <2>2. NoTarget' /\ Away(n, a)'
    BY Zenon, <1>3 DEF Closing, NoTarget, Away, PollerFrame
  <2>3. Empty(accepts)' /\ Empty(transfers)'
    BY Zenon, <1>3, <1>4 DEF Closing, Empty
  <2>4. HasOnly(dones, n, a)'
    BY Zenon, <1>6 DEF HasOnly
  <2>. QED BY Zenon, <2>1, <2>2, <2>3, <2>4, <1>5 DEF Closed
<1>11. FlowInv'
  BY Zenon, <1>9, <1>10, FlowTo DEF Phase
<1>. QED BY Zenon, <1>4, <1>7, <1>8, <1>11, Assemble DEF PollerFrame

\* The source frees its copy, which nobody uses any more.
LEMMA PollForCloseStep ==
  ASSUME ContainerInv, NEW o \in Object, PollForClose(o)
  PROVE  ContainerInv'
<1>1. /\ TypeInv /\ UseInv /\ FlowInv /\ OneUser
  BY Zenon DEF ContainerInv
<1>2. stage[o] = "moved" /\ Peek(dones, Home[o]) = mempool[o] /\ GoTo(o, "gone")
  BY Zenon DEF PollForClose
<1>3. PICK n, d \in Server, a \in Addr : Ends(o, n, d, a) /\ Closed(o, n, d, a)
  BY Zenon, <1>1, <1>2, WhenClosed
<1>4. Home[o] = n /\ mempool[o] = a
  BY Zenon, <1>3 DEF Ends
<1>5. /\ rdma_memory' = [rdma_memory EXCEPT ![o] = a] /\ dones' = Dequeue(dones, n)
      /\ mem' = [mem EXCEPT ![n][a] = Unmapped]
  BY Zenon, <1>4 DEF PollForClose, Deallocate
<1>6. UNCHANGED <<pair, wire, accepts, transfers, mempool, cont, inserted, crashed>>
  BY Zenon DEF PollForClose, ghostVars
<1>7. MemWrite(n, a, Unmapped)
  BY Zenon, <1>1, <1>5, EmptyPools, MemUpdate
<1>8. dones' \in [Server -> Seq(Addr)] /\ Empty(dones')
  <2>1. HasOnly(dones, n, a) /\ dones \in [Server -> Seq(Addr)]
    BY Zenon, <1>1, <1>3 DEF Closed, TypeInv
  <2>. QED BY Zenon, <2>1, <1>5, DequeueIs
<1>9. rdma_memory' \in [Object -> Addr \cup {Null}]
  BY Zenon, <1>1, <1>5, RdmaUpdate
<1>10. /\ stage' \in [Object -> Stage] /\ stage'[o] = "gone"
       /\ \A q \in Object : q # o => stage'[q] = stage[q]
  BY Zenon, <1>1, <1>2, StageUpdate, Strings
<1>11. TypeInv'
  BY Zenon, <1>1, <1>6, <1>7, <1>8, <1>9, <1>10 DEF TypeInv, MemWrite
<1>12. SameUsers
  BY Zenon, <1>6, <1>10, Strings DEF SameUsers
<1>13. UseInv'
  <2>1. \A q \in Object : stage'[q] \in Using => SamePool(Home[q], mempool[q])
    <3>. SUFFICES ASSUME NEW q \in Object, stage'[q] \in Using
                  PROVE  SamePool(Home[q], mempool[q])
      BY Zenon
    <3>0. stage[q] \in Using
      BY Zenon, <1>12 DEF SameUsers
    <3>1. mempool[q] \in Addr
      BY Zenon, <3>0, <1>1 DEF UseInv
    <3>2. Home[q] # n \/ mempool[q] # a
      BY Zenon, <3>0, <1>3 DEF Closed, Away
    <3>3. mem'[Home[q]][mempool[q]] = mem[Home[q]][mempool[q]]
      BY Zenon, <3>1, <3>2, <1>7, HomeType DEF MemWrite
    <3>. QED BY Zenon, <3>3 DEF SamePool
  <2>. QED BY Zenon, <2>1, <1>1, <1>6, <1>12, UseKept
<1>14. OneUser'
  BY Zenon, <1>1, <1>12, OneUserKept
<1>15. Still'
  <2>1. NoSource'
    BY Zenon, <1>3, <1>10, Strings DEF Ends, NoSource
  <2>2. NoTarget'
    BY Zenon, <1>3, <1>10, Strings DEF Closed, NoTarget
  <2>3. Silent' /\ Empty(accepts)' /\ Empty(transfers)' /\ Empty(dones)'
    BY Zenon, <1>3, <1>6, <1>8 DEF Closed, Silent, Empty
  <2>. QED BY Zenon, <2>1, <2>2, <2>3 DEF Still
<1>16. FlowInv'
  BY Zenon, <1>15 DEF FlowInv
<1>. QED BY Zenon, <1>6, <1>11, <1>13, <1>14, <1>16, Assemble

-----------------------------------------------------------------------------
(* The theorems.                                                           *)

LEMMA InitContainer == Init => ContainerInv
<1>. SUFFICES ASSUME Init PROVE ContainerInv
  OBVIOUS
<1>1. /\ stage = [o \in Object |-> "new"] /\ inserted = [a \in Addr |-> {}]
      /\ \A o \in Object : stage[o] = "new"
      /\ \A a \in Addr : inserted[a] = {}
  BY DEF Init
<1>2. TypeInv
  <2>1. mem \in [Server -> [Addr -> Pool]]
    <3>. HIDE DEF Pool
    <3>. QED BY EmptyPools DEF Init
  <2>2. /\ pair \in [Server -> [Addr -> Server]]
        /\ wire \in [Server -> [Server -> Seq(MsgType \X Addr)]]
    BY DEF Init
  <2>3. /\ accepts \in [Server -> Seq(Addr)] /\ transfers \in [Server -> Seq(Addr)]
        /\ dones \in [Server -> Seq(Addr)]
    BY DEF Init
  <2>4. mempool \in [Object -> Addr \cup {Null}] /\ rdma_memory \in [Object -> Addr \cup {Null}]
    BY DEF Init
  <2>5. cont \in [Object -> Nat] /\ stage \in [Object -> Stage]
    BY DEF Init, Stage
  <2>6. inserted \in [Addr -> SUBSET Block]
    BY <1>1
  <2>. QED BY Zenon, <2>1, <2>2, <2>3, <2>4, <2>5, <2>6 DEF TypeInv
<1>3. UseInv /\ OneUser
  BY Zenon, <1>1, Strings DEF UseInv, OneUser
<1>4. FlowInv
  <2>1. NoSource /\ NoTarget
    BY Zenon, <1>1, Strings DEF NoSource, NoTarget
  <2>2. Silent
    BY DEF Init, Silent
  <2>3. Empty(accepts) /\ Empty(transfers) /\ Empty(dones)
    BY DEF Init, Empty
  <2>. QED BY Zenon, <2>1, <2>2, <2>3 DEF Still, FlowInv
<1>5. BlocksDisjoint
  BY Zenon, <1>1 DEF BlocksDisjoint
<1>6. NoFault
  BY Zenon DEF Init, NoFault
<1>. QED BY Zenon, <1>2, <1>3, <1>4, <1>5, <1>6 DEF ContainerInv

LEMMA StepContainer ==
  ASSUME Alone, ~EarlyReturn, ~MayReuse, ~DestroyGone, ContainerInv, [Next]_vars
  PROVE  ContainerInv'
<1>1. ASSUME NEW o \in Object, Program(o) PROVE ContainerInv'
  BY Zenon, <1>1, InstantiateStep, InsertStep, PrepareStep, DestroyStep DEF Program
<1>2. ASSUME NEW o \in Object, GoOn(o) PROVE ContainerInv'
  BY Zenon, <1>2, PollForAcceptStep, TransferStep, PollForCloseStep, PollForTransferStep,
     RemoteInstantiateStep, CloseStep DEF GoOn
<1>3. ASSUME NEW n \in Server, Poll(n) PROVE ContainerInv'
  <2>1. PollerFrame
    BY Zenon, <1>3 DEF Poll, PollerFrame, objectVars, ghostVars
  <2>2. PICK m \in Server :
          OnPrepare(n, m) \/ OnAccept(n, m) \/ OnTransfer(n, m) \/ OnClose(n, m)
    BY Zenon, <1>3 DEF Poll
  <2>. QED BY Zenon, <2>1, <2>2, OnPrepareStep, OnAcceptStep, OnTransferStep, OnCloseStep
<1>4. CASE UNCHANGED vars
  <2>1. /\ UNCHANGED <<mem, pair, wire, accepts, transfers, dones, mempool, rdma_memory, cont>>
        /\ UNCHANGED <<stage, inserted, crashed>>
    BY Zenon, <1>4 DEF vars, managerVars, objectVars, ghostVars
  <2>2. TypeInv'
    BY Zenon, <2>1 DEF ContainerInv, TypeInv
  <2>3. UseInv' /\ OneUser'
    BY Zenon, <2>1, UseSame DEF ContainerInv
  <2>4. Aside
    <3>1. \A n, a : Between(n, a) => Between(n, a)'
      BY Zenon, <2>1, BetweenKept DEF Between, Unused
    <3>2. \A n, a : Away(n, a) => Away(n, a)'
      BY Zenon, <2>1 DEF Away
    <3>. QED BY Zenon, <2>1, <3>1, <3>2 DEF Aside, Packed
  <2>5. FlowInv'
    BY Zenon, <2>4, AsideKeeps DEF ContainerInv
  <2>. QED BY Zenon, <2>1, <2>2, <2>3, <2>5, Assemble
<1>. QED BY Zenon, <1>1, <1>2, <1>3, <1>4 DEF Next

(* When one container of the cluster migrates at a time, the invariant of the hand-over holds on
   every run: one message, queue entry or program has the segment's turn, and each phase says
   which copy is whole and who may use it. *)
THEOREM ContainerHolds ==
  ASSUME Alone, ~EarlyReturn, ~MayReuse, ~DestroyGone
  PROVE  Spec => []ContainerInv
BY InitContainer, StepContainer, PTL DEF Spec

(* No two blocks that MemoryPool::allocate has ever handed out in a container overlap, on whatever
   servers they were allocated, and none covers the header of the segment. *)
THEOREM BlocksCorrect ==
  ASSUME Alone, ~EarlyReturn, ~MayReuse, ~DestroyGone
  PROVE  Spec => []BlocksDisjoint
<1>1. ContainerInv => BlocksDisjoint
  BY Zenon DEF ContainerInv
<1>. QED BY ContainerHolds, <1>1, PTL

(* A container in use has every block that was ever allocated in it, before and after any number
   of migrations, and its object is where Prepare packed it. *)
THEOREM IntactCorrect ==
  ASSUME Alone, ~EarlyReturn, ~MayReuse, ~DestroyGone
  PROVE  Spec => []ContainerIntact
<1>1. ContainerInv => ContainerIntact
  BY Zenon DEF ContainerInv, UseInv, Whole, ContainerIntact, Segment
<1>. QED BY ContainerHolds, <1>1, PTL

(* Two container objects never use the same segment, on one server or on two. *)
THEOREM UserCorrect ==
  ASSUME Alone, ~EarlyReturn, ~MayReuse, ~DestroyGone
  PROVE  Spec => []OneUser
<1>1. ContainerInv => OneUser
  BY Zenon DEF ContainerInv
<1>. QED BY ContainerHolds, <1>1, PTL

(* No method of a container that has its segment, its destructor included, and no handler of the
   poller touches memory that is not mapped.  The destructor of a container whose segment is gone
   is excluded (~DestroyGone): it does touch such memory. *)
THEOREM FaultFree ==
  ASSUME Alone, ~EarlyReturn, ~MayReuse, ~DestroyGone
  PROVE  Spec => []NoFault
<1>1. ContainerInv => NoFault
  BY Zenon DEF ContainerInv
<1>. QED BY ContainerHolds, <1>1, PTL
=============================================================================
