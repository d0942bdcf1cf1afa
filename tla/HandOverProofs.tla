--------------------------- MODULE HandOverProofs ---------------------------
(***************************************************************************)
(* MigrationInv is inductive: the steps that allocate a segment, begin a   *)
(* hand-over or carry it on preserve it, too.  The theorems follow.        *)
(***************************************************************************)
EXTENDS MigrationProofs

USE SMTT(100)

-----------------------------------------------------------------------------
(* allocate.                                                                 *)

\* The slice of a server has natural bounds, and alloc_address is in it.
LEMMA SliceBounds ==
  ASSUME TypeOK, NEW n \in Server
  PROVE  /\ Start(n) \in Nat /\ End(n) \in Nat
         /\ alloc_address[n] \in Nat /\ Start(n) <= alloc_address[n] /\ alloc_address[n] <= End(n)
<1>1. n \in Nat /\ PerServer \in Nat
  BY ConstantsAssumption DEF Server
<1>2. Start(n) \in Nat /\ End(n) \in Nat
  BY <1>1 DEF Start, End
<1>3. alloc_address[n] \in Nat /\ alloc_address[n] \in Start(n) .. End(n)
  BY ZenonT(100) DEF TypeOK
<1>. QED BY <1>2, <1>3

\* The slices of two servers do not meet.
LEMMA SlicesDisjoint ==
  ASSUME NEW m \in Server, NEW n \in Server, NEW a \in Nat,
         Start(m) <= a, a < End(m), Start(n) <= a, a < End(n)
  PROVE  m = n
<1>1. m \in Nat /\ n \in Nat /\ PerServer \in Nat
  BY ConstantsAssumption DEF Server
<1>2. \A x, y \in Nat : x < y => (x + 1) * PerServer <= y * PerServer
  BY <1>1
<1>3. \A x, y \in Nat : x < y => End(x) <= Start(y)
  BY <1>1, <1>2 DEF Start, End
<1>4. Start(m) \in Nat /\ Start(n) \in Nat /\ End(m) \in Nat /\ End(n) \in Nat
  BY <1>1 DEF Start, End
<1>. QED BY <1>1, <1>3, <1>4

LEMMA AllocateFreshKeeps ==
  ASSUME MigrationInv, TypeOK', NEW n \in Server, AllocateFresh(n)
  PROVE  MigrationInv'
<1>. DEFINE a == alloc_address[n]
<1>1. TypeOK
  BY ZenonT(100) DEF MigrationInv
<1>2. a \in Nat /\ Start(n) <= a /\ a < End(n) /\ Start(n) \in Nat /\ End(n) \in Nat /\ a + 1 <= End(n)
  BY <1>1, SliceBounds DEF AllocateFresh
<1>3. a \in Addr
  BY ZenonT(100), <1>2, SliceInRange
<1>4. \A x \in Server : phase[x][a] = "none" /\ memory[x][a] = Unmapped
  BY <1>2, <1>3 DEF MigrationInv, FreshUnknown
<1>5. /\ PutMemory(n, a, 0) /\ PutObject(n, a, RDMAMemory(n)) /\ PutPhase(n, a, "held")
      /\ alloc_address' = [alloc_address EXCEPT ![n] = a + 1]
      /\ UNCHANGED <<registrations, chan, recv_queue, incoming_accepts, incoming_transfers,
                     incoming_dones>>
  BY ZenonT(100), <1>4 DEF AllocateFresh, PutMemory, PutObject, PutPhase, connVars, netVars, queueVars
<1>6. RDMAMemory(n) \in Object /\ RDMAMemory(n).state = "Clean" /\ "held" \in Phase
  BY ZenonT(100) DEF RDMAMemory, Object, Phase
<1>7. \A x \in Server : /\ alloc_address[x] \in Nat /\ Start(x) <= alloc_address[x]
                        /\ alloc_address'[x] = IF x = n THEN a + 1 ELSE alloc_address[x]
                        /\ End(x) \in Nat /\ Start(x) \in Nat
  <2>1. alloc_address \in [Server -> Nat]
    BY ZenonT(100), <1>1 DEF TypeOK
  <2>. QED BY ZenonT(100), <1>1, <1>5, <2>1, SliceBounds
<1>. HIDE DEF a
<1>8. \A x \in Server, b \in Addr :
        /\ phase'[x][b] = IF x = n /\ b = a THEN "held" ELSE phase[x][b]
        /\ memory'[x][b] = IF x = n /\ b = a THEN 0 ELSE memory[x][b]
        /\ memory_map'[x][b] = IF x = n /\ b = a THEN RDMAMemory(n) ELSE memory_map[x][b]
  <2>1. \A x \in Server, b \in Addr :
          phase'[x][b] = IF x = n /\ b = a THEN "held" ELSE phase[x][b]
    BY <1>1, <1>3, <1>5, <1>6, PutPhaseEffect
  <2>2. \A x \in Server, b \in Addr :
          memory'[x][b] = IF x = n /\ b = a THEN 0 ELSE memory[x][b]
    BY <1>1, <1>3, <1>5, PutMemoryEffect
  <2>3. \A x \in Server, b \in Addr :
          memory_map'[x][b] = IF x = n /\ b = a THEN RDMAMemory(n) ELSE memory_map[x][b]
    BY <1>1, <1>3, <1>5, <1>6, PutObjectEffect
  <2>. QED BY ZenonT(100), <2>1, <2>2, <2>3
<1>9. \A x \in Server, b \in Addr : ~(x = n /\ b = a) => pair(x, b)' = pair(x, b)
  BY ZenonT(100), <1>8 DEF pair
<1>10. /\ MessagesDistinct' /\ \A x, y \in Server : Pending(x, y)' = Pending(x, y)
       /\ \A x, y, t, b : Token(x, y, t, b)' <=> Token(x, y, t, b)
  BY ZenonT(100), <1>5, NetSame
<1>f. \A x, y \in Server, b \in Addr : Finishing(x, y, b)' <=> Finishing(x, y, b)
  BY ZenonT(100), <1>5, <1>10 DEF Finishing
<1>11. FreshUnknown'
  <2>. SUFFICES ASSUME NEW x \in Server, NEW y \in Server, NEW b \in Addr,
                       alloc_address'[y] <= b, b < End(y)
                PROVE  phase'[x][b] = "none" /\ memory'[x][b] = Unmapped
    BY ZenonT(100) DEF FreshUnknown
  <2>1. b \in Nat /\ alloc_address[y] <= b
    <3>1. b \in Nat
      BY ZenonT(100), AddressFacts
    <3>. QED BY <1>2, <1>7, <3>1 DEF a
  <2>2. b # a
    <3>1. SUFFICES ASSUME b = a PROVE FALSE
      BY ZenonT(100)
    <3>2. y = n
      BY <1>2, <1>7, <2>1, <3>1, SlicesDisjoint
    <3>. QED BY <1>2, <1>7, <3>1, <3>2
  <2>. QED BY <1>8, <2>1, <2>2 DEF MigrationInv, FreshUnknown
<1>12. KnownMapped'
  <2>1. ASSUME NEW x \in Server, NEW b \in Addr
        PROVE  /\ phase'[x][b] # "none" => phase[x][b] # "none" \/ memory'[x][b] # Unmapped
               /\ phase'[x][b] # "none" /\ memory[x][b] # Unmapped => memory'[x][b] # Unmapped
               /\ Usable(x, b)' => Usable(x, b) \/ memory_map'[x][b].state = "Clean"
               /\ Usable(x, b)' /\ memory_map[x][b].state = "Clean" => memory_map'[x][b].state = "Clean"
    <3>1. CASE x = n /\ b = a
      <4>1. memory'[x][b] # Unmapped
        BY <1>8, <3>1 DEF Unmapped
      <4>2. memory_map'[x][b].state = "Clean"
        BY ZenonT(100), <1>6, <1>8, <3>1
      <4>. QED BY ZenonT(100), <4>1, <4>2
    <3>2. CASE ~(x = n /\ b = a)
      BY ZenonT(100), <1>8, <3>2 DEF Usable
    <3>. QED BY ZenonT(100), <3>1, <3>2
  <2>. QED BY ZenonT(100), <2>1, KnownKept
<1>13. /\ PrepareSent' /\ AcceptSent' /\ AcceptQueued' /\ AcceptPolled'
       /\ TransferSent' /\ TransferQueued' /\ TransferPolled'
       /\ DoneSent' /\ DoneQueued' /\ MovedPaired'
  <2>. SUFFICES ASSUME NEW c \in Addr, c = a
                PROVE  /\ PrepareSent' /\ AcceptSent' /\ AcceptQueued' /\ AcceptPolled'
                       /\ TransferSent' /\ TransferQueued' /\ TransferPolled'
                       /\ DoneSent' /\ DoneQueued' /\ MovedPaired'
    BY ZenonT(100), <1>3
  <2>1. /\ phase[n][c] = "none" /\ memory[n][c] = Unmapped /\ phase'[n][c] = "held"
        /\ \A x \in Server : phase[x][c] # "moved"
    BY <1>4, <1>8
  <2>2. \A x \in Server, b \in Addr : ~(x = n /\ b = c) =>
          /\ phase'[x][b] = phase[x][b] /\ memory'[x][b] = memory[x][b]
          /\ memory_map'[x][b] = memory_map[x][b]
    BY ZenonT(100), <1>8
  <2>3. /\ \A y \in Server : /\ ~Token(n, y, "PREPARE", c) /\ ~Token(y, n, "ACCEPT", c)
                             /\ ~Reserved(n, y, c)
        /\ c \notin Range(incoming_accepts[n])
    BY ZenonT(100), <2>1 DEF MigrationInv, PrepareSent, AcceptSent, AcceptQueued, Reserved
  <2>4. phase[n][c] # "moved" /\ phase'[n][c] # "moved" /\ phase'[n][c] # "arrived"
        /\ phase'[n][c] # "accepted"
    BY <2>1
  <2>5. \A x \in Server, b \in Addr : b \in Range(incoming_accepts'[x]) =>
          b \in Range(incoming_accepts[x]) /\ ~(x = n /\ b = c)
    BY ZenonT(100), <1>5, <2>3
  <2>. QED BY ZenonT(100), <1>5, <2>1, <2>2, <2>3, <2>4, <2>5, LocalStep
<1>16. OneHolder'
  <2>1. ASSUME NEW x \in Server, NEW b \in Addr, InTransit(x, b)'
        PROVE  InTransit(x, b) /\ b # a
    <3>1. phase[x][b] = "moved" /\ b # a
      BY <1>4, <1>8, <2>1 DEF InTransit
    <3>2. pair(x, b)' = pair(x, b) /\ pair(x, b) \in Server
      BY ZenonT(100), <1>9, <3>1 DEF MigrationInv, MovedPaired
    <3>. QED BY ZenonT(100), <1>5, <1>9, <1>10, <2>1, <3>1, <3>2 DEF InTransit
  <2>2. ASSUME NEW x \in Server, NEW b \in Addr, Usable(x, b)'
        PROVE  IF b = a THEN x = n ELSE Usable(x, b)
    BY ZenonT(100), <1>4, <1>8, <2>2 DEF Usable
  <2>. QED BY <2>1, <2>2 DEF MigrationInv, OneHolder
<1>17. QueuesDistinct' /\ ReadKeyLive'
  <2>1. QueuesDistinct'
    BY ZenonT(100), <1>5, <1>10 DEF MigrationInv, QueuesDistinct
  <2>2. ReadKeyLive'
    BY ZenonT(100), <1>1, <1>5, <1>10, KeysKept DEF MigrationInv
  <2>. QED BY ZenonT(100), <2>1, <2>2
<1>. QED BY ZenonT(100), <1>10, <1>11, <1>12, <1>13, <1>16, <1>17 DEF MigrationInv

-----------------------------------------------------------------------------
(* The steps of a hand-over.                                                 *)

LEMMA PrepareKeeps ==
  ASSUME MigrationInv, TypeOK', ~MayOverlap, NEW n \in Server, NEW a \in Addr, NEW d \in Server, Prepare(n, a, d)
  PROVE  MigrationInv'
<1>. DEFINE o == [memory_map[n][a] EXCEPT !.pair = d]
            m == Msg("PREPARE", a, next_key[n])
<1>1. TypeOK /\ MessagesDistinct
  BY ZenonT(100) DEF MigrationInv
<1>2. /\ phase[n][a] = "held"
      /\ Register(n, d, a) /\ Send(n, d, m) /\ PutObject(n, a, o) /\ PutPhase(n, a, "preparing")
      /\ UNCHANGED <<alloc_address, memory, recv_queue, incoming_accepts, incoming_transfers,
                     incoming_dones>>
  BY ZenonT(100) DEF Prepare, PutObject, PutPhase, queueVars
<1>3. m \in Message /\ m.type = "PREPARE" /\ m.addr = a
  BY ZenonT(100), <1>1 DEF m, Msg, Message, TypeOK
<1>4. o \in Object /\ o.pair = d /\ o.state = memory_map[n][a].state
  <2>1. memory_map[n][a] \in Object
    BY <1>1 DEF TypeOK
  <2>. QED BY ZenonT(100), <2>1 DEF Object
<1>. HIDE DEF o, m
<1>5. \A x \in Server, b \in Addr :
        /\ phase'[x][b] = IF x = n /\ b = a THEN "preparing" ELSE phase[x][b]
        /\ memory_map'[x][b] = IF x = n /\ b = a THEN o ELSE memory_map[x][b]
  BY <1>1, <1>2, <1>4, PutObjectEffect, PutPhaseEffect DEF Phase
<1>6. \A x \in Server, b \in Addr : pair(x, b)' = IF x = n /\ b = a THEN d ELSE pair(x, b)
  BY ZenonT(100), <1>4, <1>5 DEF pair
<1>7. \A p \in Pending(n, d) : Distinct(p, m)
  <2>1. ~Token(n, d, "PREPARE", a)
    BY ZenonT(100), <1>2 DEF MigrationInv, PrepareSent
  <2>. QED BY ZenonT(100), <1>3, <2>1 DEF Token, Distinct
<1>8. /\ MessagesDistinct'
      /\ \A x, y \in Server :
           Pending(x, y)' = IF x = n /\ y = d THEN Pending(x, y) \cup {m} ELSE Pending(x, y)
  BY <1>1, <1>2, <1>3, <1>7, NetSend
<1>9. \A x, y \in Server, b \in Addr :
        /\ Token(x, y, "PREPARE", b)' => Token(x, y, "PREPARE", b) \/ (x = n /\ y = d /\ b = a)
        /\ Token(x, y, "ACCEPT", b)' <=> Token(x, y, "ACCEPT", b)
        /\ Token(x, y, "TRANSFER", b)' <=> Token(x, y, "TRANSFER", b)
        /\ Token(x, y, "DONE", b)' <=> Token(x, y, "DONE", b)
  BY <1>3, <1>8 DEF Token
<1>10. \A x \in Server, b \in Addr :
         /\ phase'[x][b] = "none" <=> phase[x][b] = "none"
         /\ phase'[x][b] = "moved" <=> phase[x][b] = "moved"
         /\ phase'[x][b] = "arrived" => phase[x][b] = "arrived"
         /\ phase'[x][b] = "accepted" => phase[x][b] = "accepted"
         /\ Usable(x, b)' => Usable(x, b)
         /\ memory_map'[x][b].state = memory_map[x][b].state
         /\ phase[x][b] # "held" => pair(x, b)' = pair(x, b)
  <2>. SUFFICES ASSUME NEW x \in Server, NEW b \in Addr
                PROVE  /\ phase'[x][b] = "none" <=> phase[x][b] = "none"
                       /\ phase'[x][b] = "moved" <=> phase[x][b] = "moved"
                       /\ phase'[x][b] = "arrived" => phase[x][b] = "arrived"
                       /\ phase'[x][b] = "accepted" => phase[x][b] = "accepted"
                       /\ Usable(x, b)' => Usable(x, b)
                       /\ memory_map'[x][b].state = memory_map[x][b].state
                       /\ phase[x][b] # "held" => pair(x, b)' = pair(x, b)
    BY ZenonT(100)
  <2>1. CASE x = n /\ b = a
    <3>1. phase[x][b] = "held" /\ phase'[x][b] = "preparing" /\ Usable(x, b)
      BY ZenonT(100), <1>2, <1>5, <2>1 DEF Usable
    <3>2. memory_map'[x][b].state = memory_map[x][b].state
      BY ZenonT(100), <1>4, <1>5, <2>1
    <3>. QED BY ZenonT(100), <3>1, <3>2
  <2>2. CASE ~(x = n /\ b = a)
    BY ZenonT(100), <1>5, <1>6, <2>2 DEF Usable
  <2>. QED BY ZenonT(100), <2>1, <2>2
<1>11. FreshUnknown' /\ KnownMapped'
  BY ZenonT(100), <1>2, <1>10, FreshKept, KnownKept
<1>n. a \notin Range(incoming_transfers[n]) /\ \A y \in Server : ~Reserved(n, y, a)
  BY ZenonT(100), <1>2 DEF MigrationInv, TransferQueued, Reserved
<1>r. \A x, y \in Server, b \in Addr : Reserved(x, y, b) => Reserved(x, y, b)'
  <2>. SUFFICES ASSUME NEW x \in Server, NEW y \in Server, NEW b \in Addr, Reserved(x, y, b)
                PROVE  Reserved(x, y, b)'
    BY ZenonT(100)
  <2>1. ~(x = n /\ b = a)
    BY ZenonT(100), <1>n
  <2>. QED BY ZenonT(100), <1>2, <1>5, <1>6, <2>1 DEF Reserved
<1>12. PrepareSent' /\ AcceptSent'
  <2>1. ASSUME NEW x \in Server, NEW y \in Server, NEW b \in Addr, Token(x, y, "PREPARE", b)'
        PROVE  /\ phase'[x][b] = "preparing" /\ pair(x, b)' = y
               /\ ~Token(y, x, "ACCEPT", b)' /\ b \notin Range(incoming_accepts'[x])
    <3>1. CASE x = n /\ y = d /\ b = a
      <4>1. ~Token(d, n, "ACCEPT", a) /\ a \notin Range(incoming_accepts[n])
        BY ZenonT(100), <1>2 DEF MigrationInv, AcceptSent, AcceptQueued
      <4>. QED BY ZenonT(100), <1>2, <1>5, <1>6, <1>9, <3>1, <4>1
    <3>2. CASE Token(x, y, "PREPARE", b)
      <4>1. /\ phase[x][b] = "preparing" /\ pair(x, b) = y
            /\ ~Token(y, x, "ACCEPT", b) /\ b \notin Range(incoming_accepts[x])
        BY ZenonT(100), <3>2 DEF MigrationInv, PrepareSent
      <4>2. ~(x = n /\ b = a)
        BY ZenonT(100), <1>2, <4>1
      <4>. QED BY ZenonT(100), <1>2, <1>5, <1>6, <1>9, <4>1, <4>2
    <3>. QED BY ZenonT(100), <1>9, <2>1, <3>1, <3>2
  <2>2. ASSUME NEW x \in Server, NEW y \in Server, NEW b \in Addr, Token(y, x, "ACCEPT", b)'
        PROVE  /\ phase'[x][b] = "preparing" /\ pair(x, b)' = y /\ Reserved(y, x, b)'
               /\ b \notin Range(incoming_accepts'[x])
    <3>1. /\ phase[x][b] = "preparing" /\ pair(x, b) = y /\ Reserved(y, x, b)
          /\ b \notin Range(incoming_accepts[x])
      BY ZenonT(100), <1>9, <2>2 DEF MigrationInv, AcceptSent
    <3>2. ~(x = n /\ b = a)
      BY ZenonT(100), <1>2, <3>1
    <3>. QED BY ZenonT(100), <1>2, <1>5, <1>6, <1>r, <3>1, <3>2
  <2>. QED BY ZenonT(100), <2>1, <2>2 DEF PrepareSent, AcceptSent
<1>13. AcceptQueued' /\ AcceptPolled'
  <2>1. ASSUME NEW x \in Server, NEW b \in Addr, phase[x][b] # "held",
               pair(x, b) \in Server, Reserved(pair(x, b), x, b)
        PROVE  (pair(x, b) \in Server /\ Reserved(pair(x, b), x, b))'
    <3>1. PICK y \in Server : y = pair(x, b) /\ pair(x, b)' = y
      BY ZenonT(100), <1>10, <2>1
    <3>. QED BY ZenonT(100), <1>r, <2>1, <3>1
  <2>2. ASSUME NEW x \in Server, NEW b \in Addr, b \in Range(incoming_accepts[x])
        PROVE  /\ phase'[x][b] = "preparing"
               /\ (pair(x, b) \in Server /\ Reserved(pair(x, b), x, b))'
    <3>1. phase[x][b] = "preparing" /\ pair(x, b) \in Server /\ Reserved(pair(x, b), x, b)
      BY ZenonT(100), <2>2 DEF MigrationInv, AcceptQueued
    <3>2. phase[x][b] # "held" /\ phase'[x][b] = "preparing"
      BY <1>5, <3>1
    <3>. QED BY ZenonT(100), <2>1, <3>1, <3>2
  <2>3. ASSUME NEW x \in Server, NEW b \in Addr, phase'[x][b] = "accepted"
        PROVE  (pair(x, b) \in Server /\ Reserved(pair(x, b), x, b))'
    <3>1. phase[x][b] = "accepted" /\ pair(x, b) \in Server /\ Reserved(pair(x, b), x, b)
      BY ZenonT(100), <1>10, <2>3 DEF MigrationInv, AcceptPolled
    <3>2. phase[x][b] # "held"
      BY <3>1
    <3>. QED BY ZenonT(100), <2>1, <3>1, <3>2
  <2>4. AcceptQueued'
    BY ZenonT(100), <1>2, <2>2 DEF AcceptQueued
  <2>. QED BY ZenonT(100), <2>3, <2>4 DEF AcceptPolled
<1>14. /\ TransferSent' /\ TransferQueued' /\ TransferPolled'
       /\ DoneSent' /\ DoneQueued' /\ MovedPaired'
  <2>1. \A x, y \in Server, b \in Addr :
          Given(x, y, b) /\ (phase[y][b] = "none" \/ phase[y][b] = "arrived") => Given(x, y, b)'
    <3>. SUFFICES ASSUME NEW x \in Server, NEW y \in Server, NEW b \in Addr, Given(x, y, b),
                         phase[y][b] = "none" \/ phase[y][b] = "arrived"
                  PROVE  Given(x, y, b)'
      BY ZenonT(100)
    <3>1. phase[x][b] = "moved" /\ phase[x][b] # "held" /\ phase[y][b] # "held"
      BY DEF Given
    <3>. QED BY ZenonT(100), <1>10, <3>1 DEF Given
  <2>2. \A x, y \in Server, b \in Addr : Finishing(x, y, b)' => Finishing(x, y, b)
    BY ZenonT(100), <1>2, <1>9 DEF Finishing
  <2>3. \A x \in Server, b \in Addr :
          b \in Range(incoming_transfers'[x]) => b \in Range(incoming_transfers[x])
    BY ZenonT(100), <1>2
  <2>4. TransferSent' /\ TransferQueued' /\ TransferPolled'
    BY ZenonT(100), <1>9, <1>10, <1>r, <2>1, <2>2, <2>3, TransfersKept
  <2>5. \A x \in Server, b \in Addr : phase[x][b] = "moved" => pair(x, b)' = pair(x, b)
    BY <1>10
  <2>6. \A x \in Server, b \in Addr : b \in Range(incoming_dones'[x]) => b \in Range(incoming_dones[x])
    BY ZenonT(100), <1>2
  <2>7. DoneSent' /\ DoneQueued' /\ MovedPaired'
    BY ZenonT(100), <1>9, <1>10, <2>5, <2>6, DonesKept
  <2>. QED BY ZenonT(100), <2>4, <2>7
<1>15. OneHolder'
  <2>1. ASSUME NEW x \in Server, NEW b \in Addr, phase'[x][b] = "moved"
        PROVE  /\ phase[x][b] = "moved" /\ pair(x, b)' = pair(x, b)
               /\ \A y \in Server : pair(y, b)' = x =>
                    pair(y, b) = x \/ b \notin Range(incoming_transfers'[y])
    <3>1. phase[x][b] = "moved" /\ pair(x, b)' = pair(x, b)
      BY <1>10, <2>1
    <3>2. a \notin Range(incoming_transfers'[n])
      BY ZenonT(100), <1>2, <1>n
    <3>. QED BY ZenonT(100), <1>6, <3>1, <3>2
  <2>2. \A y \in Server, b \in Addr :
          b \in Range(incoming_transfers'[y]) => b \in Range(incoming_transfers[y])
    BY ZenonT(100), <1>2
  <2>. QED BY ZenonT(100), <1>9, <1>10, <2>1, <2>2, HolderKept
<1>16. QueuesDistinct'
  BY ZenonT(100), <1>2 DEF MigrationInv, QueuesDistinct
<1>17. ReadKeyLive'
  <2>1. \A x, y \in Server, b \in Addr :
          registrations'[x][y][b] = IF x = n /\ y = d /\ b = a THEN next_key[n]
                                    ELSE registrations[x][y][b]
    BY <1>1, <1>2, RegisterEffect
  <2>2. ~Token(n, d, "TRANSFER", a)
    BY ZenonT(100), <1>2 DEF MigrationInv, TransferSent, Given
  <2>3. \A x, y \in Server : \A p \in Pending(x, y)' : p.type = "TRANSFER" => p \in Pending(x, y)
    BY ZenonT(100), <1>3, <1>8
  <2>4. \A x, y \in Server, b \in Addr :
          Token(x, y, "TRANSFER", b) => registrations'[x][y][b] = registrations[x][y][b]
    BY <2>1, <2>2
  <2>. QED BY ZenonT(100), <1>1, <2>3, <2>4, KeysKept DEF MigrationInv
<1>. QED BY ZenonT(100), <1>8, <1>11, <1>12, <1>13, <1>14, <1>15, <1>16, <1>17 DEF MigrationInv

LEMMA TransferKeeps ==
  ASSUME MigrationInv, TypeOK', ~MayOverlap, NEW n \in Server, NEW a \in Addr, Transfer(n, a)
  PROVE  MigrationInv'
<1>. DEFINE d == pair(n, a)
            m == Msg("TRANSFER", a, registrations[n][d][a])
            p == [memory_map[n][a] EXCEPT !.owner = d]
            o == [p EXCEPT !.state = "Shared"]
<1>1. TypeOK /\ MessagesDistinct /\ memory_map \in [Server -> [Addr -> Object]]
  BY ZenonT(100) DEF MigrationInv, TypeOK
<1>2. memory_map[n][a] \in Object
  BY ZenonT(100), <1>1
<1>3. p \in Object /\ p.pair = d
  BY ZenonT(100), <1>2 DEF Object, pair
<1>4. o \in Object /\ o.pair = d
  BY ZenonT(100), <1>3 DEF Object
<1>5. phase[n][a] = "accepted"
  BY ZenonT(100) DEF Transfer
<1>6. d \in Server /\ Reserved(d, n, a)
  BY ZenonT(100), <1>5 DEF MigrationInv, AcceptPolled
<1>7. /\ PutObject(n, a, o) /\ PutPhase(n, a, "moved")
      /\ UNCHANGED <<alloc_address, memory, registrations, recv_queue, incoming_accepts,
                     incoming_transfers, incoming_dones>>
      /\ \/ Send(n, d, m) /\ registrations[n][d][a] # NoKey
         \/ chan' = chan
  BY ZenonT(100), <1>1, <1>2 DEF Transfer, PutObject, PutPhase, pair, connVars, queueVars
<1>8. m \in Message /\ m.type = "TRANSFER" /\ m.addr = a /\ m.rkey = registrations[n][d][a]
  <2>1. registrations[n][d][a] \in Nat
    BY <1>1, <1>6 DEF TypeOK
  <2>. QED BY ZenonT(100), <2>1 DEF m, Msg, Message
<1>. HIDE DEF d, m, p, o
<1>9. \A x \in Server, b \in Addr :
        /\ phase'[x][b] = IF x = n /\ b = a THEN "moved" ELSE phase[x][b]
        /\ memory_map'[x][b] = IF x = n /\ b = a THEN o ELSE memory_map[x][b]
  <2>1. \A x \in Server, b \in Addr : phase'[x][b] = IF x = n /\ b = a THEN "moved" ELSE phase[x][b]
    BY <1>1, <1>7, PutPhaseEffect DEF Phase
  <2>2. \A x \in Server, b \in Addr :
          memory_map'[x][b] = IF x = n /\ b = a THEN o ELSE memory_map[x][b]
    BY <1>1, <1>4, <1>7, PutObjectEffect
  <2>. QED BY ZenonT(100), <2>1, <2>2
<1>10. \A x \in Server, b \in Addr : pair(x, b)' = pair(x, b)
  BY ZenonT(100), <1>4, <1>9 DEF pair, d
<1>11. /\ MessagesDistinct'
       /\ \A x, y \in Server : \A q \in Pending(x, y)' :
            \/ q \in Pending(x, y)
            \/ x = n /\ y = d /\ q = m /\ registrations[n][d][a] # NoKey
  <2>1. CASE Send(n, d, m) /\ registrations[n][d][a] # NoKey
    <3>1. ~Token(n, d, "TRANSFER", a)
      BY ZenonT(100), <1>5, <1>6 DEF MigrationInv, TransferSent, Given
    <3>2. \A q \in Pending(n, d) : Distinct(q, m)
      BY ZenonT(100), <1>8, <3>1 DEF Token, Distinct
    <3>3. /\ MessagesDistinct'
          /\ \A x, y \in Server :
               Pending(x, y)' = IF x = n /\ y = d THEN Pending(x, y) \cup {m} ELSE Pending(x, y)
      BY <1>1, <1>6, <1>7, <1>8, <2>1, <3>2, NetSend
    <3>. QED BY ZenonT(100), <2>1, <3>3
  <2>2. CASE chan' = chan
    BY ZenonT(100), <1>7, <2>2, NetSame
  <2>. QED BY ZenonT(100), <1>7, <2>1, <2>2
<1>12. \A x, y \in Server, b \in Addr :
         /\ Token(x, y, "PREPARE", b)' => Token(x, y, "PREPARE", b)
         /\ Token(x, y, "ACCEPT", b)' => Token(x, y, "ACCEPT", b)
         /\ Token(x, y, "TRANSFER", b)' => Token(x, y, "TRANSFER", b) \/ (x = n /\ y = d /\ b = a)
         /\ Token(x, y, "DONE", b)' => Token(x, y, "DONE", b)
  BY ZenonT(100), <1>8, <1>11 DEF Token
<1>13. /\ d # n /\ pair(n, a) = d /\ pair(d, a) = n
       /\ ~Finishing(n, d, a)
       /\ a \notin Range(incoming_transfers[d])
  <2>1. d # n /\ pair(n, a) = d /\ pair(d, a) = n
    BY ZenonT(100), <1>5, <1>6 DEF Reserved, d
  <2>2. ~Finishing(n, d, a)
    BY ZenonT(100), <1>5, <1>6 DEF MigrationInv, DoneSent, DoneQueued, Finishing
  <2>3. a \notin Range(incoming_transfers[d])
    BY <1>5, <1>6, <2>1 DEF MigrationInv, TransferQueued, Given, Reserved
  <2>. QED BY ZenonT(100), <2>1, <2>2, <2>3
<1>p. \A x \in Server, b \in Addr :
        /\ phase'[x][b] = "none" <=> phase[x][b] = "none"
        /\ phase[x][b] = "preparing" => phase'[x][b] = "preparing"
        /\ phase'[x][b] = "accepted" => phase[x][b] = "accepted"
        /\ phase'[x][b] = "arrived" => phase[x][b] = "arrived"
        /\ phase[x][b] = "moved" => phase'[x][b] = "moved"
        /\ phase'[x][b] = "moved" => phase[x][b] = "moved" \/ (x = n /\ b = a)
        /\ Usable(x, b)' => Usable(x, b) /\ memory_map'[x][b].state = memory_map[x][b].state
        /\ ~(x = n /\ b = a) => memory_map'[x][b].state = memory_map[x][b].state
  <2>. SUFFICES ASSUME NEW x \in Server, NEW b \in Addr
                PROVE  /\ phase'[x][b] = "none" <=> phase[x][b] = "none"
                       /\ phase[x][b] = "preparing" => phase'[x][b] = "preparing"
                       /\ phase'[x][b] = "accepted" => phase[x][b] = "accepted"
                       /\ phase'[x][b] = "arrived" => phase[x][b] = "arrived"
                       /\ phase[x][b] = "moved" => phase'[x][b] = "moved"
                       /\ phase'[x][b] = "moved" => phase[x][b] = "moved" \/ (x = n /\ b = a)
                       /\ Usable(x, b)' => /\ Usable(x, b)
                                           /\ memory_map'[x][b].state = memory_map[x][b].state
                       /\ ~(x = n /\ b = a) => memory_map'[x][b].state = memory_map[x][b].state
    BY ZenonT(100)
  <2>1. CASE x = n /\ b = a
    <3>1. phase[x][b] = "accepted" /\ phase'[x][b] = "moved" /\ ~Usable(x, b)'
      BY ZenonT(100), <1>5, <1>9, <2>1 DEF Usable
    <3>. QED BY ZenonT(100), <2>1, <3>1
  <2>2. CASE ~(x = n /\ b = a)
    BY ZenonT(100), <1>9, <2>2 DEF Usable
  <2>. QED BY ZenonT(100), <2>1, <2>2
<1>14. \A x, y \in Server, b \in Addr :
         /\ Finishing(x, y, b)' => Finishing(x, y, b)
         /\ Reserved(x, y, b) => Reserved(x, y, b)'
         /\ Given(x, y, b) \/ (x = n /\ y = d /\ b = a) => Given(x, y, b)'
  <2>1. \A x, y \in Server, b \in Addr : Finishing(x, y, b)' => Finishing(x, y, b)
    BY ZenonT(100), <1>7, <1>12 DEF Finishing
  <2>2. \A x, y \in Server, b \in Addr : Reserved(x, y, b) => Reserved(x, y, b)'
    BY ZenonT(100), <1>7, <1>10, <1>p DEF Reserved
  <2>3. \A x, y \in Server, b \in Addr : Given(x, y, b) => Given(x, y, b)'
    BY ZenonT(100), <1>10, <1>p DEF Given
  <2>4. ASSUME NEW y \in Server, y = d PROVE Given(n, y, a)'
    <3>1. phase'[n][a] = "moved"
      BY ZenonT(100), <1>9
    <3>2. pair(n, a)' = y /\ pair(y, a)' = n
      BY ZenonT(100), <1>6, <1>10, <1>13, <2>4
    <3>. QED BY ZenonT(100), <3>1, <3>2 DEF Given
  <2>. QED BY ZenonT(100), <1>6, <2>1, <2>2, <2>3, <2>4
<1>15. FreshUnknown' /\ KnownMapped'
  BY ZenonT(100), <1>7, <1>p, FreshKept, KnownKept
<1>16. PrepareSent' /\ AcceptSent' /\ AcceptQueued' /\ AcceptPolled'
  <2>1. \A x \in Server, b \in Addr :
          b \in Range(incoming_accepts'[x]) => b \in Range(incoming_accepts[x])
    BY ZenonT(100), <1>7
  <2>. QED BY ZenonT(100), <1>10, <1>12, <1>14, <1>p, <2>1, AcceptsKept
<1>17. TransferSent'
  <2>. SUFFICES ASSUME NEW x \in Server, NEW y \in Server, NEW b \in Addr, Token(x, y, "TRANSFER", b)'
                PROVE  /\ Given(x, y, b)' /\ Reserved(y, x, b)' /\ ~Finishing(x, y, b)'
                       /\ b \notin Range(incoming_transfers'[y])
    BY ZenonT(100) DEF TransferSent
  <2>1. CASE x = n /\ y = d /\ b = a
    BY ZenonT(100), <1>6, <1>7, <1>13, <1>14, <2>1
  <2>2. CASE Token(x, y, "TRANSFER", b)
    BY ZenonT(100), <1>7, <1>14, <2>2 DEF MigrationInv, TransferSent
  <2>. QED BY ZenonT(100), <1>12, <2>1, <2>2
<1>18. TransferQueued' /\ TransferPolled'
  <2>1. a \notin Range(incoming_transfers[n])
    BY ZenonT(100), <1>5 DEF MigrationInv, TransferQueued, Reserved
  <2>2. TransferQueued'
    <3>. SUFFICES ASSUME NEW y \in Server, NEW b \in Addr, b \in Range(incoming_transfers[y])
                  PROVE  \E x \in Server : /\ Given(x, y, b)' /\ Reserved(y, x, b)' /\ ~Finishing(x, y, b)'
                                           /\ memory_map'[y][b].state = "Clean"
      BY ZenonT(100), <1>7 DEF TransferQueued
    <3>1. PICK x \in Server : /\ Given(x, y, b) /\ Reserved(y, x, b) /\ ~Finishing(x, y, b)
                              /\ memory_map[y][b].state = "Clean"
      BY ZenonT(100) DEF MigrationInv, TransferQueued
    <3>. QED BY ZenonT(100), <1>14, <1>p, <2>1, <3>1
  <2>3. TransferPolled'
    <3>. SUFFICES ASSUME NEW y \in Server, NEW b \in Addr, phase'[y][b] = "arrived"
                  PROVE  \E x \in Server : Given(x, y, b)' /\ ~Finishing(x, y, b)'
      BY ZenonT(100) DEF TransferPolled
    <3>1. PICK x \in Server : Given(x, y, b) /\ ~Finishing(x, y, b)
      BY ZenonT(100), <1>p DEF MigrationInv, TransferPolled
    <3>. QED BY ZenonT(100), <1>14, <3>1
  <2>. QED BY ZenonT(100), <2>2, <2>3
<1>19. DoneSent' /\ DoneQueued' /\ MovedPaired'
  <2>1. \A x \in Server, b \in Addr :
          phase'[x][b] = "moved" => phase[x][b] = "moved" \/ pair(x, b)' \in Server
    <3>1. pair(n, a)' \in Server
      BY ZenonT(100), <1>6, <1>10, <1>13
    <3>. QED BY ZenonT(100), <1>p, <3>1
  <2>2. \A x \in Server, b \in Addr : b \in Range(incoming_dones'[x]) => b \in Range(incoming_dones[x])
    BY ZenonT(100), <1>7
  <2>. QED BY ZenonT(100), <1>10, <1>12, <1>p, <2>1, <2>2, DonesKept
<1>20. OneHolder'
  <2>1. ASSUME NEW x \in Server, NEW b \in Addr, (Usable(x, b) \/ InTransit(x, b))'
        PROVE  Usable(x, b) \/ InTransit(x, b)
    <3>1. CASE x = n /\ b = a
      BY ZenonT(100), <1>5, <3>1 DEF Usable
    <3>2. CASE ~(x = n /\ b = a) /\ Usable(x, b)'
      BY ZenonT(100), <1>9, <3>2 DEF Usable
    <3>3. CASE ~(x = n /\ b = a) /\ InTransit(x, b)'
      <4>1. phase[x][b] = "moved" /\ pair(x, b)' = pair(x, b) /\ pair(x, b) \in Server
        BY ZenonT(100), <1>9, <1>10, <3>3 DEF InTransit, MigrationInv, MovedPaired
      <4>. QED BY ZenonT(100), <1>7, <1>10, <1>12, <3>3, <4>1 DEF InTransit
    <3>. QED BY ZenonT(100), <2>1, <3>1, <3>2, <3>3
  <2>. QED BY ZenonT(100), <2>1 DEF MigrationInv, OneHolder
<1>21. QueuesDistinct'
  BY ZenonT(100), <1>7 DEF MigrationInv, QueuesDistinct
<1>22. ReadKeyLive'
  <2>1. \A x, y \in Server : \A q \in Pending(x, y) : q.type = "TRANSFER" =>
          q.rkey # NoKey /\ registrations[x][y][q.addr] = q.rkey
    BY ZenonT(100) DEF MigrationInv, ReadKeyLive
  <2>2. ASSUME NEW x \in Server, NEW y \in Server, NEW q \in Pending(x, y)', q.type = "TRANSFER"
        PROVE  q.rkey # NoKey /\ registrations'[x][y][q.addr] = q.rkey
    BY <1>7, <1>8, <1>11, <2>1, <2>2
  <2>. QED BY ZenonT(100), <2>2 DEF ReadKeyLive
<1>. QED BY ZenonT(100), <1>11, <1>15, <1>16, <1>17, <1>18, <1>19, <1>20, <1>21, <1>22 DEF MigrationInv

LEMMA CloseKeeps ==
  ASSUME MigrationInv, TypeOK', ~MayOverlap, NEW n \in Server, NEW a \in Addr, Close(n, a)
  PROVE  MigrationInv'
<1>. DEFINE m == Msg("DONE", a, NoKey)
            o == [memory_map[n][a] EXCEPT !.state = "Clean"]
<1>1. TypeOK /\ MessagesDistinct /\ memory_map \in [Server -> [Addr -> Object]]
  BY ZenonT(100) DEF MigrationInv, TypeOK
<1>2. memory_map[n][a] \in Object
  BY ZenonT(100), <1>1
<1>3. o \in Object /\ o.pair = pair(n, a) /\ o.state = "Clean"
  BY ZenonT(100), <1>2 DEF Object, pair
<1>4. phase[n][a] = "arrived"
  BY ZenonT(100) DEF Close
<1>5. PICK s \in Server : Given(s, n, a) /\ ~Finishing(s, n, a)
  BY ZenonT(100), <1>4 DEF MigrationInv, TransferPolled
<1>6. s # n /\ phase[s][a] = "moved" /\ pair(s, a) = n /\ pair(n, a) = s
  BY ZenonT(100), <1>4, <1>5 DEF Given
<1>7. /\ PutObject(n, a, o) /\ PutPhase(n, a, "closing") /\ Send(n, s, m)
      /\ UNCHANGED <<alloc_address, memory, registrations, recv_queue, incoming_accepts,
                     incoming_transfers, incoming_dones>>
  BY ZenonT(100), <1>6 DEF Close, PutObject, PutPhase, pair, connVars, queueVars
<1>8. m \in Message /\ m.type = "DONE" /\ m.addr = a
  BY ZenonT(100) DEF m, Msg, Message, NoKey
<1>. HIDE DEF m, o
<1>9. \A x \in Server, b \in Addr :
        /\ phase'[x][b] = IF x = n /\ b = a THEN "closing" ELSE phase[x][b]
        /\ memory_map'[x][b] = IF x = n /\ b = a THEN o ELSE memory_map[x][b]
  <2>1. \A x \in Server, b \in Addr : phase'[x][b] = IF x = n /\ b = a THEN "closing" ELSE phase[x][b]
    BY <1>1, <1>7, PutPhaseEffect DEF Phase
  <2>2. \A x \in Server, b \in Addr :
          memory_map'[x][b] = IF x = n /\ b = a THEN o ELSE memory_map[x][b]
    BY <1>1, <1>3, <1>7, PutObjectEffect
  <2>. QED BY ZenonT(100), <2>1, <2>2
<1>10. \A x \in Server, b \in Addr : pair(x, b)' = pair(x, b)
  BY ZenonT(100), <1>3, <1>9 DEF pair
<1>11. /\ MessagesDistinct'
       /\ \A x, y \in Server :
            Pending(x, y)' = IF x = n /\ y = s THEN Pending(x, y) \cup {m} ELSE Pending(x, y)
  <2>1. \A q \in Pending(n, s) : Distinct(q, m)
    BY ZenonT(100), <1>5, <1>8 DEF Finishing, Token, Distinct
  <2>. QED BY <1>1, <1>7, <1>8, <2>1, NetSend
<1>12. \A x, y \in Server, b \in Addr :
         /\ Token(x, y, "PREPARE", b)' <=> Token(x, y, "PREPARE", b)
         /\ Token(x, y, "ACCEPT", b)' <=> Token(x, y, "ACCEPT", b)
         /\ Token(x, y, "TRANSFER", b)' <=> Token(x, y, "TRANSFER", b)
         /\ Token(x, y, "DONE", b)' => Token(x, y, "DONE", b) \/ (x = n /\ y = s /\ b = a)
  BY <1>8, <1>11 DEF Token
<1>p. \A x \in Server, b \in Addr :
        /\ phase'[x][b] = "none" <=> phase[x][b] = "none"
        /\ phase[x][b] = "preparing" => phase'[x][b] = "preparing"
        /\ phase'[x][b] = "accepted" => phase[x][b] = "accepted"
        /\ phase[x][b] = "moved" => phase'[x][b] = "moved"
        /\ phase'[x][b] = "moved" => phase[x][b] = "moved"
        /\ Usable(x, b)' => Usable(x, b)
        /\ memory_map[x][b].state = "Clean" => memory_map'[x][b].state = "Clean"
  <2>. SUFFICES ASSUME NEW x \in Server, NEW b \in Addr
                PROVE  /\ phase'[x][b] = "none" <=> phase[x][b] = "none"
                       /\ phase[x][b] = "preparing" => phase'[x][b] = "preparing"
                       /\ phase'[x][b] = "accepted" => phase[x][b] = "accepted"
                       /\ phase[x][b] = "moved" => phase'[x][b] = "moved"
                       /\ phase'[x][b] = "moved" => phase[x][b] = "moved"
                       /\ Usable(x, b)' => Usable(x, b)
                       /\ memory_map[x][b].state = "Clean" => memory_map'[x][b].state = "Clean"
    BY ZenonT(100)
  <2>1. CASE x = n /\ b = a
    <3>1. phase[x][b] = "arrived" /\ phase'[x][b] = "closing" /\ Usable(x, b)
      BY ZenonT(100), <1>4, <1>9, <2>1 DEF Usable
    <3>2. memory_map'[x][b].state = "Clean"
      BY ZenonT(100), <1>3, <1>9, <2>1
    <3>. QED BY ZenonT(100), <3>1, <3>2
  <2>2. CASE ~(x = n /\ b = a)
    BY ZenonT(100), <1>9, <2>2 DEF Usable
  <2>. QED BY ZenonT(100), <2>1, <2>2
<1>q. /\ \A x \in Server, b \in Addr : phase[x][b] = "moved" => phase'[x][b] = "moved"
      /\ \A x \in Server, b \in Addr : phase[x][b] = "none" => phase'[x][b] = "none"
      /\ \A x \in Server, b \in Addr :
           memory_map[x][b].state = "Clean" => memory_map'[x][b].state = "Clean"
  BY <1>p
<1>13. \A x, y \in Server, b \in Addr :
         /\ Given(x, y, b) => Given(x, y, b)'
         /\ Reserved(x, y, b) => Reserved(x, y, b)'
         /\ Finishing(x, y, b)' => Finishing(x, y, b) \/ (x = s /\ y = n /\ b = a)
  <2>1. \A x, y \in Server, b \in Addr : Given(x, y, b) => Given(x, y, b)'
    BY <1>10, <1>q DEF Given
  <2>2. \A x, y \in Server, b \in Addr : Reserved(x, y, b) => Reserved(x, y, b)'
    BY <1>7, <1>10, <1>q DEF Reserved
  <2>3. \A x, y \in Server, b \in Addr :
          Finishing(x, y, b)' => Finishing(x, y, b) \/ (x = s /\ y = n /\ b = a)
    BY ZenonT(100), <1>7, <1>12 DEF Finishing
  <2>. QED BY ZenonT(100), <2>1, <2>2, <2>3
<1>14. FreshUnknown' /\ KnownMapped'
  BY <1>7, <1>p, FreshKept, KnownKept
<1>15. PrepareSent' /\ AcceptSent' /\ AcceptQueued' /\ AcceptPolled'
  <2>1. \A x \in Server, b \in Addr :
          b \in Range(incoming_accepts'[x]) => b \in Range(incoming_accepts[x])
    BY ZenonT(100), <1>7
  <2>2. \A x \in Server, b \in Addr :
          /\ phase[x][b] = "preparing" => phase'[x][b] = "preparing"
          /\ phase'[x][b] = "accepted" => phase[x][b] = "accepted"
          /\ phase[x][b] = "preparing" \/ phase[x][b] = "accepted" => pair(x, b)' = pair(x, b)
          /\ b \in Range(incoming_accepts'[x]) => b \in Range(incoming_accepts[x])
    BY <1>10, <1>p, <2>1
  <2>3. \A x, y \in Server, b \in Addr :
          /\ Token(x, y, "PREPARE", b)' => Token(x, y, "PREPARE", b)
          /\ Token(x, y, "ACCEPT", b)' => Token(x, y, "ACCEPT", b)
          /\ Reserved(x, y, b) => Reserved(x, y, b)' \/ phase[y][b] = "moved"
    BY ZenonT(100), <1>12, <1>13
  <2>. QED BY ZenonT(100), <2>2, <2>3, AcceptsKept
<1>16. TransferSent'
  <2>. SUFFICES ASSUME NEW x \in Server, NEW y \in Server, NEW b \in Addr, Token(x, y, "TRANSFER", b)'
                PROVE  /\ Given(x, y, b)' /\ Reserved(y, x, b)' /\ ~Finishing(x, y, b)'
                       /\ b \notin Range(incoming_transfers'[y])
    BY ZenonT(100) DEF TransferSent
  <2>1. /\ Given(x, y, b) /\ Reserved(y, x, b) /\ ~Finishing(x, y, b)
        /\ b \notin Range(incoming_transfers[y])
    BY ZenonT(100), <1>12 DEF MigrationInv, TransferSent
  <2>2. ~(y = n /\ b = a)
    BY ZenonT(100), <1>4, <2>1 DEF Reserved
  <2>. QED BY ZenonT(100), <1>7, <1>13, <2>1, <2>2
<1>17. TransferQueued'
  <2>. SUFFICES ASSUME NEW y \in Server, NEW b \in Addr, b \in Range(incoming_transfers[y])
                PROVE  \E x \in Server : /\ Given(x, y, b)' /\ Reserved(y, x, b)' /\ ~Finishing(x, y, b)'
                                         /\ memory_map'[y][b].state = "Clean"
    BY ZenonT(100), <1>7 DEF TransferQueued
  <2>1. PICK x \in Server : /\ Given(x, y, b) /\ Reserved(y, x, b) /\ ~Finishing(x, y, b)
                            /\ memory_map[y][b].state = "Clean"
    BY ZenonT(100) DEF MigrationInv, TransferQueued
  <2>2. ~(y = n /\ b = a)
    BY ZenonT(100), <1>4, <2>1 DEF Reserved
  <2>. QED BY ZenonT(100), <1>13, <1>q, <2>1, <2>2
<1>18. TransferPolled'
  <2>. SUFFICES ASSUME NEW d \in Server, NEW b \in Addr, phase'[d][b] = "arrived"
                PROVE  \E x \in Server : Given(x, d, b)' /\ ~Finishing(x, d, b)'
    BY ZenonT(100) DEF TransferPolled
  <2>1. ~(d = n /\ b = a) /\ phase[d][b] = "arrived"
    BY <1>9
  <2>2. PICK x \in Server : Given(x, d, b) /\ ~Finishing(x, d, b)
    BY ZenonT(100), <2>1 DEF MigrationInv, TransferPolled
  <2>3. Given(x, d, b)' /\ ~Finishing(x, d, b)'
    BY ZenonT(100), <1>13, <2>1, <2>2
  <2>. QED BY ZenonT(100), <2>3
<1>19. DoneSent' /\ DoneQueued' /\ MovedPaired'
  <2>1. \A x \in Server, b \in Addr :
          /\ phase[x][b] = "moved" => phase'[x][b] = "moved"
          /\ phase'[x][b] = "moved" => phase[x][b] = "moved"
          /\ pair(x, b)' = pair(x, b)
    <3>1. \A x \in Server, b \in Addr : phase'[x][b] = "moved" => phase[x][b] = "moved"
      BY ZenonT(100), <1>p
    <3>. QED BY <1>10, <1>q, <3>1
  <2>2. ASSUME NEW x \in Server, NEW y \in Server, NEW b \in Addr, Token(y, x, "DONE", b)'
        PROVE  phase'[x][b] = "moved" /\ pair(x, b)' = y /\ b \notin Range(incoming_dones'[x])
    <3>1. CASE Token(y, x, "DONE", b)
      <4>1. phase[x][b] = "moved" /\ pair(x, b) = y /\ b \notin Range(incoming_dones[x])
        BY ZenonT(100), <3>1 DEF MigrationInv, DoneSent
      <4>. QED BY ZenonT(100), <1>7, <2>1, <4>1
    <3>2. CASE y = n /\ x = s /\ b = a
      <4>1. a \notin Range(incoming_dones[s])
        BY ZenonT(100), <1>5 DEF Finishing
      <4>. QED BY ZenonT(100), <1>6, <1>7, <2>1, <3>2, <4>1
    <3>. QED BY ZenonT(100), <1>12, <2>2, <3>1, <3>2
  <2>3. DoneQueued'
    BY ZenonT(100), <1>7, <2>1 DEF MigrationInv, DoneQueued
  <2>4. MovedPaired'
    BY ZenonT(100), <2>1 DEF MigrationInv, MovedPaired
  <2>. QED BY ZenonT(100), <2>2, <2>3, <2>4 DEF DoneSent
<1>20. OneHolder'
  <2>1. ASSUME NEW x \in Server, NEW b \in Addr, (Usable(x, b) \/ InTransit(x, b))'
        PROVE  Usable(x, b) \/ InTransit(x, b)
    <3>1. CASE Usable(x, b)'
      BY ZenonT(100), <1>4, <1>9, <3>1 DEF Usable
    <3>2. CASE InTransit(x, b)'
      <4>1. phase[x][b] = "moved" /\ pair(x, b)' = pair(x, b) /\ pair(x, b) \in Server
        BY ZenonT(100), <1>9, <1>10, <3>2 DEF InTransit, MigrationInv, MovedPaired
      <4>. QED BY ZenonT(100), <1>7, <1>10, <1>12, <3>2, <4>1 DEF InTransit
    <3>. QED BY ZenonT(100), <2>1, <3>1, <3>2
  <2>. QED BY ZenonT(100), <2>1 DEF MigrationInv, OneHolder
<1>21. QueuesDistinct' /\ ReadKeyLive'
  <2>1. QueuesDistinct'
    BY ZenonT(100), <1>7, <1>8, <1>11 DEF MigrationInv, QueuesDistinct
  <2>2. ReadKeyLive'
    <3>1. \A x, y \in Server : \A q \in Pending(x, y)' : q.type = "TRANSFER" => q \in Pending(x, y)
      BY ZenonT(100), <1>8, <1>11
    <3>2. \A x, y \in Server, b \in Addr :
            Token(x, y, "TRANSFER", b) => registrations'[x][y][b] = registrations[x][y][b]
      BY ZenonT(100), <1>7
    <3>. QED BY ZenonT(100), <1>1, <3>1, <3>2, KeysKept DEF MigrationInv
  <2>. QED BY ZenonT(100), <2>1, <2>2
<1>. QED BY ZenonT(100), <1>11, <1>14, <1>15, <1>16, <1>17, <1>18, <1>19, <1>20, <1>21 DEF MigrationInv

-----------------------------------------------------------------------------
(* The message handlers.                                                     *)

LEMMA AcceptKeeps ==
  ASSUME MigrationInv, TypeOK', ~MayOverlap, NEW n \in Server, NEW s \in Server, Accept(n, s)
  PROVE  MigrationInv'
<1>. DEFINE h == Head(recv_queue[n][s])
            a == h.addr
            o == [RDMAMemory(n) EXCEPT !.pair = s]
            m == Msg("ACCEPT", a, NoKey)
            e == Msg("ACCEPT", Elsewhere, NoKey)
<1>1. TypeOK /\ MessagesDistinct
  BY ZenonT(100) DEF MigrationInv
<1>2. /\ GetMessage(n, s, "PREPARE") /\ Register(n, s, a)
      /\ UNCHANGED <<alloc_address, phase, incoming_accepts, incoming_transfers, incoming_dones>>
      /\ \/ /\ memory[n][a] = Unmapped /\ PutMemory(n, a, 0) /\ PutObject(n, a, o) /\ Send(n, s, m)
         \/ Send(n, s, e) /\ UNCHANGED <<memory, memory_map>>
  BY ZenonT(100) DEF Accept, PutMemory, PutObject, queueVars, appVars
<1>3. h \in Message /\ h.type = "PREPARE" /\ h \in Pending(s, n)
  <2>1. recv_queue[n][s] \in Seq(Message) /\ h \in Message /\ h.type = "PREPARE" /\ recv_queue[n][s] # <<>>
    <3>1. recv_queue[n][s] \in Seq(Message)
      BY <1>1 DEF TypeOK
    <3>. QED BY ZenonT(100), <1>1, <1>2, <3>1, GetEffect
  <2>. QED BY ZenonT(100), <2>1, RangeTail DEF Pending
<1>. HIDE DEF h
<1>4. a \in Addr
  BY ZenonT(100), <1>3 DEF Message
<1>5. Token(s, n, "PREPARE", a)
  BY ZenonT(100), <1>3 DEF Token
<1>6. o \in Object /\ o.state = "Clean" /\ o.pair = s
  BY ZenonT(100) DEF o, RDMAMemory, Object
<1>7. /\ m \in Message /\ m.type = "ACCEPT" /\ m.addr = a
      /\ e \in Message /\ e.type = "ACCEPT" /\ e.addr \notin Addr
  BY ZenonT(100), <1>4, AddressFacts DEF m, e, Msg, Message, NoKey
<1>. HIDE DEF a, o, m, e
<1>8. /\ phase[s][a] = "preparing" /\ pair(s, a) = n
      /\ ~Token(n, s, "ACCEPT", a) /\ a \notin Range(incoming_accepts[s])
  BY ZenonT(100), <1>4, <1>5 DEF MigrationInv, PrepareSent
<1>9. \A x, y \in Server, b \in Addr :
        Token(x, y, "TRANSFER", b) => registrations'[x][y][b] = registrations[x][y][b]
  <2>1. ~Token(n, s, "TRANSFER", a)
    BY ZenonT(100), <1>4, <1>8 DEF MigrationInv, TransferSent, Reserved
  <2>. QED BY <1>1, <1>2, <2>1, RegisterEffect
<1>10. CASE Send(n, s, e) /\ UNCHANGED <<memory, memory_map>>
  <2>1. \A p \in Pending(n, s) : Distinct(p, e)
    BY ZenonT(100), <1>7 DEF Distinct
  <2>2. /\ MessagesDistinct'
        /\ \A x, y \in Server : \A p \in Pending(x, y)' :
             p \in Pending(x, y) \/ (x = n /\ y = s /\ p = e)
    BY ZenonT(100), <1>1, <1>2, <1>7, <1>10, <2>1, NetAnswer
  <2>. QED BY ZenonT(100), <1>2, <1>7, <1>9, <1>10, <2>2, FewerMessages
<1>11. CASE memory[n][a] = Unmapped /\ PutMemory(n, a, 0) /\ PutObject(n, a, o) /\ Send(n, s, m)
  <2>1. \A p \in Pending(n, s) : Distinct(p, m)
    BY ZenonT(100), <1>7, <1>8 DEF Distinct, Token
  <2>2. /\ MessagesDistinct'
        /\ \A x, y \in Server : \A p \in Pending(x, y)' :
             p \in Pending(x, y) \/ (x = n /\ y = s /\ p = m)
        /\ \A p \in Pending(s, n)' : Distinct(h, p)
    BY ZenonT(100), <1>1, <1>2, <1>7, <1>11, <2>1, NetAnswer DEF h
  <2>3. phase[n][a] = "none" /\ n # s
    BY ZenonT(100), <1>4, <1>8, <1>11 DEF MigrationInv, KnownMapped
  <2>4. \A x \in Server, b \in Addr :
          /\ memory'[x][b] = IF x = n /\ b = a THEN 0 ELSE memory[x][b]
          /\ memory_map'[x][b] = IF x = n /\ b = a THEN o ELSE memory_map[x][b]
    <3>1. \A x \in Server, b \in Addr : memory'[x][b] = IF x = n /\ b = a THEN 0 ELSE memory[x][b]
      BY <1>1, <1>4, <1>11, PutMemoryEffect
    <3>2. \A x \in Server, b \in Addr :
            memory_map'[x][b] = IF x = n /\ b = a THEN o ELSE memory_map[x][b]
      BY <1>1, <1>4, <1>6, <1>11, PutObjectEffect
    <3>. QED BY ZenonT(100), <3>1, <3>2
  <2>5. \A x \in Server, b \in Addr : pair(x, b)' = IF x = n /\ b = a THEN s ELSE pair(x, b)
    BY ZenonT(100), <1>6, <2>4 DEF pair
  <2>6. \A x, y \in Server, b \in Addr :
          /\ Token(x, y, "PREPARE", b)' => Token(x, y, "PREPARE", b) /\ ~(x = s /\ y = n /\ b = a)
          /\ Token(x, y, "ACCEPT", b)' => Token(x, y, "ACCEPT", b) \/ (x = n /\ y = s /\ b = a)
          /\ Token(x, y, "TRANSFER", b)' => Token(x, y, "TRANSFER", b)
          /\ Token(x, y, "DONE", b)' => Token(x, y, "DONE", b)
    <3>1. \A b \in Addr : b = a => ~Token(s, n, "PREPARE", b)'
      BY ZenonT(100), <1>3, <1>4, <2>2 DEF Token, Distinct, a
    <3>. QED BY <1>7, <2>2, <3>1 DEF Token
  <2>p. /\ \A x \in Server, b \in Addr : phase'[x][b] = phase[x][b]
        /\ \A x \in Server, b \in Addr : phase[x][b] # "none" => pair(x, b)' = pair(x, b)
        /\ \A x \in Server, b \in Addr :
             memory[x][b] # Unmapped => memory'[x][b] # Unmapped /\ memory_map'[x][b] = memory_map[x][b]
        /\ \A b \in Addr : b = a => memory'[n][b] # Unmapped
    <3>1. 0 # Unmapped
      BY DEF Unmapped
    <3>2. \A x \in Server, b \in Addr : phase'[x][b] = phase[x][b]
      BY ZenonT(100), <1>2
    <3>3. \A x \in Server, b \in Addr : phase[x][b] # "none" => pair(x, b)' = pair(x, b)
      BY ZenonT(100), <2>3, <2>5
    <3>4. \A x \in Server, b \in Addr :
            memory[x][b] # Unmapped => memory'[x][b] # Unmapped /\ memory_map'[x][b] = memory_map[x][b]
      BY ZenonT(100), <1>11, <2>4
    <3>5. \A b \in Addr : b = a => memory'[n][b] # Unmapped
      BY ZenonT(100), <2>4, <3>1
    <3>. QED BY ZenonT(100), <3>2, <3>3, <3>4, <3>5
  <2>7. /\ \A x \in Server : ~Reserved(n, x, a)
        /\ \A x, y \in Server, b \in Addr :
             /\ Finishing(x, y, b)' => Finishing(x, y, b)
             /\ Reserved(x, y, b) => Reserved(x, y, b)'
             /\ Given(x, y, b) /\ ~(y = n /\ b = a) => Given(x, y, b)'
    <3>1. \A x \in Server : ~Reserved(n, x, a)
      BY ZenonT(100), <1>11 DEF Reserved
    <3>2. \A x, y \in Server, b \in Addr : Finishing(x, y, b)' => Finishing(x, y, b)
      BY ZenonT(100), <1>2, <2>6 DEF Finishing
    <3>3. ASSUME NEW x \in Server, NEW y \in Server, NEW b \in Addr, Reserved(x, y, b)
          PROVE  Reserved(x, y, b)'
      <4>1. ~(x = n /\ b = a)
        BY ZenonT(100), <3>1, <3>3
      <4>2. pair(x, b)' = pair(x, b)
        BY ZenonT(100), <2>5, <4>1
      <4>. QED BY ZenonT(100), <2>p, <3>3, <4>2 DEF Reserved
    <3>4. ASSUME NEW x \in Server, NEW y \in Server, NEW b \in Addr, Given(x, y, b), ~(y = n /\ b = a)
          PROVE  Given(x, y, b)'
      <4>1. phase[x][b] # "none" /\ phase[x][b] = "moved"
        BY <3>4 DEF Given
      <4>2. pair(x, b)' = pair(x, b) /\ pair(y, b)' = pair(y, b)
        BY ZenonT(100), <2>5, <2>p, <3>4, <4>1
      <4>. QED BY ZenonT(100), <2>p, <3>4, <4>2 DEF Given
    <3>. QED BY ZenonT(100), <3>1, <3>2, <3>3, <3>4
  <2>8. a \notin Range(incoming_transfers[n]) /\ \A x \in Server : ~Token(x, n, "TRANSFER", a)
    BY ZenonT(100), <1>4, <2>7 DEF MigrationInv, TransferQueued, TransferSent
  <2>9. FreshUnknown' /\ KnownMapped'
    <3>1. \A b \in Addr : (\A y \in Server : phase[y][b] = "none" /\ memory[y][b] = Unmapped) =>
            \A x \in Server : phase'[x][b] = "none" /\ memory'[x][b] = Unmapped
      <4>1. \A b \in Addr : phase[s][b] = "none" => b # a
        BY <1>8
      <4>. QED BY ZenonT(100), <2>4, <2>p, <4>1
    <3>2. \A x \in Server, b \in Addr :
            /\ Usable(x, b)' => Usable(x, b)
            /\ memory_map[x][b].state = "Clean" => memory_map'[x][b].state = "Clean"
      BY <1>6, <2>4, <2>p DEF Usable
    <3>3. FreshUnknown'
      BY ZenonT(100), <1>2, <3>1, FreshKept
    <3>4. KnownMapped'
      BY ZenonT(100), <2>p, <3>2, KnownKept
    <3>. QED BY ZenonT(100), <3>3, <3>4
  <2>11. PrepareSent'
    <3>. SUFFICES ASSUME NEW x \in Server, NEW y \in Server, NEW b \in Addr, Token(x, y, "PREPARE", b)'
                  PROVE  /\ phase'[x][b] = "preparing" /\ pair(x, b)' = y
                         /\ ~Token(y, x, "ACCEPT", b)' /\ b \notin Range(incoming_accepts'[x])
      BY ZenonT(100) DEF PrepareSent
    <3>1. ~(x = s /\ y = n /\ b = a) /\ Token(x, y, "PREPARE", b)
      BY ZenonT(100), <2>6
    <3>2. /\ phase[x][b] = "preparing" /\ pair(x, b) = y
          /\ ~Token(y, x, "ACCEPT", b) /\ b \notin Range(incoming_accepts[x])
      BY ZenonT(100), <3>1 DEF MigrationInv, PrepareSent
    <3>3. phase[x][b] # "none"
      BY <3>2
    <3>4. ~Token(y, x, "ACCEPT", b)'
      BY ZenonT(100), <2>6, <3>1, <3>2
    <3>. QED BY ZenonT(100), <1>2, <2>p, <3>2, <3>3, <3>4
  <2>12. AcceptSent' /\ AcceptQueued' /\ AcceptPolled'
    <3>1. \A b \in Addr : b = a => Reserved(n, s, b)'
      BY <2>3, <2>5, <2>p DEF Reserved
    <3>2. ASSUME NEW x \in Server, NEW y \in Server, NEW b \in Addr, Token(y, x, "ACCEPT", b)'
          PROVE  /\ phase'[x][b] = "preparing" /\ pair(x, b)' = y /\ Reserved(y, x, b)'
                 /\ b \notin Range(incoming_accepts'[x])
      <4>1. CASE y = n /\ x = s /\ b = a
        <5>1. phase[x][b] = "preparing" /\ phase[x][b] # "none" /\ pair(x, b) = y
              /\ b \notin Range(incoming_accepts[x])
          BY <1>8, <4>1
        <5>. QED BY ZenonT(100), <1>2, <2>p, <3>1, <4>1, <5>1
      <4>2. CASE Token(y, x, "ACCEPT", b)
        <5>1. /\ phase[x][b] = "preparing" /\ pair(x, b) = y /\ Reserved(y, x, b)
              /\ b \notin Range(incoming_accepts[x])
          BY ZenonT(100), <4>2 DEF MigrationInv, AcceptSent
        <5>2. phase[x][b] # "none"
          BY <5>1
        <5>. QED BY ZenonT(100), <1>2, <2>7, <2>p, <5>1, <5>2
      <4>. QED BY ZenonT(100), <2>6, <3>2, <4>1, <4>2
    <3>4. ASSUME NEW x \in Server, NEW b \in Addr, phase[x][b] # "none",
                 pair(x, b) \in Server, Reserved(pair(x, b), x, b)
          PROVE  (pair(x, b) \in Server /\ Reserved(pair(x, b), x, b))'
      <4>1. PICK y \in Server : y = pair(x, b) /\ pair(x, b)' = y
        BY ZenonT(100), <2>p, <3>4
      <4>2. Reserved(y, x, b)'
        BY ZenonT(100), <2>7, <3>4, <4>1
      <4>. QED BY ZenonT(100), <4>1, <4>2
    <3>5. AcceptQueued'
      <4>. SUFFICES ASSUME NEW x \in Server, NEW b \in Addr, b \in Range(incoming_accepts[x])
                    PROVE  /\ phase'[x][b] = "preparing"
                           /\ (pair(x, b) \in Server /\ Reserved(pair(x, b), x, b))'
        BY ZenonT(100), <1>2 DEF AcceptQueued
      <4>1. phase[x][b] = "preparing" /\ pair(x, b) \in Server /\ Reserved(pair(x, b), x, b)
        BY ZenonT(100) DEF MigrationInv, AcceptQueued
      <4>2. phase[x][b] # "none" /\ phase'[x][b] = "preparing"
        BY <2>p, <4>1
      <4>. QED BY ZenonT(100), <3>4, <4>1, <4>2
    <3>6. AcceptPolled'
      <4>. SUFFICES ASSUME NEW x \in Server, NEW b \in Addr, phase'[x][b] = "accepted"
                    PROVE  (pair(x, b) \in Server /\ Reserved(pair(x, b), x, b))'
        BY ZenonT(100) DEF AcceptPolled
      <4>1. phase[x][b] = "accepted" /\ pair(x, b) \in Server /\ Reserved(pair(x, b), x, b)
        BY ZenonT(100), <2>p DEF MigrationInv, AcceptPolled
      <4>2. phase[x][b] # "none"
        BY <4>1
      <4>. QED BY ZenonT(100), <3>4, <4>1, <4>2
    <3>. QED BY ZenonT(100), <3>2, <3>5, <3>6 DEF AcceptSent
  <2>13. TransferSent' /\ TransferPolled'
    <3>1. TransferSent'
      <4>. SUFFICES ASSUME NEW x \in Server, NEW y \in Server, NEW b \in Addr, Token(x, y, "TRANSFER", b)'
                    PROVE  /\ Given(x, y, b)' /\ Reserved(y, x, b)' /\ ~Finishing(x, y, b)'
                           /\ b \notin Range(incoming_transfers'[y])
        BY ZenonT(100) DEF TransferSent
      <4>1. /\ Given(x, y, b) /\ Reserved(y, x, b) /\ ~Finishing(x, y, b)
            /\ b \notin Range(incoming_transfers[y])
        BY ZenonT(100), <2>6 DEF MigrationInv, TransferSent
      <4>2. ~(y = n /\ b = a)
        BY ZenonT(100), <2>7, <4>1
      <4>. QED BY ZenonT(100), <1>2, <2>7, <4>1, <4>2
    <3>2. TransferPolled'
      <4>. SUFFICES ASSUME NEW y \in Server, NEW b \in Addr, phase'[y][b] = "arrived"
                    PROVE  \E x \in Server : Given(x, y, b)' /\ ~Finishing(x, y, b)'
        BY ZenonT(100) DEF TransferPolled
      <4>1. phase[y][b] = "arrived"
        BY ZenonT(100), <2>p
      <4>2. PICK x \in Server : Given(x, y, b) /\ ~Finishing(x, y, b)
        BY ZenonT(100), <4>1 DEF MigrationInv, TransferPolled
      <4>3. ~(y = n /\ b = a)
        BY <2>3, <4>1
      <4>. QED BY ZenonT(100), <2>7, <4>2, <4>3
    <3>. QED BY ZenonT(100), <3>1, <3>2
  <2>14. TransferQueued'
    <3>. SUFFICES ASSUME NEW d \in Server, NEW b \in Addr, b \in Range(incoming_transfers'[d])
                  PROVE  (\E x \in Server : /\ Given(x, d, b) /\ Reserved(d, x, b)
                                            /\ ~Finishing(x, d, b)
                                            /\ memory_map[d][b].state = "Clean")'
      BY ZenonT(100) DEF TransferQueued
    <3>1. b \in Range(incoming_transfers[d])
      BY ZenonT(100), <1>2
    <3>2. ~(d = n /\ b = a)
      BY ZenonT(100), <2>8, <3>1
    <3>3. PICK x \in Server : /\ Given(x, d, b) /\ Reserved(d, x, b) /\ ~Finishing(x, d, b)
                              /\ memory_map[d][b].state = "Clean"
      BY ZenonT(100), <3>1 DEF MigrationInv, TransferQueued
    <3>4. Given(x, d, b)' /\ Reserved(d, x, b)' /\ ~Finishing(x, d, b)'
      BY ZenonT(100), <2>7, <3>2, <3>3
    <3>5. memory_map'[d][b].state = "Clean"
      BY <2>4, <3>2, <3>3
    <3>. QED BY ZenonT(100), <3>4, <3>5
  <2>15. DoneSent' /\ DoneQueued' /\ MovedPaired'
    <3>1. \A x \in Server, b \in Addr : phase[x][b] = "moved" =>
            phase'[x][b] = "moved" /\ pair(x, b)' = pair(x, b)
      BY ZenonT(100), <1>2, <2>3, <2>5
    <3>2. \A x \in Server, b \in Addr : /\ phase'[x][b] = "moved" => phase[x][b] = "moved"
                                        /\ b \in Range(incoming_dones'[x]) => b \in Range(incoming_dones[x])
      BY ZenonT(100), <1>2
    <3>. QED BY ZenonT(100), <2>6, <3>1, <3>2, DonesKept
  <2>16. OneHolder'
    <3>1. ASSUME NEW x \in Server, NEW b \in Addr, phase'[x][b] = "moved"
          PROVE  /\ phase[x][b] = "moved" /\ pair(x, b)' = pair(x, b)
                 /\ \A y \in Server : pair(y, b)' = x =>
                      pair(y, b) = x \/ b \notin Range(incoming_transfers'[y])
      <4>1. phase[x][b] = "moved" /\ phase[x][b] # "none"
        BY <2>p, <3>1
      <4>2. a \notin Range(incoming_transfers'[n])
        BY ZenonT(100), <1>2, <2>8
      <4>. QED BY ZenonT(100), <2>5, <2>p, <4>1, <4>2
    <3>2. \A x \in Server, b \in Addr :
            /\ Usable(x, b)' => Usable(x, b)
            /\ b \in Range(incoming_transfers'[x]) => b \in Range(incoming_transfers[x])
      BY ZenonT(100), <1>2 DEF Usable
    <3>. QED BY ZenonT(100), <2>6, <3>1, <3>2, HolderKept
  <2>17. QueuesDistinct'
    BY ZenonT(100), <1>2 DEF MigrationInv, QueuesDistinct
  <2>18. ReadKeyLive'
    BY ZenonT(100), <1>1, <1>7, <1>9, <2>2, KeysKept DEF MigrationInv
  <2>. QED BY ZenonT(100), <2>2, <2>9, <2>11, <2>12, <2>13, <2>14, <2>15, <2>16, <2>17, <2>18
           DEF MigrationInv
<1>. QED BY ZenonT(100), <1>2, <1>10, <1>11

LEMMA OnTransferKeeps ==
  ASSUME MigrationInv, TypeOK', NEW n \in Server, NEW s \in Server, OnTransfer(n, s)
  PROVE  MigrationInv'
<1>. DEFINE h == Head(recv_queue[n][s])
            a == h.addr
            o == [memory_map[n][a] EXCEPT !.state = "Clean"]
<1>1. TypeOK /\ MessagesDistinct /\ QueuesDistinct /\ incoming_transfers \in [Server -> Seq(Addr)]
  BY ZenonT(100) DEF MigrationInv, TypeOK
<1>2. /\ GetMessage(n, s, "TRANSFER")
      /\ UNCHANGED <<alloc_address, phase, registrations, chan, incoming_accepts, incoming_dones>>
      /\ \/ /\ Push(incoming_transfers, incoming_transfers', n, a) /\ PutObject(n, a, o)
            /\ PutMemory(n, a, memory[s][a]) \/ memory' = memory
         \/ UNCHANGED <<incoming_transfers, memory, memory_map>>
  BY ZenonT(100) DEF OnTransfer, Push, PutMemory, PutObject, connVars, appVars
<1>3. /\ MessagesDistinct' /\ h \in Message /\ h.type = "TRANSFER" /\ h \in Pending(s, n)
      /\ \A x, y \in Server : Pending(x, y)' \subseteq Pending(x, y)
      /\ \A p \in Pending(s, n)' : Distinct(h, p)
  BY ZenonT(100), <1>1, <1>2, NetGet
<1>. HIDE DEF h
<1>4. a \in Addr
  BY ZenonT(100), <1>3 DEF Message
<1>5. Token(s, n, "TRANSFER", a)
  BY ZenonT(100), <1>3 DEF Token
<1>6. o \in Object /\ o.state = "Clean" /\ o.pair = pair(n, a)
  <2>1. memory_map \in [Server -> [Addr -> Object]]
    BY ZenonT(100), <1>1 DEF TypeOK
  <2>2. memory_map[n][a] \in Object
    BY ZenonT(100), <1>4, <2>1
  <2>. QED BY ZenonT(100), <2>2 DEF Object, pair
<1>. HIDE DEF a, o
<1>7. /\ Given(s, n, a) /\ Reserved(n, s, a) /\ ~Finishing(s, n, a)
      /\ a \notin Range(incoming_transfers[n])
  BY ZenonT(100), <1>4, <1>5 DEF MigrationInv, TransferSent
<1>8. CASE UNCHANGED <<incoming_transfers, memory, memory_map>>
  BY ZenonT(100), <1>2, <1>3, <1>8, FewerMessages
<1>9. CASE /\ Push(incoming_transfers, incoming_transfers', n, a) /\ PutObject(n, a, o)
           /\ PutMemory(n, a, memory[s][a]) \/ memory' = memory
  <2>1. /\ \A x \in Server : IsInjective(incoming_transfers'[x])
        /\ \A x \in Server, b \in Addr : b \in Range(incoming_transfers'[x]) <=>
             b \in Range(incoming_transfers[x]) \/ (x = n /\ b = a)
    BY ZenonT(100), <1>1, <1>4, <1>7, <1>9, PushEffect DEF QueuesDistinct
  <2>2. \A x, y \in Server, b \in Addr :
          /\ Token(x, y, "PREPARE", b)' => Token(x, y, "PREPARE", b)
          /\ Token(x, y, "ACCEPT", b)' => Token(x, y, "ACCEPT", b)
          /\ Token(x, y, "TRANSFER", b)' => Token(x, y, "TRANSFER", b) /\ ~(x = s /\ y = n /\ b = a)
          /\ Token(x, y, "DONE", b)' => Token(x, y, "DONE", b)
    <3>1. \A b \in Addr : b = a => ~Token(s, n, "TRANSFER", b)'
      BY ZenonT(100), <1>3, <1>4 DEF Token, Distinct, a
    <3>. QED BY ZenonT(100), <1>3, <3>1 DEF Token
  <2>3. \A x \in Server, b \in Addr :
          memory_map'[x][b] = IF x = n /\ b = a THEN o ELSE memory_map[x][b]
    BY <1>1, <1>4, <1>6, <1>9, PutObjectEffect
  <2>4. \A x \in Server, b \in Addr : pair(x, b)' = pair(x, b)
    BY ZenonT(100), <1>6, <2>3 DEF pair
  <2>5. \A x \in Server, b \in Addr : memory'[x][b] = Unmapped <=> memory[x][b] = Unmapped
    <3>1. memory[s][a] # Unmapped /\ memory[n][a] # Unmapped /\ memory[s][a] \in Nat \cup {Unmapped}
      <4>1. memory[s][a] \in Nat \cup {Unmapped}
        BY <1>1, <1>4 DEF TypeOK
      <4>2. phase[s][a] = "moved" /\ memory[n][a] # Unmapped
        BY ZenonT(100), <1>7 DEF Given, Reserved
      <4>. QED BY ZenonT(100), <1>4, <4>1, <4>2 DEF MigrationInv, KnownMapped
    <3>2. CASE PutMemory(n, a, memory[s][a])
      <4>1. \A x \in Server, b \in Addr :
              memory'[x][b] = IF x = n /\ b = a THEN memory[s][a] ELSE memory[x][b]
        BY <1>1, <1>4, <3>1, <3>2, PutMemoryEffect
      <4>. QED BY ZenonT(100), <3>1, <4>1
    <3>. QED BY ZenonT(100), <1>9, <3>2
  <2>p. \A x \in Server, b \in Addr :
          /\ phase'[x][b] = phase[x][b]
          /\ memory_map[x][b].state = "Clean" => memory_map'[x][b].state = "Clean"
    BY ZenonT(100), <1>2, <1>6, <2>3
  <2>6. \A x, y \in Server, b \in Addr :
          /\ Given(x, y, b) => Given(x, y, b)'
          /\ Reserved(x, y, b) => Reserved(x, y, b)'
          /\ Finishing(x, y, b)' => Finishing(x, y, b)
    <3>1. \A x, y \in Server, b \in Addr : Given(x, y, b) => Given(x, y, b)'
      BY ZenonT(100), <1>2, <2>4 DEF Given
    <3>2. \A x, y \in Server, b \in Addr : Reserved(x, y, b) => Reserved(x, y, b)'
      BY ZenonT(100), <1>2, <2>4, <2>5 DEF Reserved
    <3>3. \A x, y \in Server, b \in Addr : Finishing(x, y, b)' => Finishing(x, y, b)
      BY ZenonT(100), <1>2, <2>2 DEF Finishing
    <3>. QED BY ZenonT(100), <3>1, <3>2, <3>3
  <2>7. FreshUnknown' /\ KnownMapped'
    <3>1. FreshUnknown'
      BY ZenonT(100), <1>2, <2>5, FreshKept
    <3>2. \A x \in Server, b \in Addr :
            /\ phase'[x][b] # "none" => phase[x][b] # "none"
            /\ memory[x][b] # Unmapped => memory'[x][b] # Unmapped
            /\ Usable(x, b)' => Usable(x, b)
      BY ZenonT(100), <2>5, <2>p DEF Usable
    <3>3. KnownMapped'
      BY ZenonT(100), <2>p, <3>2, KnownKept
    <3>. QED BY ZenonT(100), <3>1, <3>3
  <2>9. PrepareSent' /\ AcceptSent' /\ AcceptQueued' /\ AcceptPolled'
    <3>1. \A x \in Server, b \in Addr :
            /\ phase[x][b] = "preparing" => phase'[x][b] = "preparing"
            /\ phase'[x][b] = "accepted" => phase[x][b] = "accepted"
            /\ b \in Range(incoming_accepts'[x]) => b \in Range(incoming_accepts[x])
      BY ZenonT(100), <1>2
    <3>2. \A x \in Server, b \in Addr :
            /\ phase[x][b] = "preparing" => phase'[x][b] = "preparing"
            /\ phase'[x][b] = "accepted" => phase[x][b] = "accepted"
            /\ phase[x][b] = "preparing" \/ phase[x][b] = "accepted" => pair(x, b)' = pair(x, b)
            /\ b \in Range(incoming_accepts'[x]) => b \in Range(incoming_accepts[x])
      BY <2>4, <3>1
    <3>3. \A x, y \in Server, b \in Addr :
            /\ Token(x, y, "PREPARE", b)' => Token(x, y, "PREPARE", b)
            /\ Token(x, y, "ACCEPT", b)' => Token(x, y, "ACCEPT", b)
            /\ Reserved(x, y, b) => Reserved(x, y, b)' \/ phase[y][b] = "moved"
      BY ZenonT(100), <2>2, <2>6
    <3>. QED BY ZenonT(100), <3>2, <3>3, AcceptsKept
  <2>10. TransferSent'
    <3>. SUFFICES ASSUME NEW x \in Server, NEW y \in Server, NEW b \in Addr, Token(x, y, "TRANSFER", b)'
                  PROVE  /\ Given(x, y, b)' /\ Reserved(y, x, b)' /\ ~Finishing(x, y, b)'
                         /\ b \notin Range(incoming_transfers'[y])
      BY ZenonT(100) DEF TransferSent
    <3>1. ~(x = s /\ y = n /\ b = a) /\ Token(x, y, "TRANSFER", b)
      BY ZenonT(100), <2>2
    <3>2. /\ Given(x, y, b) /\ Reserved(y, x, b) /\ ~Finishing(x, y, b)
          /\ b \notin Range(incoming_transfers[y])
      BY ZenonT(100), <3>1 DEF MigrationInv, TransferSent
    <3>3. ~(y = n /\ b = a)
      BY ZenonT(100), <1>7, <3>1, <3>2 DEF Given
    <3>4. b \notin Range(incoming_transfers'[y])
      BY ZenonT(100), <2>1, <3>2, <3>3
    <3>. QED BY ZenonT(100), <2>6, <3>2, <3>4
  <2>11. TransferQueued'
    <3>1. ASSUME NEW d \in Server, NEW b \in Addr, b \in Range(incoming_transfers[d])
          PROVE  \E x \in Server : /\ Given(x, d, b)' /\ Reserved(d, x, b)' /\ ~Finishing(x, d, b)'
                                   /\ memory_map'[d][b].state = "Clean"
      <4>1. PICK x \in Server : /\ Given(x, d, b) /\ Reserved(d, x, b) /\ ~Finishing(x, d, b)
                                /\ memory_map[d][b].state = "Clean"
        BY ZenonT(100), <3>1 DEF MigrationInv, TransferQueued
      <4>. QED BY ZenonT(100), <2>6, <2>p, <4>1
    <3>2. \A b \in Addr : b = a =>
             /\ Given(s, n, b)' /\ Reserved(n, s, b)' /\ ~Finishing(s, n, b)'
             /\ memory_map'[n][b].state = "Clean"
      BY ZenonT(100), <1>4, <1>6, <1>7, <2>3, <2>6
    <3>. QED BY ZenonT(100), <2>1, <3>1, <3>2 DEF TransferQueued
  <2>12. TransferPolled'
    <3>. SUFFICES ASSUME NEW y \in Server, NEW b \in Addr, phase'[y][b] = "arrived"
                  PROVE  \E x \in Server : Given(x, y, b)' /\ ~Finishing(x, y, b)'
      BY ZenonT(100) DEF TransferPolled
    <3>1. PICK x \in Server : Given(x, y, b) /\ ~Finishing(x, y, b)
      BY ZenonT(100), <1>2 DEF MigrationInv, TransferPolled
    <3>. QED BY ZenonT(100), <2>6, <3>1
  <2>13. DoneSent' /\ DoneQueued' /\ MovedPaired'
    <3>1. \A x \in Server, b \in Addr :
            /\ phase[x][b] = "moved" => phase'[x][b] = "moved"
            /\ phase'[x][b] = "moved" => phase[x][b] = "moved"
            /\ b \in Range(incoming_dones'[x]) => b \in Range(incoming_dones[x])
      BY ZenonT(100), <1>2
    <3>. QED BY ZenonT(100), <2>2, <2>4, <3>1, DonesKept
  <2>14. OneHolder'
    <3>0. InTransit(s, a)
      BY ZenonT(100), <1>5, <1>7 DEF InTransit, Given
    <3>1. ASSUME NEW x \in Server, NEW b \in Addr, InTransit(x, b)'
          PROVE  InTransit(x, b)
      <4>1. phase[x][b] = "moved" /\ pair(x, b)' = pair(x, b) /\ pair(x, b) \in Server
        BY ZenonT(100), <1>2, <2>4, <3>1 DEF InTransit, MigrationInv, MovedPaired
      <4>2. CASE pair(x, b) = n /\ b = a /\ pair(n, a) = x
        BY ZenonT(100), <1>7, <3>0, <4>2 DEF Given
      <4>. QED BY ZenonT(100), <2>1, <2>2, <2>4, <3>1, <4>1, <4>2 DEF InTransit
    <3>2. \A x \in Server, b \in Addr : Usable(x, b)' <=> Usable(x, b)
      BY ZenonT(100), <1>2 DEF Usable
    <3>. QED BY ZenonT(100), <3>1, <3>2 DEF MigrationInv, OneHolder
  <2>15. QueuesDistinct' /\ ReadKeyLive'
    <3>1. QueuesDistinct'
      BY ZenonT(100), <1>2, <1>3, <2>1 DEF MigrationInv, QueuesDistinct
    <3>2. ReadKeyLive'
      BY ZenonT(100), <1>1, <1>2, <1>3, KeysKept DEF MigrationInv
    <3>. QED BY ZenonT(100), <3>1, <3>2
  <2>. QED BY ZenonT(100), <1>3, <2>7, <2>9, <2>10, <2>11, <2>12, <2>13, <2>14, <2>15 DEF MigrationInv
<1>. QED BY ZenonT(100), <1>2, <1>8, <1>9

-----------------------------------------------------------------------------
(* The theorems.                                                             *)

LEMMA MigrationInvInit == Init => MigrationInv
<1>. SUFFICES ASSUME Init PROVE MigrationInv
  BY ZenonT(100)
<1>1. TypeOK
  BY ZenonT(100), TypeInit
<1>2. \A x \in Server, b \in Addr : phase[x][b] = "none" /\ memory[x][b] = Unmapped
  BY ZenonT(100) DEF Init
<1>3. \A x, y \in Server : chan[x][y] = <<>> /\ recv_queue[x][y] = <<>>
  BY ZenonT(100) DEF Init
<1>4. \A x \in Server : /\ incoming_accepts[x] = <<>> /\ incoming_transfers[x] = <<>>
                        /\ incoming_dones[x] = <<>>
  BY ZenonT(100) DEF Init
<1>5. Range(<<>>) = {} /\ IsInjective(<<>>) /\ AllDistinct(<<>>)
  BY DEF Range, IsInjective, AllDistinct
<1>6. \A x, y \in Server : Pending(x, y) = {}
  BY ZenonT(100), <1>3, <1>5 DEF Pending
<1>7. \A x, y, t, b : x \in Server /\ y \in Server => ~Token(x, y, t, b)
  BY ZenonT(100), <1>6 DEF Token
<1>8. FreshUnknown /\ KnownMapped /\ AcceptPolled /\ TransferPolled /\ MovedPaired
  BY ZenonT(100), <1>2 DEF FreshUnknown, KnownMapped, AcceptPolled, TransferPolled, MovedPaired, Usable
<1>9. PrepareSent /\ AcceptSent /\ AcceptQueued /\ TransferSent /\ TransferQueued /\ DoneSent /\ DoneQueued
  BY ZenonT(100), <1>4, <1>5, <1>7
     DEF PrepareSent, AcceptSent, AcceptQueued, TransferSent, TransferQueued, DoneSent, DoneQueued
<1>10. OneHolder
  BY ZenonT(100), <1>2 DEF OneHolder, Usable, InTransit
<1>11. MessagesDistinct /\ QueuesDistinct /\ ReadKeyLive
  BY ZenonT(100), <1>3, <1>4, <1>5, <1>6 DEF MessagesDistinct, QueuesDistinct, ReadKeyLive
<1>. QED BY ZenonT(100), <1>1, <1>8, <1>9, <1>10, <1>11 DEF MigrationInv

LEMMA MigrationInvStep == ~MayReuse /\ ~MayOverlap /\ MigrationInv /\ [Next]_vars => MigrationInv'
<1>. SUFFICES ASSUME ~MayReuse, ~MayOverlap, MigrationInv, [Next]_vars PROVE MigrationInv'
  BY ZenonT(100)
<1>1. TypeOK'
  BY ZenonT(100), TypeStep DEF MigrationInv
<1>2. CASE UNCHANGED vars
  BY ZenonT(100), <1>1, <1>2, QuietKeeps DEF vars, managerVars, connVars, netVars, queueVars, appVars
<1>3. CASE \E n, s \in Server : Poller(n, s)
  BY ZenonT(100), <1>1, <1>3, AcceptKeeps, AcceptFailsKeeps, OnAcceptKeeps, OnDeclineKeeps, OnTransferKeeps,
     OnCloseKeeps DEF Poller
<1>4. CASE \E n \in Server : AllocateFreed(n)
  BY ZenonT(100), <1>4 DEF AllocateFreed
<1>5. CASE \E n \in Server, a \in Addr :
             Deallocate(n, a) \/ Write(n, a) \/ Transfer(n, a) \/ Close(n, a) \/ CloseDeregister(n, a)
  BY ZenonT(100), <1>1, <1>5, DeallocateKeeps, WriteKeeps, TransferKeeps, CloseKeeps, CloseDeregisterKeeps
<1>6. CASE \E n \in Server : \/ OnSendFinish(n) \/ AllocateFresh(n) \/ PollForAccept(n)
                             \/ PollForTransfer(n) \/ PollForClose(n)
  BY ZenonT(100), <1>1, <1>6, OnSendFinishKeeps, AllocateFreshKeeps, PollForAcceptKeeps, PollForTransferKeeps,
     PollForCloseKeeps
<1>7. CASE \E s, d \in Server : OnRecvFinish(s, d)
  BY ZenonT(100), <1>1, <1>7, OnRecvFinishKeeps
<1>8. CASE \E n, d \in Server, a \in Addr : Prepare(n, a, d)
  BY ZenonT(100), <1>1, <1>8, PrepareKeeps
<1>. QED BY ZenonT(100), <1>2, <1>3, <1>4, <1>5, <1>6, <1>7, <1>8 DEF Next

\* While no program allocates a freed size again and no two messages meet in the
\* buffers of a connection, at every moment of a hand-over one message or queue
\* entry carries it on, whether segments return to a server or not, and whether
\* mmap fails or not.
THEOREM HandOver == ASSUME ~MayReuse, ~MayOverlap PROVE Spec => []MigrationInv
BY MigrationInvInit, MigrationInvStep, PTL DEF Spec

\* Then two programs never use the same segment at once.
THEOREM Exclusive == ASSUME ~MayReuse, ~MayOverlap PROVE Spec => []SingleHolder
<1>1. MigrationInv => SingleHolder
  BY ZenonT(100) DEF MigrationInv, OneHolder, SingleHolder
<1>. QED BY <1>1, HandOver, PTL

\* Then the key in a TRANSFER is good until the receiver has read the segment.
THEOREM KeyLive == ASSUME ~MayReuse, ~MayOverlap PROVE Spec => []ReadKeyLive
<1>1. MigrationInv => ReadKeyLive
  BY ZenonT(100) DEF MigrationInv
<1>. QED BY <1>1, HandOver, PTL

\* Then the assertions of Prepare and of allocate hold.
THEOREM Assertions == ASSUME ~MayReuse, ~MayOverlap PROVE Spec => [](PrepareFindsClean /\ BumpAddressFree)
<1>1. MigrationInv => PrepareFindsClean
  BY ZenonT(100) DEF MigrationInv, KnownMapped, PrepareFindsClean, Usable
<1>2. MigrationInv => BumpAddressFree
  <2>. SUFFICES ASSUME MigrationInv, NEW n \in Server, alloc_address[n] < End(n)
                PROVE  memory[n][alloc_address[n]] = Unmapped
    BY ZenonT(100) DEF BumpAddressFree
  <2>1. alloc_address[n] \in Nat /\ Start(n) <= alloc_address[n] /\ End(n) \in Nat
    BY ZenonT(100), SliceBounds DEF MigrationInv
  <2>2. alloc_address[n] \in Addr /\ alloc_address[n] <= alloc_address[n]
    BY <2>1, SliceInRange
  <2>. QED BY ZenonT(100), <2>2 DEF MigrationInv, FreshUnknown
<1>. QED BY <1>1, <1>2, HandOver, PTL
=============================================================================
