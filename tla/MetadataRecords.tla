-------------------------- MODULE MetadataRecords ---------------------------
(***************************************************************************)
(* What ZooKeeper says of the segments agrees with what the programs have, *)
(* for any number of servers, ids and crashes, when programs do not hand   *)
(* segments over and no two servers recover the segments of the same       *)
(* server.  With hand-overs the records fall behind what the programs      *)
(* have; two servers that both recover a third may both free its segments. *)
(***************************************************************************)
EXTENDS MetadataProofs, MetadataSteps

USE SMTT(100)

-----------------------------------------------------------------------------
(* Without hand-overs the pollers only answer queries.                     *)

\* A step of the program of n, with nothing on the wire that was not there.
LEMMA QuietFrame ==
  ASSUME TypeInv, QuietInv, NEW n \in Server, Sets(pc, pc', n),
         \A s, d \in Server, type \in HandOverType : Has(chan'[s][d], type) => Has(chan[s][d], type)
  PROVE  QuietInv'
<1>1. \A m \in Server : pc'[<<m, "poller">>] = pc[<<m, "poller">>]
  <2>1. CASE pc' = pc
    BY Zenon, <2>1
  <2>2. ASSUME NEW l, pc' = [pc EXCEPT ![App(n)] = l] PROVE \A m \in Server : pc'[<<m, "poller">>] = pc[<<m, "poller">>]
    <3>1. SetTo(pc, pc', n, l)
      BY Zenon, <2>2, Locals DEF SetTo
    <3>2. OnlySet(pc, pc', n, l)
      BY Zenon, <3>1, SetLocal
    <3>. QED BY Zenon, <3>2 DEF OnlySet
  <2>. QED BY Zenon, <2>1, <2>2 DEF Sets
<1>. QED BY ZenonT(100), <1>1 DEF QuietInv

\* Only programs make requests, and none of a hand-over.
LEMMA QuietRequest ==
  ASSUME TypeInv, CallInv, QuietInv, NEW t \in Thread, Request(t)
  PROVE  /\ \E n \in Server : t = App(n)
         /\ \/ GetAddress(t) \/ SetAddress(t) \/ CreateSegment(t) \/ GetList(t) \/ SetList(t)
            \/ GetRemove(t) \/ SetRemove(t) \/ GetDelete(t) \/ DeleteSegment(t)
         /\ QuietInv' /\ halted' = halted
<1>1. PICK n \in Server, r \in Role : t = <<n, r>>
  BY DEF Thread
<1>2. pc[t] # "idle"
  <2>1. CASE GetAddress(t) \/ SetAddress(t) \/ CreateSegment(t) \/ GetList(t) \/ SetList(t) \/ GetRemove(t)
    BY ZenonT(100), <2>1 DEF GetAddress, SetAddress, CreateSegment, GetList, SetList, GetRemove, At
  <2>2. CASE SetRemove(t) \/ GetDelete(t) \/ DeleteSegment(t) \/ GetSegment(t) \/ SetDestination(t) \/ SetClean(t)
    BY ZenonT(100), <2>2 DEF SetRemove, GetDelete, DeleteSegment, GetSegment, SetDestination, SetClean, At
  <2>. QED BY Zenon, <2>1, <2>2 DEF Request
<1>3. t = App(n) /\ t[2] = "app"
  <2>1. r # "poller"
    BY Zenon, <1>1, <1>2 DEF QuietInv
  <2>2. r = "app"
    BY <2>1 DEF Role
  <2>. QED BY Zenon, <1>1, <2>2, Apps DEF App
<1>4. pc[t] \notin {"getDestination", "getClean", "setDestination", "setClean"}
  <2>1. pc[t] \in {"idle", "waitList", "getAddress", "setAddress", "create"} \cup Adding \cup Removing \cup
                  Deleting \cup Recovering
    BY Zenon, <1>3 DEF CallInv, CallFits
  <2>. QED BY <2>1 DEF Adding, Removing, Deleting, Recovering
<1>5. \/ GetAddress(t) \/ SetAddress(t) \/ CreateSegment(t) \/ GetList(t) \/ SetList(t)
      \/ GetRemove(t) \/ SetRemove(t) \/ GetDelete(t) \/ DeleteSegment(t)
  BY ZenonT(100), <1>4 DEF Request, GetSegment, SetDestination, SetClean, At
<1>6. chan' = chan /\ halted' = halted
  BY ZenonT(100), <1>3, <1>5 DEF GetAddress, SetAddress, CreateSegment, GetList, SetList, GetRemove, SetRemove,
     GetDelete, DeleteSegment
<1>7. Sets(pc, pc', n)
  <2>1. CASE GetAddress(t) \/ SetAddress(t) \/ CreateSegment(t) \/ GetList(t) \/ SetList(t)
    BY ZenonT(100), <1>3, <2>1 DEF GetAddress, SetAddress, CreateSegment, GetList, SetList, Goto, Return, Sets
  <2>2. CASE GetRemove(t) \/ SetRemove(t) \/ GetDelete(t) \/ DeleteSegment(t)
    BY ZenonT(100), <1>3, <2>2 DEF GetRemove, SetRemove, GetDelete, DeleteSegment, Goto, Return, Sets
  <2>. QED BY Zenon, <1>5, <2>1, <2>2
<1>8. QuietInv'
  BY ZenonT(100), <1>6, <1>7, QuietFrame
<1>. QED BY Zenon, <1>3, <1>5, <1>6, <1>8

\* No poller has a message of a hand-over, and no program can begin or go on with one.
LEMMA NoHandOver ==
  ASSUME ~MayMigrate, TypeInv, CallInv, QuietInv
  PROVE  /\ \A d, s \in Server : ~Poller(d, s)
         /\ \A n \in Server, i \in Id : Program(n, i) => BeginAllocate(n, i)
<1>1. ASSUME NEW d \in Server, NEW s \in Server, Poller(d, s) PROVE FALSE
  <2>1. PICK type \in HandOverType : GetMessage(d, s, type)
    BY ZenonT(100), <1>1 DEF Poller, Accept, OnAccept, OnTransfer, OnDone, HandOverType
  <2>2. chan[s][d] \in Seq(Message) /\ chan[s][d] # <<>> /\ Head(chan[s][d]).type = type
    BY ZenonT(100), <2>1 DEF GetMessage, TypeInv, Kinds
  <2>3. Has(chan[s][d], type)
    BY Zenon, <2>2, HasTail
  <2>. QED BY Zenon, <2>3 DEF QuietInv
<1>2. ASSUME NEW n \in Server, NEW i \in Id, Program(n, i) PROVE BeginAllocate(n, i)
  <2>1. phase[n][i] \in {"none", "held", "freeing"}
    BY Zenon DEF CallInv, PhasesFit
  <2>2. phase[n][i] # "accepted" /\ phase[n][i] # "arrived"
    BY <2>1
  <2>. QED BY ZenonT(100), <1>2, <2>2 DEF Program, Prepare, Transfer, Close
<1>. QED BY Zenon, <1>1, <1>2

\* A query is asked and answered.
LEMMA QuietQuery ==
  ASSUME TypeInv, QuietInv, NEW n \in Server, NEW d \in Server, Query(n, d)
  PROVE  QuietInv'
<1>0. App(n) = <<n, "app">> /\ \A x, y \in Server : chan[x][y] \in Seq(Message)
  <2>1. chan \in [Server -> [Server -> Seq(Message)]]
    BY Zenon DEF TypeInv, Kinds
  <2>. QED BY Zenon, <2>1, Apps
<1>q. "GETPARTITIONS" \notin HandOverType /\ "SENTPARTITIONS" \notin HandOverType
  BY DEF HandOverType
<1>1. CASE QueryLive(n, d)
  <2>. DEFINE m == [type |-> "GETPARTITIONS"]
  <2>1. chan' = [chan EXCEPT ![n][d] = Append(chan[n][d], m)] /\ m.type = "GETPARTITIONS"
    BY ZenonT(100), <1>1 DEF QueryLive, GetPartitionList
  <2>. HIDE DEF m
  <2>2. \A x, y \in Server : chan'[x][y] = IF x = n /\ y = d THEN Append(chan[n][d], m) ELSE chan[x][y]
    BY ZenonT(100), <2>1 DEF TypeInv, Kinds
  <2>3. \A type \in HandOverType : Has(Append(chan[n][d], m), type) => Has(chan[n][d], type)
    BY ZenonT(100), <1>0, <1>q, <2>1, HasAppend
  <2>4. \A x, y \in Server, type \in HandOverType : Has(chan'[x][y], type) => Has(chan[x][y], type)
    BY ZenonT(100), <2>2, <2>3
  <2>5. Sets(pc, pc', n)
    BY ZenonT(100), <1>0, <1>1 DEF QueryLive, Goto, Sets
  <2>. QED BY ZenonT(100), <2>4, <2>5, QuietFrame
<1>2. CASE OnGetPartitions(n, d)
  <2>. DEFINE m == [type |-> "SENTPARTITIONS", list |-> Live(n)]
              mid == [chan EXCEPT ![d][n] = Tail(chan[d][n])]
  <2>1. chan' = [mid EXCEPT ![n][d] = Append(mid[n][d], m)] /\ m.type = "SENTPARTITIONS" /\ chan[d][n] # <<>>
    BY ZenonT(100), <1>2 DEF OnGetPartitions, SendPartitionList
  <2>2. \A x, y \in Server : mid[x][y] = IF x = d /\ y = n THEN Tail(chan[d][n]) ELSE chan[x][y]
    BY ZenonT(100) DEF TypeInv, Kinds
  <2>3. \A x, y \in Server : chan'[x][y] = IF x = n /\ y = d THEN Append(mid[n][d], m) ELSE mid[x][y]
    BY ZenonT(100), <2>1 DEF TypeInv, Kinds
  <2>. HIDE DEF m, mid
  <2>4. Tail(chan[d][n]) \in Seq(Message) /\ \A type \in HandOverType : Has(Tail(chan[d][n]), type) => Has(chan[d][n], type)
    <3>1. Tail(chan[d][n]) \in Seq(Message)
      BY <1>0, <2>1
    <3>. QED BY ZenonT(100), <1>0, <2>1, <3>1, HasTail
  <2>5. \A x, y \in Server : mid[x][y] \in Seq(Message) /\ \A type \in HandOverType : Has(mid[x][y], type) => Has(chan[x][y], type)
    BY ZenonT(100), <1>0, <2>2, <2>4
  <2>6. \A type \in HandOverType : Has(Append(mid[n][d], m), type) => Has(mid[n][d], type)
    BY ZenonT(100), <1>q, <2>1, <2>5, HasAppend
  <2>7. \A x, y \in Server, type \in HandOverType : Has(chan'[x][y], type) => Has(chan[x][y], type)
    <3>1. ASSUME NEW x \in Server, NEW y \in Server, NEW type \in HandOverType, Has(chan'[x][y], type)
          PROVE  Has(chan[x][y], type)
      <4>1. Has(mid[x][y], type)
        BY Zenon, <2>3, <2>6, <3>1
      <4>. QED BY Zenon, <2>5, <4>1
    <3>. QED BY Zenon, <3>1
  <2>8. Sets(pc, pc', n)
    BY ZenonT(100), <1>2 DEF OnGetPartitions, threadVars, Sets
  <2>. QED BY ZenonT(100), <2>7, <2>8, QuietFrame
<1>3. CASE OnSentPartitions(n, d)
  <2>1. chan' = [chan EXCEPT ![d][n] = Tail(chan[d][n])] /\ chan[d][n] # <<>>
    BY ZenonT(100), <1>3 DEF OnSentPartitions, GetMessage
  <2>2. \A x, y \in Server : chan'[x][y] = IF x = d /\ y = n THEN Tail(chan[d][n]) ELSE chan[x][y]
    BY ZenonT(100), <2>1 DEF TypeInv, Kinds
  <2>3. \A type \in HandOverType : Has(Tail(chan[d][n]), type) => Has(chan[d][n], type)
    BY ZenonT(100), <1>0, <2>1, HasTail
  <2>4. \A x, y \in Server, type \in HandOverType : Has(chan'[x][y], type) => Has(chan[x][y], type)
    BY ZenonT(100), <2>2, <2>3
  <2>5. Sets(pc, pc', n)
    BY ZenonT(100), <1>0, <1>3 DEF OnSentPartitions, Return, Sets
  <2>. QED BY ZenonT(100), <2>4, <2>5, QuietFrame
<1>. QED BY Zenon, <1>1, <1>2, <1>3 DEF Query

-----------------------------------------------------------------------------
(* The steps together.                                                     *)

\* Nothing moves.
LEMMA StillRecords ==
  ASSUME AskInv', MetadataInv, UNCHANGED vars
  PROVE  MetadataInv'
<1>1. UNCHANGED <<segment, process, local_segments, phase, chan, pc, id, address, result, version, halted, down, lost, had,
                  asked, partitions, recovered>>
  BY ZenonT(100) DEF vars, zkVars, memVars, threadVars, crashVars, askVars
<1>2. CallInv' /\ RecordInv'
  BY ZenonT(100), <1>1, StutterRecords DEF MetadataInv
<1>3. QuietInv'
  BY ZenonT(100), <1>1 DEF MetadataInv, QuietInv
<1>. QED BY ZenonT(100), <1>1, <1>2, <1>3 DEF MetadataInv, NoException

\* The requests of a thread that is the program of n.
LEMMA OfProgram ==
  ASSUME NEW n \in Server, NEW t, t = App(n)
  PROVE  /\ GetAddress(t) => GetAddress(App(n))
         /\ SetAddress(t) => SetAddress(App(n))
         /\ CreateSegment(t) => CreateSegment(App(n))
         /\ GetList(t) => GetList(App(n))
         /\ SetList(t) => SetList(App(n))
         /\ GetRemove(t) => GetRemove(App(n))
         /\ SetRemove(t) => SetRemove(App(n))
         /\ GetDelete(t) => GetDelete(App(n))
         /\ DeleteSegment(t) => DeleteSegment(App(n))
<1>1. GetAddress(t) => GetAddress(App(n))
  BY ZenonT(100) DEF GetAddress, At, Get, Goto
<1>2. SetAddress(t) => SetAddress(App(n))
  BY ZenonT(100) DEF SetAddress, At, Goto
<1>3. CreateSegment(t) => CreateSegment(App(n))
  BY ZenonT(100) DEF CreateSegment, At, Goto, Return
<1>4. GetList(t) => GetList(App(n))
  BY ZenonT(100) DEF GetList, At, Get, Goto
<1>5. SetList(t) => SetList(App(n))
  BY ZenonT(100) DEF SetList, At, Send, Return, EndAllocate, SetPhase
<1>6. GetRemove(t) => GetRemove(App(n))
  BY ZenonT(100) DEF GetRemove, At, Get, Goto
<1>7. SetRemove(t) => SetRemove(App(n))
  BY ZenonT(100) DEF SetRemove, At, Goto
<1>8. GetDelete(t) => GetDelete(App(n))
  BY ZenonT(100) DEF GetDelete, At, Get, Goto
<1>9. DeleteSegment(t) => DeleteSegment(App(n))
  BY ZenonT(100) DEF DeleteSegment, At, Remove, Matches, SetPhase, Return
<1>. QED BY Zenon, <1>1, <1>2, <1>3, <1>4, <1>5, <1>6, <1>7, <1>8, <1>9

\* Requests and the beginning of allocate.
LEMMA CallRecords ==
  ASSUME ~MayMigrate, TypeInv, TypeInv', ReadIsOld, AskInv', MetadataInv, UNCHANGED <<crashVars, askVars>>,
         \/ \E t \in Thread : Request(t)
         \/ \E d, s \in Server : Poller(d, s)
         \/ \E n \in Server, i \in Id : Program(n, i)
  PROVE  MetadataInv'
<1>0. CallInv /\ QuietInv /\ RecordInv /\ halted = {} /\ DOMAIN had = Server /\ had' = had
  BY Zenon DEF MetadataInv, NoException, crashVars
<1>1. ASSUME NEW t \in Thread, Request(t) PROVE CallInv' /\ RecordInv' /\ QuietInv' /\ halted' = halted
  <2>1. PICK n \in Server : t = App(n)
    BY Zenon, <1>0, <1>1, QuietRequest
  <2>2. QuietInv' /\ halted' = halted
    BY Zenon, <1>0, <1>1, QuietRequest
  <2>3. \/ GetAddress(t) \/ SetAddress(t) \/ CreateSegment(t) \/ GetList(t) \/ SetList(t)
        \/ GetRemove(t) \/ SetRemove(t) \/ GetDelete(t) \/ DeleteSegment(t)
    BY Zenon, <1>0, <1>1, QuietRequest
  <2>4. CASE GetAddress(t) \/ SetAddress(t)
    <3>1. GetAddress(App(n)) \/ SetAddress(App(n))
      BY Zenon, <2>1, <2>4, OfProgram
    <3>. QED BY ZenonT(100), <1>0, <2>1, <2>2, <3>1, AllocateRecords
  <2>5. CASE CreateSegment(t)
    <3>1. CreateSegment(App(n))
      BY Zenon, <2>1, <2>5, OfProgram
    <3>. QED BY ZenonT(100), <1>0, <2>1, <2>2, <3>1, AllocateRecords, CreateRecords
  <2>6. CASE GetList(t) \/ GetRemove(t) \/ GetDelete(t)
    <3>1. GetList(App(n)) \/ GetRemove(App(n)) \/ GetDelete(App(n))
      BY Zenon, <2>1, <2>6, OfProgram
    <3>. QED BY ZenonT(100), <1>0, <2>1, <2>2, <3>1, GetRecords
  <2>7. CASE SetList(t) \/ SetRemove(t) \/ DeleteSegment(t)
    <3>1. SetList(App(n)) \/ SetRemove(App(n)) \/ DeleteSegment(App(n))
      BY Zenon, <2>1, <2>7, OfProgram
    <3>. QED BY ZenonT(100), <1>0, <2>1, <2>2, <3>1, SetListRecords, SetRemoveRecords, DeleteRecords
  <2>. QED BY Zenon, <2>3, <2>4, <2>5, <2>6, <2>7
<1>2. ASSUME NEW n \in Server, NEW i \in Id, Program(n, i) PROVE CallInv' /\ RecordInv' /\ QuietInv' /\ halted' = halted
  <2>1. BeginAllocate(n, i)
    BY Zenon, <1>0, <1>2, NoHandOver
  <2>2. CallInv' /\ RecordInv'
    BY Zenon, <1>0, <2>1, BeginRecords
  <2>3. Sets(pc, pc', n) /\ chan' = chan /\ halted' = halted
    <3>1. App(n) = <<n, "app">>
      BY Zenon, Apps
    <3>. QED BY ZenonT(100), <2>1, <3>1 DEF BeginAllocate, Begin, Sets
  <2>4. QuietInv'
    BY ZenonT(100), <1>0, <2>3, QuietFrame
  <2>. QED BY Zenon, <2>2, <2>3, <2>4
<1>3. ASSUME NEW d \in Server, NEW s \in Server, Poller(d, s) PROVE FALSE
  BY Zenon, <1>0, <1>3, NoHandOver
<1>4. CallInv' /\ RecordInv' /\ QuietInv' /\ halted' = halted
  BY Zenon, <1>1, <1>2, <1>3
<1>. QED BY Zenon, <1>0, <1>4 DEF MetadataInv, NoException

\* Crashes, restarts and recoveries.
LEMMA RecoverRecords ==
  ASSUME TypeInv, TypeInv', AskInv', MetadataInv, OneRecoverer', NEW n \in Server, Recovery(n)
  PROVE  MetadataInv'
<1>0. /\ AskInv /\ CallInv /\ QuietInv /\ RecordInv /\ halted = {} /\ DOMAIN had = Server /\ App(n) = <<n, "app">>
      /\ \A m \in Server : <<m, "poller">> \in Thread
  BY Zenon, Apps DEF MetadataInv, NoException
<1>1. CallInv' /\ RecordInv'
  BY ZenonT(100), <1>0, CrashRecords, RestartRecords, StartRecords, ReadRecords, PartitionRecords DEF Recovery
<1>2. halted' = halted /\ DOMAIN had' = Server
  <2>1. halted' = halted
    BY ZenonT(100) DEF Recovery, Crash, Restart, Recover, GetProcess, GetPartition, EndRecover
  <2>2. had' = had \/ \E S : had' = [had EXCEPT ![n] = S]
    BY ZenonT(100) DEF Recovery, Crash, Restart, Recover, GetProcess, GetPartition, EndRecover, crashVars
  <2>. QED BY ZenonT(100), <1>0, <2>1, <2>2
<1>3. QuietInv'
  <2>1. CASE Crash(n)
    <3>1. \A m \in Server : pc'[<<m, "poller">>] = "idle"
      <4>1. pc' = [t \in Thread |-> IF t[1] = n THEN "idle" ELSE pc[t]]
        BY Zenon, <2>1 DEF Crash
      <4>2. \A t \in Thread : pc'[t] = "idle" \/ pc'[t] = pc[t]
        BY ZenonT(100), <4>1
      <4>. QED BY Zenon, <1>0, <4>2 DEF QuietInv
    <3>2. \A s, d \in Server : chan'[s][d] = <<>> \/ chan'[s][d] = chan[s][d]
      <4>1. chan' = [s \in Server |-> [d \in Server |-> IF n \in {s, d} THEN <<>> ELSE chan[s][d]]]
        BY Zenon, <2>1 DEF Crash
      <4>. QED BY ZenonT(100), <4>1
    <3>3. \A type : ~Has(<<>>, type)
      BY DEF Has
    <3>4. \A s, d \in Server, type \in HandOverType : ~Has(chan'[s][d], type)
      <4>. SUFFICES ASSUME NEW s \in Server, NEW d \in Server, NEW type \in HandOverType PROVE ~Has(chan'[s][d], type)
        OBVIOUS
      <4>1. ~Has(chan[s][d], type)
        BY Zenon, <1>0 DEF QuietInv
      <4>. QED BY Zenon, <3>2, <3>3, <4>1
    <3>. QED BY Zenon, <3>1, <3>4 DEF QuietInv
  <2>2. CASE ~Crash(n)
    <3>1. Sets(pc, pc', n) /\ chan' = chan
      BY ZenonT(100), <1>0, <2>2 DEF Recovery, Restart, Recover, GetProcess, GetPartition, EndRecover, Goto, Return,
         threadVars, Sets
    <3>. QED BY ZenonT(100), <1>0, <3>1, QuietFrame
  <2>. QED BY <2>1, <2>2
<1>. QED BY Zenon, <1>0, <1>1, <1>2, <1>3 DEF MetadataInv, NoException

\* Deallocations and queries.
LEMMA FreeRecords ==
  ASSUME TypeInv, TypeInv', AskInv', MetadataInv, OneRecoverer, NEW n \in Server,
         \/ \E i \in Id : Deallocate(n, i) /\ UNCHANGED crashVars
         \/ \E d \in Server : Query(n, d)
  PROVE  MetadataInv'
<1>0. AskInv /\ CallInv /\ QuietInv /\ RecordInv /\ halted = {} /\ DOMAIN had = Server /\ App(n) = <<n, "app">>
  BY Zenon, Apps DEF MetadataInv, NoException
<1>1. ASSUME NEW i \in Id, Deallocate(n, i), UNCHANGED crashVars PROVE MetadataInv'
  <2>1. CallInv' /\ RecordInv' /\ halted' = halted /\ had' = had
    BY ZenonT(100), <1>0, <1>1, DeallocateRecords DEF crashVars
  <2>2. Sets(pc, pc', n) /\ chan' = chan
    BY ZenonT(100), <1>0, <1>1 DEF Deallocate, Begin, Sets
  <2>3. QuietInv'
    BY ZenonT(100), <1>0, <2>2, QuietFrame
  <2>. QED BY Zenon, <1>0, <2>1, <2>3 DEF MetadataInv, NoException
<1>2. ASSUME NEW d \in Server, Query(n, d) PROVE MetadataInv'
  <2>1. CallInv' /\ RecordInv'
    <3>1. CASE QueryLive(n, d) \/ OnSentPartitions(n, d)
      BY Zenon, <1>0, <3>1, QueryRecords
    <3>2. CASE OnGetPartitions(n, d)
      <4>1. UNCHANGED <<segment, process, local_segments, phase, pc, id, address, result, version, down, lost, had, asked,
                        partitions, recovered>>
        BY ZenonT(100), <3>2 DEF OnGetPartitions, zkVars, memVars, threadVars, crashVars, askVars
      <4>. QED BY Zenon, <1>0, <4>1, StutterRecords
    <3>. QED BY Zenon, <1>2, <3>1, <3>2 DEF Query
  <2>2. halted' = halted /\ had' = had
    BY ZenonT(100), <1>2 DEF Query, QueryLive, OnGetPartitions, OnSentPartitions, crashVars
  <2>3. QuietInv'
    BY Zenon, <1>0, <1>2, QuietQuery
  <2>. QED BY Zenon, <1>0, <2>1, <2>2, <2>3 DEF MetadataInv, NoException
<1>. QED BY Zenon, <1>1, <1>2

\* Nothing is recorded and nothing runs when the servers start.
LEMMA InitRecords == Init => MetadataInv
<1>. SUFFICES ASSUME Init PROVE MetadataInv
  OBVIOUS
<1>1. /\ \A n \in Server : pc[App(n)] = "idle" /\ pc[<<n, "app">>] = "idle" /\ pc[<<n, "poller">>] = "idle"
      /\ \A n \in Server, i \in Id : phase[n][i] = "none" /\ local_segments[n][i] = Unmapped
      /\ \A n \in Server : process[n].list = {} /\ partitions[n] = {} /\ recovered[n] = {} /\ had[n] = {}
      /\ \A i \in Id : ~Stored(i)
      /\ halted = {} /\ down = {} /\ DOMAIN had = Server
  <2>1. \A n \in Server : pc[App(n)] = "idle" /\ pc[<<n, "app">>] = "idle" /\ pc[<<n, "poller">>] = "idle"
    BY ZenonT(100), Apps DEF Init
  <2>2. \A n \in Server, i \in Id : phase[n][i] = "none" /\ local_segments[n][i] = Unmapped
    BY ZenonT(100) DEF Init
  <2>3. \A n \in Server : process[n].list = {} /\ partitions[n] = {} /\ recovered[n] = {} /\ had[n] = {}
    BY DEF Init
  <2>4. (\A i \in Id : ~Stored(i)) /\ halted = {} /\ down = {} /\ DOMAIN had = Server
    BY ZenonT(100) DEF Init, Stored
  <2>. QED BY Zenon, <2>1, <2>2, <2>3, <2>4
<1>2. \A n \in Server, i \in Id : stage[n][i] = "none"
  <2>1. \A i \in Id : \A j : StageIn("idle", j, i, "none") = "none"
    BY DEF StageIn, Adding, Removing, Deleting
  <2>. TAKE n \in Server, i \in Id
  <2>2. pc[App(n)] = "idle" /\ phase[n][i] = "none"
    BY Zenon, <1>1
  <2>3. stage[n][i] = StageIn("idle", id[App(n)], i, "none")
    BY Zenon, <2>2, StageIs
  <2>. QED BY Zenon, <2>1, <2>3
<1>3. \A n \in Server : reserved[n] = {} /\ left[n] = {}
  <2>1. "idle" \notin Recovering
    BY DEF Recovering
  <2>2. ASSUME NEW n \in Server PROVE reserved[n] = {p.id : p \in partitions[n]}
    <3>1. pc[App(n)] \notin Recovering
      BY Zenon, <1>1, <2>1
    <3>. QED BY Zenon, <3>1, OwnReserve
  <2>3. ASSUME NEW n \in Server PROVE reserved[n] = {}
    <3>1. partitions[n] = {}
      BY Zenon, <1>1
    <3>. QED BY <3>1, <2>2
  <2>4. \A n \in Server : left[n] = {}
    BY ZenonT(100), <1>1 DEF left
  <2>. QED BY Zenon, <2>3, <2>4
<1>4. AskInv /\ QuietInv
  <2>1. \A s, d \in Server : \A type : ~Has(chan[s][d], type) /\ Once(chan[s][d], type)
    <3>1. \A type : ~Has(<<>>, type) /\ Once(<<>>, type)
      BY DEF Has, Once
    <3>. QED BY ZenonT(100), <3>1 DEF Init
  <2>2. "idle" # "waitList"
    OBVIOUS
  <2>3. AskInv
    BY ZenonT(100), <1>1, <2>1, <2>2 DEF AskInv, AsksWaits, AsksOnce, Served, DownIdle, Asks
  <2>4. QuietInv
    BY ZenonT(100), <1>1, <2>1 DEF QuietInv
  <2>. QED BY <2>3, <2>4
<1>5. CallInv
  <2>0. /\ "idle" \notin Removing \cup Deleting /\ "idle" \notin {"getAddress", "setAddress", "create"} \cup Adding
        /\ "idle" \notin Recovering /\ "idle" \notin {"create", "setList", "setRemove", "getProcess"}
        /\ "none" # "freeing"
    BY DEF Removing, Deleting, Adding, Recovering
  <2>. SUFFICES ASSUME NEW n \in Server PROVE PhasesFit(n) /\ CallFits(n) /\ RecoveryFits(n)
    BY Zenon DEF CallInv
  <2>1. PhasesFit(n)
    BY ZenonT(100), <1>1, <2>0 DEF PhasesFit
  <2>2. CallFits(n)
    BY ZenonT(100), <1>1, <2>0 DEF CallFits
  <2>3. RecoveryFits(n)
    BY ZenonT(100), <1>1, <2>0 DEF RecoveryFits
  <2>. QED BY <2>1, <2>2, <2>3
<1>6. RecordInv
  <2>0. "none" \notin Listed /\ "idle" \notin Adding /\ "idle" # "delete"
    BY DEF Listed, Adding
  <2>1. ListInv
    <3>. SUFFICES ASSUME NEW n \in Server PROVE process[n].list = {i \in Id : stage[n][i] \in Listed}
      BY Zenon DEF ListInv
    <3>1. process[n].list = {}
      BY Zenon, <1>1
    <3>2. \A i \in Id : ~(stage[n][i] \in Listed)
      BY Zenon, <1>2, <2>0
    <3>. QED BY ZenonT(100), <3>1, <3>2
  <2>5. MapInv
    <3>. SUFFICES ASSUME NEW n \in Server, NEW i \in Id
                  PROVE  local_segments[n][i] = IF stage[n][i] \in Listed THEN segment[i].address ELSE Unmapped
      BY Zenon DEF MapInv
    <3>1. local_segments[n][i] = Unmapped
      BY Zenon, <1>1
    <3>2. ~(stage[n][i] \in Listed)
      BY Zenon, <1>2, <2>0
    <3>. QED BY Zenon, <3>1, <3>2
  <2>6. OneUser
    BY Zenon, <1>2 DEF OneUser
  <2>7. OrphanInv
    <3>1. \A i \in Id : ~Stored(i)
      BY Zenon, <1>1
    <3>. QED BY Zenon, <3>1 DEF OrphanInv
  <2>2. NodeInv
    <3>1. \A i \in Id : ~Stored(i)
      BY Zenon, <1>1
    <3>. QED BY ZenonT(100), <1>2, <3>1 DEF NodeInv
  <2>3. OwnInv
    BY ZenonT(100), <1>1, <2>0 DEF OwnInv, OwnFits
  <2>4. ReservedInv /\ PartInv /\ LeftInv /\ HadInv
    BY ZenonT(100), <1>1, <1>3 DEF ReservedInv, PartInv, LeftInv, HadInv
  <2>. QED BY Zenon, <2>1, <2>2, <2>3, <2>4, <2>5, <2>6, <2>7 DEF RecordInv
<1>. QED BY Zenon, <1>1, <1>4, <1>5, <1>6 DEF MetadataInv, NoException

\* Every step preserves the invariant.
LEMMA StepRecords ==
  ASSUME ~MayMigrate, AddressInv, TypeInv, TypeInv', MetadataInv, OneRecoverer, OneRecoverer', [Next]_vars
  PROVE  MetadataInv'
<1>1. AskInv' /\ ReadIsOld
  BY Zenon, AskStep DEF MetadataInv, AddressInv
<1>2. CASE UNCHANGED vars
  BY Zenon, <1>1, <1>2, StillRecords
<1>3. ASSUME \/ \E t \in Thread : Request(t)
             \/ \E d, s \in Server : Poller(d, s)
             \/ \E n \in Server, i \in Id : Program(n, i),
             UNCHANGED <<crashVars, askVars>>
      PROVE  MetadataInv'
  BY Zenon, <1>1, <1>3, CallRecords
<1>4. ASSUME NEW n \in Server, NEW i \in Id, Deallocate(n, i) /\ UNCHANGED crashVars PROVE MetadataInv'
  BY Zenon, <1>1, <1>4, FreeRecords
<1>5. ASSUME NEW n \in Server, Recovery(n) PROVE MetadataInv'
  BY Zenon, <1>1, <1>5, RecoverRecords
<1>6. ASSUME NEW n \in Server, NEW d \in Server, Query(n, d) PROVE MetadataInv'
  BY Zenon, <1>1, <1>6, FreeRecords
<1>. QED BY ZenonT(100), <1>2, <1>3, <1>4, <1>5, <1>6 DEF Next

-----------------------------------------------------------------------------
(* The theorems.                                                           *)

\* The inductive invariant holds when programs hand nothing over and every crashed server is
\* recovered by one server only.
THEOREM RecordsHold ==
  ASSUME ~MayMigrate
  PROVE  Spec /\ []OneRecoverer => []MetadataInv
<1>1. Init => MetadataInv
  BY InitRecords
<1>2. (AddressInv /\ TypeInv) /\ (AddressInv /\ TypeInv)' /\ MetadataInv /\ OneRecoverer /\ OneRecoverer' /\ [Next]_vars
        => MetadataInv'
  BY StepRecords
<1>. QED BY <1>1, <1>2, TypeHolds, PTL DEF Spec

\* A segment that a program holds is in its process list and has a node with its address and source
\* (allocate and deallocate, whatever other servers do with the same id and wherever they crash).
THEOREM HeldCorrect ==
  ASSUME ~MayMigrate
  PROVE  Spec /\ []OneRecoverer => []HeldIsRecorded
<1>1. MetadataInv => HeldIsRecorded
  <2>. SUFFICES ASSUME MetadataInv, NEW n \in Server, NEW i \in Id, phase[n][i] = "held"
                PROVE  /\ i \in process[n].list /\ segment[i] # NoNode
                       /\ segment[i].address = local_segments[n][i] /\ segment[i].source = n
    BY Zenon DEF HeldIsRecorded, Holds
  <2>1. stage[n][i] = "held" /\ CallInv /\ RecordInv
    BY Zenon, HeldStage DEF MetadataInv
  <2>2. n \notin down
    <3>1. "held" # "none"
      OBVIOUS
    <3>. QED BY Zenon, <2>1, <3>1 DEF CallInv, PhasesFit
  <2>3. stage[n][i] \in Listed /\ stage[n][i] # "none" /\ stage[n][i] # "deleting"
    BY <2>1 DEF Listed
  <2>4. i \in process[n].list
    <3>1. process[n].list = {j \in Id : stage[n][j] \in Listed}
      BY Zenon, <2>1, <2>2 DEF RecordInv, ListInv
    <3>. QED BY Zenon, <2>3, <3>1
  <2>5. Stored(i) /\ segment[i].source = n
    BY Zenon, <2>1, <2>3 DEF RecordInv, NodeInv
  <2>6. local_segments[n][i] = segment[i].address
    <3>1. local_segments[n][i] = IF stage[n][i] \in Listed THEN segment[i].address ELSE Unmapped
      BY Zenon, <2>1 DEF RecordInv, MapInv
    <3>. QED BY Zenon, <2>3, <3>1
  <2>. QED BY Zenon, <2>4, <2>5, <2>6 DEF Stored
<1>. QED BY <1>1, RecordsHold, PTL

\* Every id in the list of a server that is up has a node (addToProcessList, removeFromProcessList
\* and deleteMemorySegment come in the right order).
THEOREM ListCorrect ==
  ASSUME ~MayMigrate
  PROVE  Spec /\ []OneRecoverer => []ListedIsStored
<1>1. TypeInv /\ MetadataInv => ListedIsStored
  <2>. SUFFICES ASSUME TypeInv, MetadataInv, NEW n \in Server, n \notin down, NEW i \in process[n].list
                PROVE  segment[i] # NoNode
    BY Zenon DEF ListedIsStored
  <2>1. RecordInv /\ process[n].list = {j \in Id : stage[n][j] \in Listed}
    BY Zenon DEF MetadataInv, RecordInv, ListInv
  <2>2. i \in Id /\ stage[n][i] \in Listed
    BY ZenonT(100), <2>1
  <2>3. stage[n][i] # "none"
    BY <2>2 DEF Listed
  <2>. QED BY Zenon, <2>1, <2>2, <2>3 DEF RecordInv, NodeInv, Stored
<1>. QED BY <1>1, RecordsHold, TypeHolds, PTL

\* A recovery returns every segment that the crashed program held, at its address, and segments of
\* the servers that n recovers only (GetPartitionsForProcess).
THEOREM RecoveryCorrect ==
  ASSUME ~MayMigrate
  PROVE  Spec /\ []OneRecoverer => []RecoveryComplete
<1>1. TypeInv /\ MetadataInv => RecoveryComplete
  <2>. SUFFICES ASSUME TypeInv, MetadataInv, NEW n \in Server, pc[<<n, "app">>] = "getPartition",
                       result[<<n, "app">>] = {}, asked[n] \in down
                PROVE  /\ \A h \in had[asked[n]] : \E p \in partitions[n] : p.id = h[1] /\ p.address = h[2]
                       /\ \A p \in partitions[n] : p.source \in recovered[n]
    BY Zenon DEF RecoveryComplete
  <2>0. RecordInv /\ Ids /\ App(n) = <<n, "app">> /\ asked[n] \in Server
    <3>1. down \subseteq Server
      BY ZenonT(100) DEF TypeInv, CrashKinds
    <3>. QED BY Zenon, <3>1, IdsNow, Apps DEF MetadataInv
  <2>1. reserved[n] = {p.id : p \in partitions[n]}
    <3>1. Reading(n) = {}
      BY Zenon, <2>0 DEF Reading
    <3>2. reserved[n] = {p.id : p \in partitions[n]} \cup {}
      BY Zenon, <3>1 DEF reserved
    <3>. QED BY <3>2
  <2>2. ASSUME NEW h \in had[asked[n]] PROVE \E p \in partitions[n] : p.id = h[1] /\ p.address = h[2]
    <3>1. pc[App(n)] \in Recovering
      BY <2>0 DEF Recovering
    <3>2. h[1] \in reserved[n] /\ segment[h[1]].address = h[2]
      BY ZenonT(100), <2>0, <3>1 DEF RecordInv, HadInv
    <3>3. PICK p \in partitions[n] : p.id = h[1]
      BY ZenonT(100), <2>1, <3>2
    <3>4. p.address = segment[p.id].address
      BY Zenon, <2>0, <3>3 DEF RecordInv, PartInv
    <3>. QED BY Zenon, <3>2, <3>3, <3>4
  <2>3. ASSUME NEW p \in partitions[n] PROVE p.source \in recovered[n]
    <3>1. p.id \in reserved[n]
      BY Zenon, <2>0 DEF Ids
    <3>2. segment[p.id].source \in recovered[n]
      BY Zenon, <2>0, <3>1 DEF RecordInv, ReservedInv
    <3>. QED BY Zenon, <2>0, <3>2 DEF RecordInv, PartInv
  <2>. QED BY Zenon, <2>2, <2>3
<1>. QED BY <1>1, RecordsHold, TypeHolds, PTL

\* A server that crashes has one other server to recover it when there are two, so the theorems
\* above need no hypothesis then (Recover: a server does not recover itself).
THEOREM TwoServers ==
  ASSUME \A x, y, z \in Server : x = y \/ y = z \/ x = z
  PROVE  Spec => []OneRecoverer
<1>. DEFINE Inv == \A n \in Server : recovered[n] \subseteq Server \ {n}
<1>1. Init => Inv
  BY DEF Init
<1>2. TypeInv /\ Inv /\ [Next]_vars => Inv'
  <2>. SUFFICES ASSUME TypeInv, Inv, [Next]_vars PROVE Inv'
    OBVIOUS
  <2>1. CASE recovered' = recovered
    BY Zenon, <2>1
  <2>2. ASSUME NEW n \in Server, NEW d \in Server, Recover(n, d) PROVE Inv'
    <3>1. DOMAIN recovered = Server
      BY ZenonT(100) DEF TypeInv, CrashKinds
    <3>2. d # n /\ recovered' = [recovered EXCEPT ![n] = recovered[n] \cup {d}]
      <4>1. <<n, "app">>[1] = n
        OBVIOUS
      <4>. QED BY ZenonT(100), <2>2, <4>1 DEF Recover, At
    <3>. QED BY <3>1, <3>2
  <2>3. recovered' = recovered \/ \E n, d \in Server : Recover(n, d)
    <3>1. ASSUME NEW n \in Server, Recovery(n) PROVE recovered' = recovered \/ \E d \in Server : Recover(n, d)
      BY ZenonT(100), <3>1 DEF Recovery, Crash, Restart, GetProcess, GetPartition, EndRecover, askVars
    <3>2. ASSUME NEW n \in Server, NEW d \in Server, Query(n, d) PROVE recovered' = recovered
      BY ZenonT(100), <3>2 DEF Query, QueryLive, OnGetPartitions, OnSentPartitions, askVars
    <3>3. ASSUME NEW n \in Server, NEW i \in Id, Deallocate(n, i) PROVE recovered' = recovered
      BY Zenon, <3>3 DEF Deallocate
    <3>4. UNCHANGED askVars \/ UNCHANGED vars => recovered' = recovered
      BY DEF vars, askVars
    <3>. QED BY ZenonT(100), <3>1, <3>2, <3>3, <3>4 DEF Next
  <2>. QED BY Zenon, <2>1, <2>2, <2>3
<1>3. Inv => OneRecoverer
  BY ZenonT(100) DEF OneRecoverer
<1>. QED BY <1>1, <1>2, <1>3, TypeHolds, PTL DEF Spec

\* With two servers, and no hand-over, the metadata is right through every crash, restart and
\* recovery (allocate, deallocate, GetPartitionsForProcess).
THEOREM PairCorrect ==
  ASSUME ~MayMigrate, \A x, y, z \in Server : x = y \/ y = z \/ x = z
  PROVE  Spec => [](HeldIsRecorded /\ ListedIsStored /\ RecoveryComplete)
BY TwoServers, HeldCorrect, ListCorrect, RecoveryCorrect, PTL

=============================================================================
