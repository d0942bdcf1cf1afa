--------------------------- MODULE MetadataSteps ----------------------------
(***************************************************************************)
(* What the steps of allocate, deallocate and recovery, and a crash and a  *)
(* restart, do to the record invariant, one lemma for each.                *)
(* MetadataRecords puts them together.                                     *)
(***************************************************************************)
EXTENDS MetadataInvariant, TLAPS

USE SMTT(100)

-----------------------------------------------------------------------------
(* What a step of one server leaves alone.                                 *)

SameCall(m) ==
  /\ pc'[App(m)] = pc[App(m)] /\ id'[App(m)] = id[App(m)] /\ address'[App(m)] = address[App(m)]
  /\ result'[App(m)] = result[App(m)] /\ version'[App(m)] = version[App(m)]
SameData(m) ==
  phase'[m] = phase[m] /\ local_segments'[m] = local_segments[m] /\ process'[m] = process[m]
SameAsk(m) == asked'[m] = asked[m] /\ partitions'[m] = partitions[m] /\ recovered'[m] = recovered[m]

Others(n) == \A m \in Server : m # n => SameCall(m) /\ SameData(m) /\ SameAsk(m)

\* The program and the poller of a server are threads.
LEMMA Apps ==
  ASSUME NEW n \in Server
  PROVE  /\ App(n) \in Thread /\ App(n)[1] = n /\ App(n)[2] = "app" /\ App(n) = <<n, "app">>
         /\ \A m \in Server : m # n => App(m) # App(n)
         /\ \A m \in Server : <<m, "poller">> \in Thread /\ <<m, "poller">> # App(n)
BY DEF App, Thread, Role

\* One local of the program of n is set.
SetTo(f, g, n, x) == DOMAIN f = Thread /\ g = [f EXCEPT ![App(n)] = x]

OnlySet(f, g, n, x) ==
  /\ g[App(n)] = x
  /\ \A m \in Server : m # n => g[App(m)] = f[App(m)]
  /\ \A m \in Server : g[<<m, "poller">>] = f[<<m, "poller">>]

LEMMA SetLocal ==
  ASSUME NEW f, NEW g, NEW n \in Server, NEW x, SetTo(f, g, n, x)
  PROVE  OnlySet(f, g, n, x)
<1>1. \A t \in Thread : g[t] = IF t = App(n) THEN x ELSE f[t]
  BY ZenonT(100) DEF SetTo
<1>. QED BY ZenonT(100), <1>1, Apps DEF OnlySet

\* The domains of the locals.
LEMMA Locals ==
  ASSUME TypeInv
  PROVE  DOMAIN pc = Thread /\ DOMAIN id = Thread /\ DOMAIN address = Thread /\ DOMAIN result = Thread /\
         DOMAIN version = Thread
BY ZenonT(100) DEF TypeInv, Kinds, ThreadKinds

\* The kinds of what a server has.
LEMMA Own ==
  ASSUME TypeInv, NEW n \in Server
  PROVE  /\ id[App(n)] \in Id /\ address[App(n)] \in Int /\ process[n].list \subseteq Id
         /\ partitions[n] \subseteq [id : Id, address : Int, source : Server \cup {Unset}]
         /\ recovered[n] \subseteq Server
         /\ pc[App(n)] = "getProcess" => asked[n] \in Server
         /\ pc[App(n)] \in HasList => result[App(n)] \subseteq Id
<1>1. App(n) \in Thread /\ App(n) = <<n, "app">>
  BY Zenon, Apps
<1>2. id[App(n)] \in Id /\ address[App(n)] \in Int
  BY ZenonT(100), <1>1 DEF TypeInv, Kinds, ThreadKinds
<1>3. process[n].list \subseteq Id
  <2>1. process[n] \in [list : SUBSET Id, version : Nat]
    BY ZenonT(100) DEF TypeInv, StoreKinds
  <2>. QED BY <2>1
<1>4. partitions[n] \in SUBSET [id : Id, address : Int, source : Server \cup {Unset}] /\ recovered[n] \in SUBSET Server
  BY ZenonT(100) DEF TypeInv, CrashKinds
<1>5. pc[App(n)] = "getProcess" => asked[n] \in Server
  BY ZenonT(100), <1>1 DEF TypeInv, AskKinds
<1>6. pc[App(n)] \in HasList => result[App(n)] \in SUBSET Id
  BY ZenonT(100), <1>1 DEF TypeInv, CallKinds, Result
<1>. QED BY ZenonT(100), <1>2, <1>3, <1>4, <1>5, <1>6

\* What the other servers do fits as before.
LEMMA OthersFit ==
  ASSUME CallInv, NEW n \in Server, Others(n), lost \subseteq lost',
         \A m \in Server : m # n => (m \in down' <=> m \in down),
         \A m \in Server : m # n /\ pc[App(m)] = "getProcess" => asked[m] \in down'
  PROVE  \A m \in Server : m # n => PhasesFit(m)' /\ CallFits(m)' /\ RecoveryFits(m)'
<1>. SUFFICES ASSUME NEW m \in Server, m # n
              PROVE  PhasesFit(m)' /\ CallFits(m)' /\ RecoveryFits(m)'
  OBVIOUS
<1>1. SameCall(m) /\ SameData(m) /\ SameAsk(m) /\ PhasesFit(m) /\ CallFits(m) /\ RecoveryFits(m)
  BY Zenon DEF Others, CallInv
<1>2. PhasesFit(m)'
  BY ZenonT(100), <1>1 DEF SameCall, SameData, PhasesFit
<1>3. CallFits(m)'
  BY ZenonT(100), <1>1 DEF SameCall, SameData, CallFits
<1>4. RecoveryFits(m)'
  BY ZenonT(100), <1>1 DEF SameCall, SameAsk, RecoveryFits
<1>. QED BY <1>2, <1>3, <1>4

\* One server moves and no server crashes or starts.
LEMMA OneFits ==
  ASSUME CallInv, NEW n \in Server, Others(n), UNCHANGED <<lost, down>>,
         PhasesFit(n)', CallFits(n)', RecoveryFits(n)'
  PROVE  CallInv'
<1>1. \A m \in Server : m # n /\ pc[App(m)] = "getProcess" => asked[m] \in down'
  BY ZenonT(100) DEF CallInv, RecoveryFits
<1>2. \A m \in Server : m # n => PhasesFit(m)' /\ CallFits(m)' /\ RecoveryFits(m)'
  BY ZenonT(100), <1>1, OthersFit
<1>. QED BY ZenonT(100), <1>2 DEF CallInv

\* A local is left alone, or set for the program of n.
Sets(f, g, n) == g = f \/ \E x : g = [f EXCEPT ![App(n)] = x]

\* A step that sets locals of n's program only.
LEMMA SetsOthers ==
  ASSUME TypeInv, NEW n \in Server, Sets(pc, pc', n), Sets(id, id', n), Sets(address, address', n),
         Sets(result, result', n), Sets(version, version', n)
  PROVE  \A m \in Server : m # n => SameCall(m)
<1>1. ASSUME NEW f, NEW g, DOMAIN f = Thread, Sets(f, g, n), NEW m \in Server, m # n PROVE g[App(m)] = f[App(m)]
  <2>1. CASE g = f
    BY Zenon, <2>1
  <2>2. ASSUME NEW x, g = [f EXCEPT ![App(n)] = x] PROVE g[App(m)] = f[App(m)]
    <3>1. SetTo(f, g, n, x)
      BY Zenon, <1>1, <2>2 DEF SetTo
    <3>2. OnlySet(f, g, n, x)
      BY Zenon, <3>1, SetLocal
    <3>. QED BY ZenonT(100), <1>1, <3>2 DEF OnlySet
  <2>. QED BY Zenon, <1>1, <2>1, <2>2 DEF Sets
<1>2. ASSUME NEW m \in Server, m # n PROVE SameCall(m)
  <2>1. pc'[App(m)] = pc[App(m)] /\ id'[App(m)] = id[App(m)]
    BY ZenonT(100), <1>1, <1>2, Locals
  <2>2. address'[App(m)] = address[App(m)] /\ result'[App(m)] = result[App(m)] /\ version'[App(m)] = version[App(m)]
    BY ZenonT(100), <1>1, <1>2, Locals
  <2>. QED BY Zenon, <2>1, <2>2 DEF SameCall
<1>. QED BY Zenon, <1>2

\* What a return leaves.
LEMMA ReturnLocals ==
  ASSUME TypeInv, NEW n \in Server, Return(App(n))
  PROVE  /\ pc'[App(n)] = "idle" /\ id'[App(n)] = FirstId
         /\ \A m \in Server : m # n => SameCall(m)
         /\ \A m \in Server : pc'[<<m, "poller">>] = pc[<<m, "poller">>]
<1>1. /\ Sets(pc, pc', n) /\ Sets(id, id', n) /\ Sets(address, address', n) /\ Sets(result, result', n)
      /\ Sets(version, version', n)
  BY ZenonT(100) DEF Return, Sets
<1>2. /\ pc'[App(n)] = "idle" /\ id'[App(n)] = FirstId
      /\ \A m \in Server : pc'[<<m, "poller">>] = pc[<<m, "poller">>]
  <2>1. SetTo(pc, pc', n, "idle") /\ SetTo(id, id', n, FirstId)
    BY ZenonT(100), Locals DEF Return, SetTo
  <2>2. OnlySet(pc, pc', n, "idle") /\ OnlySet(id, id', n, FirstId)
    BY Zenon, <2>1, SetLocal
  <2>. QED BY ZenonT(100), <2>2 DEF OnlySet
<1>. QED BY ZenonT(100), <1>1, <1>2, SetsOthers

\* A request changes nothing of the other servers.
LEMMA RequestOthers ==
  ASSUME TypeInv, NEW n \in Server, Request(App(n)), UNCHANGED askVars
  PROVE  Others(n)
<1>. DEFINE t == App(n)
<1>0. t[1] = n /\ DOMAIN phase = Server /\ DOMAIN local_segments = Server /\ DOMAIN process = Server
  <2>1. DOMAIN phase = Server /\ DOMAIN local_segments = Server /\ DOMAIN process = Server
    BY ZenonT(100) DEF TypeInv, Kinds, PeerKinds, StoreKinds
  <2>. QED BY Zenon, <2>1, Apps
<1>1. \A m \in Server : m # n => SameCall(m)
  <2>1. CASE GetAddress(t) \/ SetAddress(t) \/ CreateSegment(t) \/ GetList(t) \/ SetList(t) \/ GetRemove(t)
    <3>1. Sets(pc, pc', n) /\ Sets(id, id', n)
      BY ZenonT(100), <2>1 DEF GetAddress, SetAddress, CreateSegment, GetList, SetList, GetRemove, Goto, Return, Sets
    <3>2. Sets(address, address', n)
      BY ZenonT(100), <2>1 DEF GetAddress, SetAddress, CreateSegment, GetList, SetList, GetRemove, Return, Sets
    <3>3. Sets(result, result', n) /\ Sets(version, version', n)
      BY ZenonT(100), <2>1 DEF GetAddress, SetAddress, CreateSegment, GetList, SetList, GetRemove, Get, Return, Sets
    <3>. QED BY ZenonT(100), <3>1, <3>2, <3>3, SetsOthers
  <2>2. CASE SetRemove(t) \/ GetDelete(t) \/ DeleteSegment(t) \/ GetSegment(t) \/ SetDestination(t) \/ SetClean(t)
    <3>1. Sets(pc, pc', n) /\ Sets(id, id', n)
      BY ZenonT(100), <2>2 DEF SetRemove, GetDelete, DeleteSegment, GetSegment, SetDestination, SetClean, Goto, Return,
         Sets
    <3>2. Sets(address, address', n)
      BY ZenonT(100), <2>2 DEF SetRemove, GetDelete, DeleteSegment, GetSegment, SetDestination, SetClean, Return, Sets
    <3>3. Sets(result, result', n) /\ Sets(version, version', n)
      BY ZenonT(100), <2>2 DEF SetRemove, GetDelete, DeleteSegment, GetSegment, SetDestination, SetClean, Get, Return,
         Sets
    <3>. QED BY ZenonT(100), <3>1, <3>2, <3>3, SetsOthers
  <2>. QED BY Zenon, <2>1, <2>2 DEF Request
<1>2. \A m \in Server : m # n => process'[m] = process[m]
  <2>1. process' = process \/ \E x : process' = [process EXCEPT ![n] = x]
    BY ZenonT(100), <1>0 DEF Request, GetAddress, SetAddress, CreateSegment, GetList, SetList, GetRemove, SetRemove,
       GetDelete, DeleteSegment, GetSegment, SetDestination, SetClean, zkVars
  <2>. QED BY ZenonT(100), <1>0, <2>1
<1>3. \A m \in Server : m # n => local_segments'[m] = local_segments[m]
  <2>1. local_segments' = local_segments \/ \E i, x : local_segments' = [local_segments EXCEPT ![n][i] = x]
    BY ZenonT(100), <1>0 DEF Request, GetAddress, SetAddress, CreateSegment, GetList, SetList, EndAllocate, GetRemove,
       SetRemove, GetDelete, DeleteSegment, GetSegment, SetDestination, SetClean, memVars
  <2>. QED BY ZenonT(100), <1>0, <2>1
<1>4. \A m \in Server : m # n => phase'[m] = phase[m]
  <2>1. phase' = phase \/ \E i, x : phase' = [phase EXCEPT ![n][i] = x]
    BY ZenonT(100), <1>0 DEF Request, GetAddress, SetAddress, CreateSegment, GetList, SetList, EndAllocate, GetRemove,
       SetRemove, GetDelete, DeleteSegment, GetSegment, SetDestination, SetClean, SetPhase
  <2>. QED BY ZenonT(100), <1>0, <2>1
<1>. QED BY ZenonT(100), <1>1, <1>2, <1>3, <1>4 DEF Others, SameData, SameAsk, askVars

-----------------------------------------------------------------------------
(* The parts of the record invariant that a step leaves alone.             *)

LEMMA StageIs ==
  ASSUME NEW n \in Server, NEW i \in Id
  PROVE  /\ stage[n][i] = StageIn(pc[App(n)], id[App(n)], i, phase[n][i])
         /\ stage'[n][i] = StageIn(pc'[App(n)], id'[App(n)], i, phase'[n][i])
BY ZenonT(100) DEF stage

\* The stages of the other servers are as before.
LEMMA OthersStage ==
  ASSUME NEW n \in Server, Others(n), NEW m \in Server, m # n, NEW i \in Id
  PROVE  stage'[m][i] = stage[m][i]
<1>1. pc'[App(m)] = pc[App(m)] /\ id'[App(m)] = id[App(m)] /\ phase'[m] = phase[m]
  BY Zenon DEF Others, SameCall, SameData
<1>. QED BY ZenonT(100), <1>1, StageIs

Work == Adding \cup Removing \cup Deleting

\* A call of n is as far as before, or at work on no segment before and afterwards.
LEMMA SameStage ==
  ASSUME NEW n \in Server, Others(n), phase'[n] = phase[n],
         \/ /\ id'[App(n)] = id[App(n)]
            /\ \E S \in {Adding, Removing, Deleting} : pc[App(n)] \in S /\ pc'[App(n)] \in S
         \/ pc[App(n)] \notin Work /\ pc'[App(n)] \notin Work
  PROVE  \A m \in Server, i \in Id : stage'[m][i] = stage[m][i]
<1>. SUFFICES ASSUME NEW i \in Id PROVE stage'[n][i] = stage[n][i]
  BY ZenonT(100), OthersStage
<1>1. Adding \cap Removing = {} /\ Adding \cap Deleting = {} /\ Removing \cap Deleting = {}
  BY DEF Adding, Removing, Deleting
<1>2. ASSUME NEW ph, NEW l, NEW k, NEW j, l \notin Work, k \notin Work
      PROVE  \A g : StageIn(l, g, i, ph) = StageIn(k, j, i, ph)
  BY <1>2 DEF StageIn, Work
<1>3. ASSUME NEW ph, NEW l, NEW k, NEW j, NEW S \in {Adding, Removing, Deleting}, l \in S, k \in S
      PROVE  StageIn(l, j, i, ph) = StageIn(k, j, i, ph)
  BY <1>1, <1>3 DEF StageIn
<1>4. /\ stage[n][i] = StageIn(pc[App(n)], id[App(n)], i, phase[n][i])
      /\ stage'[n][i] = StageIn(pc'[App(n)], id'[App(n)], i, phase[n][i])
  BY Zenon, StageIs
<1>5. CASE pc[App(n)] \notin Work /\ pc'[App(n)] \notin Work
  BY <1>2, <1>4, <1>5
<1>6. ASSUME id'[App(n)] = id[App(n)], NEW S \in {Adding, Removing, Deleting}, pc[App(n)] \in S, pc'[App(n)] \in S
      PROVE  stage'[n][i] = stage[n][i]
  BY <1>3, <1>4, <1>6
<1>. QED BY ZenonT(100), <1>5, <1>6

\* The lists, the mappings and the nodes agree as before.
LEMMA RecordFrame ==
  ASSUME RecordInv, \A m \in Server, i \in Id : stage'[m][i] = stage[m][i], UNCHANGED <<segment, down, lost>>,
         \A m \in Server : process'[m] = process[m] /\ local_segments'[m] = local_segments[m] /\
                           recovered[m] \subseteq recovered'[m]
  PROVE  ListInv' /\ MapInv' /\ NodeInv' /\ OneUser' /\ OrphanInv'
<1>1. ListInv'
  <2>1. ASSUME NEW n \in Server, n \notin down
        PROVE  {i \in Id : stage'[n][i] \in Listed} = {i \in Id : stage[n][i] \in Listed}
    BY ZenonT(100)
  <2>. QED BY ZenonT(100), <2>1 DEF RecordInv, ListInv
<1>2. MapInv'
  <2>. SUFFICES ASSUME NEW n \in Server, NEW i \in Id
                PROVE  local_segments'[n][i] = IF stage'[n][i] \in Listed THEN segment'[i].address ELSE Unmapped
    BY Zenon DEF MapInv
  <2>1. local_segments[n][i] = IF stage[n][i] \in Listed THEN segment[i].address ELSE Unmapped
    BY Zenon DEF RecordInv, MapInv
  <2>2. local_segments'[n] = local_segments[n] /\ stage'[n][i] = stage[n][i] /\ segment' = segment
    BY Zenon
  <2>. QED BY Zenon, <2>1, <2>2
<1>3. NodeInv'
  <2>1. \A i \in Id : Stored(i)' => segment'[i].address # Unmapped
    BY ZenonT(100) DEF RecordInv, NodeInv, Stored
  <2>2. ASSUME NEW n \in Server, NEW i \in Id, stage'[n][i] # "none"
        PROVE  /\ Stored(i)'
               /\ segment'[i].source \in {n} \cup recovered'[n]
               /\ stage'[n][i] # "deleting" => segment'[i].source = n
    <3>1. stage[n][i] # "none" /\ segment' = segment /\ recovered[n] \subseteq recovered'[n] /\ stage'[n][i] = stage[n][i]
      BY Zenon, <2>2
    <3>2. /\ Stored(i) /\ segment[i].source \in {n} \cup recovered[n]
          /\ stage[n][i] # "deleting" => segment[i].source = n
      BY ZenonT(100), <3>1 DEF RecordInv, NodeInv
    <3>. QED BY ZenonT(100), <3>1, <3>2 DEF Stored
  <2>. QED BY Zenon, <2>1, <2>2 DEF NodeInv
<1>4. OneUser'
  BY ZenonT(100) DEF RecordInv, OneUser
<1>5. OrphanInv'
  BY ZenonT(100) DEF RecordInv, OrphanInv, Stored, Free
<1>. QED BY <1>1, <1>2, <1>3, <1>4, <1>5

\* The segments of n's partitions are reserved; what is reserved or left are ids.
Ids ==
  \A n \in Server :
    (\A p \in partitions[n] : p.id \in reserved[n]) /\ reserved[n] \subseteq Id /\ left[n] \subseteq Id

LEMMA IdsNow == TypeInv => Ids
<1>0. "getPartition" \in HasList
  BY DEF HasList
<1>1. ASSUME TypeInv, NEW n \in Server
      PROVE  (\A p \in partitions[n] : p.id \in reserved[n]) /\ reserved[n] \subseteq Id /\ left[n] \subseteq Id
  <2>1. reserved[n] = {p.id : p \in partitions[n]} \cup Reading(n)
    BY Zenon DEF reserved
  <2>2. Reading(n) \subseteq Id
    <3>1. pc[App(n)] = "getProcess" => process[asked[n]].list \subseteq Id
      BY ZenonT(100), <1>1, Own
    <3>2. pc[App(n)] = "getPartition" => result[App(n)] \subseteq Id
      BY ZenonT(100), <1>0, <1>1, Own
    <3>. QED BY ZenonT(100), <3>1, <3>2 DEF Reading
  <2>3. \A p \in partitions[n] : p.id \in Id
    <3>1. partitions[n] \subseteq [id : Id, address : Int, source : Server \cup {Unset}]
      BY Zenon, <1>1, Own
    <3>. QED BY <3>1
  <2>4. left[n] \subseteq Id
    BY ZenonT(100), <1>1, Own DEF left
  <2>. QED BY ZenonT(100), <2>1, <2>2, <2>3, <2>4
<1>. QED BY Zenon, <1>1 DEF Ids

LEMMA IdsThen == TypeInv' => Ids'
BY IdsNow, PTL

\* What is recovered is as before when the segments that servers still have to recover are.
LEMMA RecoveryFrame ==
  ASSUME RecordInv, Ids, Ids', had' = had,
         \A m \in Server : reserved'[m] \subseteq reserved[m] /\ partitions'[m] \subseteq partitions[m] /\
                           recovered'[m] = recovered[m] /\ left'[m] \subseteq left[m],
         \A m \in Server : \A i \in reserved'[m] : segment'[i] = segment[i] /\ Free(i)',
         \A m \in Server : \A i \in left'[m] : segment'[i] = segment[i] /\ Free(i)',
         \A d \in Server : d \in down' => d \in down /\ left'[d] = left[d],
         \A m \in Server : pc'[App(m)] \in Recovering =>
           pc[App(m)] \in Recovering /\ asked'[m] = asked[m] /\ reserved'[m] = reserved[m]
  PROVE  ReservedInv' /\ PartInv' /\ LeftInv' /\ HadInv'
<1>1. ReservedInv'
  <2>. SUFFICES ASSUME NEW n \in Server, NEW i \in reserved'[n]
                PROVE  Stored(i)' /\ segment'[i].source \in recovered'[n] /\ Free(i)'
    BY Zenon DEF ReservedInv
  <2>1. i \in reserved[n] /\ segment'[i] = segment[i] /\ Free(i)' /\ recovered'[n] = recovered[n]
    BY ZenonT(100)
  <2>2. Stored(i) /\ segment[i].source \in recovered[n]
    BY Zenon, <2>1 DEF RecordInv, ReservedInv
  <2>. QED BY Zenon, <2>1, <2>2 DEF Stored
<1>2. PartInv'
  <2>. SUFFICES ASSUME NEW n \in Server, NEW p \in partitions'[n]
                PROVE  p.address = segment'[p.id].address /\ p.source = segment'[p.id].source
    BY Zenon DEF PartInv
  <2>1. p.id \in reserved'[n]
    BY Zenon DEF Ids
  <2>2. p \in partitions[n]
    BY Zenon
  <2>3. segment'[p.id] = segment[p.id]
    BY Zenon, <2>1
  <2>. QED BY Zenon, <2>2, <2>3 DEF RecordInv, PartInv
<1>3. LeftInv'
  <2>. SUFFICES ASSUME NEW d \in Server, NEW i \in left'[d]
                PROVE  Stored(i)' /\ segment'[i].source = d /\ Free(i)'
    BY Zenon DEF LeftInv
  <2>1. i \in left[d] /\ segment'[i] = segment[i] /\ Free(i)'
    BY ZenonT(100)
  <2>2. Stored(i) /\ segment[i].source = d
    BY Zenon, <2>1 DEF RecordInv, LeftInv
  <2>. QED BY Zenon, <2>1, <2>2 DEF Stored
<1>4. HadInv'
  <2>. SUFFICES ASSUME NEW d \in Server, NEW h \in had[d]
                PROVE  /\ h \in Id \X Int
                       /\ d \in down' /\ (\A n \in Server : d \notin recovered'[n]) =>
                            h[1] \in left'[d] /\ segment'[h[1]].address = h[2]
                       /\ \A n \in Server : pc'[App(n)] \in Recovering /\ asked'[n] = d =>
                            h[1] \in reserved'[n] /\ segment'[h[1]].address = h[2]
    BY ZenonT(100) DEF HadInv
  <2>1. /\ h \in Id \X Int
        /\ d \in down /\ (\A n \in Server : d \notin recovered[n]) => h[1] \in left[d] /\ segment[h[1]].address = h[2]
        /\ \A n \in Server : pc[App(n)] \in Recovering /\ asked[n] = d =>
             h[1] \in reserved[n] /\ segment[h[1]].address = h[2]
    BY ZenonT(100) DEF RecordInv, HadInv
  <2>2. ASSUME d \in down', \A n \in Server : d \notin recovered'[n]
        PROVE  h[1] \in left'[d] /\ segment'[h[1]].address = h[2]
    <3>1. h[1] \in left[d] /\ segment[h[1]].address = h[2] /\ left'[d] = left[d]
      BY ZenonT(100), <2>1, <2>2
    <3>2. h[1] \in left'[d]
      BY Zenon, <3>1
    <3>3. segment'[h[1]] = segment[h[1]]
      BY Zenon, <3>2
    <3>. QED BY Zenon, <3>1, <3>2, <3>3
  <2>3. ASSUME NEW n \in Server, pc'[App(n)] \in Recovering, asked'[n] = d
        PROVE  h[1] \in reserved'[n] /\ segment'[h[1]].address = h[2]
    <3>1. h[1] \in reserved[n] /\ segment[h[1]].address = h[2] /\ reserved'[n] = reserved[n]
      BY ZenonT(100), <2>1, <2>3
    <3>2. h[1] \in reserved'[n]
      BY Zenon, <3>1
    <3>3. segment'[h[1]] = segment[h[1]]
      BY Zenon, <3>2
    <3>. QED BY Zenon, <3>1, <3>2, <3>3
  <2>. QED BY ZenonT(100), <2>1, <2>2, <2>3
<1>. QED BY <1>1, <1>2, <1>3, <1>4

\* A program that is up changes neither what others recover nor what is left to recover.
LEMMA OthersReserve ==
  ASSUME TypeInv, CallInv, NEW n \in Server, Others(n), n \notin down, down' = down, recovered'[n] = recovered[n]
  PROVE  /\ \A m \in Server : m # n => reserved'[m] = reserved[m] /\ partitions'[m] = partitions[m]
         /\ \A m \in Server : recovered'[m] = recovered[m] /\ left'[m] = left[m]
<1>1. ASSUME NEW m \in Server, m # n PROVE reserved'[m] = reserved[m] /\ partitions'[m] = partitions[m]
  <2>1. /\ pc'[App(m)] = pc[App(m)] /\ result'[App(m)] = result[App(m)] /\ asked'[m] = asked[m]
        /\ partitions'[m] = partitions[m]
    BY Zenon, <1>1 DEF Others, SameCall, SameAsk
  <2>2. pc[App(m)] = "getProcess" => asked[m] \in Server /\ asked[m] # n
    BY ZenonT(100), Own DEF CallInv, RecoveryFits
  <2>3. pc[App(m)] = "getProcess" => process'[asked[m]] = process[asked[m]]
    BY Zenon, <2>2 DEF Others, SameData
  <2>4. Reading(m)' = Reading(m)
    BY ZenonT(100), <2>1, <2>3 DEF Reading
  <2>. QED BY ZenonT(100), <2>1, <2>4 DEF reserved
<1>2. \A m \in Server : recovered'[m] = recovered[m]
  BY ZenonT(100) DEF Others, SameAsk
<1>3. ASSUME NEW d \in Server PROVE left'[d] = left[d]
  <2>1. d \in down => process'[d] = process[d]
    BY ZenonT(100) DEF Others, SameData
  <2>2. (\A m \in Server : d \notin recovered'[m]) <=> (\A m \in Server : d \notin recovered[m])
    BY ZenonT(100), <1>2
  <2>3. CASE d \in down /\ \A m \in Server : d \notin recovered[m]
    BY ZenonT(100), <2>1, <2>2, <2>3 DEF left
  <2>4. CASE ~(d \in down /\ \A m \in Server : d \notin recovered[m])
    BY ZenonT(100), <2>2, <2>4 DEF left
  <2>. QED BY <2>3, <2>4
<1>. QED BY <1>1, <1>2, <1>3

\* What n recovers, away from the steps that read it.
LEMMA OwnReserve ==
  ASSUME NEW n \in Server
  PROVE  /\ pc[App(n)] \notin Recovering => reserved[n] = {p.id : p \in partitions[n]}
         /\ pc'[App(n)] \notin Recovering => reserved'[n] = {p.id : p \in partitions'[n]}
<1>1. pc[App(n)] \notin Recovering => Reading(n) = {}
  BY ZenonT(100) DEF Reading, Recovering
<1>2. pc'[App(n)] \notin Recovering => Reading(n)' = {}
  BY ZenonT(100) DEF Reading, Recovering
<1>3. \A S : S \cup {} = S
  OBVIOUS
<1>. QED BY ZenonT(100), <1>1, <1>2, <1>3 DEF reserved

\* The nodes that the calls of the others are at work on are as before.
LEMMA OthersOwn ==
  ASSUME RecordInv, NEW n \in Server, Others(n), OwnFits(n)',
         \A m \in Server : m # n /\ pc[App(m)] \in Work => segment'[id[App(m)]] = segment[id[App(m)]]
  PROVE  OwnInv'
<1>1. ASSUME NEW m \in Server, m # n PROVE OwnFits(m)'
  <2>1. SameCall(m) /\ OwnFits(m)
    BY Zenon, <1>1 DEF Others, RecordInv, OwnInv
  <2>2. \A l : l \in Adding \/ l = "delete" => l \in Work
    BY DEF Work, Deleting
  <2>3. pc[App(m)] \in Adding \/ pc[App(m)] = "delete" => segment'[id[App(m)]] = segment[id[App(m)]]
    BY Zenon, <1>1, <2>2
  <2>. QED BY ZenonT(100), <2>1, <2>3 DEF OwnFits, SameCall
<1>. QED BY Zenon, <1>1 DEF OwnInv

\* A step that is as far as before with every segment.
LEMMA QuietRecords ==
  ASSUME TypeInv, TypeInv', CallInv, RecordInv, NEW n \in Server, Others(n), n \notin down,
         UNCHANGED <<segment, down, lost, had>>, SameData(n), OwnFits(n)',
         partitions'[n] = partitions[n], recovered'[n] = recovered[n], reserved'[n] = reserved[n],
         pc'[App(n)] \in Recovering => pc[App(n)] \in Recovering /\ asked'[n] = asked[n],
         \/ /\ id'[App(n)] = id[App(n)]
            /\ \E S \in {Adding, Removing, Deleting} : pc[App(n)] \in S /\ pc'[App(n)] \in S
         \/ pc[App(n)] \notin Work /\ pc'[App(n)] \notin Work
  PROVE  RecordInv'
<1>0. Ids /\ Ids'
  BY Zenon, IdsNow, IdsThen
<1>1. \A m \in Server, i \in Id : stage'[m][i] = stage[m][i]
  <2>1. phase'[n] = phase[n]
    BY Zenon DEF SameData
  <2>. QED BY Zenon, <2>1, SameStage
<1>2. \A m \in Server : process'[m] = process[m] /\ local_segments'[m] = local_segments[m]
  BY ZenonT(100) DEF Others, SameData
<1>3. \A m \in Server : reserved'[m] = reserved[m] /\ partitions'[m] = partitions[m] /\ recovered'[m] = recovered[m] /\
                        left'[m] = left[m]
  BY ZenonT(100), OthersReserve
<1>4. ListInv' /\ MapInv' /\ NodeInv' /\ OneUser' /\ OrphanInv'
  BY ZenonT(100), <1>1, <1>2, <1>3, RecordFrame
<1>5. OwnInv'
  BY ZenonT(100), OthersOwn
<1>6. \A i \in Id : Free(i) => Free(i)'
  BY ZenonT(100), <1>1 DEF Free
<1>7. /\ \A m \in Server : \A i \in reserved'[m] : segment'[i] = segment[i] /\ Free(i)'
      /\ \A m \in Server : \A i \in left'[m] : segment'[i] = segment[i] /\ Free(i)'
  BY ZenonT(100), <1>0, <1>3, <1>6 DEF RecordInv, ReservedInv, LeftInv, Ids
<1>8. \A m \in Server : pc'[App(m)] \in Recovering => pc[App(m)] \in Recovering /\ asked'[m] = asked[m]
  BY ZenonT(100) DEF Others, SameCall, SameAsk
<1>9. ReservedInv' /\ PartInv' /\ LeftInv' /\ HadInv'
  BY ZenonT(100), <1>0, <1>3, <1>7, <1>8, RecoveryFrame
<1>. QED BY Zenon, <1>4, <1>5, <1>9 DEF RecordInv

\* Nothing but messages changes.
LEMMA StutterRecords ==
  ASSUME CallInv, RecordInv,
         UNCHANGED <<segment, process, local_segments, phase, pc, id, address, result, version, down, lost, had, asked,
                     partitions, recovered>>
  PROVE  CallInv' /\ RecordInv'
<1>1. stage' = stage /\ reserved' = reserved /\ left' = left
  BY ZenonT(100) DEF stage, reserved, Reading, left
<1>2. CallInv'
  <2>1. ASSUME NEW n \in Server PROVE PhasesFit(n)' /\ CallFits(n)' /\ RecoveryFits(n)'
    <3>1. PhasesFit(n) /\ CallFits(n) /\ RecoveryFits(n)
      BY Zenon DEF CallInv
    <3>2. PhasesFit(n)'
      BY ZenonT(100), <3>1 DEF PhasesFit
    <3>3. CallFits(n)'
      BY ZenonT(100), <3>1 DEF CallFits
    <3>4. RecoveryFits(n)'
      BY ZenonT(100), <3>1 DEF RecoveryFits
    <3>. QED BY <3>2, <3>3, <3>4
  <2>. QED BY Zenon, <2>1 DEF CallInv
<1>3. ListInv'
  BY ZenonT(100), <1>1 DEF RecordInv, ListInv
<1>4. MapInv'
  BY ZenonT(100), <1>1 DEF RecordInv, MapInv
<1>5. NodeInv'
  BY ZenonT(100), <1>1 DEF RecordInv, NodeInv, Stored
<1>6. OwnInv'
  BY ZenonT(100), <1>1 DEF RecordInv, OwnInv, OwnFits
<1>7. OneUser'
  BY ZenonT(100), <1>1 DEF RecordInv, OneUser
<1>8. OrphanInv'
  BY ZenonT(100), <1>1 DEF RecordInv, OrphanInv, Stored, Free
<1>9. ReservedInv'
  BY ZenonT(100), <1>1 DEF RecordInv, ReservedInv, Stored, Free
<1>10. PartInv'
  BY ZenonT(100), <1>1 DEF RecordInv, PartInv
<1>11. LeftInv'
  BY ZenonT(100), <1>1 DEF RecordInv, LeftInv, Stored, Free
<1>12. HadInv'
  BY ZenonT(100), <1>1 DEF RecordInv, HadInv
<1>. QED BY Zenon, <1>2, <1>3, <1>4, <1>5, <1>6, <1>7, <1>8, <1>9, <1>10, <1>11, <1>12 DEF RecordInv

-----------------------------------------------------------------------------
(* The requests of a program that is up.                                   *)

Allocating == {"getAddress", "setAddress", "create"} \cup Adding
Freeing    == Removing \cup Deleting

\* The phases of n fit when its call is as far with them as before.
LEMMA PhasesQuiet ==
  ASSUME NEW n \in Server, PhasesFit(n), phase'[n] = phase[n], n \notin down',
         \/ id'[App(n)] = id[App(n)] /\ pc[App(n)] \in Freeing /\ pc'[App(n)] \in Freeing
         \/ pc[App(n)] \notin Freeing /\ pc'[App(n)] \notin Freeing,
         pc'[App(n)] \in Allocating => phase[n][id'[App(n)]] = "none"
  PROVE  PhasesFit(n)'
<1>1. \A i \in Id : phase'[n][i] \in {"none", "held", "freeing"}
  BY Zenon DEF PhasesFit
<1>2. \A i \in Id : phase'[n][i] = "freeing" <=> pc'[App(n)] \in Freeing /\ id'[App(n)] = i
  <2>1. \A i \in Id : phase[n][i] = "freeing" <=> pc[App(n)] \in Freeing /\ id[App(n)] = i
    BY Zenon DEF PhasesFit, Freeing
  <2>. QED BY ZenonT(100), <2>1
<1>. QED BY ZenonT(100), <1>1, <1>2 DEF PhasesFit, Freeing, Allocating

\* A step of n's program that is as far as before with every segment, and recovers what it did.
LEMMA QuietStep ==
  ASSUME TypeInv, TypeInv', CallInv, RecordInv, NEW n \in Server, Others(n), n \notin down,
         UNCHANGED <<segment, down, lost, had>>, SameData(n), OwnFits(n)', CallFits(n)',
         partitions'[n] = partitions[n], recovered'[n] = recovered[n], reserved'[n] = reserved[n],
         pc'[App(n)] \in Recovering =>
           pc[App(n)] \in Recovering /\ pc'[App(n)] # "getProcess" /\ asked'[n] = asked[n],
         \/ /\ id'[App(n)] = id[App(n)]
            /\ \E S \in {Adding, Removing, Deleting} : pc[App(n)] \in S /\ pc'[App(n)] \in S
         \/ pc[App(n)] \notin Work /\ pc'[App(n)] \notin Work,
         pc'[App(n)] \in Allocating => phase[n][id'[App(n)]] = "none"
  PROVE  CallInv' /\ RecordInv'
<1>2. RecordInv'
  BY ZenonT(100), QuietRecords
<1>3. PhasesFit(n)'
  <2>1. PhasesFit(n) /\ phase'[n] = phase[n] /\ n \notin down'
    BY Zenon DEF CallInv, SameData
  <2>2. \/ id'[App(n)] = id[App(n)] /\ pc[App(n)] \in Freeing /\ pc'[App(n)] \in Freeing
        \/ pc[App(n)] \notin Freeing /\ pc'[App(n)] \notin Freeing
    <3>1. Adding \cap Freeing = {} /\ Removing \subseteq Freeing /\ Deleting \subseteq Freeing /\ Freeing \subseteq Work
      BY DEF Adding, Removing, Deleting, Freeing, Work
    <3>. QED BY ZenonT(100), <3>1
  <2>. QED BY ZenonT(100), <2>1, <2>2, PhasesQuiet
<1>4. RecoveryFits(n)'
  <2>1. RecoveryFits(n)
    BY Zenon DEF CallInv
  <2>2. "getProcess" \in Recovering
    BY DEF Recovering
  <2>3. pc'[App(n)] # "getProcess"
    BY Zenon, <2>2
  <2>. QED BY ZenonT(100), <2>1, <2>3 DEF RecoveryFits
<1>5. CallInv'
  BY ZenonT(100), <1>3, <1>4, OneFits
<1>. QED BY <1>2, <1>5

\* A call of n that is as far as before with every segment.
LEMMA QuietCall ==
  ASSUME TypeInv, TypeInv', CallInv, RecordInv, NEW n \in Server, Others(n), n \notin down,
         UNCHANGED <<segment, down, lost, had>>, SameData(n), OwnFits(n)', CallFits(n)',
         partitions'[n] = partitions[n], recovered'[n] = recovered[n],
         pc[App(n)] \notin Recovering, pc'[App(n)] \notin Recovering,
         \/ /\ id'[App(n)] = id[App(n)]
            /\ \E S \in {Adding, Removing, Deleting} : pc[App(n)] \in S /\ pc'[App(n)] \in S
         \/ pc[App(n)] \notin Work /\ pc'[App(n)] \notin Work,
         pc'[App(n)] \in Allocating => phase[n][id'[App(n)]] = "none"
  PROVE  CallInv' /\ RecordInv'
<1>1. reserved'[n] = reserved[n]
  BY ZenonT(100), OwnReserve
<1>. QED BY ZenonT(100), <1>1, QuietStep

\* The get and set of the allocator node, and a create that fails.
LEMMA AllocateRecords ==
  ASSUME TypeInv, TypeInv', ReadIsOld, CallInv, RecordInv, NEW n \in Server, UNCHANGED <<crashVars, askVars>>,
         \/ GetAddress(App(n)) \/ SetAddress(App(n))
         \/ CreateSegment(App(n)) /\ segment[id[App(n)]] # NoNode
  PROVE  CallInv' /\ RecordInv'
<1>. DEFINE t == App(n)
<1>0. t \in Thread /\ t[1] = n /\ PhasesFit(n)
  BY Zenon, Apps DEF CallInv
<1>1. Others(n)
  <2>1. Request(t)
    BY Zenon DEF Request
  <2>. QED BY Zenon, <2>1, RequestOthers
<1>2. n \notin down /\ pc[t] \in {"getAddress", "setAddress", "create"}
  BY ZenonT(100), <1>0 DEF GetAddress, SetAddress, CreateSegment, At
<1>3. UNCHANGED <<segment, down, lost, had>> /\ SameData(n) /\ SameAsk(n)
  BY ZenonT(100) DEF GetAddress, SetAddress, CreateSegment, Create, SameData, SameAsk, zkVars, memVars, crashVars, askVars
<1>4. \/ pc'[t] \in {"setAddress", "getAddress", "create"} /\ id'[t] = id[t]
      \/ pc'[t] = "idle"
  <2>1. \A l : pc' = [pc EXCEPT ![t] = l] => pc'[t] = l
    BY ZenonT(100), <1>0, Locals
  <2>. QED BY ZenonT(100), <2>1 DEF GetAddress, SetAddress, CreateSegment, Goto, Return
<1>5. pc'[t] = "create" => address'[t] # Unmapped
  <2>. SUFFICES ASSUME pc'[t] = "create" PROVE address'[t] # Unmapped
    OBVIOUS
  <2>1. \A l : pc' = [pc EXCEPT ![t] = l] => l = "create"
    BY ZenonT(100), <1>0, Locals
  <2>2. SetAddress(t) /\ version[t] = allocator.version /\ address' = [address EXCEPT ![t] = result[t]]
    BY ZenonT(100), <2>1 DEF GetAddress, SetAddress, CreateSegment, Goto, Return
  <2>3. result[t] = allocator.data
    BY ZenonT(100), <1>0, <2>2 DEF ReadIsOld, SetAddress, At
  <2>4. allocator.data \in Nat /\ address'[t] = result[t]
    <3>1. allocator \in [data : Nat, version : Nat]
      BY Zenon DEF TypeInv, Kinds
    <3>2. address'[t] = result[t]
      BY ZenonT(100), <1>0, <2>2, Locals
    <3>. QED BY <3>1, <3>2
  <2>. QED BY <2>3, <2>4 DEF Unmapped
<1>6. pc[t] \notin Recovering \cup Work /\ pc'[t] \notin Recovering \cup Work
  BY <1>2, <1>4 DEF Recovering, Work, Adding, Removing, Deleting
<1>7. CallFits(n)' /\ OwnFits(n)'
  <2>1. pc'[t] \notin Adding /\ pc'[t] # "delete" /\ pc'[t] # "setList" /\ pc'[t] # "setRemove"
    BY <1>4 DEF Adding
  <2>2. pc'[t] \in {"idle", "waitList", "getAddress", "setAddress", "create"}
    BY <1>4
  <2>. QED BY ZenonT(100), <1>5, <2>1, <2>2 DEF CallFits, OwnFits
<1>8. pc'[t] \in Allocating => phase[n][id'[t]] = "none"
  <2>1. phase[n][id[t]] = "none"
    BY ZenonT(100), <1>0, <1>2 DEF PhasesFit
  <2>2. pc'[t] \in Allocating => id'[t] = id[t]
    BY <1>4 DEF Allocating, Adding
  <2>. QED BY Zenon, <2>1, <2>2
<1>9. partitions'[n] = partitions[n] /\ recovered'[n] = recovered[n]
  BY Zenon, <1>3 DEF SameAsk
<1>. QED BY ZenonT(100), <1>1, <1>2, <1>3, <1>6, <1>7, <1>8, <1>9, QuietCall

\* The gets of a list and of a node that is about to be deleted.
LEMMA GetRecords ==
  ASSUME TypeInv, TypeInv', CallInv, RecordInv, NEW n \in Server, UNCHANGED <<crashVars, askVars>>,
         GetList(App(n)) \/ GetRemove(App(n)) \/ GetDelete(App(n))
  PROVE  CallInv' /\ RecordInv'
<1>. DEFINE t == App(n)
<1>0. t \in Thread /\ t[1] = n /\ PhasesFit(n) /\ OwnFits(n) /\ id[t] \in Id
  BY Zenon, Apps, Own DEF CallInv, RecordInv, OwnInv
<1>1. Others(n)
  <2>1. Request(t)
    BY Zenon DEF Request
  <2>. QED BY Zenon, <2>1, RequestOthers
<1>2. n \notin down /\ UNCHANGED <<segment, down, lost, had>> /\ SameData(n) /\ SameAsk(n) /\ id' = id /\ address' = address
  BY ZenonT(100), <1>0 DEF GetList, GetRemove, GetDelete, At, SameData, SameAsk, zkVars, memVars, crashVars, askVars
<1>3. \/ pc[t] = "getList" /\ pc'[t] = "setList"
      \/ pc[t] = "getRemove" /\ pc'[t] = "setRemove"
      \/ pc[t] = "getDelete" /\ pc'[t] = "delete"
  <2>1. \A l : pc' = [pc EXCEPT ![t] = l] => pc'[t] = l
    BY ZenonT(100), <1>0, Locals
  <2>. QED BY ZenonT(100), <2>1 DEF GetList, GetRemove, GetDelete, At, Goto
<1>4. pc'[t] \in {"setList", "setRemove"} => result'[t] = process'[n].list /\ version'[t] = process'[n].version
  <2>1. ASSUME GetList(t) \/ GetRemove(t) PROVE result'[t] = process[n].list /\ version'[t] = process[n].version
    <3>1. result' = [result EXCEPT ![t] = process[n].list] /\ version' = [version EXCEPT ![t] = process[n].version]
      BY ZenonT(100), <1>0, <2>1 DEF GetList, GetRemove, Get
    <3>. QED BY ZenonT(100), <1>0, <3>1, Locals
  <2>2. GetDelete(t) => pc'[t] = "delete"
    BY ZenonT(100), <1>0, Locals DEF GetDelete, Goto
  <2>3. pc'[t] \in {"setList", "setRemove"} => GetList(t) \/ GetRemove(t)
    <3>1. "delete" \notin {"setList", "setRemove"}
      OBVIOUS
    <3>. QED BY Zenon, <2>2, <3>1
  <2>. QED BY Zenon, <1>2, <2>1, <2>3 DEF SameData
<1>5. pc'[t] = "delete" => segment[id[t]].version = version'[t]
  <2>. SUFFICES ASSUME pc'[t] = "delete" PROVE segment[id[t]].version = version'[t]
    OBVIOUS
  <2>1. GetDelete(t) /\ pc[t] = "getDelete"
    BY ZenonT(100), <1>3 DEF GetList, GetRemove, At
  <2>2. stage[n][id[t]] # "none"
    <3>1. StageIn("getDelete", id[t], id[t], phase[n][id[t]]) # "none"
      BY DEF StageIn, Deleting
    <3>. QED BY Zenon, <1>0, <2>1, <3>1, StageIs
  <2>3. segment[id[t]] # NoNode
    BY ZenonT(100), <1>0, <2>2 DEF RecordInv, NodeInv, Stored
  <2>4. version' = [version EXCEPT ![t] = segment[id[t]].version]
    BY ZenonT(100), <2>1, <2>3 DEF GetDelete, StatOf, Get
  <2>. QED BY ZenonT(100), <1>0, <2>4, Locals
<1>6. CallFits(n)' /\ OwnFits(n)'
  <2>1. pc'[t] \in Adding \cup Removing \cup Deleting /\ pc'[t] # "create" /\ (pc'[t] \in Adding => pc[t] \in Adding)
    BY <1>3 DEF Adding, Removing, Deleting
  <2>2. CallFits(n)'
    BY ZenonT(100), <1>4, <2>1 DEF CallFits
  <2>3. pc[t] \in Adding => segment[id[t]].address = address[t]
    BY Zenon, <1>0 DEF OwnFits
  <2>4. OwnFits(n)'
    BY ZenonT(100), <1>2, <1>5, <2>1, <2>3 DEF OwnFits
  <2>. QED BY <2>2, <2>4
<1>7. pc[t] \notin Recovering /\ pc'[t] \notin Recovering
  BY <1>3 DEF Recovering
<1>8. \E S \in {Adding, Removing, Deleting} : pc[t] \in S /\ pc'[t] \in S
  BY <1>3 DEF Adding, Removing, Deleting
<1>9. pc'[t] \in Allocating => phase[n][id'[t]] = "none"
  <2>1. pc'[t] \in Allocating => pc[t] \in Adding
    BY <1>3 DEF Allocating, Adding
  <2>2. pc[t] \in Adding => phase[n][id[t]] = "none"
    BY Zenon, <1>0 DEF PhasesFit
  <2>. QED BY Zenon, <1>2, <2>1, <2>2
<1>10. id'[t] = id[t] /\ partitions'[n] = partitions[n] /\ recovered'[n] = recovered[n]
  BY Zenon, <1>2 DEF SameAsk
<1>. QED BY ZenonT(100), <1>1, <1>2, <1>6, <1>7, <1>8, <1>9, <1>10, QuietCall

-----------------------------------------------------------------------------
(* A step with segment i of the program of n, which is the only one that   *)
(* has it.                                                                 *)

\* Away from n and i everything is as before.
Apart(n, i) ==
  /\ \A m \in Server, j \in Id : m # n \/ j # i => stage'[m][j] = stage[m][j] /\ local_segments'[m][j] = local_segments[m][j]
  /\ \A j \in Id : j # i => segment'[j] = segment[j]
  /\ \A j \in Id : j # i => (j \in process'[n].list <=> j \in process[n].list)
  /\ \A m \in Server : m # n => stage[m][i] = "none" /\ i \notin reserved[m]
  /\ \A m \in Server : i \notin left[m]

\* The record of i fits its stage.
RecordFits(n, i) ==
  /\ i \in process[n].list <=> stage[n][i] \in Listed
  /\ local_segments[n][i] = IF stage[n][i] \in Listed THEN segment[i].address ELSE Unmapped
  /\ Stored(i) => segment[i].address # Unmapped
  /\ stage[n][i] # "none" => /\ Stored(i) /\ segment[i].source \in {n} \cup recovered[n]
                             /\ stage[n][i] # "deleting" => segment[i].source = n
  /\ Stored(i) /\ stage[n][i] = "none" => segment[i].source \in lost

LEMMA MoveRecords ==
  ASSUME TypeInv', RecordInv, NEW n \in Server, NEW i \in Id, Others(n), Apart(n, i), RecordFits(n, i)',
         n \notin down, UNCHANGED <<down, lost>>, recovered'[n] = recovered[n]
  PROVE  ListInv' /\ MapInv' /\ NodeInv' /\ OneUser' /\ OrphanInv'
<1>0. \A m \in Server : recovered'[m] = recovered[m]
  BY ZenonT(100) DEF Others, SameAsk
<1>1. ListInv'
  <2>. SUFFICES ASSUME NEW m \in Server, m \notin down
                PROVE  process'[m].list = {j \in Id : stage'[m][j] \in Listed}
    BY ZenonT(100) DEF ListInv
  <2>1. process[m].list = {j \in Id : stage[m][j] \in Listed}
    BY Zenon DEF RecordInv, ListInv
  <2>2. CASE m # n
    <3>1. process'[m] = process[m] /\ \A j \in Id : stage'[m][j] = stage[m][j]
      BY ZenonT(100), <2>2 DEF Others, SameData, Apart
    <3>. QED BY ZenonT(100), <2>1, <3>1
  <2>3. CASE m = n
    <3>1. process'[n].list \subseteq Id
      <4>1. process' \in [Server -> [list : SUBSET Id, version : Nat]]
        BY Zenon DEF TypeInv, StoreKinds
      <4>2. process'[n] \in [list : SUBSET Id, version : Nat]
        BY Zenon, <4>1
      <4>. QED BY <4>2
    <3>2. \A j \in Id : j \in process'[n].list <=> stage'[n][j] \in Listed
      <4>1. ASSUME NEW j \in Id, j # i PROVE j \in process'[n].list <=> stage'[n][j] \in Listed
        <5>1. stage'[n][j] = stage[n][j] /\ (j \in process'[n].list <=> j \in process[n].list)
          BY ZenonT(100), <4>1 DEF Apart
        <5>2. j \in process[n].list <=> stage[n][j] \in Listed
          BY ZenonT(100), <2>1, <2>3
        <5>. QED BY Zenon, <5>1, <5>2
      <4>2. i \in process'[n].list <=> stage'[n][i] \in Listed
        BY Zenon DEF RecordFits
      <4>. QED BY Zenon, <4>1, <4>2
    <3>. QED BY ZenonT(100), <2>3, <3>1, <3>2
  <2>. QED BY <2>2, <2>3
<1>2. MapInv'
  <2>. SUFFICES ASSUME NEW m \in Server, NEW j \in Id
                PROVE  local_segments'[m][j] = IF stage'[m][j] \in Listed THEN segment'[j].address ELSE Unmapped
    BY Zenon DEF MapInv
  <2>1. local_segments[m][j] = IF stage[m][j] \in Listed THEN segment[j].address ELSE Unmapped
    BY Zenon DEF RecordInv, MapInv
  <2>2. CASE m = n /\ j = i
    BY Zenon, <2>2 DEF RecordFits
  <2>3. CASE m # n \/ j # i
    <3>1. stage'[m][j] = stage[m][j] /\ local_segments'[m][j] = local_segments[m][j]
      BY Zenon, <2>3 DEF Apart
    <3>2. j # i => segment'[j] = segment[j]
      BY Zenon DEF Apart
    <3>3. j = i => stage[m][j] = "none"
      BY Zenon, <2>3 DEF Apart
    <3>4. "none" \notin Listed
      BY DEF Listed
    <3>. QED BY ZenonT(100), <2>1, <3>1, <3>2, <3>3, <3>4
  <2>. QED BY <2>2, <2>3
<1>3. NodeInv'
  <2>1. ASSUME NEW j \in Id, Stored(j)' PROVE segment'[j].address # Unmapped
    <3>1. CASE j = i
      BY Zenon, <2>1, <3>1 DEF RecordFits
    <3>2. CASE j # i
      BY ZenonT(100), <2>1, <3>2 DEF RecordInv, NodeInv, Stored, Apart
    <3>. QED BY <3>1, <3>2
  <2>2. ASSUME NEW m \in Server, NEW j \in Id, stage'[m][j] # "none"
        PROVE  /\ Stored(j)'
               /\ segment'[j].source \in {m} \cup recovered'[m]
               /\ stage'[m][j] # "deleting" => segment'[j].source = m
    <3>1. CASE m = n /\ j = i
      BY Zenon, <2>2, <3>1 DEF RecordFits
    <3>2. CASE m # n \/ j # i
      <4>0. stage'[m][j] = stage[m][j]
        BY Zenon, <3>2 DEF Apart
      <4>1. stage'[m][j] = stage[m][j] /\ j # i
        BY ZenonT(100), <2>2, <3>2, <4>0 DEF Apart
      <4>2. segment'[j] = segment[j]
        BY Zenon, <4>1 DEF Apart
      <4>3. /\ Stored(j) /\ segment[j].source \in {m} \cup recovered[m]
            /\ stage[m][j] # "deleting" => segment[j].source = m
        BY ZenonT(100), <2>2, <4>1 DEF RecordInv, NodeInv
      <4>. QED BY ZenonT(100), <1>0, <4>1, <4>2, <4>3 DEF Stored
    <3>. QED BY <3>1, <3>2
  <2>. QED BY Zenon, <2>1, <2>2 DEF NodeInv
<1>4. OneUser'
  <2>1. ASSUME NEW m \in Server, stage'[m][i] # "none" PROVE m = n
    BY ZenonT(100), <2>1 DEF Apart
  <2>2. ASSUME NEW l \in Server, NEW m \in Server, NEW j \in Id, j # i, stage'[l][j] # "none", stage'[m][j] # "none"
        PROVE  l = m
    <3>1. stage'[l][j] = stage[l][j] /\ stage'[m][j] = stage[m][j]
      BY Zenon, <2>2 DEF Apart
    <3>. QED BY Zenon, <2>2, <3>1 DEF RecordInv, OneUser
  <2>3. ASSUME NEW l \in Server, NEW m \in Server, NEW j \in Id, stage'[l][j] # "none", stage'[m][j] # "none"
        PROVE  l = m
    <3>1. CASE j = i
      BY Zenon, <2>1, <2>3, <3>1
    <3>2. CASE j # i
      BY Zenon, <2>2, <2>3, <3>2
    <3>. QED BY <3>1, <3>2
  <2>. QED BY Zenon, <2>3 DEF OneUser
<1>5. OrphanInv'
  <2>. SUFFICES ASSUME NEW j \in Id, Stored(j)', Free(j)' PROVE segment'[j].source \in lost'
    BY Zenon DEF OrphanInv
  <2>1. CASE j = i
    BY ZenonT(100), <2>1 DEF RecordFits, Free
  <2>2. CASE j # i
    <3>1. Stored(j) /\ segment'[j] = segment[j]
      BY ZenonT(100), <2>2 DEF Apart, Stored
    <3>2. Free(j)
      BY ZenonT(100), <2>2 DEF Apart, Free
    <3>. QED BY Zenon, <3>1, <3>2 DEF RecordInv, OrphanInv
  <2>. QED BY <2>1, <2>2
<1>. QED BY <1>1, <1>2, <1>3, <1>4, <1>5

\* The recoveries go on as before, and with them the whole invariant.
LEMMA MoveInv ==
  ASSUME TypeInv, TypeInv', CallInv, RecordInv, NEW n \in Server, NEW i \in Id, Others(n), Apart(n, i),
         RecordFits(n, i)', OwnFits(n)', PhasesFit(n)', CallFits(n)',
         n \notin down, UNCHANGED <<down, lost, had>>, recovered'[n] = recovered[n],
         partitions'[n] \subseteq partitions[n], i \notin reserved'[n],
         pc[App(n)] \notin Recovering, pc'[App(n)] \notin Recovering
  PROVE  CallInv' /\ RecordInv'
<1>0. Ids /\ Ids'
  BY Zenon, IdsNow, IdsThen
<1>1. ListInv' /\ MapInv' /\ NodeInv' /\ OneUser' /\ OrphanInv'
  BY Zenon, MoveRecords
<1>2. OwnInv'
  <2>1. ASSUME NEW m \in Server, m # n, pc[App(m)] \in Work PROVE segment'[id[App(m)]] = segment[id[App(m)]]
    <3>. DEFINE j == id[App(m)]
    <3>1. j \in Id /\ stage[m][j] = StageIn(pc[App(m)], j, j, phase[m][j])
      BY Zenon, Own, StageIs
    <3>2. StageIn(pc[App(m)], j, j, phase[m][j]) # "none"
      BY <2>1 DEF StageIn, Work
    <3>3. j # i
      BY Zenon, <2>1, <3>1, <3>2 DEF Apart
    <3>. QED BY Zenon, <3>1, <3>3 DEF Apart
  <2>. QED BY Zenon, <2>1, OthersOwn
<1>3. /\ \A m \in Server : m # n => reserved'[m] = reserved[m] /\ partitions'[m] = partitions[m]
      /\ \A m \in Server : recovered'[m] = recovered[m] /\ left'[m] = left[m]
  BY Zenon, OthersReserve
<1>4. reserved'[n] \subseteq reserved[n]
  <2>1. reserved'[n] = {p.id : p \in partitions'[n]} /\ reserved[n] = {p.id : p \in partitions[n]}
    BY Zenon, OwnReserve
  <2>. QED BY <2>1
<1>5. \A m \in Server : reserved'[m] \subseteq reserved[m] /\ partitions'[m] \subseteq partitions[m] /\
                        recovered'[m] = recovered[m] /\ left'[m] \subseteq left[m]
  BY ZenonT(100), <1>3, <1>4
<1>6. ASSUME NEW j \in Id, j # i, Free(j) PROVE segment'[j] = segment[j] /\ Free(j)'
  BY ZenonT(100), <1>6 DEF Free, Apart
<1>7. \A m \in Server : \A j \in reserved'[m] : segment'[j] = segment[j] /\ Free(j)'
  <2>. SUFFICES ASSUME NEW m \in Server, NEW j \in reserved'[m] PROVE segment'[j] = segment[j] /\ Free(j)'
    OBVIOUS
  <2>1. j \in reserved[m] /\ j \in Id
    BY ZenonT(100), <1>0, <1>5 DEF Ids
  <2>2. j # i
    BY ZenonT(100), <1>3 DEF Apart
  <2>3. Free(j)
    BY Zenon, <2>1 DEF RecordInv, ReservedInv
  <2>. QED BY Zenon, <1>6, <2>1, <2>2, <2>3
<1>8. \A m \in Server : \A j \in left'[m] : segment'[j] = segment[j] /\ Free(j)'
  <2>. SUFFICES ASSUME NEW m \in Server, NEW j \in left'[m] PROVE segment'[j] = segment[j] /\ Free(j)'
    OBVIOUS
  <2>1. j \in left[m] /\ j \in Id
    BY ZenonT(100), <1>0, <1>3 DEF Ids
  <2>2. j # i
    BY Zenon, <2>1 DEF Apart
  <2>3. Free(j)
    BY Zenon, <2>1 DEF RecordInv, LeftInv
  <2>. QED BY Zenon, <1>6, <2>1, <2>2, <2>3
<1>9. \A m \in Server : pc'[App(m)] \in Recovering =>
        pc[App(m)] \in Recovering /\ asked'[m] = asked[m] /\ reserved'[m] = reserved[m]
  BY ZenonT(100), <1>3 DEF Others, SameCall, SameAsk
<1>10. ReservedInv' /\ PartInv' /\ LeftInv' /\ HadInv'
  BY ZenonT(100), <1>0, <1>3, <1>5, <1>7, <1>8, <1>9, RecoveryFrame
<1>11. RecoveryFits(n)'
  <2>1. RecoveryFits(n) /\ "getProcess" \in Recovering
    BY Zenon DEF CallInv, Recovering
  <2>. QED BY ZenonT(100), <2>1 DEF RecoveryFits
<1>12. CallInv'
  BY Zenon, <1>11, OneFits
<1>. QED BY Zenon, <1>1, <1>2, <1>10, <1>12 DEF RecordInv

\* A step with i changes the stage of no other segment.
LEMMA OtherSegments ==
  ASSUME NEW n \in Server, NEW i \in Id, Others(n), \A j \in Id : j # i => phase'[n][j] = phase[n][j],
         pc[App(n)] \in Work => id[App(n)] = i, pc'[App(n)] \in Work => id'[App(n)] = i
  PROVE  \A m \in Server, j \in Id : m # n \/ j # i => stage'[m][j] = stage[m][j]
<1>1. ASSUME NEW j \in Id, j # i PROVE stage'[n][j] = stage[n][j]
  <2>1. ASSUME NEW l, NEW k, NEW ph, l \in Work => k = i
        PROVE  StageIn(l, k, j, ph) = IF ph = "held" THEN "held" ELSE "none"
    BY <1>1, <2>1 DEF StageIn, Work
  <2>2. stage[n][j] = IF phase[n][j] = "held" THEN "held" ELSE "none"
    BY <2>1, StageIs
  <2>3. stage'[n][j] = IF phase'[n][j] = "held" THEN "held" ELSE "none"
    BY <2>1, StageIs
  <2>. QED BY Zenon, <1>1, <2>2, <2>3
<1>. QED BY ZenonT(100), <1>1, OthersStage

\* Nobody else has a segment that n has, and nobody has one without a node.
LEMMA OnlyUser ==
  ASSUME TypeInv, RecordInv, NEW n \in Server, NEW i \in Id, stage[n][i] # "none" \/ ~Stored(i)
  PROVE  /\ \A m \in Server : m # n => stage[m][i] = "none"
         /\ \A m \in Server : i \notin reserved[m] /\ i \notin left[m]
<1>1. \A m \in Server : m # n => stage[m][i] = "none"
  <2>1. ASSUME NEW m \in Server, m # n, stage[m][i] # "none" PROVE FALSE
    BY ZenonT(100), <2>1 DEF RecordInv, OneUser, NodeInv
  <2>. QED BY Zenon, <2>1
<1>2. ASSUME NEW m \in Server, i \in reserved[m] PROVE FALSE
  BY ZenonT(100), <1>2 DEF RecordInv, ReservedInv, Free
<1>3. ASSUME NEW m \in Server, i \in left[m] PROVE FALSE
  BY ZenonT(100), <1>3 DEF RecordInv, LeftInv, Free
<1>. QED BY Zenon, <1>1, <1>2, <1>3

\* createMemorySegmentNode, and the set of addToProcessList.
LEMMA CreateRecords ==
  ASSUME TypeInv, TypeInv', CallInv, RecordInv, NEW n \in Server, UNCHANGED <<crashVars, askVars>>,
         CreateSegment(App(n)), segment[id[App(n)]] = NoNode
  PROVE  CallInv' /\ RecordInv'
<1>. DEFINE t == App(n)
            node == [address |-> address[t], source |-> n, destination |-> Unset, version |-> 0]
<1>i. PICK i \in Id : i = id[t]
  BY Zenon, Own
<1>0. t \in Thread /\ t[1] = n /\ PhasesFit(n) /\ CallFits(n)
  BY Zenon, Apps DEF CallInv
<1>1. Others(n)
  <2>1. Request(t)
    BY Zenon DEF Request
  <2>. QED BY Zenon, <2>1, RequestOthers
<1>2. /\ n \notin down /\ pc[t] = "create" /\ UNCHANGED <<down, lost, had, id, address, process, local_segments, phase>>
      /\ SameAsk(n) /\ segment' = [segment EXCEPT ![i] = node]
  BY ZenonT(100), <1>0, <1>i DEF CreateSegment, Create, At, SameAsk, memVars, crashVars, askVars
<1>3. pc'[t] = "getList" /\ id'[t] = i
  <2>1. pc' = [pc EXCEPT ![t] = "getList"]
    BY ZenonT(100) DEF CreateSegment, Goto
  <2>. QED BY ZenonT(100), <1>0, <1>2, <1>i, <2>1, Locals
<1>4. /\ segment'[i] = node /\ node.address = address[t] /\ node.source = n /\ node # NoNode
      /\ \A j \in Id : j # i => segment'[j] = segment[j]
  <2>1. node.address = address[t] /\ node.source = n /\ node.version = 0
    OBVIOUS
  <2>2. NoNode.version # 0
    BY DEF NoNode
  <2>3. node # NoNode
    BY Zenon, <2>1, <2>2
  <2>. HIDE DEF node
  <2>4. segment'[i] = node /\ \A j \in Id : j # i => segment'[j] = segment[j]
    BY ZenonT(100), <1>0, <1>2 DEF TypeInv, StoreKinds
  <2>. QED BY Zenon, <2>1, <2>3, <2>4
<1>. HIDE DEF node
<1>5. pc[t] \notin Work /\ pc[t] \notin Recovering /\ pc'[t] \notin Recovering /\ "getList" \in Adding
  BY <1>2, <1>3 DEF Work, Adding, Removing, Deleting, Recovering
<1>6. /\ \A m \in Server : m # n => stage[m][i] = "none"
      /\ \A m \in Server : i \notin reserved[m] /\ i \notin left[m]
      /\ stage[n][i] = "none"
  <2>1. ~Stored(i)
    BY Zenon, <1>i DEF Stored
  <2>2. stage[n][i] = "none"
    BY ZenonT(100), <1>0, <2>1 DEF RecordInv, NodeInv
  <2>. QED BY ZenonT(100), <1>0, <2>1, <2>2, OnlyUser
<1>7. Apart(n, i)
  <2>1. \A m \in Server, j \in Id : m # n \/ j # i => stage'[m][j] = stage[m][j]
    BY ZenonT(100), <1>0, <1>1, <1>2, <1>3, <1>5, <1>i, OtherSegments
  <2>. QED BY ZenonT(100), <1>2, <1>4, <1>6, <2>1 DEF Apart
<1>8. stage'[n][i] = "adding"
  <2>1. StageIn("getList", i, i, phase'[n][i]) = "adding"
    BY Zenon, <1>5 DEF StageIn
  <2>. QED BY Zenon, <1>0, <1>3, <2>1, StageIs
<1>9. RecordFits(n, i)'
  <2>1. "adding" \notin Listed /\ "none" \notin Listed /\ "adding" # "none"
    BY DEF Listed
  <2>2. i \notin process[n].list /\ local_segments[n][i] = Unmapped
    <3>1. process[n].list = {j \in Id : stage[n][j] \in Listed}
      BY Zenon, <1>2 DEF RecordInv, ListInv
    <3>2. local_segments[n][i] = IF stage[n][i] \in Listed THEN segment[i].address ELSE Unmapped
      BY Zenon DEF RecordInv, MapInv
    <3>. QED BY Zenon, <1>6, <2>1, <3>1, <3>2
  <2>3. address[t] # Unmapped
    BY Zenon, <1>0, <1>2 DEF CallFits
  <2>. QED BY ZenonT(100), <1>2, <1>4, <1>8, <2>1, <2>2, <2>3 DEF RecordFits, Stored
<1>10. OwnFits(n)' /\ CallFits(n)'
  <2>1. pc'[t] # "delete" /\ pc'[t] # "create" /\ pc'[t] \notin {"setList", "setRemove"}
    BY <1>3
  <2>. QED BY ZenonT(100), <1>2, <1>3, <1>4, <1>5, <2>1 DEF OwnFits, CallFits
<1>11. PhasesFit(n)'
  <2>1. pc[t] \notin Freeing /\ pc'[t] \notin Freeing
    BY <1>2, <1>3 DEF Freeing, Removing, Deleting
  <2>2. phase[n][i] = "none"
    BY Zenon, <1>0, <1>2, <1>i DEF PhasesFit
  <2>. QED BY ZenonT(100), <1>0, <1>2, <1>3, <2>1, <2>2, PhasesQuiet
<1>12. reserved'[n] = reserved[n] /\ recovered'[n] = recovered[n] /\ partitions'[n] = partitions[n]
  BY ZenonT(100), <1>2, <1>5, OwnReserve DEF SameAsk
<1>. QED BY ZenonT(100), <1>0, <1>1, <1>2, <1>5, <1>6, <1>7, <1>9, <1>10, <1>11, <1>12, MoveInv

LEMMA SetListRecords ==
  ASSUME TypeInv, TypeInv', CallInv, RecordInv, NEW n \in Server, UNCHANGED <<crashVars, askVars>>, SetList(App(n))
  PROVE  CallInv' /\ RecordInv'
<1>. DEFINE t == App(n)
<1>i. PICK i \in Id : i = id[t]
  BY Zenon, Own
<1>0. t \in Thread /\ t[1] = n /\ t[2] = "app" /\ PhasesFit(n) /\ CallFits(n) /\ OwnFits(n)
  BY Zenon, Apps DEF CallInv, RecordInv, OwnInv
<1>1. Others(n)
  <2>1. Request(t)
    BY Zenon DEF Request
  <2>. QED BY Zenon, <2>1, RequestOthers
<1>2. n \notin down /\ pc[t] = "setList" /\ UNCHANGED <<down, lost, had, segment>> /\ SameAsk(n)
  BY ZenonT(100), <1>0 DEF SetList, At, SameAsk, crashVars, askVars
<1>3. /\ process' = [process EXCEPT ![n] = [list |-> result[t] \cup {i}, version |-> process[n].version + 1]]
      /\ local_segments' = [local_segments EXCEPT ![n][i] = address[t]]
      /\ phase' = [phase EXCEPT ![n][i] = "held"]
  <2>1. version[t] = process[n].version
    BY Zenon, <1>0, <1>2 DEF CallFits
  <2>. QED BY ZenonT(100), <1>0, <1>i, <2>1 DEF SetList, EndAllocate, SetPhase
<1>4. pc'[t] = "idle"
  BY ZenonT(100), ReturnLocals DEF SetList
<1>5. /\ process'[n].list = process[n].list \cup {i}
      /\ local_segments'[n][i] = address[t] /\ phase'[n][i] = "held"
      /\ \A m \in Server, j \in Id : m # n \/ j # i => local_segments'[m][j] = local_segments[m][j]
      /\ \A j \in Id : j # i => phase'[n][j] = phase[n][j]
  <2>1. process'[n].list = process[n].list \cup {i}
    <3>1. result[t] = process[n].list
      BY Zenon, <1>0, <1>2 DEF CallFits
    <3>2. process'[n] = [list |-> result[t] \cup {i}, version |-> process[n].version + 1]
      BY ZenonT(100), <1>3 DEF TypeInv, StoreKinds
    <3>. QED BY <3>1, <3>2
  <2>2. /\ local_segments'[n][i] = address[t]
        /\ \A m \in Server, j \in Id : m # n \/ j # i => local_segments'[m][j] = local_segments[m][j]
    BY ZenonT(100), <1>3 DEF TypeInv, Kinds
  <2>3. phase'[n][i] = "held" /\ \A j \in Id : j # i => phase'[n][j] = phase[n][j]
    BY ZenonT(100), <1>3 DEF TypeInv, PeerKinds
  <2>. QED BY Zenon, <2>1, <2>2, <2>3
<1>6. /\ pc[t] \notin Recovering /\ pc'[t] \notin Recovering /\ pc'[t] \notin Work /\ pc[t] \in Adding
      /\ pc[t] \notin Freeing /\ pc'[t] \notin Freeing
  BY <1>2, <1>4 DEF Work, Adding, Removing, Deleting, Recovering, Freeing
<1>7. stage[n][i] = "adding" /\ stage'[n][i] = "held"
  <2>1. StageIn(pc[t], i, i, phase[n][i]) = "adding"
    BY Zenon, <1>6 DEF StageIn
  <2>2. \A j : StageIn("idle", j, i, "held") = "held"
    BY DEF StageIn, Adding, Removing, Deleting
  <2>3. stage[n][i] = StageIn(pc[t], i, i, phase[n][i])
    BY Zenon, <1>i, StageIs
  <2>4. stage'[n][i] = StageIn("idle", id'[t], i, "held")
    BY Zenon, <1>4, <1>5, StageIs
  <2>. QED BY Zenon, <2>1, <2>2, <2>3, <2>4
<1>8. /\ \A m \in Server : m # n => stage[m][i] = "none"
      /\ \A m \in Server : i \notin reserved[m] /\ i \notin left[m]
  BY ZenonT(100), <1>7, OnlyUser
<1>9. Apart(n, i)
  <2>1. \A m \in Server, j \in Id : m # n \/ j # i => stage'[m][j] = stage[m][j]
    BY ZenonT(100), <1>1, <1>5, <1>6, <1>i, OtherSegments
  <2>2. \A j \in Id : j # i => (j \in process'[n].list <=> j \in process[n].list)
    BY ZenonT(100), <1>5
  <2>. QED BY ZenonT(100), <1>2, <1>5, <1>8, <2>1, <2>2 DEF Apart
<1>10. RecordFits(n, i)'
  <2>1. "held" \in Listed /\ "held" # "none" /\ "adding" # "none" /\ "adding" # "deleting"
    BY DEF Listed
  <2>2. /\ Stored(i) /\ segment[i].source = n
        /\ segment[i].address # Unmapped
    BY ZenonT(100), <1>7, <2>1 DEF RecordInv, NodeInv
  <2>3. segment[i].address = address[t]
    BY Zenon, <1>0, <1>6, <1>i DEF OwnFits
  <2>4. i \in process'[n].list
    BY Zenon, <1>5
  <2>. QED BY ZenonT(100), <1>2, <1>5, <1>7, <2>1, <2>2, <2>3, <2>4 DEF RecordFits, Stored
<1>11. OwnFits(n)' /\ CallFits(n)'
  <2>1. pc'[t] # "delete" /\ pc'[t] # "create" /\ pc'[t] \notin {"setList", "setRemove"} /\ pc'[t] \notin Adding
    BY <1>4 DEF Adding
  <2>. QED BY ZenonT(100), <1>4, <2>1 DEF OwnFits, CallFits
<1>12. PhasesFit(n)'
  <2>1. \A j \in Id : phase'[n][j] \in {"none", "held", "freeing"} /\ phase'[n][j] # "freeing"
    <3>1. \A j \in Id : phase[n][j] # "freeing" /\ phase[n][j] \in {"none", "held", "freeing"}
      BY ZenonT(100), <1>0, <1>6 DEF PhasesFit, Freeing
    <3>. QED BY <1>5, <3>1
  <2>2. pc'[t] \notin Allocating
    BY <1>4 DEF Allocating, Adding
  <2>. QED BY ZenonT(100), <1>2, <1>6, <2>1, <2>2 DEF PhasesFit, Freeing, Allocating
<1>13. reserved'[n] = reserved[n] /\ recovered'[n] = recovered[n] /\ partitions'[n] = partitions[n]
  BY ZenonT(100), <1>2, <1>6, OwnReserve DEF SameAsk
<1>. QED BY ZenonT(100), <1>1, <1>2, <1>6, <1>8, <1>9, <1>10, <1>11, <1>12, <1>13, MoveInv

\* The set of removeFromProcessList.
LEMMA SetRemoveRecords ==
  ASSUME TypeInv, TypeInv', CallInv, RecordInv, NEW n \in Server, UNCHANGED <<crashVars, askVars>>, SetRemove(App(n))
  PROVE  CallInv' /\ RecordInv'
<1>. DEFINE t == App(n)
<1>i. PICK i \in Id : i = id[t]
  BY Zenon, Own
<1>0. t \in Thread /\ t[1] = n /\ PhasesFit(n) /\ CallFits(n)
  BY Zenon, Apps DEF CallInv
<1>1. Others(n)
  <2>1. Request(t)
    BY Zenon DEF Request
  <2>. QED BY Zenon, <2>1, RequestOthers
<1>2. n \notin down /\ pc[t] = "setRemove" /\ UNCHANGED <<down, lost, had, segment, phase, id>> /\ SameAsk(n)
  BY ZenonT(100), <1>0 DEF SetRemove, At, SameAsk, crashVars, askVars
<1>3. /\ process' = [process EXCEPT ![n] = [list |-> result[t] \ {i}, version |-> process[n].version + 1]]
      /\ local_segments' = [local_segments EXCEPT ![n][i] = Unmapped]
      /\ pc' = [pc EXCEPT ![t] = "getDelete"]
  <2>1. version[t] = process[n].version
    BY Zenon, <1>0, <1>2 DEF CallFits
  <2>. QED BY ZenonT(100), <1>0, <1>i, <2>1 DEF SetRemove, WithoutId, Goto
<1>4. pc'[t] = "getDelete" /\ id'[t] = i
  BY ZenonT(100), <1>0, <1>2, <1>3, <1>i, Locals
<1>5. /\ process'[n].list = process[n].list \ {i} /\ local_segments'[n][i] = Unmapped
      /\ \A m \in Server, j \in Id : m # n \/ j # i => local_segments'[m][j] = local_segments[m][j]
  <2>1. process'[n].list = process[n].list \ {i}
    <3>1. result[t] = process[n].list
      BY Zenon, <1>0, <1>2 DEF CallFits
    <3>2. process'[n] = [list |-> result[t] \ {i}, version |-> process[n].version + 1]
      BY ZenonT(100), <1>3 DEF TypeInv, StoreKinds
    <3>. QED BY <3>1, <3>2
  <2>2. /\ local_segments'[n][i] = Unmapped
        /\ \A m \in Server, j \in Id : m # n \/ j # i => local_segments'[m][j] = local_segments[m][j]
    BY ZenonT(100), <1>3 DEF TypeInv, Kinds
  <2>. QED BY Zenon, <2>1, <2>2
<1>6. /\ pc[t] \notin Recovering /\ pc'[t] \notin Recovering /\ pc[t] \in Removing /\ pc'[t] \in Deleting
      /\ pc[t] \in Freeing /\ pc'[t] \in Freeing /\ pc'[t] \notin Allocating
  BY <1>2, <1>4 DEF Adding, Removing, Deleting, Recovering, Freeing, Allocating
<1>7. stage[n][i] = "removing" /\ stage'[n][i] = "deleting"
  <2>1. \A ph : StageIn("setRemove", i, i, ph) = "removing" /\ StageIn("getDelete", i, i, ph) = "deleting"
    BY DEF StageIn, Adding, Removing, Deleting
  <2>2. stage[n][i] = StageIn("setRemove", i, i, phase[n][i])
    BY Zenon, <1>i, <1>2, StageIs
  <2>3. stage'[n][i] = StageIn("getDelete", i, i, phase'[n][i])
    BY Zenon, <1>4, StageIs
  <2>. QED BY Zenon, <2>1, <2>2, <2>3
<1>8. /\ \A m \in Server : m # n => stage[m][i] = "none"
      /\ \A m \in Server : i \notin reserved[m] /\ i \notin left[m]
  BY ZenonT(100), <1>7, OnlyUser
<1>9. Apart(n, i)
  <2>1. \A m \in Server, j \in Id : m # n \/ j # i => stage'[m][j] = stage[m][j]
    BY ZenonT(100), <1>1, <1>2, <1>4, <1>i, OtherSegments
  <2>2. \A j \in Id : j # i => (j \in process'[n].list <=> j \in process[n].list)
    BY ZenonT(100), <1>5
  <2>. QED BY ZenonT(100), <1>2, <1>5, <1>8, <2>1, <2>2 DEF Apart
<1>10. RecordFits(n, i)'
  <2>1. "deleting" \notin Listed /\ "deleting" # "none" /\ "removing" # "none" /\ "removing" # "deleting"
    BY DEF Listed
  <2>2. Stored(i) /\ segment[i].source = n /\ segment[i].address # Unmapped
    BY ZenonT(100), <1>7, <2>1 DEF RecordInv, NodeInv
  <2>3. i \notin process'[n].list
    BY Zenon, <1>5
  <2>. QED BY ZenonT(100), <1>2, <1>5, <1>7, <2>1, <2>2, <2>3 DEF RecordFits, Stored
<1>11. OwnFits(n)' /\ CallFits(n)'
  <2>1. pc'[t] # "delete" /\ pc'[t] # "create" /\ pc'[t] \notin {"setList", "setRemove"} /\ pc'[t] \notin Adding
    BY <1>4 DEF Adding
  <2>. QED BY ZenonT(100), <1>6, <2>1 DEF OwnFits, CallFits
<1>12. PhasesFit(n)'
  BY ZenonT(100), <1>0, <1>2, <1>4, <1>6, <1>i, PhasesQuiet
<1>13. reserved'[n] = reserved[n] /\ recovered'[n] = recovered[n] /\ partitions'[n] = partitions[n]
  BY ZenonT(100), <1>2, <1>6, OwnReserve DEF SameAsk
<1>. QED BY ZenonT(100), <1>1, <1>2, <1>6, <1>8, <1>9, <1>10, <1>11, <1>12, <1>13, MoveInv

\* The remove of deleteMemorySegment.
LEMMA DeleteRecords ==
  ASSUME TypeInv, TypeInv', CallInv, RecordInv, NEW n \in Server, UNCHANGED <<crashVars, askVars>>,
         DeleteSegment(App(n))
  PROVE  CallInv' /\ RecordInv'
<1>. DEFINE t == App(n)
<1>i. PICK i \in Id : i = id[t]
  BY Zenon, Own
<1>0. t \in Thread /\ t[1] = n /\ PhasesFit(n) /\ OwnFits(n)
  BY Zenon, Apps DEF CallInv, RecordInv, OwnInv
<1>1. Others(n)
  <2>1. Request(t)
    BY Zenon DEF Request
  <2>. QED BY Zenon, <2>1, RequestOthers
<1>2. n \notin down /\ pc[t] = "delete" /\ UNCHANGED <<down, lost, had, process, local_segments>> /\ SameAsk(n)
  BY ZenonT(100), <1>0 DEF DeleteSegment, At, SameAsk, memVars, crashVars, askVars
<1>3. pc'[t] = "idle"
  BY ZenonT(100), ReturnLocals DEF DeleteSegment
<1>4. /\ pc[t] \notin Recovering /\ pc'[t] \notin Recovering /\ pc[t] \in Deleting /\ pc'[t] \notin Work
      /\ pc'[t] \notin Freeing /\ pc'[t] \notin Allocating
  BY <1>2, <1>3 DEF Work, Adding, Removing, Deleting, Recovering, Freeing, Allocating
<1>5. phase'[n][i] = "none" /\ \A j \in Id : j # i => phase'[n][j] = phase[n][j]
  <2>1. phase' = [phase EXCEPT ![n][i] = "none"]
    BY ZenonT(100), <1>0, <1>i DEF DeleteSegment, SetPhase
  <2>. QED BY ZenonT(100), <2>1 DEF TypeInv, PeerKinds
<1>6. stage[n][i] = "deleting" /\ stage'[n][i] = "none"
  <2>1. \A ph : StageIn("delete", i, i, ph) = "deleting"
    BY DEF StageIn, Adding, Removing, Deleting
  <2>2. \A j : StageIn("idle", j, i, "none") = "none"
    BY DEF StageIn, Adding, Removing, Deleting
  <2>3. stage[n][i] = StageIn("delete", i, i, phase[n][i])
    BY Zenon, <1>i, <1>2, StageIs
  <2>4. stage'[n][i] = StageIn("idle", id'[t], i, "none")
    BY Zenon, <1>3, <1>5, StageIs
  <2>. QED BY Zenon, <2>1, <2>2, <2>3, <2>4
<1>7. segment'[i] = NoNode /\ \A j \in Id : j # i => segment'[j] = segment[j]
  <2>1. Stored(i)
    BY ZenonT(100), <1>6 DEF RecordInv, NodeInv
  <2>2. segment[i].version = version[t]
    BY Zenon, <1>0, <1>2, <1>i DEF OwnFits
  <2>3. segment' = [segment EXCEPT ![i] = NoNode]
    BY ZenonT(100), <1>i, <2>1, <2>2 DEF DeleteSegment, Remove, Matches, Stored
  <2>. QED BY ZenonT(100), <2>3 DEF TypeInv, StoreKinds
<1>8. /\ \A m \in Server : m # n => stage[m][i] = "none"
      /\ \A m \in Server : i \notin reserved[m] /\ i \notin left[m]
  BY ZenonT(100), <1>6, OnlyUser
<1>9. Apart(n, i)
  <2>1. \A m \in Server, j \in Id : m # n \/ j # i => stage'[m][j] = stage[m][j]
    BY ZenonT(100), <1>1, <1>4, <1>5, <1>i, OtherSegments
  <2>. QED BY ZenonT(100), <1>2, <1>7, <1>8, <2>1 DEF Apart
<1>10. RecordFits(n, i)'
  <2>1. "deleting" \notin Listed /\ "none" \notin Listed
    BY DEF Listed
  <2>2. i \notin process[n].list /\ local_segments[n][i] = Unmapped
    <3>1. process[n].list = {j \in Id : stage[n][j] \in Listed}
      BY Zenon, <1>2 DEF RecordInv, ListInv
    <3>2. local_segments[n][i] = IF stage[n][i] \in Listed THEN segment[i].address ELSE Unmapped
      BY Zenon DEF RecordInv, MapInv
    <3>. QED BY Zenon, <1>6, <2>1, <3>1, <3>2
  <2>. QED BY ZenonT(100), <1>2, <1>6, <1>7, <2>1, <2>2 DEF RecordFits, Stored
<1>11. OwnFits(n)' /\ CallFits(n)'
  <2>1. pc'[t] # "delete" /\ pc'[t] # "create" /\ pc'[t] \notin {"setList", "setRemove"} /\ pc'[t] \notin Adding
    BY <1>3 DEF Adding
  <2>. QED BY ZenonT(100), <1>3, <2>1 DEF OwnFits, CallFits
<1>12. PhasesFit(n)'
  <2>1. \A j \in Id : phase'[n][j] \in {"none", "held", "freeing"} /\ phase'[n][j] # "freeing"
    <3>1. \A j \in Id : phase[n][j] \in {"none", "held", "freeing"} /\ (j # i => phase[n][j] # "freeing")
      BY ZenonT(100), <1>0, <1>i DEF PhasesFit
    <3>. QED BY <1>5, <3>1
  <2>. QED BY ZenonT(100), <1>2, <1>4, <2>1 DEF PhasesFit, Freeing, Allocating
<1>13. reserved'[n] = reserved[n] /\ recovered'[n] = recovered[n] /\ partitions'[n] = partitions[n]
  BY ZenonT(100), <1>2, <1>4, OwnReserve DEF SameAsk
<1>. QED BY ZenonT(100), <1>1, <1>2, <1>4, <1>8, <1>9, <1>10, <1>11, <1>12, <1>13, MoveInv

\* Nobody else has a segment that n recovers, when n is the only one to recover its server.
LEMMA OnlyRecoverer ==
  ASSUME RecordInv, OneRecoverer, NEW n \in Server, NEW i \in Id, i \in reserved[n]
  PROVE  /\ Stored(i) /\ segment[i].source \in recovered[n]
         /\ \A m \in Server : stage[m][i] = "none" /\ i \notin left[m] /\ (m # n => i \notin reserved[m])
<1>1. Stored(i) /\ segment[i].source \in recovered[n] /\ Free(i)
  BY Zenon DEF RecordInv, ReservedInv
<1>2. ASSUME NEW m \in Server, m # n, i \in reserved[m] PROVE FALSE
  <2>1. segment[i].source \in recovered[m]
    BY Zenon, <1>2 DEF RecordInv, ReservedInv
  <2>2. recovered[n] \cap recovered[m] # {}
    BY ZenonT(100), <1>1, <2>1
  <2>. QED BY Zenon, <1>2, <2>2 DEF OneRecoverer
<1>3. ASSUME NEW m \in Server, i \in left[m] PROVE FALSE
  <2>1. segment[i].source = m
    BY Zenon, <1>3 DEF RecordInv, LeftInv
  <2>2. m \notin recovered[n]
    BY ZenonT(100), <1>3 DEF left
  <2>. QED BY Zenon, <1>1, <2>1, <2>2
<1>. QED BY Zenon, <1>1, <1>2, <1>3 DEF Free

\* deallocate of a segment that n holds or recovers: it finds the node, and the server goes on.
LEMMA DeallocateRecords ==
  ASSUME TypeInv, TypeInv', CallInv, RecordInv, OneRecoverer, NEW n \in Server, NEW i \in Id, UNCHANGED crashVars,
         Deallocate(n, i)
  PROVE  CallInv' /\ RecordInv' /\ halted' = halted
<1>. DEFINE t == App(n)
<1>0. t \in Thread /\ t[1] = n /\ t = <<n, "app">> /\ PhasesFit(n)
  BY Zenon, Apps DEF CallInv
<1>2. /\ n \notin down /\ pc[t] = "idle"
      /\ UNCHANGED <<down, lost, had, segment, process, local_segments, address, result, version, asked, recovered>>
      /\ partitions' = [partitions EXCEPT ![n] = {p \in partitions[n] : p.id # i}]
  BY ZenonT(100), <1>0 DEF Deallocate, At, zkVars, memVars, crashVars
<1>3. pc[t] \notin Work /\ pc[t] \notin Recovering /\ pc[t] \notin Freeing
  BY <1>2 DEF Work, Adding, Removing, Deleting, Recovering, Freeing
<1>4. /\ Stored(i) /\ segment[i].address # Unmapped
      /\ \A m \in Server : i \notin left[m] /\ (m # n => stage[m][i] = "none" /\ i \notin reserved[m])
      /\ \/ stage[n][i] = "held" /\ segment[i].source = n /\ local_segments[n][i] = segment[i].address
         \/ stage[n][i] = "none" /\ segment[i].source \in recovered[n] /\ local_segments[n][i] = Unmapped
  <2>0. /\ \A j \in Id : Stored(j) => segment[j].address # Unmapped
        /\ local_segments[n][i] = IF stage[n][i] \in Listed THEN segment[i].address ELSE Unmapped
    BY Zenon DEF RecordInv, NodeInv, MapInv
  <2>1. CASE phase[n][i] = "held"
    <3>1. stage[n][i] = "held"
      <4>1. \A j : StageIn("idle", j, i, "held") = "held"
        BY DEF StageIn, Adding, Removing, Deleting
      <4>. QED BY Zenon, <1>2, <2>1, <4>1, StageIs
    <3>2. "held" # "none" /\ "held" # "deleting" /\ "held" \in Listed
      BY DEF Listed
    <3>3. Stored(i) /\ segment[i].source = n
      BY ZenonT(100), <3>1, <3>2 DEF RecordInv, NodeInv
    <3>4. /\ \A m \in Server : m # n => stage[m][i] = "none"
          /\ \A m \in Server : i \notin reserved[m] /\ i \notin left[m]
      BY ZenonT(100), <3>1, <3>2, OnlyUser
    <3>. QED BY ZenonT(100), <2>0, <3>1, <3>2, <3>3, <3>4
  <2>2. CASE phase[n][i] # "held"
    <3>1. i \in reserved[n]
      <4>1. Recovered(n, i)
        <5>1. phase[n][i] \in {"none", "held", "freeing"}
          BY Zenon, <1>0 DEF PhasesFit
        <5>2. phase[n][i] \notin {"held", "closed"}
          BY <2>2, <5>1
        <5>. QED BY Zenon, <5>2 DEF Deallocate
      <4>. QED BY ZenonT(100), <4>1, IdsNow DEF Recovered, Ids
    <3>2. /\ Stored(i) /\ segment[i].source \in recovered[n]
          /\ \A m \in Server : stage[m][i] = "none" /\ i \notin left[m] /\ (m # n => i \notin reserved[m])
      BY Zenon, <3>1, OnlyRecoverer
    <3>3. "none" \notin Listed
      BY DEF Listed
    <3>. QED BY ZenonT(100), <2>0, <3>2, <3>3
  <2>. QED BY <2>1, <2>2
<1>. DEFINE l == IF local_segments[n][i] = segment[i].address THEN "getRemove" ELSE "getDelete"
<1>5. /\ pc' = [pc EXCEPT ![t] = l] /\ id' = [id EXCEPT ![t] = i]
      /\ phase' = [phase EXCEPT ![n][i] = "freeing"] /\ halted' = halted
  <2>1. phase[n][i] \in {"none", "held", "freeing"}
    BY Zenon, <1>0 DEF PhasesFit
  <2>2. phase[n][i] # "closed"
    BY <2>1
  <2>. QED BY ZenonT(100), <2>2, <1>0, <1>4 DEF Deallocate, GetMemorySegment, Stored, Begin, SetPhase
<1>6. /\ pc'[t] = l /\ id'[t] = i
      /\ \A m \in Server : m # n => pc'[App(m)] = pc[App(m)] /\ id'[App(m)] = id[App(m)]
  <2>. HIDE DEF l
  <2>1. SetTo(pc, pc', n, l) /\ SetTo(id, id', n, i)
    BY Zenon, <1>5, Locals DEF SetTo
  <2>2. OnlySet(pc, pc', n, l) /\ OnlySet(id, id', n, i)
    BY Zenon, <2>1, SetLocal
  <2>. QED BY ZenonT(100), <2>2 DEF OnlySet
<1>7. /\ phase'[n][i] = "freeing" /\ \A j \in Id : j # i => phase'[n][j] = phase[n][j]
      /\ \A m \in Server : m # n => phase'[m] = phase[m]
  BY ZenonT(100), <1>5 DEF TypeInv, PeerKinds
<1>8. /\ partitions'[n] = {p \in partitions[n] : p.id # i} /\ partitions'[n] \subseteq partitions[n]
      /\ \A m \in Server : m # n => partitions'[m] = partitions[m]
  <2>1. /\ partitions'[n] = {p \in partitions[n] : p.id # i}
        /\ \A m \in Server : m # n => partitions'[m] = partitions[m]
    BY ZenonT(100), <1>2 DEF TypeInv, CrashKinds
  <2>2. {p \in partitions[n] : p.id # i} \subseteq partitions[n]
    OBVIOUS
  <2>. QED BY Zenon, <2>1, <2>2
<1>9. Others(n)
  BY ZenonT(100), <1>2, <1>6, <1>7, <1>8 DEF Others, SameCall, SameData, SameAsk
<1>10. l \in {"getRemove", "getDelete"}
  BY Zenon
<1>11. /\ l \in Freeing /\ l \notin Recovering /\ l \notin Allocating /\ l \notin Adding /\ l # "delete" /\ l # "create"
       /\ l \notin {"setList", "setRemove"}
  <2>. HIDE DEF l
  <2>. QED BY <1>10 DEF Freeing, Recovering, Allocating, Adding, Removing, Deleting
<1>12. /\ stage'[n][i] \in {"removing", "deleting"}
       /\ stage[n][i] = "held" => stage'[n][i] = "removing"
       /\ stage[n][i] = "none" => stage'[n][i] = "deleting"
  <2>1. \A ph : StageIn("getRemove", i, i, ph) = "removing" /\ StageIn("getDelete", i, i, ph) = "deleting"
    BY DEF StageIn, Adding, Removing, Deleting
  <2>2. stage'[n][i] = StageIn(l, i, i, phase'[n][i])
    BY Zenon, <1>6, StageIs
  <2>3. (stage[n][i] = "held" => l = "getRemove") /\ (stage[n][i] = "none" => l = "getDelete")
    <3>1. "held" # "none"
      OBVIOUS
    <3>. QED BY Zenon, <1>4, <3>1
  <2>. HIDE DEF l
  <2>. QED BY ZenonT(100), <1>10, <2>1, <2>2, <2>3
<1>. HIDE DEF l
<1>13. Apart(n, i)
  <2>1. \A m \in Server, j \in Id : m # n \/ j # i => stage'[m][j] = stage[m][j]
    BY ZenonT(100), <1>3, <1>6, <1>7, <1>9, OtherSegments
  <2>. QED BY ZenonT(100), <1>2, <1>4, <2>1 DEF Apart
<1>14. RecordFits(n, i)'
  <2>1. /\ "deleting" \notin Listed /\ "removing" \in Listed /\ "held" \in Listed /\ "none" \notin Listed
        /\ "removing" # "none" /\ "deleting" # "none" /\ "removing" # "deleting"
    BY DEF Listed
  <2>2. process[n].list = {j \in Id : stage[n][j] \in Listed}
    BY Zenon, <1>2 DEF RecordInv, ListInv
  <2>3. CASE stage[n][i] = "held" /\ segment[i].source = n /\ local_segments[n][i] = segment[i].address
    <3>1. i \in process[n].list
      BY Zenon, <2>1, <2>2, <2>3
    <3>. QED BY ZenonT(100), <1>2, <1>4, <1>12, <2>1, <2>3, <3>1 DEF RecordFits, Stored
  <2>4. CASE stage[n][i] = "none" /\ segment[i].source \in recovered[n] /\ local_segments[n][i] = Unmapped
    <3>1. i \notin process[n].list
      BY Zenon, <2>1, <2>2, <2>4
    <3>. QED BY ZenonT(100), <1>2, <1>4, <1>12, <2>1, <2>4, <3>1 DEF RecordFits, Stored
  <2>. QED BY Zenon, <1>4, <2>3, <2>4
<1>15. OwnFits(n)' /\ CallFits(n)'
  BY ZenonT(100), <1>6, <1>11 DEF OwnFits, CallFits, Freeing
<1>16. PhasesFit(n)'
  <2>1. \A j \in Id : phase'[n][j] \in {"none", "held", "freeing"} /\ (phase'[n][j] = "freeing" <=> j = i)
    <3>1. \A j \in Id : phase[n][j] \in {"none", "held", "freeing"} /\ phase[n][j] # "freeing"
      BY ZenonT(100), <1>0, <1>3 DEF PhasesFit, Freeing
    <3>. QED BY <1>7, <3>1
  <2>. QED BY ZenonT(100), <1>2, <1>6, <1>11, <2>1 DEF PhasesFit, Freeing, Allocating
<1>17. i \notin reserved'[n]
  <2>1. reserved'[n] = {p.id : p \in partitions'[n]}
    BY Zenon, <1>6, <1>11, OwnReserve
  <2>. QED BY ZenonT(100), <1>8, <2>1
<1>18. CallInv' /\ RecordInv'
  BY ZenonT(100), <1>2, <1>3, <1>6, <1>8, <1>9, <1>11, <1>13, <1>14, <1>15, <1>16, <1>17, MoveInv
<1>. QED BY Zenon, <1>5, <1>18

-----------------------------------------------------------------------------
(* The beginning of allocate, the queries and the reads of a recovery.     *)

LEMMA BeginRecords ==
  ASSUME TypeInv, TypeInv', CallInv, RecordInv, NEW n \in Server, NEW i \in Id, UNCHANGED <<crashVars, askVars>>,
         BeginAllocate(n, i)
  PROVE  CallInv' /\ RecordInv'
<1>. DEFINE t == App(n)
<1>0. t \in Thread /\ t[1] = n /\ t = <<n, "app">>
  BY Zenon, Apps
<1>1. /\ n \notin down /\ pc[t] = "idle" /\ phase[n][i] = "none"
      /\ pc' = [pc EXCEPT ![t] = "getAddress"] /\ id' = [id EXCEPT ![t] = i]
  BY ZenonT(100), <1>0 DEF BeginAllocate, At, Begin
<1>2. /\ UNCHANGED <<segment, down, lost, had, process, local_segments, phase, address, result, version, asked,
                     partitions, recovered>>
  BY ZenonT(100) DEF BeginAllocate, zkVars, memVars, crashVars, askVars
<1>3. OnlySet(pc, pc', n, "getAddress") /\ OnlySet(id, id', n, i)
  <2>1. SetTo(pc, pc', n, "getAddress") /\ SetTo(id, id', n, i)
    BY Zenon, <1>1, Locals DEF SetTo
  <2>. QED BY Zenon, <2>1, SetLocal
<1>4. Others(n) /\ SameData(n) /\ pc'[t] = "getAddress" /\ id'[t] = i
  BY ZenonT(100), <1>2, <1>3 DEF OnlySet, Others, SameCall, SameData, SameAsk
<1>5. /\ pc[t] \notin Recovering /\ pc'[t] \notin Recovering /\ pc[t] \notin Work /\ pc'[t] \notin Work
      /\ pc'[t] \notin Adding /\ pc'[t] \notin {"delete", "create", "setList", "setRemove"}
      /\ pc'[t] \in {"idle", "waitList", "getAddress", "setAddress", "create"}
  BY <1>1, <1>4 DEF Recovering, Work, Adding, Removing, Deleting
<1>6. CallFits(n)' /\ OwnFits(n)'
  BY ZenonT(100), <1>5 DEF CallFits, OwnFits
<1>7. phase[n][id'[t]] = "none" /\ partitions'[n] = partitions[n] /\ recovered'[n] = recovered[n]
  BY Zenon, <1>1, <1>2, <1>4
<1>. QED BY ZenonT(100), <1>1, <1>2, <1>4, <1>5, <1>6, <1>7, QuietCall

\* The query of a server that is up, and its answer.
LEMMA QueryRecords ==
  ASSUME TypeInv, TypeInv', AskInv, CallInv, RecordInv, NEW n \in Server, NEW d \in Server,
         QueryLive(n, d) \/ OnSentPartitions(n, d)
  PROVE  CallInv' /\ RecordInv'
<1>. DEFINE t == App(n)
<1>0. t \in Thread /\ t[1] = n /\ t = <<n, "app">>
  BY Zenon, Apps
<1>1. /\ n \notin down /\ DOMAIN asked = Server
      /\ UNCHANGED <<segment, down, lost, had, process, local_segments, phase, partitions, recovered>>
  <2>1. /\ n \notin down
        /\ UNCHANGED <<segment, down, lost, had, process, local_segments, phase, partitions, recovered>>
    <3>1. <<n, "poller">>[1] = n
      OBVIOUS
    <3>. QED BY ZenonT(100), <1>0, <3>1 DEF QueryLive, OnSentPartitions, GetMessage, At, zkVars, memVars, crashVars, askVars
  <2>2. DOMAIN asked = Server
    BY ZenonT(100) DEF TypeInv, AskKinds
  <2>. QED BY <2>1, <2>2
<1>2. \A m \in Server : m # n => SameCall(m) /\ asked'[m] = asked[m]
  <2>1. CASE QueryLive(n, d)
    <3>1. /\ Sets(pc, pc', n) /\ Sets(id, id', n) /\ Sets(address, address', n) /\ Sets(result, result', n)
          /\ Sets(version, version', n)
      BY ZenonT(100), <1>0, <2>1 DEF QueryLive, Goto, Sets
    <3>2. \A m \in Server : m # n => SameCall(m)
      BY Zenon, <3>1, SetsOthers
    <3>3. asked' = [asked EXCEPT ![n] = d]
      BY Zenon, <2>1 DEF QueryLive
    <3>. QED BY ZenonT(100), <1>1, <3>2, <3>3
  <2>2. CASE OnSentPartitions(n, d)
    <3>1. Return(App(n)) /\ asked' = asked
      BY ZenonT(100), <1>0, <2>2 DEF OnSentPartitions, askVars
    <3>. QED BY ZenonT(100), <3>1, ReturnLocals
  <2>. QED BY <2>1, <2>2
<1>3. Others(n) /\ SameData(n)
  BY ZenonT(100), <1>1, <1>2 DEF Others, SameData, SameAsk
<1>4. pc[t] \in {"idle", "waitList"} /\ pc'[t] \in {"idle", "waitList"}
  <2>1. CASE QueryLive(n, d)
    <3>1. pc[t] = "idle" /\ pc' = [pc EXCEPT ![t] = "waitList"]
      BY ZenonT(100), <1>0, <2>1 DEF QueryLive, At, Goto
    <3>2. pc'[t] = "waitList"
      BY ZenonT(100), <1>0, <3>1, Locals
    <3>. QED BY Zenon, <3>1, <3>2
  <2>2. CASE OnSentPartitions(n, d)
    <3>1. pc[t] = "waitList"
      <4>0. GetMessage(n, d, "SENTPARTITIONS") /\ chan \in [Server -> [Server -> Seq(Message)]]
        BY Zenon, <2>2 DEF OnSentPartitions, TypeInv, Kinds
      <4>1. /\ chan[d][n] \in Seq(Message) /\ chan[d][n] # <<>>
            /\ Head(chan[d][n]).type = "SENTPARTITIONS"
        BY ZenonT(100), <4>0 DEF GetMessage
      <4>2. Has(chan[d][n], "SENTPARTITIONS")
        BY <4>1 DEF Has
      <4>. QED BY ZenonT(100), <1>0, <4>2 DEF AskInv, AsksWaits, Asks, Waits
    <3>2. Return(App(n))
      BY ZenonT(100), <1>0, <2>2 DEF OnSentPartitions
    <3>3. pc'[t] = "idle"
      BY Zenon, <3>2, ReturnLocals
    <3>. QED BY Zenon, <3>1, <3>3
  <2>. QED BY <2>1, <2>2
<1>5. /\ pc[t] \notin Recovering /\ pc'[t] \notin Recovering /\ pc[t] \notin Work /\ pc'[t] \notin Work
      /\ pc'[t] \notin Adding /\ pc'[t] \notin {"delete", "create", "setList", "setRemove"}
      /\ pc'[t] \in {"idle", "waitList", "getAddress", "setAddress", "create"} /\ pc'[t] \notin Allocating
  BY <1>4 DEF Recovering, Work, Adding, Removing, Deleting, Allocating
<1>6. CallFits(n)' /\ OwnFits(n)'
  BY ZenonT(100), <1>5 DEF CallFits, OwnFits
<1>7. partitions'[n] = partitions[n] /\ recovered'[n] = recovered[n]
  BY Zenon, <1>1
<1>. QED BY ZenonT(100), <1>1, <1>3, <1>5, <1>6, <1>7, QuietCall

\* The list of the server that crashed is read; every node in it has been read.
LEMMA ReadRecords ==
  ASSUME TypeInv, TypeInv', CallInv, RecordInv, NEW n \in Server, GetProcess(n) \/ EndRecover(n)
  PROVE  CallInv' /\ RecordInv'
<1>. DEFINE t == App(n)
<1>0. t \in Thread /\ t[1] = n /\ t = <<n, "app">>
  BY Zenon, Apps
<1>1. /\ n \notin down
      /\ UNCHANGED <<segment, down, lost, had, process, local_segments, phase, asked, partitions, recovered>>
  BY ZenonT(100), <1>0 DEF GetProcess, EndRecover, At, zkVars, memVars, crashVars, askVars
<1>2. \A m \in Server : m # n => SameCall(m)
  <2>1. /\ Sets(pc, pc', n) /\ Sets(id, id', n) /\ Sets(address, address', n) /\ Sets(result, result', n)
        /\ Sets(version, version', n)
    BY ZenonT(100), <1>0 DEF GetProcess, EndRecover, Return, Get, Goto, Sets
  <2>. QED BY Zenon, <2>1, SetsOthers
<1>3. Others(n) /\ SameData(n)
  BY ZenonT(100), <1>1, <1>2 DEF Others, SameData, SameAsk
<1>4. \/ pc[t] = "getProcess" /\ pc'[t] = "getPartition" /\ result'[t] = process[asked[n]].list
      \/ pc[t] = "getPartition" /\ pc'[t] = "idle" /\ result[t] = {}
  <2>1. \A l : pc' = [pc EXCEPT ![t] = l] => pc'[t] = l
    BY ZenonT(100), <1>0, Locals
  <2>2. \A l : result' = [result EXCEPT ![t] = l] => result'[t] = l
    BY ZenonT(100), <1>0, Locals
  <2>3. CASE GetProcess(n)
    BY ZenonT(100), <1>0, <2>1, <2>2, <2>3 DEF GetProcess, At, Goto, Get
  <2>4. CASE EndRecover(n)
    BY ZenonT(100), <1>0, <2>1, <2>4 DEF EndRecover, At, Return
  <2>. QED BY <2>3, <2>4
<1>5. /\ pc[t] \in Recovering /\ pc'[t] # "getProcess" /\ pc[t] \notin Work /\ pc'[t] \notin Work
      /\ pc'[t] \notin Adding /\ pc'[t] \notin {"delete", "create", "setList", "setRemove"}
      /\ pc'[t] \in {"idle", "waitList", "getAddress", "setAddress", "create"} \cup Recovering
      /\ pc'[t] \notin Allocating
  BY <1>4 DEF Recovering, Work, Adding, Removing, Deleting, Allocating
<1>6. CallFits(n)' /\ OwnFits(n)'
  BY ZenonT(100), <1>5 DEF CallFits, OwnFits
<1>7. reserved'[n] = reserved[n] /\ partitions'[n] = partitions[n] /\ recovered'[n] = recovered[n] /\ asked'[n] = asked[n]
  <2>1. Reading(n)' = Reading(n)
    <3>1. "getPartition" # "getProcess" /\ "idle" # "getPartition" /\ "idle" # "getProcess"
      OBVIOUS
    <3>2. CASE pc[t] = "getProcess" /\ pc'[t] = "getPartition" /\ result'[t] = process[asked[n]].list
      BY ZenonT(100), <3>1, <3>2 DEF Reading
    <3>3. CASE pc[t] = "getPartition" /\ pc'[t] = "idle" /\ result[t] = {}
      BY ZenonT(100), <3>1, <3>3 DEF Reading
    <3>. QED BY Zenon, <1>4, <3>2, <3>3
  <2>. QED BY ZenonT(100), <1>1, <2>1 DEF reserved
<1>. QED BY ZenonT(100), <1>1, <1>3, <1>5, <1>6, <1>7, QuietStep

\* The nodes, the lists and the calls in a step of a recovery.
LEMMA RecoverFrame ==
  ASSUME TypeInv, CallInv, RecordInv, NEW n \in Server, Others(n), n \notin down,
         UNCHANGED <<segment, down, lost, had>>, SameData(n), recovered[n] \subseteq recovered'[n], RecoveryFits(n)',
         pc[App(n)] \notin Work, pc'[App(n)] \in Recovering
  PROVE  /\ CallInv' /\ ListInv' /\ MapInv' /\ NodeInv' /\ OwnInv' /\ OneUser' /\ OrphanInv'
         /\ \A m \in Server, i \in Id : stage'[m][i] = stage[m][i]
         /\ \A i \in Id : Free(i) => Free(i)'
<1>1. /\ pc'[App(n)] \notin Work /\ pc'[App(n)] \notin Adding
      /\ pc'[App(n)] \notin {"delete", "create", "setList", "setRemove"} /\ pc'[App(n)] \notin Allocating
      /\ pc'[App(n)] \notin Freeing /\ pc[App(n)] \notin Freeing
  BY DEF Recovering, Work, Adding, Removing, Deleting, Allocating, Freeing
<1>2. \A m \in Server, i \in Id : stage'[m][i] = stage[m][i]
  <2>1. phase'[n] = phase[n]
    BY Zenon DEF SameData
  <2>. QED BY Zenon, <1>1, <2>1, SameStage
<1>3. \A m \in Server : process'[m] = process[m] /\ local_segments'[m] = local_segments[m] /\
                        recovered[m] \subseteq recovered'[m]
  BY ZenonT(100) DEF Others, SameData, SameAsk
<1>4. ListInv' /\ MapInv' /\ NodeInv' /\ OneUser' /\ OrphanInv'
  BY ZenonT(100), <1>2, <1>3, RecordFrame
<1>5. OwnFits(n)' /\ CallFits(n)'
  BY ZenonT(100), <1>1 DEF OwnFits, CallFits
<1>6. OwnInv'
  BY ZenonT(100), <1>5, OthersOwn
<1>7. PhasesFit(n)'
  <2>1. PhasesFit(n) /\ phase'[n] = phase[n] /\ n \notin down'
    BY Zenon DEF CallInv, SameData
  <2>. QED BY ZenonT(100), <1>1, <2>1, PhasesQuiet
<1>8. CallInv'
  BY ZenonT(100), <1>5, <1>7, OneFits
<1>9. \A i \in Id : Free(i) => Free(i)'
  BY ZenonT(100), <1>2 DEF Free
<1>. QED BY <1>2, <1>4, <1>6, <1>8, <1>9

\* A node of the list is read: it moves from what n is to read to what n has read.
LEMMA PartitionRecords ==
  ASSUME TypeInv, TypeInv', CallInv, RecordInv, NEW n \in Server, NEW i \in Id, GetPartition(n, i)
  PROVE  CallInv' /\ RecordInv'
<1>. DEFINE t == App(n)
            q == [id |-> i, address |-> segment[i].address, source |-> segment[i].source]
<1>0. t \in Thread /\ t[1] = n /\ t = <<n, "app">> /\ Ids /\ Ids' /\ DOMAIN partitions = Server
  <2>1. DOMAIN partitions = Server
    BY ZenonT(100) DEF TypeInv, CrashKinds
  <2>. QED BY Zenon, <2>1, Apps, IdsNow, IdsThen
<1>1. /\ n \notin down /\ pc[t] = "getPartition" /\ i \in result[t]
      /\ result' = [result EXCEPT ![t] = result[t] \ {i}]
      /\ UNCHANGED <<segment, down, lost, had, process, local_segments, phase, pc, id, address, version, asked, recovered>>
  BY ZenonT(100), <1>0 DEF GetPartition, At, zkVars, memVars, crashVars
<1>2. i \in reserved[n]
  <2>1. i \in Reading(n)
    BY Zenon, <1>1 DEF Reading
  <2>. QED BY ZenonT(100), <2>1 DEF reserved
<1>3. Stored(i)
  BY Zenon, <1>2 DEF RecordInv, ReservedInv
<1>4. /\ partitions'[n] = partitions[n] \cup {q} /\ \A m \in Server : m # n => partitions'[m] = partitions[m]
      /\ result'[t] = result[t] \ {i}
  <2>1. partitions' = [partitions EXCEPT ![n] = partitions[n] \cup {q}]
    BY ZenonT(100), <1>3 DEF GetPartition, Stored
  <2>2. result'[t] = result[t] \ {i}
    BY ZenonT(100), <1>0, <1>1, Locals
  <2>. QED BY ZenonT(100), <1>0, <2>1, <2>2
<1>5. Others(n) /\ SameData(n)
  <2>1. Sets(pc, pc', n) /\ Sets(id, id', n) /\ Sets(address, address', n) /\ Sets(result, result', n) /\ Sets(version, version', n)
    BY ZenonT(100), <1>1 DEF Sets
  <2>2. \A m \in Server : m # n => SameCall(m)
    BY Zenon, <2>1, SetsOthers
  <2>. QED BY ZenonT(100), <1>1, <1>4, <2>2 DEF Others, SameData, SameAsk
<1>6. reserved'[n] = reserved[n]
  <2>1. Reading(n)' = result[t] \ {i} /\ Reading(n) = result[t]
    BY ZenonT(100), <1>1, <1>4 DEF Reading
  <2>2. /\ reserved[n] = {p.id : p \in partitions[n]} \cup result[t]
        /\ reserved'[n] = {p.id : p \in partitions[n] \cup {q}} \cup (result[t] \ {i})
    BY ZenonT(100), <1>4, <2>1 DEF reserved
  <2>3. \A x : x \in {p.id : p \in partitions[n] \cup {q}} <=> x \in {p.id : p \in partitions[n]} \/ x = q.id
    BY ZenonT(100)
  <2>4. q.id = i
    OBVIOUS
  <2>. HIDE DEF q
  <2>5. \A x : x \in reserved'[n] <=> x \in reserved[n]
    BY ZenonT(100), <1>1, <2>2, <2>3, <2>4
  <2>. QED BY <2>5, <2>2
<1>7. /\ \A m \in Server : reserved'[m] = reserved[m] /\ left'[m] = left[m] /\ recovered'[m] = recovered[m]
  <2>1. recovered'[n] = recovered[n] /\ down' = down
    BY Zenon, <1>1
  <2>. QED BY ZenonT(100), <1>1, <1>5, <1>6, <2>1, OthersReserve
<1>8. pc[t] \notin Work /\ pc'[t] \in Recovering
  <2>1. "getPartition" \notin Work /\ "getPartition" \in Recovering
    BY DEF Work, Adding, Removing, Deleting, Recovering
  <2>. QED BY Zenon, <1>1, <2>1
<1>9. RecoveryFits(n)'
  <2>1. RecoveryFits(n)
    BY Zenon DEF CallInv
  <2>. QED BY ZenonT(100), <1>1, <2>1 DEF RecoveryFits
<1>10. /\ CallInv' /\ ListInv' /\ MapInv' /\ NodeInv' /\ OwnInv' /\ OneUser' /\ OrphanInv'
       /\ \A j \in Id : Free(j) => Free(j)'
  <2>1. recovered[n] \subseteq recovered'[n]
    BY Zenon, <1>1
  <2>. QED BY ZenonT(100), <1>1, <1>5, <1>8, <1>9, <2>1, RecoverFrame
<1>11. ReservedInv'
  <2>. SUFFICES ASSUME NEW m \in Server, NEW j \in reserved'[m]
                PROVE  Stored(j)' /\ segment'[j].source \in recovered'[m] /\ Free(j)'
    BY Zenon DEF ReservedInv
  <2>1. j \in reserved[m] /\ segment' = segment /\ recovered'[m] = recovered[m] /\ j \in Id
    BY ZenonT(100), <1>0, <1>1, <1>7 DEF Ids
  <2>. QED BY ZenonT(100), <1>10, <2>1 DEF RecordInv, ReservedInv, Stored
<1>12. PartInv'
  <2>. SUFFICES ASSUME NEW m \in Server, NEW p \in partitions'[m]
                PROVE  p.address = segment[p.id].address /\ p.source = segment[p.id].source
    BY Zenon, <1>1 DEF PartInv
  <2>1. CASE p \in partitions[m]
    BY Zenon, <2>1 DEF RecordInv, PartInv
  <2>2. CASE p = q
    BY <2>2
  <2>. QED BY ZenonT(100), <1>4, <2>1, <2>2
<1>13. LeftInv'
  <2>. SUFFICES ASSUME NEW d \in Server, NEW j \in left'[d]
                PROVE  Stored(j)' /\ segment'[j].source = d /\ Free(j)'
    BY Zenon DEF LeftInv
  <2>1. j \in left[d] /\ segment' = segment /\ j \in Id
    BY ZenonT(100), <1>0, <1>1, <1>7 DEF Ids
  <2>. QED BY ZenonT(100), <1>10, <2>1 DEF RecordInv, LeftInv, Stored
<1>14. HadInv'
  <2>1. had' = had /\ down' = down /\ pc' = pc /\ asked' = asked /\ segment' = segment /\ recovered' = recovered
    BY Zenon, <1>1
  <2>2. HadInv
    BY Zenon DEF RecordInv
  <2>. QED BY ZenonT(100), <1>7, <2>1, <2>2 DEF HadInv
<1>. QED BY Zenon, <1>10, <1>11, <1>12, <1>13, <1>14 DEF RecordInv

\* The recovery of d begins: what d left is n's to recover, when nobody else recovers d.
LEMMA StartRecords ==
  ASSUME TypeInv, TypeInv', CallInv, RecordInv, OneRecoverer', NEW n \in Server, NEW d \in Server, Recover(n, d)
  PROVE  CallInv' /\ RecordInv'
<1>. DEFINE t == App(n)
<1>0. /\ t \in Thread /\ t[1] = n /\ t = <<n, "app">> /\ Ids /\ Ids' /\ DOMAIN asked = Server /\ DOMAIN recovered = Server
      /\ down \subseteq lost
  <2>1. DOMAIN asked = Server /\ DOMAIN recovered = Server /\ down \subseteq lost
    BY ZenonT(100) DEF TypeInv, AskKinds, CrashKinds
  <2>. QED BY Zenon, <2>1, Apps, IdsNow, IdsThen
<1>1. /\ n \notin down /\ pc[t] = "idle" /\ d \in down /\ d \notin recovered[n]
      /\ pc' = [pc EXCEPT ![t] = "getProcess"] /\ asked' = [asked EXCEPT ![n] = d]
      /\ recovered' = [recovered EXCEPT ![n] = recovered[n] \cup {d}]
      /\ UNCHANGED <<segment, down, lost, had, process, local_segments, phase, id, address, result, version, partitions>>
  BY ZenonT(100), <1>0 DEF Recover, At, Goto, zkVars, memVars, crashVars
<1>2. /\ pc'[t] = "getProcess" /\ asked'[n] = d /\ recovered'[n] = recovered[n] \cup {d}
      /\ \A m \in Server : m # n => asked'[m] = asked[m] /\ recovered'[m] = recovered[m]
  <2>1. pc'[t] = "getProcess"
    BY ZenonT(100), <1>0, <1>1, Locals
  <2>. QED BY ZenonT(100), <1>0, <1>1, <2>1
<1>3. Others(n) /\ SameData(n)
  <2>1. Sets(pc, pc', n) /\ Sets(id, id', n) /\ Sets(address, address', n) /\ Sets(result, result', n) /\ Sets(version, version', n)
    BY ZenonT(100), <1>1 DEF Sets
  <2>2. \A m \in Server : m # n => SameCall(m)
    BY Zenon, <2>1, SetsOthers
  <2>. QED BY ZenonT(100), <1>1, <1>2, <2>2 DEF Others, SameData, SameAsk
<1>4. \A m \in Server : d \notin recovered[m]
  <2>1. ASSUME NEW m \in Server, m # n, d \in recovered[m] PROVE FALSE
    <3>1. d \in recovered'[m] \cap recovered'[n]
      BY ZenonT(100), <1>2, <2>1
    <3>2. recovered'[m] \cap recovered'[n] # {}
      BY Zenon, <3>1
    <3>. QED BY Zenon, <2>1, <3>2 DEF OneRecoverer
  <2>. QED BY Zenon, <1>1, <2>1
<1>5. left[d] = process[d].list
  BY ZenonT(100), <1>1, <1>4 DEF left
<1>6. \A m \in Server : m # n => reserved'[m] = reserved[m]
  <2>. SUFFICES ASSUME NEW m \in Server, m # n PROVE reserved'[m] = reserved[m]
    OBVIOUS
  <2>1. /\ pc'[App(m)] = pc[App(m)] /\ result'[App(m)] = result[App(m)] /\ asked'[m] = asked[m]
        /\ partitions'[m] = partitions[m] /\ process' = process
    BY Zenon, <1>1, <1>3 DEF Others, SameCall, SameAsk
  <2>2. Reading(m)' = Reading(m)
    BY ZenonT(100), <2>1 DEF Reading
  <2>. QED BY ZenonT(100), <2>1, <2>2 DEF reserved
<1>7. reserved'[n] = reserved[n] \cup left[d]
  <2>1. Reading(n)' = process[d].list
    <3>1. "getProcess" # "getPartition"
      OBVIOUS
    <3>. QED BY ZenonT(100), <1>1, <1>2, <3>1 DEF Reading
  <2>2. reserved[n] = {p.id : p \in partitions[n]}
    <3>1. "idle" \notin Recovering
      BY DEF Recovering
    <3>. QED BY Zenon, <1>1, <3>1, OwnReserve
  <2>. QED BY ZenonT(100), <1>1, <1>5, <2>1, <2>2 DEF reserved
<1>8. ASSUME NEW e \in Server, e \in down, \A m \in Server : e \notin recovered'[m]
      PROVE  e # d /\ (\A m \in Server : e \notin recovered[m]) /\ left'[e] = left[e]
  <2>1. e # d /\ \A m \in Server : e \notin recovered[m]
    BY ZenonT(100), <1>2, <1>8
  <2>2. left'[e] = process[e].list /\ left[e] = process[e].list
    BY ZenonT(100), <1>1, <1>8, <2>1 DEF left
  <2>. QED BY Zenon, <2>1, <2>2
<1>9. pc[t] \notin Work /\ pc'[t] \in Recovering
  <2>1. "idle" \notin Work /\ "getProcess" \in Recovering
    BY DEF Work, Adding, Removing, Deleting, Recovering
  <2>. QED BY Zenon, <1>1, <1>2, <2>1
<1>10. RecoveryFits(n)'
  <2>1. RecoveryFits(n) /\ d # n
    BY Zenon, <1>1 DEF CallInv
  <2>2. recovered'[n] \subseteq lost \ {n}
    <3>1. recovered[n] \subseteq lost \ {n} /\ d \in lost
      BY Zenon, <1>0, <1>1, <2>1 DEF RecoveryFits
    <3>. QED BY ZenonT(100), <1>2, <2>1, <3>1
  <2>3. asked'[n] \in down' /\ asked'[n] \in recovered'[n] /\ n \notin down' /\ lost' = lost
    <3>1. down' = down /\ lost' = lost /\ d \in down /\ n \notin down
      BY Zenon, <1>1
    <3>2. asked'[n] = d /\ recovered'[n] = recovered[n] \cup {d}
      BY Zenon, <1>2
    <3>. QED BY <3>1, <3>2
  <2>. QED BY ZenonT(100), <2>2, <2>3 DEF RecoveryFits
<1>11. /\ CallInv' /\ ListInv' /\ MapInv' /\ NodeInv' /\ OwnInv' /\ OneUser' /\ OrphanInv'
       /\ \A j \in Id : Free(j) => Free(j)'
  <2>1. recovered[n] \subseteq recovered'[n]
    BY ZenonT(100), <1>2
  <2>. QED BY ZenonT(100), <1>1, <1>3, <1>9, <1>10, <2>1, RecoverFrame
<1>12. ReservedInv'
  <2>. SUFFICES ASSUME NEW m \in Server, NEW j \in reserved'[m]
                PROVE  Stored(j)' /\ segment'[j].source \in recovered'[m] /\ Free(j)'
    BY Zenon DEF ReservedInv
  <2>1. CASE j \in reserved[m]
    <3>1. j \in Id /\ segment' = segment /\ recovered[m] \subseteq recovered'[m]
      BY ZenonT(100), <1>0, <1>1, <1>2, <2>1 DEF Ids
    <3>2. Stored(j) /\ segment[j].source \in recovered[m] /\ Free(j)
      BY Zenon, <2>1 DEF RecordInv, ReservedInv
    <3>. QED BY ZenonT(100), <1>11, <3>1, <3>2 DEF Stored
  <2>2. CASE m = n /\ j \in left[d]
    <3>1. j \in Id /\ segment' = segment /\ d \in recovered'[m]
      BY ZenonT(100), <1>0, <1>1, <1>2, <2>2 DEF Ids
    <3>2. Stored(j) /\ segment[j].source = d /\ Free(j)
      BY Zenon, <2>2 DEF RecordInv, LeftInv
    <3>. QED BY ZenonT(100), <1>11, <3>1, <3>2 DEF Stored
  <2>. QED BY ZenonT(100), <1>6, <1>7, <2>1, <2>2
<1>13. PartInv'
  BY ZenonT(100), <1>1 DEF RecordInv, PartInv
<1>14. LeftInv'
  <2>. SUFFICES ASSUME NEW e \in Server, NEW j \in left'[e]
                PROVE  Stored(j)' /\ segment'[j].source = e /\ Free(j)'
    BY Zenon DEF LeftInv
  <2>1. e \in down /\ \A m \in Server : e \notin recovered'[m]
    BY ZenonT(100), <1>1 DEF left
  <2>2. j \in left[e] /\ segment' = segment /\ j \in Id
    BY ZenonT(100), <1>0, <1>1, <1>8, <2>1 DEF Ids
  <2>. QED BY ZenonT(100), <1>11, <2>2 DEF RecordInv, LeftInv, Stored
<1>15. HadInv'
  <2>. SUFFICES ASSUME NEW e \in Server, NEW h \in had[e]
                PROVE  /\ h \in Id \X Int
                       /\ e \in down /\ (\A m \in Server : e \notin recovered'[m]) =>
                            h[1] \in left'[e] /\ segment[h[1]].address = h[2]
                       /\ \A m \in Server : pc'[App(m)] \in Recovering /\ asked'[m] = e =>
                            h[1] \in reserved'[m] /\ segment[h[1]].address = h[2]
    BY ZenonT(100), <1>1 DEF HadInv
  <2>1. /\ h \in Id \X Int
        /\ e \in down /\ (\A m \in Server : e \notin recovered[m]) => h[1] \in left[e] /\ segment[h[1]].address = h[2]
        /\ \A m \in Server : pc[App(m)] \in Recovering /\ asked[m] = e =>
             h[1] \in reserved[m] /\ segment[h[1]].address = h[2]
    BY ZenonT(100) DEF RecordInv, HadInv
  <2>2. ASSUME e \in down, \A m \in Server : e \notin recovered'[m]
        PROVE  h[1] \in left'[e] /\ segment[h[1]].address = h[2]
    BY ZenonT(100), <1>8, <2>1, <2>2
  <2>3. ASSUME NEW m \in Server, pc'[App(m)] \in Recovering, asked'[m] = e
        PROVE  h[1] \in reserved'[m] /\ segment[h[1]].address = h[2]
    <3>1. CASE m = n
      <4>1. e = d
        BY Zenon, <1>2, <2>3, <3>1
      <4>2. h[1] \in left[d] /\ segment[h[1]].address = h[2]
        BY Zenon, <1>1, <1>4, <2>1, <4>1
      <4>. QED BY ZenonT(100), <1>7, <3>1, <4>2
    <3>2. CASE m # n
      <4>1. pc'[App(m)] = pc[App(m)] /\ asked'[m] = asked[m] /\ reserved'[m] = reserved[m]
        BY Zenon, <1>3, <1>6, <3>2 DEF Others, SameCall, SameAsk
      <4>. QED BY Zenon, <2>1, <2>3, <4>1
    <3>. QED BY <3>1, <3>2
  <2>. QED BY ZenonT(100), <2>1, <2>2, <2>3
<1>. QED BY Zenon, <1>11, <1>12, <1>13, <1>14, <1>15 DEF RecordInv

-----------------------------------------------------------------------------
(* Crashes and restarts.                                                   *)

\* What a program holds it is not at work on.
LEMMA HeldStage ==
  ASSUME CallInv, NEW n \in Server, NEW i \in Id, phase[n][i] = "held"
  PROVE  stage[n][i] = "held"
<1>1. PhasesFit(n) /\ "held" # "freeing" /\ "held" # "none"
  BY Zenon DEF CallInv
<1>2. ~(id[App(n)] = i /\ pc[App(n)] \in Adding) /\ ~(id[App(n)] = i /\ pc[App(n)] \in Removing \cup Deleting)
  BY ZenonT(100), <1>1 DEF PhasesFit
<1>3. StageIn(pc[App(n)], id[App(n)], i, "held") = "held"
  BY <1>2 DEF StageIn
<1>. QED BY Zenon, <1>3, StageIs

\* A server that is down has no segments.
LEMMA DownStage ==
  ASSUME AskInv, CallInv, NEW n \in Server, n \in down, NEW i \in Id
  PROVE  stage[n][i] = "none"
<1>1. phase[n][i] = "none" /\ pc[App(n)] = "idle"
  <2>1. PhasesFit(n) /\ App(n) = <<n, "app">>
    BY Zenon, Apps DEF CallInv
  <2>2. phase[n][i] = "none"
    BY Zenon, <2>1 DEF PhasesFit
  <2>3. pc[App(n)] = "idle"
    BY Zenon, <2>1 DEF AskInv, DownIdle
  <2>. QED BY <2>2, <2>3
<1>2. \A j : StageIn("idle", j, i, "none") = "none"
  BY DEF StageIn, Adding, Removing, Deleting
<1>. QED BY Zenon, <1>1, <1>2, StageIs

\* A server starts again with an empty list, once nobody is about to read the old one.
LEMMA RestartRecords ==
  ASSUME TypeInv, AskInv, CallInv, RecordInv, NEW n \in Server, Restart(n)
  PROVE  CallInv' /\ RecordInv'
<1>1. /\ n \in down /\ down' = down \ {n}
      /\ UNCHANGED <<segment, local_segments, phase, pc, id, address, result, version, lost, had, asked, partitions,
                     recovered>>
      /\ \A m \in Server : pc[App(m)] = "getProcess" => asked[m] # n
  <2>1. \A m \in Server : App(m) = <<m, "app">>
    BY Zenon, Apps
  <2>. QED BY ZenonT(100), <2>1 DEF Restart, memVars, threadVars, askVars
<1>2. process'[n].list = {} /\ \A m \in Server : m # n => process'[m] = process[m]
  <2>1. DOMAIN process = Server
    BY ZenonT(100) DEF TypeInv, StoreKinds
  <2>2. process' = [process EXCEPT ![n] = [list |-> {}, version |-> process[n].version + 1]]
    BY Zenon DEF Restart
  <2>3. process'[n] = [list |-> {}, version |-> process[n].version + 1] /\ \A m \in Server : m # n => process'[m] = process[m]
    BY ZenonT(100), <2>1, <2>2
  <2>. QED BY <2>3
<1>3. stage' = stage
  BY ZenonT(100), <1>1 DEF stage
<1>4. Others(n)
  BY ZenonT(100), <1>1, <1>2 DEF Others, SameCall, SameData, SameAsk
<1>5. \A m \in Server : reserved'[m] = reserved[m]
  <2>. SUFFICES ASSUME NEW m \in Server PROVE reserved'[m] = reserved[m]
    OBVIOUS
  <2>1. pc[App(m)] = "getProcess" => process'[asked[m]] = process[asked[m]]
    BY ZenonT(100), <1>1, <1>2, Own
  <2>2. pc' = pc /\ result' = result /\ asked' = asked /\ partitions' = partitions
    BY Zenon, <1>1
  <2>3. Reading(m)' = Reading(m)
    BY ZenonT(100), <2>1, <2>2 DEF Reading
  <2>. QED BY ZenonT(100), <2>2, <2>3 DEF reserved
<1>6. \A d \in Server : left'[d] \subseteq left[d] /\ (d \in down' => d # n /\ d \in down /\ left'[d] = left[d])
  <2>. SUFFICES ASSUME NEW d \in Server
                PROVE  left'[d] \subseteq left[d] /\ (d \in down' => d # n /\ d \in down /\ left'[d] = left[d])
    OBVIOUS
  <2>1. recovered' = recovered
    BY Zenon, <1>1
  <2>2. CASE d = n
    <3>1. d \notin down'
      BY Zenon, <1>1, <2>2
    <3>2. left'[d] = {}
      BY ZenonT(100), <3>1 DEF left
    <3>. QED BY ZenonT(100), <3>1, <3>2
  <2>3. CASE d # n
    <3>1. (d \in down' <=> d \in down) /\ process'[d] = process[d]
      BY ZenonT(100), <1>1, <1>2, <2>3
    <3>2. left'[d] = left[d]
      BY ZenonT(100), <2>1, <3>1 DEF left
    <3>. QED BY Zenon, <2>3, <3>1, <3>2
  <2>. QED BY <2>2, <2>3
<1>7. CallInv'
  <2>1. \A m \in Server : m # n => PhasesFit(m)' /\ CallFits(m)' /\ RecoveryFits(m)'
    <3>1. \A m \in Server : m # n => (m \in down' <=> m \in down)
      BY ZenonT(100), <1>1
    <3>2. \A m \in Server : pc[App(m)] = "getProcess" => asked[m] \in down'
      BY ZenonT(100), <1>1 DEF CallInv, RecoveryFits
    <3>3. lost \subseteq lost'
      BY Zenon, <1>1
    <3>. QED BY ZenonT(100), <1>4, <3>1, <3>2, <3>3, OthersFit
  <2>2. PhasesFit(n) /\ CallFits(n) /\ RecoveryFits(n) /\ pc[App(n)] = "idle" /\ n \notin down' /\ pc' = pc
    BY ZenonT(100), <1>1, Apps DEF CallInv, AskInv, DownIdle
  <2>3. PhasesFit(n)'
    BY ZenonT(100), <1>1, <2>2 DEF PhasesFit
  <2>4. CallFits(n)'
    <3>1. "idle" \notin {"setList", "setRemove", "create"}
      OBVIOUS
    <3>. QED BY ZenonT(100), <2>2, <3>1 DEF CallFits
  <2>5. RecoveryFits(n)'
    <3>1. "idle" # "getProcess" /\ "idle" \notin Recovering
      BY DEF Recovering
    <3>2. recovered' = recovered /\ lost' = lost
      BY Zenon, <1>1
    <3>. QED BY ZenonT(100), <2>2, <3>1, <3>2 DEF RecoveryFits
  <2>. QED BY Zenon, <2>1, <2>3, <2>4, <2>5 DEF CallInv
<1>8. ListInv'
  <2>. SUFFICES ASSUME NEW m \in Server, m \notin down'
                PROVE  process'[m].list = {i \in Id : stage[m][i] \in Listed}
    BY Zenon, <1>3 DEF ListInv
  <2>1. CASE m = n
    <3>1. \A i \in Id : stage[n][i] = "none"
      BY Zenon, <1>1, DownStage
    <3>2. "none" \notin Listed
      BY DEF Listed
    <3>. QED BY ZenonT(100), <1>2, <2>1, <3>1, <3>2
  <2>2. CASE m # n
    <3>1. m \notin down /\ process'[m] = process[m]
      BY ZenonT(100), <1>1, <1>2, <2>2
    <3>. QED BY Zenon, <3>1 DEF RecordInv, ListInv
  <2>. QED BY <2>1, <2>2
<1>9. MapInv' /\ PartInv'
  BY ZenonT(100), <1>1, <1>3 DEF RecordInv, MapInv, PartInv
<1>10. NodeInv' /\ OwnInv'
  BY ZenonT(100), <1>1, <1>3 DEF RecordInv, NodeInv, Stored, OwnInv, OwnFits
<1>11. OneUser' /\ OrphanInv'
  BY ZenonT(100), <1>1, <1>3 DEF RecordInv, OneUser, OrphanInv, Stored, Free
<1>12. ReservedInv'
  BY ZenonT(100), <1>1, <1>3, <1>5 DEF RecordInv, ReservedInv, Stored, Free
<1>13. LeftInv'
  BY ZenonT(100), <1>1, <1>3, <1>6 DEF RecordInv, LeftInv, Stored, Free
<1>14. HadInv'
  <2>1. had' = had /\ pc' = pc /\ asked' = asked /\ segment' = segment /\ recovered' = recovered
    BY Zenon, <1>1
  <2>2. HadInv
    BY Zenon DEF RecordInv
  <2>. QED BY ZenonT(100), <1>5, <1>6, <2>1, <2>2 DEF HadInv
<1>. QED BY Zenon, <1>7, <1>8, <1>9, <1>10, <1>11, <1>12, <1>13, <1>14 DEF RecordInv

\* A crash: the segments of n are left in its list, the others go on.
LEMMA CrashRecords ==
  ASSUME TypeInv, TypeInv', AskInv, CallInv, RecordInv, DOMAIN had = Server, NEW n \in Server, Crash(n)
  PROVE  CallInv' /\ RecordInv'
<1>. DEFINE t == App(n)
<1>0. t \in Thread /\ t[1] = n /\ Ids /\ Ids' /\ \A m \in Server : App(m) \in Thread /\ App(m)[1] = m
  BY Zenon, Apps, IdsNow, IdsThen
<1>1. /\ n \notin lost /\ down' = down \cup {n} /\ lost' = lost \cup {n}
      /\ UNCHANGED <<segment, process, asked, recovered>>
  BY ZenonT(100) DEF Crash, zkVars
<1>2. n \notin down /\ \A m \in Server : n \notin recovered[m]
  <2>1. down \subseteq lost
    BY ZenonT(100) DEF TypeInv, CrashKinds
  <2>2. \A m \in Server : recovered[m] \subseteq lost \ {m}
    BY ZenonT(100) DEF CallInv, RecoveryFits
  <2>. QED BY ZenonT(100), <1>1, <2>1, <2>2
<1>3. /\ pc'[t] = "idle" /\ \A m \in Server : m # n => SameCall(m)
  <2>1. /\ pc' = [r \in Thread |-> IF r[1] = n THEN "idle" ELSE pc[r]]
        /\ id' = [r \in Thread |-> IF r[1] = n THEN FirstId ELSE id[r]]
        /\ address' = [r \in Thread |-> IF r[1] = n THEN 0 ELSE address[r]]
        /\ result' = [r \in Thread |-> IF r[1] = n THEN NoResult ELSE result[r]]
        /\ version' = [r \in Thread |-> IF r[1] = n THEN 0 ELSE version[r]]
    BY Zenon DEF Crash
  <2>2. pc'[t] = "idle"
    BY ZenonT(100), <1>0, <2>1
  <2>3. ASSUME NEW m \in Server, m # n PROVE SameCall(m)
    <3>1. App(m) \in Thread /\ App(m)[1] # n
      BY Zenon, <1>0, <2>3
    <3>2. pc'[App(m)] = pc[App(m)] /\ id'[App(m)] = id[App(m)] /\ address'[App(m)] = address[App(m)]
      BY ZenonT(100), <2>1, <3>1
    <3>3. result'[App(m)] = result[App(m)] /\ version'[App(m)] = version[App(m)]
      BY ZenonT(100), <2>1, <3>1
    <3>. QED BY Zenon, <3>2, <3>3 DEF SameCall
  <2>. QED BY Zenon, <2>2, <2>3
<1>4. /\ \A i \in Id : phase'[n][i] = "none" /\ local_segments'[n][i] = Unmapped
      /\ partitions'[n] = {}
      /\ \A m \in Server : m # n =>
           phase'[m] = phase[m] /\ local_segments'[m] = local_segments[m] /\ partitions'[m] = partitions[m]
  <2>1. DOMAIN phase = Server /\ DOMAIN local_segments = Server /\ DOMAIN partitions = Server
    BY ZenonT(100) DEF TypeInv, Kinds, PeerKinds, CrashKinds
  <2>2. /\ phase' = [phase EXCEPT ![n] = [i \in Id |-> "none"]]
        /\ local_segments' = [local_segments EXCEPT ![n] = [i \in Id |-> Unmapped]]
        /\ partitions' = [partitions EXCEPT ![n] = {}]
    BY Zenon DEF Crash
  <2>3. /\ phase'[n] = [i \in Id |-> "none"] /\ local_segments'[n] = [i \in Id |-> Unmapped] /\ partitions'[n] = {}
        /\ \A m \in Server : m # n =>
             phase'[m] = phase[m] /\ local_segments'[m] = local_segments[m] /\ partitions'[m] = partitions[m]
    BY ZenonT(100), <2>1, <2>2
  <2>. QED BY ZenonT(100), <2>3
<1>5. Others(n)
  BY ZenonT(100), <1>1, <1>3, <1>4 DEF Others, SameData, SameAsk
<1>6. (\A i \in Id : stage'[n][i] = "none") /\ (\A m \in Server, i \in Id : m # n => stage'[m][i] = stage[m][i])
  <2>1. \A i \in Id : \A j : StageIn("idle", j, i, "none") = "none"
    BY DEF StageIn, Adding, Removing, Deleting
  <2>2. ASSUME NEW i \in Id PROVE stage'[n][i] = "none"
    <3>1. stage'[n][i] = StageIn(pc'[t], id'[t], i, phase'[n][i])
      BY Zenon, StageIs
    <3>. QED BY Zenon, <1>3, <1>4, <2>1, <3>1
  <2>. QED BY Zenon, <1>5, <2>2, OthersStage
<1>7. \A i \in Id : Free(i) => Free(i)'
  BY ZenonT(100), <1>6 DEF Free
<1>8. reserved'[n] = {} /\ \A m \in Server : m # n => reserved'[m] = reserved[m]
  <2>1. reserved'[n] = {}
    <3>1. "idle" \notin Recovering
      BY DEF Recovering
    <3>2. reserved'[n] = {p.id : p \in partitions'[n]}
      BY Zenon, <1>3, <3>1, OwnReserve
    <3>. QED BY ZenonT(100), <1>4, <3>2
  <2>2. ASSUME NEW m \in Server, m # n PROVE reserved'[m] = reserved[m]
    <3>1. /\ pc'[App(m)] = pc[App(m)] /\ result'[App(m)] = result[App(m)] /\ asked'[m] = asked[m]
          /\ partitions'[m] = partitions[m] /\ process' = process
      BY Zenon, <1>1, <1>5, <2>2 DEF Others, SameCall, SameAsk
    <3>2. Reading(m)' = Reading(m)
      BY ZenonT(100), <3>1 DEF Reading
    <3>. QED BY ZenonT(100), <3>1, <3>2 DEF reserved
  <2>. QED BY Zenon, <2>1, <2>2
<1>9. left'[n] = process[n].list /\ \A d \in Server : d # n => left'[d] = left[d] /\ (d \in down' <=> d \in down)
  <2>1. n \in down' /\ process' = process /\ recovered' = recovered
    BY ZenonT(100), <1>1
  <2>2. \A d \in Server : d # n => (d \in down' <=> d \in down)
    BY ZenonT(100), <1>1
  <2>3. left'[n] = process[n].list
    BY ZenonT(100), <1>2, <2>1 DEF left
  <2>4. ASSUME NEW d \in Server, d # n PROVE left'[d] = left[d]
    <3>1. d \in down' <=> d \in down
      BY Zenon, <2>2, <2>4
    <3>. QED BY ZenonT(100), <2>1, <3>1 DEF left
  <2>. QED BY Zenon, <2>2, <2>3, <2>4
<1>10. process[n].list = {i \in Id : stage[n][i] \in Listed}
  BY Zenon, <1>2 DEF RecordInv, ListInv
<1>11. CallInv'
  <2>1. \A m \in Server : m # n => PhasesFit(m)' /\ CallFits(m)' /\ RecoveryFits(m)'
    <3>1. \A m \in Server : m # n /\ pc[App(m)] = "getProcess" => asked[m] \in down'
      BY ZenonT(100), <1>1 DEF CallInv, RecoveryFits
    <3>2. lost \subseteq lost'
      BY ZenonT(100), <1>1
    <3>. QED BY ZenonT(100), <1>5, <1>9, <3>1, <3>2, OthersFit
  <2>2. /\ pc'[t] \notin Removing \cup Deleting /\ pc'[t] \notin {"getAddress", "setAddress", "create"} \cup Adding
        /\ pc'[t] \notin Recovering /\ pc'[t] \notin {"create", "setList", "setRemove", "getProcess"}
    BY <1>3 DEF Removing, Deleting, Adding, Recovering
  <2>3. PhasesFit(n)'
    <3>1. \A i \in Id : phase'[n][i] \in {"none", "held", "freeing"} /\ phase'[n][i] # "freeing"
      BY <1>4
    <3>. QED BY ZenonT(100), <1>4, <2>2, <3>1 DEF PhasesFit
  <2>4. CallFits(n)'
    BY ZenonT(100), <1>3, <2>2 DEF CallFits
  <2>5. RecoveryFits(n)'
    <3>1. recovered'[n] \subseteq lost' \ {n}
      <4>1. RecoveryFits(n) /\ recovered' = recovered
        BY Zenon, <1>1 DEF CallInv
      <4>. QED BY ZenonT(100), <1>1, <4>1 DEF RecoveryFits
    <3>. QED BY ZenonT(100), <1>4, <2>2, <3>1 DEF RecoveryFits
  <2>. QED BY Zenon, <2>1, <2>3, <2>4, <2>5 DEF CallInv

<1>12. ListInv'
  <2>. SUFFICES ASSUME NEW m \in Server, m \notin down'
                PROVE  process'[m].list = {i \in Id : stage'[m][i] \in Listed}
    BY Zenon DEF ListInv
  <2>1. m # n /\ m \notin down /\ process' = process
    BY ZenonT(100), <1>1
  <2>2. {i \in Id : stage'[m][i] \in Listed} = {i \in Id : stage[m][i] \in Listed}
    BY ZenonT(100), <1>6, <2>1
  <2>. QED BY Zenon, <2>1, <2>2 DEF RecordInv, ListInv
<1>13. MapInv'
  <2>. SUFFICES ASSUME NEW m \in Server, NEW i \in Id
                PROVE  local_segments'[m][i] = IF stage'[m][i] \in Listed THEN segment[i].address ELSE Unmapped
    BY Zenon, <1>1 DEF MapInv
  <2>1. CASE m = n
    <3>1. "none" \notin Listed
      BY DEF Listed
    <3>. QED BY Zenon, <1>4, <1>6, <2>1, <3>1
  <2>2. CASE m # n
    <3>1. local_segments'[m] = local_segments[m] /\ stage'[m][i] = stage[m][i]
      BY Zenon, <1>4, <1>6, <2>2
    <3>. QED BY Zenon, <3>1 DEF RecordInv, MapInv
  <2>. QED BY <2>1, <2>2
<1>14. NodeInv' /\ OneUser'
  <2>1. \A m \in Server, i \in Id : stage'[m][i] # "none" => stage'[m][i] = stage[m][i]
    BY Zenon, <1>6
  <2>2. segment' = segment /\ recovered' = recovered
    BY Zenon, <1>1
  <2>3. NodeInv'
    <3>1. \A i \in Id : Stored(i)' => segment'[i].address # Unmapped
      BY Zenon, <2>2 DEF RecordInv, NodeInv, Stored
    <3>2. ASSUME NEW m \in Server, NEW i \in Id, stage'[m][i] # "none"
          PROVE  /\ Stored(i) /\ segment[i].source \in {m} \cup recovered[m]
                 /\ stage'[m][i] # "deleting" => segment[i].source = m
      <4>1. stage'[m][i] = stage[m][i]
        BY Zenon, <2>1, <3>2
      <4>. QED BY Zenon, <3>2, <4>1 DEF RecordInv, NodeInv
    <3>. QED BY ZenonT(100), <2>2, <3>1, <3>2 DEF NodeInv, Stored
  <2>4. OneUser'
    <3>. SUFFICES ASSUME NEW l \in Server, NEW m \in Server, NEW i \in Id, stage'[l][i] # "none", stage'[m][i] # "none"
                  PROVE  l = m
      BY DEF OneUser
    <3>1. stage'[l][i] = stage[l][i] /\ stage'[m][i] = stage[m][i]
      BY Zenon, <2>1
    <3>. QED BY Zenon, <3>1 DEF RecordInv, OneUser
  <2>. QED BY <2>3, <2>4
<1>15. OwnInv'
  <2>1. OwnFits(n)'
    <3>1. pc'[t] \notin Adding /\ pc'[t] # "delete"
      BY <1>3 DEF Adding
    <3>. QED BY Zenon, <3>1 DEF OwnFits
  <2>2. segment' = segment
    BY Zenon, <1>1
  <2>. QED BY Zenon, <1>5, <2>1, <2>2, OthersOwn
<1>16. OrphanInv'
  <2>. SUFFICES ASSUME NEW i \in Id, Stored(i), Free(i)' PROVE segment[i].source \in lost \cup {n}
    BY ZenonT(100), <1>1 DEF OrphanInv, Stored
  <2>1. CASE stage[n][i] = "none"
    <3>1. Free(i)
      BY ZenonT(100), <1>6, <2>1 DEF Free
    <3>. QED BY ZenonT(100), <3>1 DEF RecordInv, OrphanInv
  <2>2. CASE stage[n][i] # "none"
    <3>1. segment[i].source \in {n} \cup recovered[n]
      BY ZenonT(100), <2>2 DEF RecordInv, NodeInv
    <3>2. recovered[n] \subseteq lost
      BY ZenonT(100) DEF CallInv, RecoveryFits
    <3>. QED BY ZenonT(100), <3>1, <3>2
  <2>. QED BY <2>1, <2>2
<1>17. ReservedInv'
  <2>. SUFFICES ASSUME NEW m \in Server, NEW i \in reserved'[m]
                PROVE  Stored(i) /\ segment[i].source \in recovered[m] /\ Free(i)'
    BY ZenonT(100), <1>1 DEF ReservedInv, Stored
  <2>1. i \in reserved[m] /\ i \in Id
    BY ZenonT(100), <1>0, <1>8 DEF Ids
  <2>. QED BY Zenon, <1>7, <2>1 DEF RecordInv, ReservedInv
<1>18. PartInv'
  <2>1. \A m \in Server : partitions'[m] \subseteq partitions[m]
    BY ZenonT(100), <1>4
  <2>2. segment' = segment
    BY Zenon, <1>1
  <2>. QED BY ZenonT(100), <2>1, <2>2 DEF RecordInv, PartInv
<1>19. LeftInv'
  <2>. SUFFICES ASSUME NEW d \in Server, NEW i \in left'[d]
                PROVE  Stored(i) /\ segment[i].source = d /\ Free(i)'
    BY ZenonT(100), <1>1 DEF LeftInv, Stored
  <2>1. CASE d # n
    <3>1. i \in left[d] /\ i \in Id
      BY ZenonT(100), <1>0, <1>9, <2>1 DEF Ids
    <3>. QED BY Zenon, <1>7, <3>1 DEF RecordInv, LeftInv
  <2>2. CASE d = n
    <3>1. i \in Id /\ stage[n][i] \in Listed
      BY ZenonT(100), <1>9, <1>10, <2>2
    <3>2. stage[n][i] # "none" /\ stage[n][i] # "deleting"
      BY <3>1 DEF Listed
    <3>3. Stored(i) /\ segment[i].source = n
      BY ZenonT(100), <3>1, <3>2 DEF RecordInv, NodeInv
    <3>4. \A m \in Server : m # n => stage[m][i] = "none"
      BY ZenonT(100), <3>1, <3>2 DEF RecordInv, OneUser
    <3>5. Free(i)'
      BY ZenonT(100), <1>6, <3>1, <3>4 DEF Free
    <3>. QED BY Zenon, <2>2, <3>3, <3>5
  <2>. QED BY <2>1, <2>2
<1>20. /\ \A d \in Server : d # n => had'[d] = had[d]
       /\ \A h \in had'[n] : \E i \in Id : phase[n][i] = "held" /\ h = <<i, local_segments[n][i]>>
  <2>1. had' = [had EXCEPT ![n] = {<<i, local_segments[n][i]>> : i \in {j \in Id : phase[n][j] = "held"}}]
    BY Zenon DEF Crash
  <2>. QED BY ZenonT(100), <2>1
<1>21. HadInv'
  <2>1. ASSUME NEW d \in Server, NEW h \in had'[d], d # n
        PROVE  /\ h \in Id \X Int
               /\ d \in down' /\ (\A m \in Server : d \notin recovered[m]) =>
                    h[1] \in left'[d] /\ segment[h[1]].address = h[2]
               /\ \A m \in Server : pc'[App(m)] \in Recovering /\ asked[m] = d =>
                    h[1] \in reserved'[m] /\ segment[h[1]].address = h[2]
    <3>1. h \in had[d] /\ (d \in down' <=> d \in down) /\ left'[d] = left[d]
      BY Zenon, <1>9, <1>20, <2>1
    <3>2. /\ h \in Id \X Int
          /\ d \in down /\ (\A m \in Server : d \notin recovered[m]) => h[1] \in left[d] /\ segment[h[1]].address = h[2]
          /\ \A m \in Server : pc[App(m)] \in Recovering /\ asked[m] = d =>
               h[1] \in reserved[m] /\ segment[h[1]].address = h[2]
      BY ZenonT(100), <3>1 DEF RecordInv, HadInv
    <3>3. ASSUME NEW m \in Server, pc'[App(m)] \in Recovering, asked[m] = d
          PROVE  h[1] \in reserved'[m] /\ segment[h[1]].address = h[2]
      <4>1. m # n
        BY <1>3, <3>3 DEF Recovering
      <4>2. pc'[App(m)] = pc[App(m)] /\ reserved'[m] = reserved[m]
        BY Zenon, <1>3, <1>8, <4>1 DEF SameCall
      <4>. QED BY Zenon, <3>2, <3>3, <4>2
    <3>. QED BY Zenon, <3>1, <3>2, <3>3
  <2>2. ASSUME NEW h \in had'[n]
        PROVE  h \in Id \X Int /\ h[1] \in left'[n] /\ segment[h[1]].address = h[2]
    <3>1. PICK i \in Id : phase[n][i] = "held" /\ h = <<i, local_segments[n][i]>>
      BY Zenon, <1>20
    <3>2. stage[n][i] = "held" /\ "held" \in Listed
      <4>1. "held" \in Listed
        BY DEF Listed
      <4>. QED BY Zenon, <3>1, <4>1, HeldStage
    <3>3. i \in left'[n] /\ local_segments[n][i] = segment[i].address
      <4>1. i \in {j \in Id : stage[n][j] \in Listed}
        BY Zenon, <3>2
      <4>2. local_segments[n][i] = IF stage[n][i] \in Listed THEN segment[i].address ELSE Unmapped
        BY Zenon DEF RecordInv, MapInv
      <4>. QED BY Zenon, <1>9, <1>10, <3>2, <4>1, <4>2
    <3>4. local_segments[n][i] \in Int
      BY ZenonT(100) DEF TypeInv, Kinds
    <3>. QED BY <3>1, <3>3, <3>4
  <2>3. ASSUME NEW m \in Server, pc'[App(m)] \in Recovering PROVE asked[m] # n
    <3>1. m # n
      BY <1>3, <2>3 DEF Recovering
    <3>2. pc[App(m)] \in Recovering
      BY Zenon, <1>3, <2>3, <3>1 DEF SameCall
    <3>3. asked[m] \in recovered[m]
      BY Zenon, <3>2 DEF CallInv, RecoveryFits
    <3>. QED BY Zenon, <1>2, <3>3
  <2>4. segment' = segment /\ recovered' = recovered /\ asked' = asked
    BY Zenon, <1>1
  <2>. SUFFICES ASSUME NEW d \in Server, NEW h \in had'[d]
                PROVE  /\ h \in Id \X Int
                       /\ d \in down' /\ (\A m \in Server : d \notin recovered[m]) =>
                            h[1] \in left'[d] /\ segment[h[1]].address = h[2]
                       /\ \A m \in Server : pc'[App(m)] \in Recovering /\ asked[m] = d =>
                            h[1] \in reserved'[m] /\ segment[h[1]].address = h[2]
    BY ZenonT(100), <2>4 DEF HadInv
  <2>5. CASE d = n
    BY Zenon, <2>2, <2>3, <2>5
  <2>6. CASE d # n
    BY Zenon, <2>1, <2>6
  <2>. QED BY <2>5, <2>6
<1>. QED BY Zenon, <1>11, <1>12, <1>13, <1>14, <1>15, <1>16, <1>17, <1>18, <1>19, <1>21 DEF RecordInv

=============================================================================
