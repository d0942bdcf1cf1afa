------------------------- MODULE MetadataInvariant --------------------------
(***************************************************************************)
(* The inductive invariants that MetadataProofs and MetadataRecords prove, *)
(* and the notions they are stated with.                                   *)
(*                                                                         *)
(* An address is on its way from the allocator node to local_segments in   *)
(* the locals of a thread, and from server to server in a PREPARE: Claim   *)
(* collects these places, and AddressInv says that they never name one     *)
(* address for two segments.  TypeInv gives the kinds, AskInv follows the  *)
(* queries for the segments of a live server, and RecordInv follows a      *)
(* segment through the calls that record it and remove its record.         *)
(***************************************************************************)
EXTENDS Metadata

-----------------------------------------------------------------------------
(* Addresses.                                                              *)

\* A thread in one of these has an address for its id.
Placing == {"create", "getList", "setList"}

\* A PREPARE in q names segment i at address a.
In(q, i, a) ==
  \E k \in 1 .. Len(q) : q[k].type = "PREPARE" /\ q[k].id = i /\ q[k].address = a

\* Somebody has address a for segment i, or is about to map it there.
Claim(i, a) ==
  \/ \E n \in Server : local_segments[n][i] = a
  \/ \E t \in Thread : pc[t] \in Placing /\ id[t] = i /\ address[t] = a
  \/ \E s, d \in Server : In(chan[s][d], i, a)

\* The kinds of the variables that the argument is about.
ThreadKinds ==
  /\ DOMAIN pc = Thread
  /\ id \in [Thread -> Id]
  /\ address \in [Thread -> Int]
  /\ DOMAIN version = Thread
  /\ DOMAIN result = Thread

Kinds ==
  /\ allocator \in [data : Nat, version : Nat]
  /\ local_segments \in [Server -> [Id -> Int]]
  /\ chan \in [Server -> [Server -> Seq(Message)]]
  /\ ThreadKinds

\* Every address in use was given out by the allocator node.
GivenOut ==
  \A i \in Id, a \in Int : Claim(i, a) /\ a # Unmapped => 0 <= a /\ a < allocator.data

\* No address is used for two segments.
OneId ==
  \A i, j \in Id, a \in Int : Claim(i, a) /\ Claim(j, a) /\ a # Unmapped => i = j

\* A thread that is about to raise the allocator node has read its present data, or
\* has an old version of it.
ReadIsOld ==
  \A t \in Thread : pc[t] = "setAddress" =>
    /\ version[t] \in Nat /\ version[t] <= allocator.version
    /\ version[t] = allocator.version => result[t] = allocator.data

AddressInv == Kinds /\ GivenOut /\ OneId /\ ReadIsOld

-----------------------------------------------------------------------------
(* Types.  What a thread has read has the kind that the request it is at needs, *)
(* a list of ids or the fields of a node; the rest is the type invariant.    *)

Label ==
  {"idle", "getAddress", "setAddress", "create", "getList", "setList", "getRemove", "setRemove",
   "getDelete", "delete", "getDestination", "setDestination", "getClean", "setClean", "getProcess",
   "getPartition", "waitList"}

HasList   == {"setList", "setRemove", "getPartition"}
HasFields == {"setDestination", "setClean"}

StoreKinds ==
  /\ segment \in [Id -> Segment \cup {NoNode}]
  /\ process \in [Server -> [list : SUBSET Id, version : Nat]]

PeerKinds ==
  /\ pair \in [Server -> [Id -> Server \cup {Unset}]]
  /\ phase \in [Server -> [Id -> {"none", "held", "preparing", "accepted", "moved", "arrived",
                                 "closed", "freeing"}]]

Result(t) ==
  /\ pc[t] \in HasList => result[t] \in SUBSET Id
  /\ pc[t] \in HasFields => result[t] \in Segment

CallKinds ==
  /\ pc \in [Thread -> Label]
  /\ version \in [Thread -> Nat \cup Garbage]
  /\ \A t \in Thread : Result(t)

AskKinds ==
  /\ asked \in [Server -> Server \cup {Unset}]
  /\ \A n \in Server : pc[<<n, "app">>] = "getProcess" => asked[n] \in Server

CrashKinds ==
  /\ halted \subseteq Server
  /\ down \subseteq lost /\ lost \subseteq Server
  /\ partitions \in [Server -> SUBSET [id : Id, address : Int, source : Server \cup {Unset}]]
  /\ recovered \in [Server -> SUBSET Server]

TypeInv == Kinds /\ StoreKinds /\ PeerKinds /\ CallKinds /\ AskKinds /\ CrashKinds

-----------------------------------------------------------------------------
(* The query for the live segments of a server.  A program that waits has one *)
(* request or one answer under way, and who does not wait has none: the      *)
(* semaphore is posted once for every wait.                                  *)

QueryType == {"GETPARTITIONS", "SENTPARTITIONS"}

Has(q, type)  == \E k \in 1 .. Len(q) : q[k].type = type
Once(q, type) == \A k, l \in 1 .. Len(q) : q[k].type = type /\ q[l].type = type => k = l

Waits(n, d) == pc[<<n, "app">>] = "waitList" /\ asked[n] = d

\* A request of n to d, or the answer to it, is under way.
Asks(n, d) == Has(chan[n][d], "GETPARTITIONS") \/ Has(chan[d][n], "SENTPARTITIONS")

AsksWaits == \A n, d \in Server : Asks(n, d) => Waits(n, d)
AsksOnce  ==
  \A n, d \in Server :
    /\ ~(Has(chan[n][d], "GETPARTITIONS") /\ Has(chan[d][n], "SENTPARTITIONS"))
    /\ \A type \in QueryType : Once(chan[n][d], type)
Served ==
  \A n \in Server : pc[<<n, "app">>] = "waitList" =>
    /\ asked[n] \in Server \ {n}
    /\ n \in halted \/ asked[n] \in lost \cup halted \/ Asks(n, asked[n])
DownIdle == \A n \in down : pc[<<n, "app">>] = "idle"

AskInv == AsksWaits /\ AsksOnce /\ Served /\ DownIdle

-----------------------------------------------------------------------------
(* The records.  The properties speak of the segments a program holds.  The *)
(* invariant follows a segment through the calls that record it and remove   *)
(* its record (stage), and from the list of a server that crashed (left) to  *)
(* the one that recovers it (reserved) and deallocates it: at any time one   *)
(* of them has it, and the others find its node untouched.                   *)

App(n) == <<n, "app">>

Adding   == {"getList", "setList"}
Removing == {"getRemove", "setRemove"}
Deleting == {"getDelete", "delete"}
Recovering == {"getProcess", "getPartition"}

\* How far the program of n is with segment i.
StageIn(label, j, i, ph) ==
  IF j = i /\ label \in Adding THEN "adding"
  ELSE IF j = i /\ label \in Removing THEN "removing"
  ELSE IF j = i /\ label \in Deleting THEN "deleting"
  ELSE IF ph = "held" THEN "held" ELSE "none"
stage == [n \in Server |-> [i \in Id |-> StageIn(pc[App(n)], id[App(n)], i, phase[n][i])]]

Listed == {"held", "removing"}
Free(i) == \A n \in Server : stage[n][i] = "none"
Stored(i) == segment[i] # NoNode

\* The segments that n has read to be of a server that crashed, or is about to read.
Reading(n) ==
  IF pc[App(n)] = "getPartition" THEN result[App(n)]
  ELSE IF pc[App(n)] = "getProcess" THEN process[asked[n]].list ELSE {}
reserved == [n \in Server |-> {p.id : p \in partitions[n]} \cup Reading(n)]

\* The list of a server that is down and that nobody recovers.
left == [d \in Server |-> IF d \in down /\ \A n \in Server : d \notin recovered[n] THEN process[d].list ELSE {}]

\* No two servers recover the segments of the same server.
OneRecoverer == \A m, n \in Server : recovered[m] \cap recovered[n] # {} => m = n

\* What the program of n does fits its phases, and it has read what it is about to write back.
PhasesFit(n) ==
  /\ \A i \in Id : phase[n][i] \in {"none", "held", "freeing"}
  /\ \A i \in Id : phase[n][i] = "freeing" <=> pc[App(n)] \in Removing \cup Deleting /\ id[App(n)] = i
  /\ pc[App(n)] \in {"getAddress", "setAddress", "create"} \cup Adding => phase[n][id[App(n)]] = "none"
  /\ n \in down => \A i \in Id : phase[n][i] = "none"
CallFits(n) ==
  /\ pc[App(n)] \in {"idle", "waitList", "getAddress", "setAddress", "create"} \cup Adding \cup Removing \cup
                    Deleting \cup Recovering
  /\ pc[App(n)] = "create" => address[App(n)] # Unmapped
  /\ pc[App(n)] \in {"setList", "setRemove"} =>
       result[App(n)] = process[n].list /\ version[App(n)] = process[n].version
RecoveryFits(n) ==
  /\ n \in down => partitions[n] = {}
  /\ pc[App(n)] = "getProcess" => asked[n] \in down
  /\ pc[App(n)] \in Recovering => asked[n] \in recovered[n]
  /\ recovered[n] \subseteq lost \ {n}
CallInv == \A n \in Server : PhasesFit(n) /\ CallFits(n) /\ RecoveryFits(n)

HandOverType == {"PREPARE", "ACCEPT", "TRANSFER", "DONE"}

\* The pollers have nothing to do but queries.
QuietInv ==
  /\ \A n \in Server : pc[<<n, "poller">>] = "idle"
  /\ \A s, d \in Server, type \in HandOverType : ~Has(chan[s][d], type)

\* The list of a server that is up names what its program has recorded and not yet removed; these
\* are mapped, at the address of their nodes.
ListInv == \A n \in Server : n \notin down => process[n].list = {i \in Id : stage[n][i] \in Listed}
MapInv ==
  \A n \in Server, i \in Id :
    local_segments[n][i] = IF stage[n][i] \in Listed THEN segment[i].address ELSE Unmapped
\* What a program is at work on has a node, which says that it is the program's own or one that it
\* recovers; nobody else is at work on it.
NodeInv ==
  /\ \A i \in Id : Stored(i) => segment[i].address # Unmapped
  /\ \A n \in Server, i \in Id :
       stage[n][i] # "none" => /\ Stored(i)
                               /\ segment[i].source \in {n} \cup recovered[n]
                               /\ stage[n][i] # "deleting" => segment[i].source = n
OwnFits(n) ==
  /\ pc[App(n)] \in Adding => segment[id[App(n)]].address = address[App(n)]
  /\ pc[App(n)] = "delete" => segment[id[App(n)]].version = version[App(n)]
OwnInv == \A n \in Server : OwnFits(n)
OneUser == \A m, n \in Server, i \in Id : stage[m][i] # "none" /\ stage[n][i] # "none" => m = n
\* A node that no program is at work on was left by a crash.
OrphanInv == \A i \in Id : Stored(i) /\ Free(i) => segment[i].source \in lost

\* What a program has read of a crashed server, or will read, is as the crash left it, and
\* nobody is at work on it.
ReservedInv ==
  \A n \in Server : \A i \in reserved[n] : Stored(i) /\ segment[i].source \in recovered[n] /\ Free(i)
PartInv ==
  \A n \in Server : \A p \in partitions[n] :
    p.address = segment[p.id].address /\ p.source = segment[p.id].source
LeftInv ==
  \A d \in Server : \A i \in left[d] : Stored(i) /\ segment[i].source = d /\ Free(i)
\* What a program held when its server crashed stays in its list until somebody reads it.
HadInv ==
  \A d \in Server : \A h \in had[d] :
    /\ h \in Id \X Int
    /\ d \in down /\ (\A n \in Server : d \notin recovered[n]) => h[1] \in left[d] /\ segment[h[1]].address = h[2]
    /\ \A n \in Server : pc[App(n)] \in Recovering /\ asked[n] = d =>
         h[1] \in reserved[n] /\ segment[h[1]].address = h[2]

RecordInv == /\ ListInv /\ MapInv /\ NodeInv /\ OwnInv /\ OneUser /\ OrphanInv
             /\ ReservedInv /\ PartInv /\ LeftInv /\ HadInv

\* No server is ended by an exception (the address that deallocate converts is always there).
NoException == halted = {}

MetadataInv ==
  AskInv /\ CallInv /\ QuietInv /\ RecordInv /\ DOMAIN had = Server /\ NoException

=============================================================================
