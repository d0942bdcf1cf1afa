---------------------------- MODULE PagingProofs ----------------------------
(***************************************************************************)
(* The count of local pages, and the theorems about demand paging.         *)
(***************************************************************************)
EXTENDS PagingInvariant, FiniteSetTheorems

USE SMTT(100)

-----------------------------------------------------------------------------
(* The count of local pages.                                                 *)

Counters == {t \in Actor : pc[t] = "count"}
LocalPages == {p \in PageId : ps[p] = "Local"}

\* A step after which the same pages are Local and the same actors about to count.
LEMMA CountQuiet ==
  ASSUME CountExact, local_pages' = local_pages,
         \A u \in Actor : pc'[u] = "count" <=> pc[u] = "count",
         \A p \in PageId : ps'[p] = "Local" <=> ps[p] = "Local"
  PROVE  CountExact'
<1>1. Counters' = Counters /\ LocalPages' = LocalPages
  BY DEF Counters, LocalPages
<1>. QED BY Zenon, <1>1 DEF CountExact, Counters, LocalPages

LEMMA CountMove ==
  ASSUME TypeInv, CountExact, UNCHANGED <<local_pages, ps>>, NEW t \in Actor, NEW l,
         pc' = [pc EXCEPT ![t] = l], pc[t] # "count", l # "count"
  PROVE  CountExact'
<1>1. pc'[t] = l /\ \A u \in Actor : u # t => pc'[u] = pc[u]
  BY ZenonT(100), MovePc
<1>2. \A u \in Actor : pc'[u] = "count" <=> pc[u] = "count"
  BY <1>1
<1>. QED BY ZenonT(100), <1>2, CountQuiet

LEMMA CountStay ==
  ASSUME CountExact, UNCHANGED <<local_pages, ps, pc>>
  PROVE  CountExact'
BY ZenonT(100), CountQuiet

LEMMA ActorsFinite == IsFiniteSet(Counters) /\ IsFiniteSet(LocalPages) /\ IsFiniteSet(PageId)
                      /\ Cardinality(PageId) = num_pages
<1>1. IsFiniteSet(Actor)
  BY ConstantsAssumption, FS_AddElement DEF Actor
<1>2. IsFiniteSet(PageId) /\ Cardinality(PageId) = num_pages
  <2>1. 0 \in Int /\ num_pages - 1 \in Int /\ num_pages \in Nat
    BY PageFacts
  <2>2. /\ IsFiniteSet(0 .. num_pages - 1)
        /\ Cardinality(0 .. num_pages - 1) = IF 0 > num_pages - 1 THEN 0 ELSE num_pages - 1 - 0 + 1
    BY Zenon, <2>1, FS_Interval
  <2>. HIDE DEF num_pages
  <2>. QED BY <2>1, <2>2 DEF PageId
<1>. QED BY <1>1, <1>2, FS_Subset DEF Counters, LocalPages

\* Every step preserves the count.
LEMMA CountExactStep == ASSUME TypeInv, OwnInv, CountExact, [Next]_vars PROVE CountExact'
\* The steps of a thread that are not about the count.
<1>1. ASSUME NEW t \in Thread, BeginPull(t) \/ Lookup(t) \/ Limit(t) \/ Read(t) PROVE CountExact'
  <2>. USE <1>1
  <2>1. UNCHANGED <<local_pages, ps>> /\ t \in Actor
    BY ZenonT(100), ActorFacts DEF BeginPull, Lookup, Limit, Read, pageVars
  <2>2. pc[t] # "count"
    <3>1. pc[t] = "idle" \/ pc[t] = "lookup" \/ pc[t] = "limit" \/ pc[t] = "post"
      BY ZenonT(100) DEF BeginPull, Lookup, Limit, Read, At
    <3>. QED BY <3>1
  <2>3. pc' = pc \/ \E l \in {"lookup", "limit", "claim", "send", "check", "close", "drain", "done", "wait", "protect"} :
                      pc' = [pc EXCEPT ![t] = l]
    <3>1. CASE BeginPull(t) \/ Limit(t)
      BY ZenonT(100), <3>1 DEF BeginPull, Limit, Goto
    <3>2. CASE Lookup(t)
      BY ZenonT(100), <3>2, LookupOutcome
    <3>3. CASE Read(t)
      BY ZenonT(100), <3>3, ReadOutcome
    <3>. QED BY <3>1, <3>2, <3>3
  <2>4. CASE pc' = pc
    BY ZenonT(100), <2>1, <2>4, CountStay
  <2>5. ASSUME NEW l \in {"lookup", "limit", "claim", "send", "check", "close", "drain", "done", "wait", "protect"},
               pc' = [pc EXCEPT ![t] = l]
        PROVE  CountExact'
    <3>1. l # "count"
      BY <2>5
    <3>. QED BY ZenonT(100), <2>1, <2>2, <2>5, <3>1, CountMove
  <2>. QED BY ZenonT(100), <2>3, <2>4, <2>5
<1>2. ASSUME NEW t \in Thread, Claim(t) PROVE CountExact'
  <2>. USE <1>2
  <2>1. t \in Actor /\ pc[t] = "claim" /\ AtPage(t)
    BY ActorFacts DEF Claim, At, AtPage, PageLabel
  <2>2. page[t] \in PageId /\ local_pages' = local_pages
    BY ZenonT(100), <2>1, TypeAt DEF Claim
  <2>3. PICK l \in {"post", "idle", "lookup"} : pc' = [pc EXCEPT ![t] = l]
    BY ZenonT(100) DEF Claim, Goto
  <2>4. pc'[t] = l /\ \A u \in Actor : u # t => pc'[u] = pc[u]
    BY ZenonT(100), <2>1, <2>3, MovePc
  <2>5. \A u \in Actor : pc'[u] = "count" <=> pc[u] = "count"
    BY <2>1, <2>3, <2>4
  <2>6. ps' = ps \/ (ps[page[t]] = "Remote" /\ ps' = [ps EXCEPT ![page[t]] = "InFlight"])
    BY ZenonT(100) DEF Claim
  <2>7. \A p \in PageId : ps'[p] = "Local" <=> ps[p] = "Local"
    <3>1. CASE ps' = ps
      BY Zenon, <3>1
    <3>2. CASE ps[page[t]] = "Remote" /\ ps' = [ps EXCEPT ![page[t]] = "InFlight"]
      <4>1. ps'[page[t]] = "InFlight" /\ \A p \in PageId : p # page[t] => ps'[p] = ps[p]
        BY ZenonT(100), <2>2, <3>2, StorePoint
      <4>. QED BY <3>2, <4>1
    <3>. QED BY <2>6, <3>1, <3>2
  <2>. QED BY ZenonT(100), <2>2, <2>5, <2>7, CountQuiet
<1>3. ASSUME NEW t \in Actor, Protect(t) PROVE CountExact'
  <2>. USE <1>3
  <2>1. UNCHANGED <<local_pages, ps>> /\ pc[t] = "protect"
    BY ZenonT(100) DEF Protect, At
  <2>2. PICK l \in {"idle", "local"} : pc' = [pc EXCEPT ![t] = l]
    BY ZenonT(100) DEF Protect, Goto
  <2>3. pc[t] # "count" /\ l # "count"
    BY <2>1, <2>2
  <2>. QED BY ZenonT(100), <2>1, <2>2, <2>3, CountMove
\* The store of Local adds a page and an actor that is about to count it.
<1>4. ASSUME NEW t \in Actor, SetPageState(t) PROVE CountExact'
  <2>. USE <1>4
  <2>1. /\ pc[t] = "local" /\ page[t] \in PageId /\ local_pages' = local_pages
        /\ ps' = [ps EXCEPT ![page[t]] = "Local"] /\ pc' = [pc EXCEPT ![t] = "count"]
    <3>1. pc[t] = "local" /\ AtPage(t)
      BY DEF SetPageState, At, AtPage, PageLabel
    <3>. QED BY ZenonT(100), <3>1, TypeAt DEF SetPageState, Goto
  <2>2. /\ pc'[t] = "count" /\ \A u \in Actor : u # t => pc'[u] = pc[u]
        /\ ps'[page[t]] = "Local" /\ \A p \in PageId : p # page[t] => ps'[p] = ps[p]
    BY ZenonT(100), <2>1, MovePc, StorePoint
  <2>3. ps[page[t]] = "InFlight"
    <3>1. CASE t \in Thread
      <4>1. Owns(t, page[t])
        BY <2>1 DEF Owns
      <4>. QED BY ZenonT(100), <2>1, <3>1, <4>1 DEF OwnInv, Claimed
    <3>2. CASE t = CQ
      <4>1. pc[CQ] # "idle" /\ ~Counting(1)
        BY <2>1, <3>2 DEF Counting
      <4>2. wr # <<>> /\ Head(wr).page = page[t]
        BY ZenonT(100), <3>2, <4>1 DEF TypeInv, OwnInv, OldestRead
      <4>. QED BY ZenonT(100), <4>1, <4>2, HeadRead
    <3>. QED BY <3>1, <3>2 DEF Actor
  <2>4. Counters' = Counters \cup {t} /\ t \notin Counters
    BY <2>1, <2>2 DEF Counters
  <2>5. LocalPages' = LocalPages \cup {page[t]} /\ page[t] \notin LocalPages
    BY <2>1, <2>2, <2>3 DEF LocalPages
  <2>6. /\ Cardinality(Counters') = Cardinality(Counters) + 1
        /\ Cardinality(LocalPages') = Cardinality(LocalPages) + 1
        /\ Cardinality(Counters) \in Nat /\ Cardinality(LocalPages) \in Nat /\ local_pages \in Nat
    <3>1. local_pages \in Nat
      BY Zenon, TypeSplit DEF TypeInv, TypeRest
    <3>2. Cardinality(Counters') = Cardinality(Counters) + 1
      BY ZenonT(100), <2>4, ActorsFinite, FS_AddElement
    <3>3. Cardinality(LocalPages') = Cardinality(LocalPages) + 1
      BY ZenonT(100), <2>5, ActorsFinite, FS_AddElement
    <3>4. Cardinality(Counters) \in Nat /\ Cardinality(LocalPages) \in Nat
      BY ZenonT(100), ActorsFinite, FS_CardinalityType
    <3>. QED BY <3>1, <3>2, <3>3, <3>4
  <2>7. local_pages + Cardinality(Counters) = Cardinality(LocalPages)
    BY Zenon DEF CountExact, Counters, LocalPages
  <2>8. local_pages' + Cardinality(Counters') = Cardinality(LocalPages')
    BY <2>1, <2>6, <2>7
  <2>. QED BY Zenon, <2>8 DEF CountExact, Counters, LocalPages
\* The increment.
<1>5. ASSUME NEW t \in Actor, CountPage(t) PROVE CountExact'
  <2>. USE <1>5
  <2>1. pc[t] = "count" /\ local_pages' = local_pages + 1 /\ ps' = ps
    BY ZenonT(100), CountOutcome DEF CountPage
  <2>2. PICK l \in {"protect", "idle", "lookup"} : pc' = [pc EXCEPT ![t] = l]
    BY ZenonT(100), CountOutcome
  <2>3. pc'[t] = l /\ \A u \in Actor : u # t => pc'[u] = pc[u]
    BY ZenonT(100), <2>2, MovePc
  <2>4. Counters' = Counters \ {t} /\ t \in Counters
    BY <2>1, <2>2, <2>3 DEF Counters
  <2>5. LocalPages' = LocalPages
    BY <2>1 DEF LocalPages
  <2>6. /\ Cardinality(Counters') = Cardinality(Counters) - 1 /\ local_pages \in Nat
        /\ Cardinality(Counters) \in Nat /\ Cardinality(LocalPages) \in Nat
    <3>1. local_pages \in Nat
      BY Zenon, TypeSplit DEF TypeInv, TypeRest
    <3>2. Cardinality(Counters') = Cardinality(Counters) - 1
      BY ZenonT(100), <2>4, ActorsFinite, FS_RemoveElement
    <3>3. Cardinality(Counters) \in Nat /\ Cardinality(LocalPages) \in Nat
      BY ZenonT(100), ActorsFinite, FS_CardinalityType
    <3>. QED BY <3>1, <3>2, <3>3
  <2>7. local_pages + Cardinality(Counters) = Cardinality(LocalPages)
    BY Zenon DEF CountExact, Counters, LocalPages
  <2>8. local_pages' + Cardinality(Counters') = Cardinality(LocalPages')
    BY <2>1, <2>5, <2>6, <2>7
  <2>. QED BY Zenon, <2>8 DEF CountExact, Counters, LocalPages
<1>6. ASSUME NEW t \in Thread, \/ CheckAllPages(t) \/ CloseOpens(t) \/ SendClose(t) \/ CloseDeregisters(t) \/ Drain(t)
      PROVE  CountExact'
  <2>. USE <1>6
  <2>1. UNCHANGED <<local_pages, ps>> /\ t \in Actor
    BY ZenonT(100), ActorFacts
       DEF CheckAllPages, CloseOpens, SendClose, CloseDeregisters, Drain, pageVars
  <2>2. pc[t] # "count"
    <3>1. \/ pc[t] = "check" \/ pc[t] = "close" \/ pc[t] = "send" \/ pc[t] = "deregister"
          \/ pc[t] = "drain"
      BY ZenonT(100) DEF CheckAllPages, CloseOpens, SendClose, CloseDeregisters, Drain, At
    <3>. QED BY <3>1
  <2>3. PICK l \in {"idle", "close", "lookup", "send", "deregister", "done"} : pc' = [pc EXCEPT ![t] = l]
    BY ZenonT(100) DEF CheckAllPages, CloseOpens, SendClose, CloseDeregisters, Drain, Goto
  <2>4. l # "count"
    BY <2>3
  <2>. QED BY ZenonT(100), <2>1, <2>2, <2>3, <2>4, CountMove
<1>7. ASSUME OnCompletion PROVE CountExact'
  <2>. USE <1>7
  <2>1. UNCHANGED <<local_pages, ps>> /\ CQ \in Actor /\ Head(wr).actor \in Actor
    BY ZenonT(100), CompletionOutcome, HeadRead, ActorFacts DEF OnCompletion
  <2>2. pc' = pc \/ \E a \in Actor, l \in {"local", "protect"} :
                      pc' = [pc EXCEPT ![a] = l] /\ (pc[a] = "wait" \/ pc[a] = "idle")
    BY ZenonT(100), <2>1, CompletionOutcome DEF AfterPull
  <2>3. CASE pc' = pc
    BY ZenonT(100), <2>1, <2>3, CountStay
  <2>4. ASSUME NEW a \in Actor, NEW l \in {"local", "protect"}, pc' = [pc EXCEPT ![a] = l],
               pc[a] = "wait" \/ pc[a] = "idle"
        PROVE  CountExact'
    <3>1. pc[a] # "count" /\ l # "count"
      BY <2>4
    <3>. QED BY ZenonT(100), <2>1, <2>4, <3>1, CountMove
  <2>. QED BY ZenonT(100), <2>2, <2>3, <2>4
<1>8. ASSUME NEW t \in Thread, NEW p \in PageId, Fault(t, p) PROVE CountExact'
  <2>. USE <1>8
  <2>1. /\ UNCHANGED <<local_pages, ps>> /\ t \in Actor /\ pc[t] = "idle"
        /\ pc' = [pc EXCEPT ![t] = "claim"]
    BY ZenonT(100), ActorFacts DEF Fault, At, Goto, pageVars
  <2>2. pc[t] # "count" /\ "claim" # "count"
    BY <2>1
  <2>. QED BY ZenonT(100), <2>1, <2>2, CountMove
<1>9. CASE UNCHANGED vars
  BY ZenonT(100), <1>9, CountStay DEF vars, pageVars, threadVars
<1>10. ASSUME NEW t \in Thread, NEW p \in PageId, Write(t, p) PROVE CountExact'
  BY ZenonT(100), <1>10, CountStay DEF Write, threadVars
<1>11. ASSUME OnTransfer \/ OnClose PROVE CountExact'
  BY ZenonT(100), <1>11, CountStay DEF OnTransfer, OnClose, pageVars, threadVars
<1>12. Thread \subseteq Actor /\ CQ \in Actor
  BY Zenon, ActorFacts
<1>13. ASSUME NEW t \in Thread, Step(t) PROVE CountExact'
  BY ZenonT(100), <1>1, <1>2, <1>3, <1>4, <1>5, <1>6, <1>12, <1>13 DEF Step
<1>14. ASSUME Completion PROVE CountExact'
  BY ZenonT(100), <1>3, <1>4, <1>5, <1>7, <1>12, <1>14 DEF Completion
<1>. QED BY ZenonT(100), <1>8, <1>9, <1>10, <1>11, <1>13, <1>14 DEF Next

LEMMA CountInvInit == Init => CountInv
<1>. SUFFICES ASSUME Init PROVE CountInv
  OBVIOUS
<1>1. \A t \in Actor : pc[t] = "idle"
  BY ZenonT(100) DEF Init
<1>2. local_pages = 0 /\ \A p \in PageId : ps[p] = "Remote"
  BY ZenonT(100) DEF Init
<1>3. Counters = {} /\ LocalPages = {}
  BY <1>1, <1>2 DEF Counters, LocalPages
<1>4. Cardinality({}) = 0
  BY Zenon, FS_EmptySet
<1>5. local_pages + Cardinality(Counters) = Cardinality(LocalPages)
  BY <1>2, <1>3, <1>4
<1>6. CountExact
  BY Zenon, <1>5 DEF CountExact, Counters, LocalPages
<1>. QED BY Zenon, <1>6, TypeInvInit, OwnInvInit DEF CountInv

LEMMA CountInvStep == ASSUME CountInv, [Next]_vars PROVE CountInv'
BY Zenon, TypeInvStep, OwnInvStep, CountExactStep DEF CountInv

\* When local_pages has reached the number of pages, all of them are Local and no read is
\* pending, not even one whose page the completion thread has just counted.
LEMMA AllLocalSettled ==
  ASSUME CountInv, ~(local_pages < num_pages)
  PROVE  Settled
<1>. USE DEF CountInv
<1>1. local_pages + Cardinality(Counters) = Cardinality(LocalPages)
  BY Zenon DEF CountExact, Counters, LocalPages
<1>2. /\ local_pages \in Nat /\ num_pages \in Nat
      /\ Cardinality(Counters) \in Nat /\ Cardinality(LocalPages) \in Nat
  <2>1. local_pages \in Nat
    BY Zenon, TypeSplit DEF TypeInv, TypeRest
  <2>2. num_pages \in Nat
    BY Zenon, PageFacts
  <2>3. Cardinality(Counters) \in Nat /\ Cardinality(LocalPages) \in Nat
    BY ZenonT(100), ActorsFinite, FS_CardinalityType
  <2>. QED BY Zenon, <2>1, <2>2, <2>3
<1>3. LocalPages \subseteq PageId
  BY Zenon DEF LocalPages
<1>4. /\ Cardinality(LocalPages) <= num_pages
      /\ Cardinality(LocalPages) = num_pages => LocalPages = PageId
  BY ZenonT(100), <1>3, ActorsFinite, FS_Subset
<1>5. Cardinality(LocalPages) = num_pages /\ Cardinality(Counters) = 0
  BY <1>1, <1>2, <1>4
<1>6. LocalPages = PageId /\ Counters = {}
  BY ZenonT(100), <1>4, <1>5, ActorsFinite, FS_EmptySet
<1>7. \A p \in PageId : ps[p] = "Local"
  BY ZenonT(100), <1>6 DEF LocalPages
<1>8. pc[CQ] # "count"
  BY <1>6, ActorFacts DEF Counters
<1>9. wr = <<>>
  <2>. SUFFICES ASSUME wr # <<>> PROVE FALSE
    BY Zenon
  <2>1. ~Counting(1)
    BY <1>8 DEF Counting
  <2>2. Head(wr).page \in PageId /\ ps[Head(wr).page] = "InFlight"
    BY ZenonT(100), <2>1, HeadRead
  <2>. QED BY <1>7, <2>2
<1>. QED BY Zenon, <1>7, <1>9 DEF Settled

LEMMA SettledInvStep ==
  ASSUME OnlyPullAllCloses, CountInv, DataInv, SettledInv, Next
  PROVE  SettledInv'
<1>1. Settled => Settled'
  BY ZenonT(100), SettledKept DEF CountInv
<1>2. ASSUME NEW u \in Thread, Ending(u)' PROVE Settled'
  <2>1. Ending(u) \/ Settled
    BY ZenonT(100), <1>2, EndBegins, AllLocalSettled DEF CountInv, DataInv
  <2>. QED BY ZenonT(100), <1>1, <2>1 DEF SettledInv, Ending
<1>3. done_sent' \/ ~registered' \/ ~serving' => Settled'
  BY ZenonT(100), <1>1, ReleaseSettled
<1>4. run'
  BY ZenonT(100), RunKept DEF CountInv
<1>. QED BY ZenonT(100), <1>2, <1>3, <1>4 DEF SettledInv, Ending

LEMMA PagingInvInit == Init => PagingInv
<1>. SUFFICES ASSUME Init PROVE PagingInv
  OBVIOUS
<1>1. wr = <<>> /\ \A t \in Actor : pc[t] = "idle"
  BY ZenonT(100) DEF Init
<1>2. /\ \A p \in PageId : ps[p] = "Remote" /\ data[p] = "empty"
      /\ \A t \in Thread : closing[t] = FALSE
  BY ZenonT(100) DEF Init
<1>3. /\ state = "Clean" /\ done_sent = FALSE /\ registered = TRUE /\ serving = TRUE /\ run = TRUE
      /\ program \in Programs
  BY Zenon DEF Init
<1>4. Len(wr) = 0 /\ Thread \subseteq Actor
  BY <1>1, ActorFacts
<1>5. DataInv
  <2>1. RemoteEmpty
    BY Zenon, <1>2 DEF RemoteEmpty
  <2>2. PostEmpty /\ PulledHere
    BY <1>1, <1>4 DEF PostEmpty, PulledHere
  <2>3. ReadEmpty
    BY <1>4 DEF ReadEmpty
  <2>4. OpenIsHere
    BY <1>2, <1>3 DEF OpenIsHere
  <2>. QED BY Zenon, <1>3, <2>1, <2>2, <2>3, <2>4 DEF DataInv
<1>6. SettledInv
  <2>1. \A t \in Thread : pc[t] \notin {"close", "send", "deregister"}
    BY <1>1, <1>4
  <2>. QED BY ZenonT(100), <1>2, <1>3, <2>1 DEF SettledInv
<1>. QED BY Zenon, <1>5, <1>6, CountInvInit DEF PagingInv

LEMMA PagingInvStep ==
  ASSUME WholePages, OnlyPullAllCloses, PagingInv, [Next]_vars
  PROVE  PagingInv'
<1>1. CountInv'
  BY Zenon, CountInvStep DEF PagingInv
<1>2. CASE Next
  BY ZenonT(100), <1>1, <1>2, DataInvStep, SettledInvStep DEF PagingInv, CountInv
<1>3. CASE UNCHANGED vars
  <2>1. UNCHANGED <<program, ps, data, wr, pc, page, prot, state, done_sent>>
    BY ZenonT(100), <1>3 DEF vars, pageVars, connVars, threadVars
  <2>2. OpenIsHere'
    BY ZenonT(100), <2>1, OpenKept DEF PagingInv, DataInv
  <2>3. DataInv'
    BY ZenonT(100), <2>1, <2>2, DataStay DEF PagingInv
  <2>4. SettledInv'
    <3>1. UNCHANGED <<closing, registered, serving, run>>
      BY ZenonT(100), <1>3 DEF vars, connVars, threadVars
    <3>2. Settled' = Settled
      BY Zenon, <2>1 DEF Settled
    <3>. QED BY ZenonT(100), <2>1, <3>1, <3>2 DEF PagingInv, SettledInv
  <2>. QED BY Zenon, <1>1, <2>3, <2>4 DEF PagingInv
<1>. QED BY Zenon, <1>2, <1>3

-----------------------------------------------------------------------------
(* The theorems.  The first two hold for every segment and whatever the      *)
(* threads run.  The others need that the segment is a whole number of       *)
(* pages, as the handler asks for the wrong size of a last page that is not, *)
(* and that no thread closes after a single pass of                          *)
(* PullAllPagesWithoutClose.                                                 *)

\* The variables of the destination always have their types, whatever the size of the
\* segment and whichever programs its threads run.
THEOREM TypeCorrect == Spec => []TypeOK
<1>1. Init => CountInv
  BY CountInvInit
<1>2. CountInv /\ [Next]_vars => CountInv'
  BY Zenon, CountInvStep
<1>3. CountInv => TypeOK
  BY Zenon DEF CountInv, TypeInv
<1>. QED BY <1>1, <1>2, <1>3, PTL DEF Spec

\* local_pages counts every Local page exactly once, but for the pages whose thread is
\* between the store of Local and the increment, however the handlers, the pullers and the
\* completion thread interleave.
THEOREM CountCorrect == Spec => []CountExact
<1>1. Init => CountInv
  BY CountInvInit
<1>2. CountInv /\ [Next]_vars => CountInv'
  BY Zenon, CountInvStep
<1>3. CountInv => CountExact
  BY Zenon DEF CountInv
<1>. QED BY <1>1, <1>2, <1>3, PTL DEF Spec

\* The invariant of demand paging holds in every state.
THEOREM PagingHolds ==
  ASSUME WholePages, OnlyPullAllCloses
  PROVE  Spec => []PagingInv
<1>1. Init => PagingInv
  BY PagingInvInit
<1>2. PagingInv /\ [Next]_vars => PagingInv'
  BY Zenon, PagingInvStep
<1>. QED BY <1>1, <1>2, PTL DEF Spec

\* A Local page holds the data of the source or what the program wrote over it, and an access
\* that does not fault meets that data, whichever of the handler, a puller and the
\* completion thread has pulled the page and in whichever order they store and open.
THEOREM OpenCorrect ==
  ASSUME WholePages, OnlyPullAllCloses
  PROVE  Spec => []OpenIsHere
<1>1. PagingInv => OpenIsHere
  BY Zenon DEF PagingInv, DataInv
<1>. QED BY <1>1, PagingHolds, PTL

\* When the DONE is sent every page is here and no read is pending, so that the source may
\* release the segment.
THEOREM CloseCorrect ==
  ASSUME WholePages, OnlyPullAllCloses
  PROVE  Spec => []CloseIsLast
<1>1. PagingInv => CloseIsLast
  BY ZenonT(100), SettledHere DEF PagingInv, SettledInv, Settled, CloseIsLast
<1>. QED BY <1>1, PagingHolds, PTL

\* No read that is still under way replaces what the program has written.
THEOREM WritesKept ==
  ASSUME WholePages, OnlyPullAllCloses
  PROVE  Spec => WritesSurvive
<1>1. ASSUME PagingInv, [Next]_vars, NEW p \in PageId, data[p] = "written" PROVE data'[p] = "written"
  <2>. USE DEF PagingInv, CountInv
  <2>1. CASE UNCHANGED vars
    BY ZenonT(100), <1>1, <2>1 DEF vars, pageVars
  <2>2. ASSUME NEW t \in Thread, Step(t) PROVE data' = data
    <3>1. CASE BeginPull(t) \/ Lookup(t) \/ Limit(t) \/ Claim(t) \/ Read(t)
      BY ZenonT(100), <3>1 DEF BeginPull, Lookup, Limit, Claim, Read, pageVars
    <3>2. CASE Protect(t) \/ SetPageState(t) \/ CountPage(t)
      BY ZenonT(100), <3>2 DEF Protect, SetPageState, CountPage
    <3>3. CASE CheckAllPages(t) \/ CloseOpens(t) \/ SendClose(t) \/ CloseDeregisters(t) \/ Drain(t)
      BY ZenonT(100), <3>3 DEF CheckAllPages, CloseOpens, SendClose, CloseDeregisters, Drain, pageVars
    <3>. QED BY ZenonT(100), <2>2, <3>1, <3>2, <3>3 DEF Step
  <2>3. CASE OnCompletion
    <3>1. PICK q \in PageId : data[q] = "empty" /\ data' = [data EXCEPT ![q] = "source"]
      BY ZenonT(100), <1>1, <2>3, CompletionFills
    <3>2. p # q
      BY <1>1, <3>1
    <3>. QED BY ZenonT(100), <1>1, <3>1, <3>2, DataPoint
  <2>4. ASSUME Completion, ~OnCompletion PROVE data' = data
    BY ZenonT(100), <2>4 DEF Completion, Protect, SetPageState, CountPage
  <2>5. ASSUME NEW t \in Thread, NEW q \in PageId, Write(t, q) PROVE data'[p] = "written"
    <3>1. data' = [data EXCEPT ![q] = "written"]
      BY Zenon, <2>5 DEF Write
    <3>. QED BY ZenonT(100), <1>1, <3>1, DataPoint
  <2>6. ASSUME NEW t \in Thread, NEW q \in PageId, Fault(t, q) PROVE data' = data
    BY ZenonT(100), <2>6 DEF Fault, pageVars
  <2>7. ASSUME OnTransfer \/ OnClose PROVE data' = data
    BY ZenonT(100), <2>7 DEF OnTransfer, OnClose, pageVars
  <2>. QED BY ZenonT(100), <1>1, <2>1, <2>2, <2>3, <2>4, <2>5, <2>6, <2>7 DEF Next
<1>2. PagingInv /\ [Next]_vars => [\A p \in PageId : data[p] = "written" => data'[p] = "written"]_vars
  BY ZenonT(100), <1>1
<1>. QED BY <1>2, PagingHolds, PTL DEF Spec, WritesSurvive

\* No exception escapes and no read fails, as long as moreover the lookups by address of
\* PullPages* stay inside the page table.
THEOREM FailureFree ==
  ASSUME WholePages, OnlyPullAllCloses, IndexInTable
  PROVE  Spec => []NoFailure
<1>1. Init => PagingInv /\ ~halted
  BY Zenon, PagingInvInit DEF Init
<1>2. (PagingInv /\ ~halted) /\ [Next]_vars => (PagingInv /\ ~halted)'
  <2>. SUFFICES ASSUME PagingInv, ~halted, [Next]_vars PROVE PagingInv' /\ ~halted'
    OBVIOUS
  <2>1. PagingInv'
    BY Zenon, PagingInvStep
  <2>2. CASE UNCHANGED vars
    BY Zenon, <2>1, <2>2 DEF vars
  <2>. QED BY ZenonT(100), <2>1, <2>2, HaltedStep DEF PagingInv, CountInv
<1>3. PagingInv /\ ~halted => NoFailure
  BY Zenon DEF PagingInv, SettledInv, NoFailure
<1>. QED BY <1>1, <1>2, <1>3, PTL DEF Spec

=============================================================================
