--------------------------- MODULE PagingInvariant ---------------------------
(***************************************************************************)
(* Demand paging: who pulls a page, how many pages are here, and when the  *)
(* source may release the segment, for every segment, page size and set of *)
(* threads.  The inductive invariant, and that the steps preserve its      *)
(* parts; PagingProofs has the count of the pages and the theorems.        *)
(*                                                                         *)
(* A page in flight has one puller (OwnInv), which is why it is counted    *)
(* once (CountExact); a page is open only when its data is there (DataInv); *)
(* and what ends the migration finds nothing left to pull (SettledInv).    *)
(***************************************************************************)
EXTENDS Paging, TLAPS

-----------------------------------------------------------------------------
(* The page that an actor is at is one of the segment wherever it is used, and *)
(* the completion thread works on the oldest read.                           *)

PageLabel == {"limit", "claim", "post", "wait", "protect", "local", "count"}
AtPage(t) == pc[t] \in PageLabel

\* Where the completion thread can be.
CQLabel == {"idle", "protect", "local", "count"}

TypeInv ==
  /\ TypeOK
  /\ \A t \in Actor : AtPage(t) => page[t] \in PageId
  /\ pc[CQ] \in CQLabel
  /\ pc[CQ] # "idle" => wr # <<>>

-----------------------------------------------------------------------------
(* A page in flight has one puller: the thread that has claimed it or, once an *)
(* asynchronous puller has posted its read, that read.                       *)

\* Thread t has claimed page p and not yet stored that it is Local.
Owns(t, p) ==
  /\ page[t] = p
  /\ pc[t] \in {"post", "wait", "local"} \/ (pc[t] = "protect" /\ ~IsHandler(t))

ReadOf(i) ==
  IF IsAsync(wr[i].actor)
  THEN \A t \in Thread : ~Owns(t, wr[i].page)
  ELSE /\ pc[wr[i].actor] = "wait" /\ page[wr[i].actor] = wr[i].page
       /\ user_mutex = wr[i].actor

\* The completion thread has counted the page of read i but not yet dropped it.
Counting(i) == i = 1 /\ pc[CQ] = "count"

Claimed == \A t \in Thread, p \in PageId : Owns(t, p) => ps[p] = "InFlight"

OneOwner == \A t, u \in Thread, p \in PageId : Owns(t, p) /\ Owns(u, p) => t = u

\* An asynchronous puller does not wait for its reads.
PostsOnly ==
  \A t \in Thread : IsAsync(t) => pc[t] \notin {"wait", "protect", "local", "count"}

Pending ==
  \A i \in 1 .. Len(wr) :
    ReadOf(i) /\ ps[wr[i].page] = IF Counting(i) THEN "Local" ELSE "InFlight"

OneRead == \A i, j \in 1 .. Len(wr) : wr[i].page = wr[j].page => i = j

\* The completion thread runs the callback of the oldest read.
OldestRead == pc[CQ] # "idle" => IsAsync(Head(wr).actor) /\ Head(wr).page = page[CQ]

OwnInv == Claimed /\ OneOwner /\ PostsOnly /\ Pending /\ OneRead /\ OldestRead

CountInv == TypeInv /\ OwnInv /\ CountExact

-----------------------------------------------------------------------------
(* What a page holds, and when the migration is over.                        *)

\* The segment is a whole number of pages.
WholePages == MemorySize % PageSize = 0

\* Only PullAllPages ends the migration.
OnlyPullAllCloses == \A f \in Programs, t \in Thread : f[t] # "pullThenClose"

\* The lookup by address of PullPages* stays inside the page table.
IndexInTable ==
  \A f \in Programs, t \in Thread : f[t] \in {"pullPagesSync", "pullPagesAsync"} =>
    \A id \in 0 .. PagesIn(UsedSize) - 1 : StateIndex(id) \in PageId

\* A page that nobody has pulled yet is empty, up to the end of its read.
RemoteEmpty == \A p \in PageId : ps[p] = "Remote" => data[p] = "empty"
PostEmpty   == \A t \in Thread : pc[t] = "post" => data[page[t]] = "empty"
ReadEmpty   ==
  \A i \in 1 .. Len(wr) :
    /\ wr[i].length = PageSize
    /\ data[wr[i].page] = "empty" \/ (i = 1 /\ pc[CQ] # "idle")

\* After Pull, and in the callback, the page is here.
PulledHere == \A t \in Actor : pc[t] \in {"protect", "local", "count"} => Here(page[t])

DataInv == program \in Programs /\ RemoteEmpty /\ PostEmpty /\ ReadEmpty /\ PulledHere /\ OpenIsHere

\* Nothing is left to pull.
Settled == wr = <<>> /\ \A p \in PageId : ps[p] = "Local"

SettledInv ==
  /\ \A t \in Thread : pc[t] \in {"close", "send", "deregister"} \/ closing[t] => Settled
  /\ done_sent \/ ~registered \/ ~serving => Settled
  /\ run

PagingInv == CountInv /\ DataInv /\ SettledInv

-----------------------------------------------------------------------------
(* Arithmetic.                                                               *)

\* Quotient and remainder.
LEMMA DivMod ==
  ASSUME NEW s \in Int, NEW p \in Int, p > 0
  PROVE  s = p * (s \div p) + (s % p)
BY Z3

USE SMTT(100)

\* Division of a size by the page size.
LEMMA Division ==
  ASSUME NEW size \in Nat
  PROVE  /\ size \div PageSize \in Nat /\ size % PageSize \in 0 .. PageSize - 1
         /\ size = PageSize * (size \div PageSize) + (size % PageSize)
<1>1. PageSize \in Nat /\ PageSize > 0
  BY ConstantsAssumption
<1>2. size \div PageSize \in Int /\ size \div PageSize >= 0 /\ size % PageSize \in 0 .. PageSize - 1
  BY <1>1
<1>3. size = PageSize * (size \div PageSize) + (size % PageSize)
  <2>1. size \in Int /\ PageSize \in Int
    BY <1>1
  <2>. QED BY ZenonT(100), <1>1, <2>1, DivMod
<1>. QED BY <1>2, <1>3

\* A product grows with its second factor.
LEMMA Growing ==
  ASSUME NEW p \in Nat, NEW m \in Nat, NEW n \in Nat, m < n
  PROVE  p * m + p <= p * n
<1>1. PICK k \in Nat : n = m + 1 + k
  <2>1. n - m - 1 \in Nat /\ n = m + 1 + (n - m - 1)
    OBVIOUS
  <2>. QED BY <2>1
<1>2. p * n = p * m + p + p * k
  BY <1>1
<1>3. p * k \in Nat /\ p * m \in Nat
  BY <1>1
<1>. QED BY <1>2, <1>3

LEMMA PagesNat ==
  ASSUME NEW size \in Nat
  PROVE  PagesIn(size) \in Nat
BY Division DEF PagesIn

\* A smaller size has no more pages.
LEMMA PagesMonotone ==
  ASSUME NEW u \in Nat, NEW m \in Nat, u <= m
  PROVE  PagesIn(u) <= PagesIn(m)
<1>. DEFINE q == u \div PageSize
            r == u % PageSize
            s == m \div PageSize
            v == m % PageSize
<1>1. /\ q \in Nat /\ r \in Nat /\ r < PageSize /\ s \in Nat /\ v \in Nat /\ v < PageSize
      /\ u = PageSize * q + r /\ m = PageSize * s + v /\ PageSize \in Nat
  BY ConstantsAssumption, Division
<1>. HIDE DEF q, r, s, v
<1>2. q <= s
  <2>1. SUFFICES ASSUME s < q PROVE FALSE
    BY <1>1
  <2>2. PageSize * s + PageSize <= PageSize * q
    BY <1>1, <2>1, Growing
  <2>3. PageSize * s \in Nat /\ PageSize * q \in Nat
    BY <1>1
  <2>. QED BY <1>1, <2>2, <2>3
<1>3. q = s => r <= v
  <2>1. PageSize * s \in Nat
    BY <1>1
  <2>. QED BY <1>1, <2>1
<1>. QED BY <1>1, <1>2, <1>3 DEF PagesIn, q, r, s, v

LEMMA PageFacts ==
  /\ num_pages \in Nat /\ PagesIn(UsedSize) \in Nat /\ PagesIn(UsedSize) <= num_pages
  /\ PageId \subseteq Nat
  /\ \A id \in PageId : id + 1 \in 0 .. num_pages /\ id \in 0 .. num_pages
  /\ \A id \in 0 .. num_pages : id < num_pages => id \in PageId
  /\ 0 \in 0 .. num_pages
<1>1. UsedSize \in Nat /\ MemorySize \in Nat /\ UsedSize <= MemorySize
  BY ConstantsAssumption
<1>2. num_pages \in Nat /\ PagesIn(UsedSize) \in Nat /\ PagesIn(UsedSize) <= num_pages
  BY <1>1, PagesNat, PagesMonotone DEF num_pages
<1>. HIDE DEF num_pages
<1>. QED BY <1>2 DEF PageId

\* What a read asks for is a number of bytes.
LEMMA LengthNat ==
  ASSUME NEW t, page[t] \in PageId
  PROVE  Length(t) \in Nat
<1>. DEFINE id == page[t]
            n == MemorySize \div PageSize
<1>1. PageSize \in Nat /\ PageSize > 0 /\ MemorySize \in Nat /\ id \in Nat /\ num_pages \in Nat
  <2>1. PageSize \in Nat /\ PageSize > 0 /\ MemorySize \in Nat
    BY ConstantsAssumption
  <2>2. id \in Nat /\ num_pages \in Nat
    BY Zenon, PageFacts
  <2>. QED BY <2>1, <2>2
<1>2. PageSize * id \in Nat
  BY <1>1
<1>3. getPageSizeAt(getPageAddress(id)) \in Nat
  BY <1>1, <1>2 DEF getPageSizeAt, getPageAddress
<1>4. getPageSize(id) \in Nat
  <2>1. CASE MemorySize % PageSize # 0
    <3>1. n \in Nat /\ MemorySize % PageSize \in Nat /\ MemorySize = PageSize * n + (MemorySize % PageSize)
      BY <1>1, Division
    <3>2. num_pages - 1 = n
      BY <2>1, <3>1 DEF num_pages, PagesIn
    <3>3. PageSize * n \in Nat
      BY <1>1, <3>1
    <3>4. MemorySize - PageSize * (num_pages - 1) \in Nat
      BY <1>1, <3>1, <3>2, <3>3
    <3>. QED BY <1>1, <3>4 DEF getPageSize
  <2>2. CASE MemorySize % PageSize = 0
    BY <1>1, <2>2 DEF getPageSize
  <2>. QED BY <2>1, <2>2
<1>. QED BY <1>3, <1>4 DEF Length

-----------------------------------------------------------------------------
(* Types.                                                                    *)

\* Where an actor goes next is a label.
Label == {"idle", "lookup", "limit", "claim", "post", "wait", "protect", "local", "count", "check",
          "close", "send", "deregister", "drain", "done"}

Rd == [actor : Thread, page : PageId, length : Nat]

LEMMA ActorFacts == Thread \subseteq Actor /\ CQ \in Actor /\ CQ \notin Thread
BY ConstantsAssumption DEF Actor

\* A thread about to claim, to post or to set the state of a page has a page.
LEMMA PageAt ==
  ASSUME NEW t \in Thread
  PROVE  /\ Claim(t) => t \in Actor /\ t # CQ /\ pc[t] = "claim" /\ AtPage(t)
         /\ Read(t) => t \in Actor /\ pc[t] = "post" /\ AtPage(t)
<1>1. Claim(t) => pc[t] = "claim"
  BY Zenon DEF Claim, At
<1>2. Read(t) => pc[t] = "post"
  BY Zenon DEF Read, At
<1>3. pc[t] = "claim" \/ pc[t] = "post" => AtPage(t)
  BY DEF AtPage, PageLabel
<1>4. t \in Actor /\ t # CQ
  BY Zenon, ActorFacts
<1>. QED BY Zenon, <1>1, <1>2, <1>3, <1>4

\* The variables other than pc, page and wr.
TypeRest ==
  /\ program \in [Thread -> Program]
  /\ state \in {"Clean", "Shared"}
  /\ ps \in [PageId -> {"Remote", "InFlight", "Local"}]
  /\ local_pages \in Nat
  /\ prot \in [PageId -> {"NONE", "RW"}]
  /\ data \in [PageId -> {"empty", "partial", "source", "written"}]
  /\ registered \in BOOLEAN /\ serving \in BOOLEAN /\ done_sent \in BOOLEAN
  /\ run \in BOOLEAN /\ halted \in BOOLEAN
  /\ user_mutex \in Actor
  /\ snapshot \in [Thread -> SUBSET PageId]
  /\ closing \in [Thread -> BOOLEAN]
  /\ rate_limiter \in [Thread -> Int]

TypeMain == wr \in Seq(Rd) /\ pc \in [Actor -> Label] /\ page \in [Actor -> 0 .. num_pages]

LEMMA TypeSplit ==
  /\ TypeOK <=> TypeRest /\ TypeMain
  /\ TypeOK' <=> TypeRest' /\ TypeMain'
BY Zenon DEF TypeOK, TypeRest, TypeMain, Rd, Label

LEMMA TypeInvInit == Init => TypeInv
<1>. SUFFICES ASSUME Init PROVE TypeInv
  OBVIOUS
<1>1. TypeRest
  <2>1. program \in [Thread -> Program]
    BY ConstantsAssumption DEF Init
  <2>2. /\ state \in {"Clean", "Shared"} /\ local_pages \in Nat /\ user_mutex \in Actor
    BY ActorFacts DEF Init
  <2>5. /\ registered \in BOOLEAN /\ serving \in BOOLEAN /\ done_sent \in BOOLEAN
        /\ run \in BOOLEAN /\ halted \in BOOLEAN
    BY ZenonT(100) DEF Init
  <2>3. /\ ps \in [PageId -> {"Remote", "InFlight", "Local"}]
        /\ prot \in [PageId -> {"NONE", "RW"}]
        /\ data \in [PageId -> {"empty", "partial", "source", "written"}]
    BY DEF Init
  <2>4. /\ snapshot \in [Thread -> SUBSET PageId]
        /\ closing \in [Thread -> BOOLEAN]
        /\ rate_limiter \in [Thread -> Int]
    BY DEF Init
  <2>. QED BY <2>1, <2>2, <2>3, <2>4, <2>5 DEF TypeRest
<1>2. TypeMain
  BY PageFacts DEF Init, TypeMain, Label
<1>3. \A t \in Actor : pc[t] = "idle"
  BY ZenonT(100) DEF Init
<1>4. "idle" \notin PageLabel /\ "idle" \in CQLabel
  BY DEF PageLabel, CQLabel
<1>. QED BY ZenonT(100), <1>1, <1>2, <1>3, <1>4, ActorFacts, TypeSplit DEF TypeInv, AtPage

\* A step that moves one actor to label l and page k.
LEMMA TypeMove ==
  ASSUME TypeInv, TypeRest', wr' \in Seq(Rd), NEW t \in Actor, NEW l \in Label, NEW k \in 0 .. num_pages,
         pc' = [pc EXCEPT ![t] = l], page' = [page EXCEPT ![t] = k],
         l \in PageLabel => k \in PageId, t = CQ => l \in CQLabel,
         pc'[CQ] # "idle" => wr' # <<>>
  PROVE  TypeInv'
<1>1. TypeMain
  BY Zenon, TypeSplit DEF TypeInv
<1>2. TypeMain'
  BY <1>1 DEF TypeMain
<1>3. \A u \in Actor : pc'[u] = IF u = t THEN l ELSE pc[u]
  BY <1>1 DEF TypeMain
<1>4. \A u \in Actor : page'[u] = IF u = t THEN k ELSE page[u]
  BY <1>1 DEF TypeMain
<1>5. ASSUME NEW u \in Actor, AtPage(u)' PROVE page'[u] \in PageId
  BY <1>3, <1>4, <1>5 DEF TypeInv, AtPage
<1>6. pc'[CQ] \in CQLabel
  BY <1>3, ActorFacts DEF TypeInv
<1>. QED BY <1>2, <1>5, <1>6, TypeSplit DEF TypeInv

\* A step that leaves pc, page and wr alone.
LEMMA TypeStay ==
  ASSUME TypeInv, TypeRest', UNCHANGED <<pc, page, wr>>
  PROVE  TypeInv'
<1>1. TypeMain /\ TypeMain'
  BY Zenon, TypeSplit DEF TypeInv, TypeMain
<1>. QED BY <1>1, TypeSplit DEF TypeInv, AtPage

\* A thread is at the label of its step, and at a page there.
LEMMA TypeAt ==
  ASSUME TypeInv, NEW t \in Actor
  PROVE  /\ pc[t] \in Label /\ page[t] \in 0 .. num_pages
         /\ AtPage(t) => page[t] \in PageId
         /\ pc = [pc EXCEPT ![t] = pc[t]] /\ page = [page EXCEPT ![t] = page[t]]
         /\ TypeRest /\ wr \in Seq(Rd)
<1>1. TypeMain /\ TypeRest
  BY Zenon, TypeSplit DEF TypeInv
<1>. QED BY <1>1 DEF TypeInv, TypeMain

\* What a move changes.
LEMMA MovePc ==
  ASSUME TypeInv, NEW t \in Actor, NEW l, pc' = [pc EXCEPT ![t] = l]
  PROVE  pc'[t] = l /\ \A u \in Actor : u # t => pc'[u] = pc[u]
<1>1. TypeMain
  BY Zenon, TypeSplit DEF TypeInv
<1>. QED BY <1>1 DEF TypeMain

LEMMA MovePage ==
  ASSUME TypeInv, NEW t \in Actor, NEW k, page' = [page EXCEPT ![t] = k]
  PROVE  page'[t] = k /\ \A u \in Actor : u # t => page'[u] = page[u]
<1>1. TypeMain
  BY Zenon, TypeSplit DEF TypeInv
<1>. QED BY <1>1 DEF TypeMain

LEMMA MoveBoth ==
  ASSUME TypeInv, NEW t \in Actor, NEW l, NEW k, pc' = [pc EXCEPT ![t] = l], page' = [page EXCEPT ![t] = k]
  PROVE  /\ pc'[t] = l /\ page'[t] = k
         /\ \A u \in Actor : u # t => pc'[u] = pc[u] /\ page'[u] = page[u]
<1>1. pc'[t] = l /\ \A u \in Actor : u # t => pc'[u] = pc[u]
  BY Zenon, MovePc
<1>2. page'[t] = k /\ \A u \in Actor : u # t => page'[u] = page[u]
  BY Zenon, MovePage
<1>. QED BY Zenon, <1>1, <1>2

\* The outcomes of the head of a loop: the loop ends, at() throws, the page is
\* passed over, or the puller goes on to claim it.
LEMMA LookupOutcome ==
  ASSUME TypeInv, NEW t \in Thread, Lookup(t)
  PROVE  \/ \E l \in {"send", "check", "close", "drain", "done"} :
              /\ pc' = [pc EXCEPT ![t] = l] /\ page' = page /\ halted' = halted
              /\ l = "send" => closing[t]
              /\ l = "close" => program[t] = "pullThenClose"
         \/ /\ pc' = pc /\ page' = page
            /\ ByAddress(t) /\ page[t] < PagesIn(UsedSize) /\ StateIndex(page[t]) \notin PageId
         \/ /\ page[t] \in PageId /\ pc' = pc /\ page' = [page EXCEPT ![t] = page[t] + 1]
            /\ halted' = halted
         \/ \E l \in {"limit", "claim"} :
              /\ page[t] \in PageId /\ pc' = [pc EXCEPT ![t] = l] /\ page' = page /\ halted' = halted
<1>. DEFINE last == IF ByAddress(t) THEN PagesIn(UsedSize) ELSE num_pages
<1>1. page[t] \in 0 .. num_pages /\ (page[t] < last => page[t] \in PageId)
  <2>1. page[t] \in 0 .. num_pages
    BY TypeAt, ActorFacts
  <2>2. last \in Nat /\ last <= num_pages /\ num_pages \in Nat
    BY PageFacts
  <2>3. page[t] < last => page[t] < num_pages
    BY <2>1, <2>2
  <2>. QED BY <2>1, <2>3, PageFacts
<1>2. CASE /\ page[t] = last
           /\ Goto(t, CASE closing[t] -> "send"
                        [] program[t] = "pullAll" -> "check"
                        [] program[t] = "pullThenClose" -> "close"
                        [] program[t] = "pullPagesAsync" -> "drain"
                        [] OTHER -> "done")
           /\ UNCHANGED <<page, halted>>
  <2>. DEFINE l == CASE closing[t] -> "send"
                     [] program[t] = "pullAll" -> "check"
                     [] program[t] = "pullThenClose" -> "close"
                     [] program[t] = "pullPagesAsync" -> "drain"
                     [] OTHER -> "done"
  <2>1. l \in {"send", "check", "close", "drain", "done"}
    OBVIOUS
  <2>2. (l = "send" => closing[t]) /\ (l = "close" => program[t] = "pullThenClose")
    OBVIOUS
  <2>3. pc' = [pc EXCEPT ![t] = l]
    BY Zenon, <1>2 DEF Goto
  <2>. HIDE DEF l
  <2>. QED BY ZenonT(100), <1>2, <2>1, <2>2, <2>3
<1>3. CASE /\ page[t] < last /\ ByAddress(t) /\ StateIndex(page[t]) \notin PageId
           /\ Throw /\ UNCHANGED <<pc, page>>
  BY <1>3
<1>4. CASE /\ page[t] < last
           /\ IF Skips(t)
              THEN page' = [page EXCEPT ![t] = @ + 1] /\ UNCHANGED pc
              ELSE Goto(t, IF IsAsync(t) THEN "limit" ELSE "claim") /\ UNCHANGED page
           /\ UNCHANGED halted
  BY <1>1, <1>4 DEF Goto
<1>. QED BY <1>2, <1>3, <1>4 DEF Lookup

\* The outcomes of Pull and PullAsync: the read is posted, or nothing covers the
\* page, which the handler and an asynchronous puller throw and the others ignore.
LEMMA ReadOutcome ==
  ASSUME TypeInv, NEW t \in Thread, Read(t)
  PROVE  /\ pc[t] = "post" /\ page[t] \in PageId /\ user_mutex = CQ
         /\ \/ /\ ~IsAsync(t) /\ Covered(t) /\ PostRead(t) /\ pc' = [pc EXCEPT ![t] = "wait"]
               /\ user_mutex' = t /\ page' = page /\ halted' = halted
            \/ /\ IsAsync(t) /\ Covered(t) /\ PostRead(t) /\ pc' = [pc EXCEPT ![t] = "lookup"]
               /\ page' = [page EXCEPT ![t] = page[t] + 1] /\ UNCHANGED <<user_mutex, halted>>
            \/ /\ ~IsAsync(t) /\ ~Covered(t) /\ program[t] # "app" /\ pc' = [pc EXCEPT ![t] = "protect"]
               /\ UNCHANGED <<wr, user_mutex, page, halted>>
            \/ ~Covered(t) /\ halted' = TRUE /\ UNCHANGED <<wr, user_mutex, page, pc>>
<1>1. pc[t] = "post" /\ page[t] \in PageId /\ user_mutex = CQ
  <2>1. t \in Actor /\ pc[t] = "post" /\ AtPage(t) /\ user_mutex = CQ
    BY Zenon, PageAt DEF Read
  <2>. QED BY ZenonT(100), <2>1, TypeAt
<1>2. CASE ~IsAsync(t)
  BY ZenonT(100), <1>1, <1>2 DEF Read, RdmaRead, Goto, Throw, AfterPull
<1>3. CASE IsAsync(t)
  BY ZenonT(100), <1>1, <1>3 DEF Read, RdmaReadAsync, Goto, Throw
<1>. QED BY ZenonT(100), <1>2, <1>3

\* What post_rdma_read appends.
LEMMA PostEffect ==
  ASSUME TypeInv, NEW t \in Thread, page[t] \in PageId, PostRead(t)
  PROVE  /\ wr' \in Seq(Rd) /\ wr' # <<>> /\ Len(wr') = Len(wr) + 1 /\ Len(wr) \in Nat
         /\ \A i \in 1 .. Len(wr) : wr'[i] = wr[i]
         /\ wr'[Len(wr) + 1] = [actor |-> t, page |-> page[t], length |-> Length(t)]
         /\ wr # <<>> => Head(wr') = Head(wr)
<1>. DEFINE e == [actor |-> t, page |-> page[t], length |-> Length(t)]
<1>1. wr \in Seq(Rd) /\ e \in Rd /\ wr' = Append(wr, e)
  <2>1. t \in Actor /\ wr \in Seq(Rd)
    BY ZenonT(100), TypeAt, ActorFacts
  <2>2. Length(t) \in Nat
    BY ZenonT(100), <2>1, LengthNat
  <2>3. wr' = Append(wr, e)
    BY DEF PostRead
  <2>. QED BY <2>1, <2>2, <2>3 DEF Rd
<1>. HIDE DEF e
<1>2. /\ wr' \in Seq(Rd) /\ wr' # <<>> /\ Len(wr') = Len(wr) + 1 /\ Len(wr) \in Nat
      /\ \A i \in 1 .. Len(wr) : wr'[i] = wr[i]
      /\ wr'[Len(wr) + 1] = e
  BY <1>1
<1>3. wr # <<>> => Head(wr') = Head(wr)
  BY <1>1, <1>2
<1>. QED BY <1>2, <1>3 DEF e

\* What the end of a read takes away.
LEMMA DropEffect ==
  ASSUME TypeInv, wr # <<>>, wr' = Tail(wr)
  PROVE  /\ wr' \in Seq(Rd) /\ Len(wr) \in Nat /\ Len(wr) > 0 /\ Len(wr') = Len(wr) - 1
         /\ \A i \in 1 .. Len(wr') : i + 1 \in 1 .. Len(wr) /\ wr'[i] = wr[i + 1]
         /\ Head(wr) \in Rd /\ Head(wr) = wr[1] /\ 1 \in 1 .. Len(wr)
<1>1. wr \in Seq(Rd)
  BY ZenonT(100), TypeAt, ActorFacts
<1>. QED BY <1>1

\* A step that moves one actor to a label of the loops and leaves the reads alone.
LEMMA TypeGoto ==
  ASSUME TypeInv, TypeRest', wr' = wr, NEW t \in Actor, NEW l \in Label, NEW k \in 0 .. num_pages,
         pc' = [pc EXCEPT ![t] = l], page' = [page EXCEPT ![t] = k],
         l \in PageLabel => k \in PageId, t = CQ => l \in CQLabel /\ pc[CQ] # "idle"
  PROVE  TypeInv'
<1>1. wr' \in Seq(Rd)
  BY ZenonT(100), TypeAt
<1>2. pc'[CQ] # "idle" => wr' # <<>>
  BY TypeAt, ActorFacts DEF TypeInv
<1>. QED BY ZenonT(100), <1>1, <1>2, TypeMove

\* What follows the increment of the count.
LEMMA CountOutcome ==
  ASSUME TypeInv, NEW t \in Actor, CountPage(t)
  PROVE  /\ pc[t] = "count" /\ page[t] \in PageId /\ local_pages' = local_pages + 1
         /\ \/ /\ IsHandler(t) /\ pc' = [pc EXCEPT ![t] = "protect"] /\ page' = page /\ wr' = wr
            \/ /\ t = CQ /\ pc' = [pc EXCEPT ![t] = "idle"] /\ page' = page
               /\ wr # <<>> /\ wr' = Tail(wr)
            \/ /\ t \in Thread /\ ~IsHandler(t) /\ pc' = [pc EXCEPT ![t] = "lookup"] /\ wr' = wr
               /\ page' = [page EXCEPT ![t] = page[t] + 1]
<1>1. pc[t] = "count" /\ page[t] \in PageId /\ local_pages' = local_pages + 1
  <2>1. pc[t] = "count" /\ AtPage(t)
    BY DEF CountPage, At, AtPage, PageLabel
  <2>. QED BY ZenonT(100), <2>1, TypeAt DEF CountPage
<1>2. t = CQ => wr # <<>>
  BY <1>1 DEF TypeInv
<1>3. t # CQ => t \in Thread
  BY DEF Actor
<1>. QED BY ZenonT(100), <1>1, <1>2, <1>3 DEF CountPage, Goto

-----------------------------------------------------------------------------
(* The oldest read.                                                          *)

LEMMA HeadRead ==
  ASSUME TypeInv, OwnInv, wr # <<>>
  PROVE  /\ Head(wr) = wr[1] /\ 1 \in 1 .. Len(wr)
         /\ Head(wr).actor \in Thread /\ Head(wr).page \in PageId
         /\ ReadOf(1) /\ ps[Head(wr).page] = IF Counting(1) THEN "Local" ELSE "InFlight"
<1>1. wr \in Seq(Rd)
  BY ZenonT(100), TypeAt, ActorFacts
<1>2. Head(wr) = wr[1] /\ 1 \in 1 .. Len(wr) /\ Head(wr) \in Rd
  BY <1>1
<1>3. Head(wr).actor \in Thread /\ Head(wr).page \in PageId
  BY <1>2 DEF Rd
<1>. QED BY ZenonT(100), <1>2, <1>3 DEF OwnInv, Pending

\* The outcomes of a completion: the callback starts, the waiting thread goes on, or the
\* source does not serve the read any more.
LEMMA CompletionOutcome ==
  ASSUME TypeInv, OwnInv, OnCompletion
  PROVE  /\ pc[CQ] = "idle" /\ wr # <<>>
         /\ \/ /\ serving /\ IsAsync(Head(wr).actor) /\ pc' = [pc EXCEPT ![CQ] = "protect"]
               /\ page' = [page EXCEPT ![CQ] = Head(wr).page] /\ UNCHANGED <<wr, user_mutex, run>>
            \/ /\ serving /\ ~IsAsync(Head(wr).actor)
               /\ pc[Head(wr).actor] = "wait" /\ page[Head(wr).actor] = Head(wr).page
               /\ user_mutex = Head(wr).actor
               /\ pc' = [pc EXCEPT ![Head(wr).actor] = AfterPull(Head(wr).actor)]
               /\ page' = page /\ wr' = Tail(wr) /\ user_mutex' = CQ /\ run' = run
            \/ ~serving /\ run' = FALSE /\ UNCHANGED <<data, wr, pc, page, user_mutex>>
<1>1. pc[CQ] = "idle" /\ wr # <<>>
  BY Zenon DEF OnCompletion, At
<1>2. ~IsAsync(Head(wr).actor) => /\ pc[Head(wr).actor] = "wait" /\ page[Head(wr).actor] = Head(wr).page
                                  /\ user_mutex = Head(wr).actor
  BY ZenonT(100), <1>1, HeadRead DEF ReadOf
<1>3. CASE serving /\ IsAsync(Head(wr).actor)
  BY ZenonT(100), <1>1, <1>3 DEF OnCompletion, Goto
<1>4. CASE serving /\ ~IsAsync(Head(wr).actor)
  BY ZenonT(100), <1>1, <1>2, <1>4 DEF OnCompletion, Goto
<1>5. CASE ~serving
  BY ZenonT(100), <1>1, <1>5 DEF OnCompletion
<1>. QED BY ZenonT(100), <1>3, <1>4, <1>5

\* Every step preserves the types.
LEMMA TypeInvStep == ASSUME TypeInv, OwnInv, [Next]_vars PROVE TypeInv'
<1>1. CASE UNCHANGED vars
  <2>1. TypeRest'
    BY ZenonT(100), <1>1, TypeAt, ActorFacts DEF vars, TypeRest, pageVars, connVars, threadVars
  <2>. QED BY ZenonT(100), <1>1, <2>1, TypeStay DEF vars, threadVars, connVars
<1>2. ASSUME OnTransfer PROVE TypeInv'
  <2>. USE <1>2
  <2>1. TypeRest'
    BY TypeSplit DEF TypeInv, TypeRest, OnTransfer, UpdateState, connVars, threadVars
  <2>. QED BY Zenon, <2>1, TypeStay DEF OnTransfer, connVars, threadVars
<1>3. ASSUME NEW t \in Thread, NEW p \in PageId, Write(t, p) PROVE TypeInv'
  <2>. USE <1>3
  <2>1. TypeRest'
    BY TypeSplit DEF TypeInv, TypeRest, Write, connVars, threadVars
  <2>. QED BY Zenon, <2>1, TypeStay DEF Write, connVars, threadVars
<1>4. ASSUME NEW t \in Thread, NEW p \in PageId, Fault(t, p) PROVE TypeInv'
  <2>. USE <1>4
  <2>1. TypeRest'
    BY TypeSplit DEF TypeInv, TypeRest, Fault, pageVars, connVars
  <2>2. p \in 0 .. num_pages /\ "claim" \in Label /\ t \in Actor /\ t # CQ
    BY PageFacts, ActorFacts DEF Label
  <2>3. /\ pc' = [pc EXCEPT ![t] = "claim"] /\ page' = [page EXCEPT ![t] = p] /\ wr' = wr
    BY Zenon DEF Fault, Goto, connVars
  <2>4. wr' \in Seq(Rd) /\ (pc'[CQ] # "idle" => wr' # <<>>)
    BY <2>2, <2>3, ActorFacts, TypeAt DEF TypeInv
  <2>. QED BY ZenonT(100), <2>1, <2>2, <2>3, <2>4, TypeMove
<1>5. ASSUME NEW t \in Thread, BeginPull(t) PROVE TypeInv'
  <2>. USE <1>5
  <2>1. TypeRest'
    <3>1. TypeRest
      BY Zenon, TypeSplit DEF TypeInv
    <3>2. snapshot' \in [Thread -> SUBSET PageId]
      BY <3>1 DEF TypeRest, BeginPull
    <3>3. rate_limiter' \in [Thread -> Int]
      BY <3>1, ConstantsAssumption DEF TypeRest, BeginPull
    <3>. QED BY <3>1, <3>2, <3>3 DEF TypeRest, BeginPull, pageVars, connVars
  <2>2. 0 \in 0 .. num_pages /\ "lookup" \in Label \ PageLabel /\ t \in Actor /\ t # CQ
    BY PageFacts, ActorFacts DEF Label, PageLabel
  <2>3. pc' = [pc EXCEPT ![t] = "lookup"] /\ page' = [page EXCEPT ![t] = 0] /\ wr' = wr
    BY Zenon DEF BeginPull, Goto, connVars
  <2>4. wr' \in Seq(Rd) /\ (pc'[CQ] # "idle" => wr' # <<>>)
    BY <2>2, <2>3, ActorFacts, TypeAt DEF TypeInv
  <2>. QED BY ZenonT(100), <2>1, <2>2, <2>3, <2>4, TypeMove
<1>6. ASSUME NEW t \in Thread, Lookup(t) PROVE TypeInv'
  <2>. USE <1>6
  <2>1. TypeRest'
    <3>1. TypeRest
      BY ZenonT(100), TypeSplit DEF TypeInv
    <3>2. halted' \in BOOLEAN
      BY ZenonT(100), <3>1 DEF TypeRest, Lookup, Throw
    <3>. QED BY ZenonT(100), <3>1, <3>2 DEF TypeRest, Lookup, pageVars, connVars
  <2>2. t \in Actor /\ t # CQ /\ page[t] \in 0 .. num_pages /\ pc[t] = "lookup" /\ wr' = wr
    BY TypeAt, ActorFacts DEF Lookup, At, connVars
  <2>3. wr' \in Seq(Rd) /\ (pc'[CQ] = pc[CQ] => (pc'[CQ] # "idle" => wr' # <<>>))
    BY <2>2, TypeAt DEF TypeInv
  <2>4. \A l : pc' = [pc EXCEPT ![t] = l] => pc'[CQ] = pc[CQ]
    BY <2>2, ActorFacts, TypeAt
  <2>5. page = [page EXCEPT ![t] = page[t]] /\ pc = [pc EXCEPT ![t] = "lookup"]
    BY <2>2, TypeAt
  <2>6. /\ {"send", "check", "close", "drain", "done", "lookup"} \subseteq Label \ PageLabel
        /\ {"limit", "claim"} \subseteq Label
    BY DEF Label, PageLabel
  <2>7. \A id \in PageId : id + 1 \in 0 .. num_pages
    BY ZenonT(100), PageFacts
  <2>8. CASE \E l \in {"send", "check", "close", "drain", "done"} :
               pc' = [pc EXCEPT ![t] = l] /\ page' = page
    <3>1. PICK l \in Label \ PageLabel : pc' = [pc EXCEPT ![t] = l] /\ page' = page
      BY ZenonT(100), <2>6, <2>8
    <3>. QED BY ZenonT(100), <2>1, <2>2, <2>3, <2>4, <2>5, <3>1, TypeMove
  <2>9. CASE pc' = pc /\ page' = page
    BY ZenonT(100), <2>1, <2>2, <2>9, TypeStay
  <2>10. CASE page[t] \in PageId /\ pc' = pc /\ page' = [page EXCEPT ![t] = page[t] + 1]
    <3>1. page[t] + 1 \in 0 .. num_pages /\ "lookup" \in Label \ PageLabel
      BY ZenonT(100), <2>6, <2>7, <2>10
    <3>. QED BY ZenonT(100), <2>1, <2>2, <2>3, <2>5, <2>10, <3>1, TypeMove
  <2>11. CASE \E l \in {"limit", "claim"} :
                page[t] \in PageId /\ pc' = [pc EXCEPT ![t] = l] /\ page' = page
    <3>1. PICK l \in Label : pc' = [pc EXCEPT ![t] = l]
      BY ZenonT(100), <2>6, <2>11
    <3>. QED BY ZenonT(100), <2>1, <2>2, <2>3, <2>4, <2>5, <2>11, <3>1, TypeMove
  <2>. QED BY ZenonT(100), <2>8, <2>9, <2>10, <2>11, LookupOutcome
<1>7. ASSUME NEW t \in Thread, Limit(t) PROVE TypeInv'
  <2>. USE <1>7
  <2>1. TypeRest'
    <3>1. TypeRest
      BY ZenonT(100), TypeSplit DEF TypeInv
    <3>2. rate_limiter' \in [Thread -> Int]
      BY <3>1 DEF TypeRest, Limit
    <3>. QED BY ZenonT(100), <3>1, <3>2 DEF TypeRest, Limit, pageVars, connVars
  <2>2. /\ t \in Actor /\ t # CQ /\ page[t] \in 0 .. num_pages /\ pc[t] = "limit" /\ wr' = wr
        /\ pc' = [pc EXCEPT ![t] = "claim"] /\ page' = [page EXCEPT ![t] = page[t]]
        /\ page[t] \in PageId
    <3>1. t \in Actor /\ t # CQ /\ pc[t] = "limit" /\ AtPage(t)
      BY ActorFacts DEF Limit, At, AtPage, PageLabel
    <3>. QED BY ZenonT(100), <3>1, TypeAt DEF Limit, Goto, connVars
  <2>3. "claim" \in Label
    BY DEF Label
  <2>4. wr' \in Seq(Rd) /\ (pc'[CQ] # "idle" => wr' # <<>>)
    BY <2>2, ActorFacts, TypeAt DEF TypeInv
  <2>. QED BY ZenonT(100), <2>1, <2>2, <2>3, <2>4, TypeMove
<1>8. ASSUME NEW t \in Thread, Claim(t) PROVE TypeInv'
  <2>. USE <1>8
  <2>1. TypeRest'
    <3>1. TypeRest
      BY ZenonT(100), TypeSplit DEF TypeInv
    <3>2. ps' \in [PageId -> {"Remote", "InFlight", "Local"}]
      BY <3>1 DEF TypeRest, Claim
    <3>. QED BY ZenonT(100), <3>1, <3>2 DEF TypeRest, Claim, connVars
  <2>2. /\ t \in Actor /\ t # CQ /\ page[t] \in 0 .. num_pages /\ wr' = wr /\ page[t] \in PageId
        /\ page = [page EXCEPT ![t] = page[t]]
    <3>1. t \in Actor /\ t # CQ /\ pc[t] = "claim" /\ AtPage(t)
      BY Zenon, PageAt
    <3>. QED BY ZenonT(100), <3>1, TypeAt DEF Claim, connVars
  <2>3. PICK l \in {"post", "idle", "lookup"}, k \in {page[t], page[t] + 1} :
          /\ pc' = [pc EXCEPT ![t] = l] /\ page' = [page EXCEPT ![t] = k]
          /\ l = "post" => k = page[t]
    BY <2>2 DEF Claim, Goto
  <2>4. l \in Label /\ (l \in PageLabel => k \in PageId) /\ k \in 0 .. num_pages
    BY <2>2, <2>3, PageFacts DEF Label, PageLabel
  <2>5. wr' \in Seq(Rd) /\ (pc'[CQ] # "idle" => wr' # <<>>)
    BY <2>2, <2>3, ActorFacts, TypeAt DEF TypeInv
  <2>. QED BY ZenonT(100), <2>1, <2>2, <2>3, <2>4, <2>5, TypeMove
<1>9. ASSUME NEW t \in Thread, Read(t) PROVE TypeInv'
  <2>. USE <1>9
  <2>0. TypeRest /\ t \in Actor /\ t # CQ /\ page[t] \in 0 .. num_pages
        /\ page = [page EXCEPT ![t] = page[t]]
    BY ZenonT(100), ActorFacts, TypeAt
  <2>1. TypeRest'
    <3>1. halted' \in BOOLEAN
      BY ZenonT(100), <2>0, ReadOutcome DEF TypeRest
    <3>2. user_mutex' \in Actor
      BY ZenonT(100), <2>0, ReadOutcome DEF TypeRest
    <3>. QED BY ZenonT(100), <2>0, <3>1, <3>2 DEF TypeRest, Read, pageVars
  <2>2. page[t] \in PageId /\ page[t] + 1 \in 0 .. num_pages
    BY ZenonT(100), ReadOutcome, PageFacts
  <2>3. "wait" \in Label /\ "protect" \in Label /\ "lookup" \in Label \ PageLabel
    BY DEF Label, PageLabel
  <2>4. \A l : pc' = [pc EXCEPT ![t] = l] => pc'[CQ] = pc[CQ]
    BY <2>0, ActorFacts, TypeAt
  <2>5. /\ wr \in Seq(Rd) /\ (pc[CQ] # "idle" => wr # <<>>)
        /\ PostRead(t) => wr' \in Seq(Rd) /\ wr' # <<>>
    BY ZenonT(100), <2>0, <2>2, TypeAt, PostEffect DEF TypeInv
  <2>6. CASE /\ PostRead(t) /\ pc' = [pc EXCEPT ![t] = "wait"] /\ page' = page
    BY ZenonT(100), <2>0, <2>1, <2>2, <2>3, <2>5, <2>6, TypeMove
  <2>7. CASE /\ PostRead(t) /\ pc' = [pc EXCEPT ![t] = "lookup"]
             /\ page' = [page EXCEPT ![t] = page[t] + 1]
    BY ZenonT(100), <2>0, <2>1, <2>2, <2>3, <2>5, <2>7, TypeMove
  <2>8. CASE /\ pc' = [pc EXCEPT ![t] = "protect"] /\ UNCHANGED <<wr, page>>
    BY ZenonT(100), <2>0, <2>1, <2>2, <2>3, <2>4, <2>5, <2>8, TypeMove
  <2>9. CASE UNCHANGED <<wr, page, pc>>
    BY ZenonT(100), <2>1, <2>9, TypeStay
  <2>. QED BY ZenonT(100), <2>6, <2>7, <2>8, <2>9, ReadOutcome
<1>10. ASSUME NEW t \in Actor, Protect(t) PROVE TypeInv'
  <2>. USE <1>10
  <2>1. /\ pc[t] = "protect" /\ page[t] \in PageId /\ page' = [page EXCEPT ![t] = page[t]] /\ wr' = wr
        /\ page[t] \in 0 .. num_pages /\ TypeRest
    <3>1. pc[t] = "protect" /\ AtPage(t)
      BY DEF Protect, At, AtPage, PageLabel
    <3>. QED BY ZenonT(100), <3>1, TypeAt DEF Protect, connVars
  <2>2. TypeRest'
    <3>1. prot' \in [PageId -> {"NONE", "RW"}]
      BY <2>1 DEF TypeRest, Protect
    <3>2. rate_limiter' \in [Thread -> Int]
      <4>1. t = CQ => wr # <<>>
        BY <2>1 DEF TypeInv
      <4>2. wr \in Seq(Rd)
        BY ZenonT(100), TypeAt
      <4>3. t = CQ => Head(wr) \in Rd
        BY <4>1, <4>2
      <4>4. t = CQ => Head(wr).actor \in Thread
        BY <4>3 DEF Rd
      <4>. QED BY <2>1, <4>4 DEF TypeRest, Protect
    <3>. QED BY ZenonT(100), <2>1, <3>1, <3>2 DEF TypeRest, Protect, connVars
  <2>3. "idle" \in Label \ PageLabel /\ "local" \in Label /\ "local" \in CQLabel
    BY DEF Label, PageLabel, CQLabel
  <2>4. PICK l \in {"idle", "local"} : pc' = [pc EXCEPT ![t] = l] /\ (t = CQ => l = "local")
    BY ZenonT(100), ActorFacts DEF Protect, Goto, IsHandler
  <2>5. t = CQ => pc[CQ] # "idle"
    BY <2>1
  <2>. QED BY ZenonT(100), <2>1, <2>2, <2>3, <2>4, <2>5, TypeGoto
<1>11. ASSUME NEW t \in Actor, SetPageState(t) PROVE TypeInv'
  <2>. USE <1>11
  <2>1. /\ pc[t] = "local" /\ page[t] \in PageId /\ page' = [page EXCEPT ![t] = page[t]] /\ wr' = wr
        /\ page[t] \in 0 .. num_pages /\ TypeRest /\ pc' = [pc EXCEPT ![t] = "count"]
    <3>1. pc[t] = "local" /\ AtPage(t)
      BY DEF SetPageState, At, AtPage, PageLabel
    <3>. QED BY ZenonT(100), <3>1, TypeAt DEF SetPageState, connVars, Goto
  <2>2. TypeRest'
    <3>1. ps' \in [PageId -> {"Remote", "InFlight", "Local"}]
      BY <2>1 DEF TypeRest, SetPageState
    <3>. QED BY ZenonT(100), <2>1, <3>1 DEF TypeRest, SetPageState, connVars
  <2>3. "count" \in Label /\ "count" \in CQLabel /\ (t = CQ => pc[CQ] # "idle")
    BY <2>1 DEF Label, CQLabel
  <2>. QED BY ZenonT(100), <2>1, <2>2, <2>3, TypeGoto
<1>12. ASSUME NEW t \in Actor, CountPage(t) PROVE TypeInv'
  <2>. USE <1>12
  <2>1. TypeRest /\ page = [page EXCEPT ![t] = page[t]] /\ page[t] \in 0 .. num_pages
    BY ZenonT(100), TypeAt
  <2>2. TypeRest'
    <3>1. local_pages' \in Nat
      BY <2>1, CountOutcome DEF TypeRest
    <3>. QED BY ZenonT(100), <2>1, <3>1 DEF TypeRest, CountPage
  <2>3. /\ "protect" \in Label /\ "lookup" \in Label \ PageLabel /\ "idle" \in Label \ PageLabel
        /\ "idle" \in CQLabel
    BY DEF Label, PageLabel, CQLabel
  <2>4. page[t] \in PageId /\ page[t] + 1 \in 0 .. num_pages
    BY ZenonT(100), CountOutcome, PageFacts
  <2>5. IsHandler(t) => t # CQ
    BY ZenonT(100), ActorFacts DEF IsHandler
  <2>6. CASE IsHandler(t) /\ pc' = [pc EXCEPT ![t] = "protect"] /\ page' = page /\ wr' = wr
    BY ZenonT(100), <2>1, <2>2, <2>3, <2>4, <2>5, <2>6, TypeGoto
  <2>7. CASE /\ t = CQ /\ pc' = [pc EXCEPT ![t] = "idle"] /\ page' = page
             /\ wr # <<>> /\ wr' = Tail(wr)
    <3>1. wr' \in Seq(Rd)
      BY ZenonT(100), <2>7, DropEffect
    <3>2. pc'[CQ] = "idle"
      BY ZenonT(100), <2>7, MovePc
    <3>. QED BY ZenonT(100), <2>1, <2>2, <2>3, <2>4, <2>7, <3>1, <3>2, TypeMove
  <2>8. CASE /\ t \in Thread /\ pc' = [pc EXCEPT ![t] = "lookup"] /\ wr' = wr
             /\ page' = [page EXCEPT ![t] = page[t] + 1]
    BY ZenonT(100), <2>1, <2>2, <2>3, <2>4, <2>8, ActorFacts, TypeGoto
  <2>. QED BY ZenonT(100), <2>6, <2>7, <2>8, CountOutcome
<1>13. ASSUME NEW t \in Thread, CheckAllPages(t) PROVE TypeInv'
  <2>. USE <1>13
  <2>1. /\ TypeRest /\ page' = [page EXCEPT ![t] = page[t]] /\ page[t] \in 0 .. num_pages /\ wr' = wr
        /\ t \in Actor /\ t # CQ
    BY ZenonT(100), ActorFacts, TypeAt DEF CheckAllPages, connVars
  <2>2. TypeRest'
    <3>1. state' \in {"Clean", "Shared"}
      BY ZenonT(100), <2>1 DEF TypeRest, CheckAllPages, UpdateState
    <3>. QED BY ZenonT(100), <2>1, <3>1 DEF TypeRest, CheckAllPages, pageVars, connVars
  <2>3. "idle" \in Label \ PageLabel /\ "close" \in Label \ PageLabel
    BY DEF Label, PageLabel
  <2>4. PICK l \in {"idle", "close"} : pc' = [pc EXCEPT ![t] = l]
    BY ZenonT(100) DEF CheckAllPages, Goto
  <2>. QED BY ZenonT(100), <2>1, <2>2, <2>3, <2>4, TypeGoto
<1>14. ASSUME NEW t \in Thread, CloseOpens(t) PROVE TypeInv'
  <2>. USE <1>14
  <2>1. /\ TypeRest /\ page = [page EXCEPT ![t] = page[t]] /\ page[t] \in 0 .. num_pages /\ wr' = wr
        /\ t \in Actor /\ t # CQ
    BY ZenonT(100), ActorFacts, TypeAt DEF CloseOpens, connVars
  <2>2. TypeRest'
    <3>1. prot' \in [PageId -> {"NONE", "RW"}] /\ snapshot' \in [Thread -> SUBSET PageId]
      BY <2>1 DEF TypeRest, CloseOpens
    <3>2. closing' \in [Thread -> BOOLEAN]
      BY <2>1 DEF TypeRest, CloseOpens
    <3>. QED BY ZenonT(100), <2>1, <3>1, <3>2 DEF TypeRest, CloseOpens, connVars
  <2>3. "lookup" \in Label \ PageLabel /\ "send" \in Label \ PageLabel
    BY DEF Label, PageLabel
  <2>4. PICK l \in {"lookup", "send"}, k \in {0, page[t]} :
          pc' = [pc EXCEPT ![t] = l] /\ page' = [page EXCEPT ![t] = k]
    BY ZenonT(100), <2>1 DEF CloseOpens, Goto
  <2>5. k \in 0 .. num_pages
    BY ZenonT(100), <2>1, <2>4, PageFacts
  <2>. QED BY ZenonT(100), <2>1, <2>2, <2>3, <2>4, <2>5, TypeGoto
<1>15. ASSUME NEW t \in Thread, SendClose(t) PROVE TypeInv'
  <2>. USE <1>15
  <2>1. /\ TypeRest /\ page' = [page EXCEPT ![t] = page[t]] /\ page[t] \in 0 .. num_pages /\ wr' = wr
        /\ t \in Actor /\ t # CQ
    BY ZenonT(100), ActorFacts, TypeAt DEF SendClose
  <2>2. TypeRest'
    BY ZenonT(100), <2>1 DEF TypeRest, SendClose, UpdateState, pageVars
  <2>3. "deregister" \in Label \ PageLabel
    BY DEF Label, PageLabel
  <2>4. pc' = [pc EXCEPT ![t] = "deregister"]
    BY ZenonT(100) DEF SendClose, Goto
  <2>. QED BY ZenonT(100), <2>1, <2>2, <2>3, <2>4, TypeGoto
<1>16. ASSUME NEW t \in Thread, CloseDeregisters(t) PROVE TypeInv'
  <2>. USE <1>16
  <2>1. /\ TypeRest /\ page' = [page EXCEPT ![t] = page[t]] /\ page[t] \in 0 .. num_pages /\ wr' = wr
        /\ t \in Actor /\ t # CQ
    BY ZenonT(100), ActorFacts, TypeAt DEF CloseDeregisters
  <2>2. TypeRest'
    BY ZenonT(100), <2>1 DEF TypeRest, CloseDeregisters, pageVars
  <2>3. "done" \in Label \ PageLabel
    BY DEF Label, PageLabel
  <2>4. pc' = [pc EXCEPT ![t] = "done"]
    BY ZenonT(100) DEF CloseDeregisters, Goto
  <2>. QED BY ZenonT(100), <2>1, <2>2, <2>3, <2>4, TypeGoto
<1>17. ASSUME NEW t \in Thread, Drain(t) PROVE TypeInv'
  <2>. USE <1>17
  <2>1. /\ TypeRest /\ page' = [page EXCEPT ![t] = page[t]] /\ page[t] \in 0 .. num_pages /\ wr' = wr
        /\ t \in Actor /\ t # CQ
    BY ZenonT(100), ActorFacts, TypeAt DEF Drain, connVars
  <2>2. TypeRest'
    BY ZenonT(100), <2>1 DEF TypeRest, Drain, pageVars, connVars
  <2>3. "done" \in Label \ PageLabel
    BY DEF Label, PageLabel
  <2>4. pc' = [pc EXCEPT ![t] = "done"]
    BY ZenonT(100) DEF Drain, Goto
  <2>. QED BY ZenonT(100), <2>1, <2>2, <2>3, <2>4, TypeGoto
<1>18. ASSUME OnClose PROVE TypeInv'
  <2>. USE <1>18
  <2>1. TypeRest
    BY ZenonT(100), TypeAt, ActorFacts
  <2>2. TypeRest'
    BY ZenonT(100), <2>1 DEF TypeRest, OnClose, pageVars, threadVars
  <2>. QED BY ZenonT(100), <2>2, TypeStay DEF OnClose, threadVars
<1>19. ASSUME OnCompletion PROVE TypeInv'
  <2>. USE <1>19
  <2>. DEFINE r == Head(wr)
  <2>1. /\ TypeRest /\ CQ \in Actor /\ r.actor \in Thread /\ r.actor \in Actor /\ r.actor # CQ
        /\ r.page \in PageId /\ r.page \in 0 .. num_pages /\ page[CQ] \in 0 .. num_pages
        /\ page = [page EXCEPT ![r.actor] = page[r.actor]]
    BY ZenonT(100), CompletionOutcome, HeadRead, ActorFacts, PageFacts, TypeAt
  <2>2. TypeRest'
    <3>1. data' \in [PageId -> {"empty", "partial", "source", "written"}]
      <4>1. data \in [PageId -> {"empty", "partial", "source", "written"}]
        BY <2>1 DEF TypeRest
      <4>2. data' = data \/ \E v \in {"source", "partial"} : data' = [data EXCEPT ![r.page] = v]
        BY ZenonT(100) DEF OnCompletion
      <4>. HIDE DEF r
      <4>. QED BY <2>1, <4>1, <4>2
    <3>2. user_mutex' \in Actor
      BY ZenonT(100), <2>1, CompletionOutcome DEF TypeRest
    <3>3. run' \in BOOLEAN
      BY ZenonT(100), <2>1, CompletionOutcome DEF TypeRest
    <3>. QED BY ZenonT(100), <2>1, <3>1, <3>2, <3>3 DEF TypeRest, OnCompletion
  <2>3. /\ "protect" \in Label /\ "protect" \in CQLabel
        /\ AfterPull(r.actor) \in Label
    BY DEF Label, CQLabel, AfterPull
  <2>. HIDE DEF r
  <2>4. CASE /\ pc' = [pc EXCEPT ![CQ] = "protect"] /\ page' = [page EXCEPT ![CQ] = r.page] /\ wr' = wr
             /\ wr # <<>>
    <3>1. wr \in Seq(Rd)
      BY ZenonT(100), <2>1, TypeAt
    <3>. QED BY ZenonT(100), <2>1, <2>2, <2>3, <2>4, <3>1, TypeMove
  <2>5. CASE /\ page[r.actor] = r.page /\ pc' = [pc EXCEPT ![r.actor] = AfterPull(r.actor)]
             /\ page' = page /\ wr' = Tail(wr) /\ wr # <<>> /\ pc[CQ] = "idle"
    <3>1. wr' \in Seq(Rd)
      BY ZenonT(100), <2>5, DropEffect
    <3>2. pc'[CQ] = "idle"
      BY ZenonT(100), <2>1, <2>5, MovePc
    <3>. QED BY ZenonT(100), <2>1, <2>2, <2>3, <2>5, <3>1, <3>2, TypeMove
  <2>6. CASE UNCHANGED <<wr, pc, page>>
    BY ZenonT(100), <2>2, <2>6, TypeStay
  <2>. QED BY ZenonT(100), <2>4, <2>5, <2>6, CompletionOutcome DEF r
<1>20. Thread \subseteq Actor /\ CQ \in Actor
  BY Zenon, ActorFacts
<1>21. ASSUME NEW t \in Thread, Step(t) PROVE TypeInv'
  BY ZenonT(100), <1>5, <1>6, <1>7, <1>8, <1>9, <1>10, <1>11, <1>12, <1>13, <1>14, <1>15, <1>16,
     <1>17, <1>20, <1>21 DEF Step
<1>22. ASSUME Completion PROVE TypeInv'
  BY ZenonT(100), <1>10, <1>11, <1>12, <1>19, <1>20, <1>22 DEF Completion
<1>. QED BY ZenonT(100), <1>1, <1>2, <1>3, <1>4, <1>18, <1>21, <1>22 DEF Next

-----------------------------------------------------------------------------
(* The owner of a page.                                                      *)

\* A step in which threads only give up pages, and that leaves the page table and the
\* reads alone.
LEMMA OwnQuiet ==
  ASSUME TypeInv, OwnInv, UNCHANGED <<ps, wr, user_mutex, program>>,
         pc'[CQ] = "count" <=> pc[CQ] = "count", pc'[CQ] # "idle" => pc[CQ] # "idle",
         page'[CQ] = page[CQ],
         \A t \in Thread :
           \/ pc'[t] = pc[t] /\ page'[t] = page[t]
           \/ /\ pc[t] # "wait" /\ \A p \in PageId : Owns(t, p)' => Owns(t, p)
              /\ IsAsync(t) => pc'[t] \notin {"wait", "protect", "local", "count"}
  PROVE  OwnInv'
<1>1. \A t \in Thread, p \in PageId : Owns(t, p)' => Owns(t, p)
  BY DEF Owns, IsHandler
<1>2. \A t : IsAsync(t)' <=> IsAsync(t)
  BY Zenon DEF IsAsync
<1>3. \A i : Counting(i)' <=> Counting(i)
  BY Zenon DEF Counting
<1>4. ASSUME NEW i \in 1 .. Len(wr) PROVE ReadOf(i)' /\ wr'[i] = wr[i]
  <2>1. wr[i].page \in PageId /\ wr[i].actor \in Thread
    <3>1. wr \in Seq(Rd)
      BY ZenonT(100), TypeAt, ActorFacts
    <3>2. wr[i] \in Rd
      BY <3>1
    <3>. QED BY <3>2 DEF Rd
  <2>2. ReadOf(i)
    BY Zenon DEF OwnInv, Pending
  <2>3. CASE IsAsync(wr[i].actor)
    BY ZenonT(100), <1>1, <1>2, <2>1, <2>2, <2>3 DEF ReadOf
  <2>4. CASE ~IsAsync(wr[i].actor)
    BY ZenonT(100), <1>2, <2>1, <2>2, <2>4 DEF ReadOf
  <2>. QED BY Zenon, <2>3, <2>4
<1>5. \A t \in Thread : IsAsync(t) => pc'[t] \notin {"wait", "protect", "local", "count"}
  BY ZenonT(100) DEF OwnInv, PostsOnly
<1>6. Claimed' /\ OneOwner'
  BY ZenonT(100), <1>1 DEF OwnInv, Claimed, OneOwner
<1>7. PostsOnly'
  BY ZenonT(100), <1>2, <1>5 DEF PostsOnly
<1>8. Pending' /\ OneRead'
  BY ZenonT(100), <1>3, <1>4 DEF OwnInv, Pending, OneRead
<1>9. OldestRead'
  BY ZenonT(100), <1>2 DEF OwnInv, OldestRead
<1>. QED BY Zenon, <1>6, <1>7, <1>8, <1>9 DEF OwnInv

\* The move of one thread that owns no page afterwards, or the one it owned before.
LEMMA OwnMove ==
  ASSUME TypeInv, OwnInv, UNCHANGED <<ps, wr, user_mutex, program>>,
         NEW t \in Thread, NEW l, NEW k, pc[t] # "wait",
         pc' = [pc EXCEPT ![t] = l], page' = [page EXCEPT ![t] = k],
         l \notin {"post", "wait", "protect", "local", "count"}
  PROVE  OwnInv'
<1>1. t \in Actor /\ t # CQ /\ CQ \in Actor /\ Thread \subseteq Actor
  BY Zenon, ActorFacts
<1>2. /\ pc'[t] = l /\ \A u \in Actor : u # t => pc'[u] = pc[u]
      /\ \A u \in Actor : u # t => page'[u] = page[u]
  BY ZenonT(100), <1>1, MoveBoth
<1>3. \A p \in PageId : ~Owns(t, p)'
  BY <1>2 DEF Owns
<1>. QED BY ZenonT(100), <1>1, <1>2, <1>3, OwnQuiet

LEMMA OwnStay ==
  ASSUME TypeInv, OwnInv, UNCHANGED <<ps, wr, user_mutex, program, pc, page>>
  PROVE  OwnInv'
BY ZenonT(100), OwnQuiet

\* The labels at which a thread owns no page.
LEMMA FreeLabel ==
  ASSUME NEW l \in {"idle", "lookup", "limit", "claim", "check", "close", "send", "deregister",
                    "drain", "done"}
  PROVE  l \notin {"post", "wait", "protect", "local", "count"}
OBVIOUS

LEMMA ReadFacts ==
  ASSUME TypeInv, OwnInv, NEW i \in 1 .. Len(wr)
  PROVE  /\ wr[i].actor \in Thread /\ wr[i].page \in PageId /\ ReadOf(i)
         /\ ps[wr[i].page] = IF Counting(i) THEN "Local" ELSE "InFlight"
         /\ IsAsync(wr[i].actor) => \A t \in Thread : ~Owns(t, wr[i].page)
         /\ ~IsAsync(wr[i].actor) => /\ pc[wr[i].actor] = "wait" /\ user_mutex = wr[i].actor
                                     /\ page[wr[i].actor] = wr[i].page
<1>1. wr \in Seq(Rd)
  BY ZenonT(100), TypeAt, ActorFacts
<1>2. wr[i] \in Rd
  BY <1>1
<1>3. wr[i].actor \in Thread /\ wr[i].page \in PageId
  BY <1>2 DEF Rd
<1>4. ReadOf(i) /\ ps[wr[i].page] = IF Counting(i) THEN "Local" ELSE "InFlight"
  BY Zenon DEF OwnInv, Pending
<1>. QED BY ZenonT(100), <1>3, <1>4 DEF ReadOf

\* A store into the page table.
LEMMA StorePoint ==
  ASSUME TypeInv, NEW q \in PageId, NEW v, ps' = [ps EXCEPT ![q] = v]
  PROVE  ps'[q] = v /\ \A p \in PageId : p # q => ps'[p] = ps[p]
<1>1. ps \in [PageId -> {"Remote", "InFlight", "Local"}]
  BY Zenon, TypeSplit DEF TypeInv, TypeRest
<1>. QED BY <1>1

\* Whether a thread owns a page depends on where it is.
LEMMA OwnsKept ==
  ASSUME NEW u \in Thread, pc'[u] = pc[u], page'[u] = page[u], program' = program
  PROVE  \A p : Owns(u, p)' <=> Owns(u, p)
BY Zenon DEF Owns, IsHandler

\* The oldest read leaves the queue, and the reads behind it find what they found.
LEMMA OwnDrop ==
  ASSUME TypeInv, OwnInv, wr # <<>>, wr' = Tail(wr), ps' = ps, program' = program, pc'[CQ] = "idle",
         PostsOnly', \A u \in Thread : \A p : Owns(u, p)' <=> Owns(u, p),
         \A i \in 2 .. Len(wr) : ~IsAsync(wr[i].actor) =>
           /\ pc'[wr[i].actor] = "wait" /\ page'[wr[i].actor] = wr[i].page
           /\ user_mutex' = wr[i].actor
  PROVE  OwnInv'
<1>1. Claimed' /\ OneOwner'
  BY DEF OwnInv, Claimed, OneOwner
<1>2. /\ Len(wr) \in Nat /\ Len(wr') = Len(wr) - 1
      /\ \A i \in 1 .. Len(wr') : i + 1 \in 1 .. Len(wr) /\ wr'[i] = wr[i + 1]
  BY ZenonT(100), DropEffect
<1>3. \A i \in 1 .. Len(wr') : i \in Nat /\ i + 1 \in 2 .. Len(wr) /\ i + 1 # 1
  BY <1>2
<1>4. ASSUME NEW i \in 1 .. Len(wr')
      PROVE  ReadOf(i)' /\ ps'[wr'[i].page] = IF Counting(i)' THEN "Local" ELSE "InFlight"
  <2>1. PICK j \in 2 .. Len(wr) : j \in 1 .. Len(wr) /\ wr'[i] = wr[j] /\ j # 1
    BY ZenonT(100), <1>2, <1>3
  <2>2. ~Counting(j) /\ ~Counting(i)'
    BY <2>1 DEF Counting
  <2>3. ps'[wr'[i].page] = IF Counting(i)' THEN "Local" ELSE "InFlight"
    BY ZenonT(100), <2>1, <2>2, ReadFacts
  <2>4. IsAsync(wr[j].actor) => \A u \in Thread : ~Owns(u, wr[j].page)
    BY ZenonT(100), <2>1, ReadFacts
  <2>. DEFINE a == wr[j].actor
              p == wr[j].page
  <2>5. wr'[i].actor = a /\ wr'[i].page = p
    BY Zenon, <2>1
  <2>. HIDE DEF a, p
  <2>6. PICK b, r : b = a /\ r = p
    OBVIOUS
  <2>7. IsAsync(b) => \A u \in Thread : ~Owns(u, r)'
    BY <2>4, <2>6 DEF a, p
  <2>8. ~IsAsync(b) => pc'[b] = "wait" /\ page'[b] = r /\ user_mutex' = b
    BY ZenonT(100), <2>1, <2>6 DEF a, p
  <2>9. IsAsync(b)' <=> IsAsync(b)
    BY Zenon DEF IsAsync
  <2>10. wr'[i].actor = b /\ wr'[i].page = r
    BY Zenon, <2>5, <2>6
  <2>11. ReadOf(i)'
    BY ZenonT(100), <2>7, <2>8, <2>9, <2>10 DEF ReadOf
  <2>. QED BY Zenon, <2>3, <2>11
<1>5. ASSUME NEW i \in 1 .. Len(wr'), NEW j \in 1 .. Len(wr'), wr'[i].page = wr'[j].page
      PROVE  i = j
  <2>1. i + 1 \in 1 .. Len(wr) /\ j + 1 \in 1 .. Len(wr) /\ wr[i + 1].page = wr[j + 1].page
    BY ZenonT(100), <1>2, <1>5
  <2>2. i + 1 = j + 1
    BY ZenonT(100), <2>1 DEF OwnInv, OneRead
  <2>. QED BY <1>3, <2>2
<1>6. Pending' /\ OneRead'
  BY ZenonT(100), <1>4, <1>5 DEF Pending, OneRead
<1>. QED BY ZenonT(100), <1>1, <1>6 DEF OwnInv, OldestRead

\* A read is posted for a page that its thread owns and keeps, or hands to the read.
LEMMA OwnPost ==
  ASSUME TypeInv, OwnInv, NEW t \in Thread, page[t] \in PageId, pc[t] = "post", user_mutex = CQ,
         PostRead(t), UNCHANGED <<ps, program>>, pc'[CQ] = pc[CQ], page'[CQ] = page[CQ],
         \A u \in Thread : u # t => pc'[u] = pc[u] /\ page'[u] = page[u],
         \/ IsAsync(t) /\ pc'[t] = "lookup"
         \/ ~IsAsync(t) /\ pc'[t] = "wait" /\ page'[t] = page[t] /\ user_mutex' = t
  PROVE  OwnInv'
<1>0. PICK q \in PageId : q = page[t]
  OBVIOUS
<1>1. /\ Len(wr') = Len(wr) + 1 /\ Len(wr) \in Nat /\ wr' # <<>>
      /\ \A i \in 1 .. Len(wr) : wr'[i] = wr[i]
      /\ wr'[Len(wr) + 1] = [actor |-> t, page |-> q, length |-> Length(t)]
      /\ wr # <<>> => Head(wr') = Head(wr)
  BY ZenonT(100), <1>0, PostEffect
<1>2. t # CQ /\ \A i \in 1 .. Len(wr) : IsAsync(wr[i].actor)
  BY ZenonT(100), ReadFacts, ActorFacts
<1>3. \A u \in Thread : u # t => \A p : Owns(u, p)' <=> Owns(u, p)
  BY ZenonT(100), OwnsKept
<1>4. \A p : Owns(t, p) <=> p = q
  BY ZenonT(100), <1>0 DEF Owns
<1>5. /\ IsAsync(t) => \A p : ~Owns(t, p)'
      /\ ~IsAsync(t) => \A p : Owns(t, p)' <=> p = q
  BY ZenonT(100), <1>0 DEF Owns
<1>6. \A u \in Thread : \A p : Owns(u, p)' => Owns(u, p)
  BY <1>3, <1>4, <1>5
<1>7. Claimed' /\ OneOwner'
  BY <1>6 DEF OwnInv, Claimed, OneOwner
<1>8. PostsOnly'
  BY DEF OwnInv, PostsOnly, IsAsync
<1>9. ps[q] = "InFlight" /\ \A u \in Thread : u # t => ~Owns(u, q)
  BY <1>4 DEF OwnInv, Claimed, OneOwner
<1>10. ASSUME NEW i \in 1 .. Len(wr)
       PROVE  /\ ReadOf(i)' /\ ps'[wr'[i].page] = IF Counting(i)' THEN "Local" ELSE "InFlight"
              /\ wr'[i].page # q
  <2>1. PICK a, p : a = wr[i].actor /\ p = wr[i].page
    BY Zenon
  <2>2. wr'[i].actor = a /\ wr'[i].page = p
    BY Zenon, <1>1, <2>1
  <2>3. /\ IsAsync(a) /\ (\A u \in Thread : ~Owns(u, p))
        /\ ps[p] = IF Counting(i) THEN "Local" ELSE "InFlight"
    BY ZenonT(100), <1>2, <2>1, ReadFacts
  <2>4. \A u \in Thread : ~Owns(u, p)'
    BY Zenon, <1>6, <2>3
  <2>5. (Counting(i)' <=> Counting(i)) /\ (IsAsync(a)' <=> IsAsync(a))
    BY Zenon DEF Counting, IsAsync
  <2>6. p # q
    BY Zenon, <1>4, <2>3
  <2>. QED BY ZenonT(100), <2>2, <2>3, <2>4, <2>5, <2>6 DEF ReadOf
<1>11. PICK n : n = Len(wr) + 1
  BY Zenon
<1>12. /\ wr'[n].page = q /\ wr'[n].actor = t /\ n \in 1 .. Len(wr')
       /\ \A i \in 1 .. Len(wr') : i # n => i \in 1 .. Len(wr)
  BY <1>1, <1>11
<1>13. ReadOf(n)' /\ ps'[wr'[n].page] = IF Counting(n)' THEN "Local" ELSE "InFlight"
  <2>1. ~Counting(n)'
    <3>1. n = 1 => Len(wr) = 0
      BY <1>1, <1>11
    <3>2. wr \in Seq(Rd)
      BY ZenonT(100), TypeAt, ActorFacts
    <3>3. n = 1 => wr = <<>>
      BY <3>1, <3>2
    <3>4. pc[CQ] # "idle" => wr # <<>>
      BY Zenon DEF TypeInv
    <3>. QED BY ZenonT(100), <1>0, <3>3, <3>4 DEF Counting
  <2>2. ps'[wr'[n].page] = IF Counting(n)' THEN "Local" ELSE "InFlight"
    BY ZenonT(100), <1>9, <1>12, <2>1
  <2>3. CASE IsAsync(t)
    <3>1. (\A u \in Thread : ~Owns(u, q)') /\ IsAsync(t)'
      BY <1>3, <1>5, <1>9, <2>3 DEF IsAsync
    <3>. QED BY ZenonT(100), <1>12, <2>2, <3>1 DEF ReadOf
  <2>4. CASE ~IsAsync(t)
    <3>1. ~IsAsync(t)' /\ pc'[t] = "wait" /\ page'[t] = q /\ user_mutex' = t
      BY ZenonT(100), <1>0, <2>4 DEF IsAsync
    <3>. QED BY ZenonT(100), <1>12, <2>2, <3>1 DEF ReadOf
  <2>. QED BY Zenon, <2>3, <2>4
<1>14. Pending'
  BY ZenonT(100), <1>10, <1>12, <1>13 DEF Pending
<1>15. ASSUME NEW i \in 1 .. Len(wr'), NEW j \in 1 .. Len(wr'), wr'[i].page = wr'[j].page
       PROVE  i = j
  <2>1. CASE i = n \/ j = n
    BY ZenonT(100), <1>10, <1>12, <1>15, <2>1
  <2>2. CASE i # n /\ j # n
    <3>1. i \in 1 .. Len(wr) /\ j \in 1 .. Len(wr) /\ wr[i].page = wr[j].page
      BY ZenonT(100), <1>1, <1>12, <1>15, <2>2
    <3>. QED BY ZenonT(100), <3>1 DEF OwnInv, OneRead
  <2>. QED BY <2>1, <2>2
<1>16. OldestRead'
  <2>1. pc'[CQ] # "idle" => pc[CQ] # "idle" /\ Head(wr') = Head(wr)
    BY ZenonT(100), <1>1 DEF TypeInv
  <2>2. \A b : IsAsync(b)' <=> IsAsync(b)
    BY Zenon DEF IsAsync
  <2>. QED BY ZenonT(100), <2>1, <2>2 DEF OwnInv, OldestRead
<1>. QED BY ZenonT(100), <1>7, <1>8, <1>14, <1>15, <1>16 DEF OwnInv, OneRead

LEMMA OwnInvInit == Init => OwnInv
<1>. SUFFICES ASSUME Init PROVE OwnInv
  OBVIOUS
<1>1. wr = <<>> /\ \A t \in Actor : pc[t] = "idle"
  BY ZenonT(100) DEF Init
<1>2. Len(wr) = 0
  BY <1>1
<1>3. Pending /\ OneRead
  BY <1>2 DEF Pending, OneRead
<1>4. \A t \in Thread : pc[t] = "idle"
  BY Zenon, <1>1, ActorFacts
<1>5. Claimed /\ OneOwner /\ PostsOnly
  BY <1>4 DEF Claimed, OneOwner, PostsOnly, Owns
<1>6. OldestRead
  BY ZenonT(100), <1>1, ActorFacts DEF OldestRead
<1>. QED BY <1>3, <1>5, <1>6 DEF OwnInv

\* Every step preserves the ownership of the pages in flight.
LEMMA OwnInvStep == ASSUME TypeInv, OwnInv, [Next]_vars PROVE OwnInv'
<1>1. CASE UNCHANGED vars
  BY ZenonT(100), <1>1, OwnStay DEF vars, pageVars, connVars, threadVars
<1>2. ASSUME OnTransfer PROVE OwnInv'
  BY ZenonT(100), <1>2, OwnStay DEF OnTransfer, connVars, threadVars
<1>3. ASSUME NEW t \in Thread, NEW p \in PageId, Write(t, p) PROVE OwnInv'
  BY ZenonT(100), <1>3, OwnStay DEF Write, connVars, threadVars
<1>4. ASSUME OnClose PROVE OwnInv'
  BY ZenonT(100), <1>4, OwnStay DEF OnClose, pageVars, threadVars
<1>5. ASSUME NEW t \in Thread, NEW p \in PageId, Fault(t, p) PROVE OwnInv'
  <2>. USE <1>5
  <2>1. /\ pc' = [pc EXCEPT ![t] = "claim"] /\ page' = [page EXCEPT ![t] = p] /\ pc[t] = "idle"
        /\ UNCHANGED <<ps, wr, user_mutex, program>>
    BY ZenonT(100) DEF Fault, Goto, At, pageVars, connVars
  <2>2. pc[t] # "wait" /\ "claim" \notin {"post", "wait", "protect", "local", "count"}
    BY <2>1
  <2>. QED BY ZenonT(100), <2>1, <2>2, OwnMove
<1>6. ASSUME NEW t \in Thread, BeginPull(t) PROVE OwnInv'
  <2>. USE <1>6
  <2>1. /\ pc' = [pc EXCEPT ![t] = "lookup"] /\ page' = [page EXCEPT ![t] = 0] /\ pc[t] = "idle"
        /\ UNCHANGED <<ps, wr, user_mutex, program>>
    BY ZenonT(100) DEF BeginPull, Goto, At, pageVars, connVars
  <2>2. pc[t] # "wait" /\ "lookup" \notin {"post", "wait", "protect", "local", "count"}
    BY <2>1
  <2>. QED BY ZenonT(100), <2>1, <2>2, OwnMove
<1>7. ASSUME NEW t \in Thread, Lookup(t) PROVE OwnInv'
  <2>. USE <1>7
  <2>1. UNCHANGED <<ps, wr, user_mutex, program>> /\ pc[t] = "lookup"
    BY ZenonT(100) DEF Lookup, At, pageVars, connVars
  <2>2. pc[t] # "wait" /\ page = [page EXCEPT ![t] = page[t]] /\ pc = [pc EXCEPT ![t] = "lookup"]
    BY <2>1, TypeAt, ActorFacts
  <2>3. PICK l \in {"idle", "lookup", "limit", "claim", "check", "close", "send", "deregister",
                    "drain", "done"}, k \in {page[t], page[t] + 1} :
          pc' = [pc EXCEPT ![t] = l] /\ page' = [page EXCEPT ![t] = k]
    BY ZenonT(100), <2>2, LookupOutcome
  <2>. QED BY ZenonT(100), <2>1, <2>2, <2>3, FreeLabel, OwnMove
<1>8. ASSUME NEW t \in Thread, Limit(t) PROVE OwnInv'
  <2>. USE <1>8
  <2>1. /\ pc' = [pc EXCEPT ![t] = "claim"] /\ page' = page /\ pc[t] = "limit"
        /\ UNCHANGED <<ps, wr, user_mutex, program>>
    BY ZenonT(100) DEF Limit, Goto, At, pageVars, connVars
  <2>2. /\ pc[t] # "wait" /\ "claim" \notin {"post", "wait", "protect", "local", "count"}
        /\ page = [page EXCEPT ![t] = page[t]]
    BY <2>1, TypeAt, ActorFacts
  <2>. QED BY ZenonT(100), <2>1, <2>2, OwnMove
\* The winner of the compare and swap owns the page.
<1>9. ASSUME NEW t \in Thread, Claim(t) PROVE OwnInv'
  <2>. USE <1>9
  <2>1. /\ t \in Actor /\ t # CQ /\ CQ \in Actor /\ Thread \subseteq Actor /\ pc[t] = "claim"
        /\ page[t] \in PageId /\ page = [page EXCEPT ![t] = page[t]]
        /\ UNCHANGED <<wr, user_mutex, program>>
    <3>1. t \in Actor /\ pc[t] = "claim" /\ AtPage(t)
      BY Zenon, PageAt
    <3>. QED BY ZenonT(100), <3>1, ActorFacts, TypeAt DEF Claim, connVars
  <2>2. pc[t] # "wait" /\ (\A p : ~Owns(t, p)) /\ IsAsync(t)' = IsAsync(t)
    BY <2>1 DEF Owns, IsAsync
  <2>3. CASE /\ ps[page[t]] = "Remote" /\ ps' = [ps EXCEPT ![page[t]] = "InFlight"]
             /\ pc' = [pc EXCEPT ![t] = "post"] /\ page' = page
    <3>1. /\ pc'[t] = "post" /\ \A u \in Actor : u # t => pc'[u] = pc[u]
          /\ ps'[page[t]] = "InFlight" /\ \A p \in PageId : p # page[t] => ps'[p] = ps[p]
      BY ZenonT(100), <2>1, <2>3, MovePc, StorePoint
    <3>2. \A u \in Thread : u # t => \A p : Owns(u, p)' <=> Owns(u, p)
      BY ZenonT(100), <2>1, <2>3, <3>1, OwnsKept
    <3>3. \A p : Owns(t, p)' <=> p = page[t]
      BY <2>3, <3>1 DEF Owns
    <3>4. "Remote" # "InFlight" /\ "Remote" # "Local"
      OBVIOUS
    <3>5. \A u \in Thread : ~Owns(u, page[t])
      BY ZenonT(100), <2>1, <2>3, <3>4 DEF OwnInv, Claimed
    <3>6. Claimed'
      BY <2>1, <2>2, <3>1, <3>2, <3>3 DEF OwnInv, Claimed
    <3>7. OneOwner'
      BY <3>2, <3>3, <3>5 DEF OwnInv, OneOwner
    <3>8. PostsOnly'
      BY <2>1, <3>1 DEF OwnInv, PostsOnly, IsAsync
    <3>9. ASSUME NEW i \in 1 .. Len(wr)
          PROVE  ReadOf(i)' /\ ps'[wr[i].page] = IF Counting(i)' THEN "Local" ELSE "InFlight"
      <4>1. wr[i].page \in PageId /\ wr[i].actor \in Thread /\ wr[i].page # page[t]
        BY ZenonT(100), <2>3, <3>4, ReadFacts
      <4>2. ps'[wr[i].page] = IF Counting(i)' THEN "Local" ELSE "InFlight"
        BY ZenonT(100), <2>1, <3>1, <4>1, ReadFacts DEF Counting
      <4>3. CASE IsAsync(wr[i].actor)
        <5>1. \A u \in Thread : ~Owns(u, wr[i].page)
          BY ZenonT(100), <4>3, ReadFacts
        <5>2. \A u \in Thread : ~Owns(u, wr[i].page)'
          BY <2>1, <3>2, <3>3, <4>1, <5>1
        <5>. QED BY ZenonT(100), <2>1, <4>2, <4>3, <5>2 DEF ReadOf, IsAsync
      <4>4. CASE ~IsAsync(wr[i].actor)
        <5>1. pc[wr[i].actor] = "wait" /\ wr[i].actor # t /\ wr[i].actor \in Actor
          BY ZenonT(100), <2>1, <2>2, <4>1, <4>4, ReadFacts
        <5>2. pc'[wr[i].actor] = "wait" /\ page'[wr[i].actor] = wr[i].page /\ user_mutex' = wr[i].actor
          BY ZenonT(100), <2>1, <2>3, <3>1, <4>4, <5>1, ReadFacts
        <5>. QED BY ZenonT(100), <2>1, <4>2, <4>4, <5>2 DEF ReadOf, IsAsync
      <4>. QED BY Zenon, <4>3, <4>4
    <3>10. Pending' /\ OneRead'
      BY ZenonT(100), <2>1, <3>9 DEF OwnInv, Pending, OneRead
    <3>11. OldestRead'
      BY <2>1, <2>3, <3>1 DEF OwnInv, OldestRead, IsAsync
    <3>. QED BY ZenonT(100), <3>6, <3>7, <3>8, <3>10, <3>11 DEF OwnInv
  <2>4. CASE /\ ps' = ps /\ pc' = [pc EXCEPT ![t] = IF program[t] = "app" THEN "idle" ELSE "lookup"]
             /\ page' = IF program[t] = "app" THEN page ELSE [page EXCEPT ![t] = page[t] + 1]
    <3>1. PICK l \in {"idle", "lookup"}, k \in {page[t], page[t] + 1} :
            pc' = [pc EXCEPT ![t] = l] /\ page' = [page EXCEPT ![t] = k]
      BY ZenonT(100), <2>1, <2>4
    <3>2. l \notin {"post", "wait", "protect", "local", "count"}
      BY <3>1
    <3>. QED BY ZenonT(100), <2>1, <2>2, <2>4, <3>1, <3>2, OwnMove
  <2>. QED BY ZenonT(100), <2>3, <2>4 DEF Claim, Goto
<1>10. ASSUME NEW t \in Thread, Read(t) PROVE OwnInv'
  <2>. USE <1>10
  <2>1. /\ pc[t] = "post" /\ page[t] \in PageId /\ user_mutex = CQ /\ UNCHANGED <<ps, program>>
        /\ t \in Actor /\ t # CQ /\ CQ \in Actor /\ Thread \subseteq Actor
    BY ZenonT(100), ReadOutcome, ActorFacts DEF Read, pageVars
  <2>2. CASE /\ ~IsAsync(t) /\ PostRead(t) /\ pc' = [pc EXCEPT ![t] = "wait"]
             /\ user_mutex' = t /\ page' = page
    <3>1. pc'[t] = "wait" /\ \A u \in Actor : u # t => pc'[u] = pc[u]
      BY ZenonT(100), <2>1, <2>2, MovePc
    <3>. QED BY ZenonT(100), <2>1, <2>2, <3>1, OwnPost
  <2>3. CASE /\ IsAsync(t) /\ PostRead(t) /\ pc' = [pc EXCEPT ![t] = "lookup"]
             /\ page' = [page EXCEPT ![t] = page[t] + 1]
    <3>1. pc'[t] = "lookup" /\ \A u \in Actor : u # t => pc'[u] = pc[u]
      BY ZenonT(100), <2>1, <2>3, MovePc
    <3>2. \A u \in Actor : u # t => page'[u] = page[u]
      BY ZenonT(100), <2>1, <2>3, MovePage
    <3>. QED BY ZenonT(100), <2>1, <2>3, <3>1, <3>2, OwnPost
  <2>4. CASE /\ ~IsAsync(t) /\ program[t] # "app" /\ pc' = [pc EXCEPT ![t] = "protect"]
             /\ UNCHANGED <<wr, user_mutex, page>>
    <3>1. pc'[t] = "protect" /\ \A u \in Actor : u # t => pc'[u] = pc[u]
      BY ZenonT(100), <2>1, <2>4, MovePc
    <3>2. pc[t] # "wait" /\ \A p \in PageId : Owns(t, p)' => Owns(t, p)
      BY <2>1, <2>4 DEF Owns
    <3>. QED BY ZenonT(100), <2>1, <2>4, <3>1, <3>2, OwnQuiet
  <2>5. CASE UNCHANGED <<wr, user_mutex, page, pc>>
    BY ZenonT(100), <2>1, <2>5, OwnStay
  <2>. QED BY ZenonT(100), <2>2, <2>3, <2>4, <2>5, ReadOutcome
<1>11. ASSUME NEW t \in Actor, Protect(t) PROVE OwnInv'
  <2>. USE <1>11
  <2>1. pc[t] = "protect" /\ page' = page /\ UNCHANGED <<ps, wr, user_mutex, program>>
    BY ZenonT(100) DEF Protect, At, connVars
  <2>2. pc[t] # "wait" /\ page = [page EXCEPT ![t] = page[t]]
    BY <2>1, TypeAt
  <2>3. CASE IsHandler(t)
    <3>1. t \in Thread /\ pc' = [pc EXCEPT ![t] = "idle"]
      BY ZenonT(100), <2>3 DEF Protect, Goto, IsHandler
    <3>2. "idle" \notin {"post", "wait", "protect", "local", "count"}
      OBVIOUS
    <3>. QED BY ZenonT(100), <2>1, <2>2, <3>1, <3>2, OwnMove
  <2>4. CASE ~IsHandler(t)
    <3>1. pc' = [pc EXCEPT ![t] = "local"]
      BY ZenonT(100), <2>4 DEF Protect, Goto
    <3>2. pc'[t] = "local" /\ \A u \in Actor : u # t => pc'[u] = pc[u]
      BY ZenonT(100), <3>1, MovePc
    <3>3. t \in Thread => ~IsAsync(t) /\ \A p \in PageId : Owns(t, p)' => Owns(t, p)
      BY <2>1, <2>4, <3>2 DEF OwnInv, PostsOnly, Owns
    <3>4. (pc'[CQ] = "count" <=> pc[CQ] = "count") /\ (pc'[CQ] # "idle" => pc[CQ] # "idle")
      BY <2>1, <3>2, ActorFacts
    <3>5. \A u \in Thread : u # t => pc'[u] = pc[u] /\ page'[u] = page[u]
      BY ZenonT(100), <2>1, <3>2, ActorFacts
    <3>. QED BY ZenonT(100), <2>1, <2>2, <3>3, <3>4, <3>5, OwnQuiet
  <2>. QED BY <2>3, <2>4
\* The owner stores that the page is Local.
<1>12. ASSUME NEW t \in Actor, SetPageState(t) PROVE OwnInv'
  <2>. USE <1>12
  <2>. DEFINE q == page[t]
  <2>1. /\ pc[t] = "local" /\ q \in PageId /\ page' = page /\ UNCHANGED <<wr, user_mutex, program>>
        /\ ps' = [ps EXCEPT ![q] = "Local"] /\ pc' = [pc EXCEPT ![t] = "count"]
    <3>1. pc[t] = "local" /\ AtPage(t)
      BY DEF SetPageState, At, AtPage, PageLabel
    <3>. QED BY ZenonT(100), <3>1, TypeAt DEF SetPageState, connVars, Goto
  <2>2. /\ pc'[t] = "count" /\ \A u \in Actor : u # t => pc'[u] = pc[u]
        /\ ps'[q] = "Local" /\ \A p \in PageId : p # q => ps'[p] = ps[p]
    BY ZenonT(100), <2>1, MovePc, StorePoint
  <2>3. CQ \in Actor /\ Thread \subseteq Actor /\ CQ \notin Thread
    BY Zenon, ActorFacts
  <2>4. t = CQ => /\ 1 \in 1 .. Len(wr) /\ wr[1].page = q /\ IsAsync(wr[1].actor)
    <3>. SUFFICES ASSUME t = CQ PROVE 1 \in 1 .. Len(wr) /\ wr[1].page = q /\ IsAsync(wr[1].actor)
      OBVIOUS
    <3>1. pc[CQ] # "idle"
      BY <2>1
    <3>2. wr # <<>> /\ IsAsync(Head(wr).actor) /\ Head(wr).page = page[CQ]
      BY ZenonT(100), <3>1 DEF TypeInv, OwnInv, OldestRead
    <3>. QED BY ZenonT(100), <3>2, HeadRead
  <2>5. t \in Thread => Owns(t, q)
    BY <2>1 DEF Owns
  <2>6. \A u \in Thread : u # t => ~Owns(u, q)
    <3>1. CASE t \in Thread
      BY ZenonT(100), <2>1, <2>5, <3>1 DEF OwnInv, OneOwner
    <3>2. CASE t = CQ
      BY ZenonT(100), <2>4, <3>2, ReadFacts
    <3>. QED BY <3>1, <3>2 DEF Actor
  <2>7. \A u \in Thread : u # t => \A p : Owns(u, p)' <=> Owns(u, p)
    BY ZenonT(100), <2>1, <2>2, <2>3, OwnsKept
  <2>8. t \in Thread => \A p : ~Owns(t, p)'
    BY ZenonT(100), <2>2 DEF Owns
  <2>9. Claimed'
    BY <2>2, <2>6, <2>7, <2>8 DEF OwnInv, Claimed
  <2>10. OneOwner'
    BY <2>7, <2>8 DEF OwnInv, OneOwner
  <2>11. PostsOnly'
    BY <2>1, <2>2, <2>3 DEF OwnInv, PostsOnly, IsAsync
  <2>12. ASSUME NEW i \in 1 .. Len(wr), wr[i].page = q PROVE t = CQ /\ i = 1
    <3>1. ~IsAsync(wr[i].actor) => FALSE
      <4>. SUFFICES ASSUME ~IsAsync(wr[i].actor) PROVE FALSE
        OBVIOUS
      <4>1. /\ wr[i].actor \in Thread /\ pc[wr[i].actor] = "wait" /\ page[wr[i].actor] = q
        BY ZenonT(100), <2>12, ReadFacts
      <4>2. Owns(wr[i].actor, q) /\ wr[i].actor # t
        BY <2>1, <4>1 DEF Owns
      <4>. QED BY ZenonT(100), <2>6, <4>1, <4>2
    <3>2. t \notin Thread
      BY ZenonT(100), <2>5, <2>12, <3>1, ReadFacts
    <3>3. t = CQ
      BY <3>2 DEF Actor
    <3>. QED BY ZenonT(100), <2>4, <2>12, <3>3 DEF OwnInv, OneRead
  <2>13. ASSUME NEW i \in 1 .. Len(wr)
         PROVE  ReadOf(i)' /\ ps'[wr[i].page] = IF Counting(i)' THEN "Local" ELSE "InFlight"
    <3>1. wr[i].page \in PageId /\ wr[i].actor \in Thread
      BY Zenon, ReadFacts
    <3>2. CASE wr[i].page = q
      <4>1. t = CQ /\ i = 1
        BY Zenon, <2>12, <3>2
      <4>2. Counting(i)' /\ ps'[wr[i].page] = "Local"
        BY <2>2, <3>2, <4>1 DEF Counting
      <4>3. \A u \in Thread : ~Owns(u, q)
        BY ZenonT(100), <2>3, <2>6, <4>1
      <4>4. \A u \in Thread : ~Owns(u, wr[i].page)'
        BY <2>1, <2>3, <2>7, <3>2, <4>1, <4>3
      <4>. QED BY ZenonT(100), <2>1, <2>4, <4>1, <4>2, <4>4 DEF ReadOf, IsAsync
    <3>3. CASE wr[i].page # q
      <4>1. Counting(i)' <=> Counting(i)
        BY <2>2, <2>4, <3>3, ActorFacts DEF Counting
      <4>2. ps'[wr[i].page] = IF Counting(i)' THEN "Local" ELSE "InFlight"
        BY ZenonT(100), <2>2, <3>1, <3>3, <4>1, ReadFacts
      <4>3. CASE IsAsync(wr[i].actor)
        <5>1. \A u \in Thread : ~Owns(u, wr[i].page)
          BY ZenonT(100), <4>3, ReadFacts
        <5>2. \A u \in Thread : ~Owns(u, wr[i].page)'
          BY <2>1, <2>7, <2>8, <5>1
        <5>. QED BY ZenonT(100), <2>1, <4>2, <4>3, <5>2 DEF ReadOf, IsAsync
      <4>4. CASE ~IsAsync(wr[i].actor)
        <5>1. pc[wr[i].actor] = "wait"
          BY ZenonT(100), <4>4, ReadFacts
        <5>2. wr[i].actor # t
          BY <2>1, <5>1
        <5>3. pc'[wr[i].actor] = "wait" /\ page'[wr[i].actor] = wr[i].page /\ user_mutex' = wr[i].actor
          BY ZenonT(100), <2>1, <2>2, <2>3, <3>1, <4>4, <5>1, <5>2, ReadFacts
        <5>. QED BY ZenonT(100), <2>1, <4>2, <4>4, <5>3 DEF ReadOf, IsAsync
      <4>. QED BY Zenon, <4>3, <4>4
    <3>. QED BY Zenon, <3>2, <3>3
  <2>14. Pending' /\ OneRead'
    BY ZenonT(100), <2>1, <2>13 DEF OwnInv, Pending, OneRead
  <2>15. OldestRead'
    <3>1. pc'[CQ] # "idle" => pc[CQ] # "idle"
      BY <2>1, <2>2, <2>3
    <3>. QED BY <2>1, <3>1 DEF OwnInv, OldestRead, IsAsync
  <2>. QED BY ZenonT(100), <2>9, <2>10, <2>11, <2>14, <2>15 DEF OwnInv
<1>13. ASSUME NEW t \in Actor, CountPage(t) PROVE OwnInv'
  <2>. USE <1>13
  <2>1. pc[t] = "count" /\ UNCHANGED <<ps, user_mutex, program>>
    BY ZenonT(100), CountOutcome DEF CountPage
  <2>2. /\ pc[t] # "wait" /\ page = [page EXCEPT ![t] = page[t]]
        /\ CQ \in Actor /\ Thread \subseteq Actor /\ CQ \notin Thread
    BY <2>1, TypeAt, ActorFacts
  <2>3. CASE IsHandler(t) /\ pc' = [pc EXCEPT ![t] = "protect"] /\ page' = page /\ wr' = wr
    <3>1. t \in Thread /\ t # CQ /\ pc'[t] = "protect" /\ \A u \in Actor : u # t => pc'[u] = pc[u]
      BY ZenonT(100), <2>2, <2>3, MovePc DEF IsHandler
    <3>2. ~IsAsync(t) /\ \A p \in PageId : ~Owns(t, p)'
      BY <2>1, <2>3, <3>1 DEF IsHandler, IsAsync, Owns
    <3>. QED BY ZenonT(100), <2>1, <2>2, <2>3, <3>1, <3>2, OwnQuiet
  <2>4. CASE t = CQ /\ pc' = [pc EXCEPT ![t] = "idle"] /\ page' = page /\ wr # <<>> /\ wr' = Tail(wr)
    <3>1. pc'[CQ] = "idle" /\ \A u \in Thread : pc'[u] = pc[u] /\ page'[u] = page[u]
      BY ZenonT(100), <2>2, <2>4, MovePc
    <3>2. PostsOnly'
      BY <2>1, <3>1 DEF OwnInv, PostsOnly, IsAsync
    <3>3. \A u \in Thread : \A p : Owns(u, p)' <=> Owns(u, p)
      BY ZenonT(100), <2>1, <3>1, OwnsKept
    <3>4. ASSUME NEW i \in 2 .. Len(wr), ~IsAsync(wr[i].actor)
          PROVE  /\ pc'[wr[i].actor] = "wait" /\ page'[wr[i].actor] = wr[i].page
                 /\ user_mutex' = wr[i].actor
      <4>1. i \in 1 .. Len(wr)
        OBVIOUS
      <4>. QED BY ZenonT(100), <2>1, <3>1, <3>4, <4>1, ReadFacts
    <3>. QED BY ZenonT(100), <2>1, <2>4, <3>1, <3>2, <3>3, <3>4, OwnDrop
  <2>5. CASE /\ t \in Thread /\ pc' = [pc EXCEPT ![t] = "lookup"] /\ wr' = wr
             /\ page' = [page EXCEPT ![t] = page[t] + 1]
    <3>1. "lookup" \notin {"post", "wait", "protect", "local", "count"}
      OBVIOUS
    <3>. QED BY ZenonT(100), <2>1, <2>2, <2>5, <3>1, OwnMove
  <2>. QED BY ZenonT(100), <2>3, <2>4, <2>5, CountOutcome
<1>14. ASSUME NEW t \in Thread, CheckAllPages(t) PROVE OwnInv'
  <2>. USE <1>14
  <2>1. /\ page' = page /\ pc[t] = "check" /\ UNCHANGED <<ps, wr, user_mutex, program>>
        /\ pc' = [pc EXCEPT ![t] = "idle"] \/ pc' = [pc EXCEPT ![t] = "close"]
    BY ZenonT(100) DEF CheckAllPages, Goto, At, pageVars, connVars
  <2>2. /\ pc[t] # "wait" /\ "idle" \notin {"post", "wait", "protect", "local", "count"}
        /\ "close" \notin {"post", "wait", "protect", "local", "count"}
        /\ page = [page EXCEPT ![t] = page[t]]
    BY <2>1, TypeAt, ActorFacts
  <2>. QED BY ZenonT(100), <2>1, <2>2, OwnMove
<1>15. ASSUME NEW t \in Thread, CloseOpens(t) PROVE OwnInv'
  <2>. USE <1>15
  <2>1. /\ page' = page \/ page' = [page EXCEPT ![t] = 0]
        /\ pc[t] = "close" /\ UNCHANGED <<ps, wr, user_mutex, program>>
        /\ pc' = [pc EXCEPT ![t] = "lookup"] \/ pc' = [pc EXCEPT ![t] = "send"]
    BY ZenonT(100) DEF CloseOpens, Goto, At, connVars
  <2>2. /\ pc[t] # "wait" /\ "lookup" \notin {"post", "wait", "protect", "local", "count"}
        /\ "send" \notin {"post", "wait", "protect", "local", "count"}
        /\ page = [page EXCEPT ![t] = page[t]]
    BY <2>1, TypeAt, ActorFacts
  <2>. QED BY ZenonT(100), <2>1, <2>2, OwnMove
<1>16. ASSUME NEW t \in Thread, SendClose(t) \/ CloseDeregisters(t) \/ Drain(t) PROVE OwnInv'
  <2>. USE <1>16
  <2>1. /\ page' = page /\ UNCHANGED <<ps, wr, user_mutex, program>>
        /\ pc[t] = "send" \/ pc[t] = "deregister" \/ pc[t] = "drain"
        /\ pc' = [pc EXCEPT ![t] = "deregister"] \/ pc' = [pc EXCEPT ![t] = "done"]
    BY ZenonT(100) DEF SendClose, CloseDeregisters, Drain, Goto, At, pageVars, connVars
  <2>2. /\ pc[t] # "wait" /\ "deregister" \notin {"post", "wait", "protect", "local", "count"}
        /\ "done" \notin {"post", "wait", "protect", "local", "count"}
        /\ page = [page EXCEPT ![t] = page[t]]
    BY <2>1, TypeAt, ActorFacts
  <2>. QED BY ZenonT(100), <2>1, <2>2, OwnMove
<1>17. ASSUME OnCompletion PROVE OwnInv'
  <2>. USE <1>17
  <2>0. PICK a : a = Head(wr).actor
    OBVIOUS
  <2>1. pc[CQ] = "idle" /\ wr # <<>> /\ UNCHANGED <<ps, program>>
    BY ZenonT(100), CompletionOutcome DEF OnCompletion
  <2>2. /\ a \in Thread /\ a \in Actor /\ a # CQ /\ CQ \in Actor /\ Thread \subseteq Actor
        /\ Head(wr) = wr[1] /\ 1 \in 1 .. Len(wr)
    BY ZenonT(100), <2>0, <2>1, HeadRead, ActorFacts
  <2>3. CASE /\ IsAsync(a) /\ pc' = [pc EXCEPT ![CQ] = "protect"]
             /\ page' = [page EXCEPT ![CQ] = Head(wr).page] /\ UNCHANGED <<wr, user_mutex>>
    <3>1. /\ pc'[CQ] = "protect" /\ page'[CQ] = Head(wr).page
          /\ \A u \in Thread : pc'[u] = pc[u] /\ page'[u] = page[u]
      <4>1. CQ \notin Thread
        BY Zenon, ActorFacts
      <4>2. pc'[CQ] = "protect" /\ \A u \in Actor : u # CQ => pc'[u] = pc[u]
        BY ZenonT(100), <2>2, <2>3, MovePc
      <4>3. page'[CQ] = Head(wr).page /\ \A u \in Actor : u # CQ => page'[u] = page[u]
        BY ZenonT(100), <2>2, <2>3, MovePage
      <4>. QED BY ZenonT(100), <2>2, <4>1, <4>2, <4>3
    <3>2. \A u \in Thread : \A p : Owns(u, p)' <=> Owns(u, p)
      BY ZenonT(100), <2>1, <3>1, OwnsKept
    <3>3. Claimed' /\ OneOwner'
      BY <2>1, <3>2 DEF OwnInv, Claimed, OneOwner
    <3>4. PostsOnly'
      BY <2>1, <3>1 DEF OwnInv, PostsOnly, IsAsync
    <3>5. ASSUME NEW i \in 1 .. Len(wr)
          PROVE  ReadOf(i)' /\ ps'[wr[i].page] = IF Counting(i)' THEN "Local" ELSE "InFlight"
      <4>1. ~Counting(i) /\ ~Counting(i)'
        BY <2>1, <3>1 DEF Counting
      <4>2. wr[i].actor \in Thread /\ ps'[wr[i].page] = "InFlight"
        BY ZenonT(100), <2>1, <4>1, ReadFacts
      <4>3. IsAsync(wr[i].actor) => \A u \in Thread : ~Owns(u, wr[i].page)'
        <5>1. IsAsync(wr[i].actor) => \A u \in Thread : ~Owns(u, wr[i].page)
          BY Zenon, ReadFacts
        <5>. QED BY <2>3, <3>2, <5>1
      <4>4. ~IsAsync(wr[i].actor) => /\ pc'[wr[i].actor] = "wait" /\ page'[wr[i].actor] = wr[i].page
                                     /\ user_mutex' = wr[i].actor
        BY ZenonT(100), <2>3, <3>1, <4>2, ReadFacts
      <4>. QED BY ZenonT(100), <2>1, <2>3, <4>1, <4>2, <4>3, <4>4 DEF ReadOf, IsAsync
    <3>6. Pending' /\ OneRead'
      BY ZenonT(100), <2>3, <3>5 DEF OwnInv, Pending, OneRead
    <3>7. OldestRead'
      BY ZenonT(100), <2>0, <2>1, <2>3, <3>1 DEF OldestRead, IsAsync
    <3>. QED BY ZenonT(100), <3>3, <3>4, <3>6, <3>7 DEF OwnInv
  <2>4. CASE /\ ~IsAsync(a) /\ pc[a] = "wait" /\ page[a] = Head(wr).page /\ user_mutex = a
             /\ pc' = [pc EXCEPT ![a] = AfterPull(a)] /\ page' = page /\ wr' = Tail(wr) /\ user_mutex' = CQ
    <3>1. /\ pc'[a] = AfterPull(a) /\ pc'[CQ] = "idle" /\ \A u \in Actor : u # a => pc'[u] = pc[u]
      BY ZenonT(100), <2>1, <2>2, <2>4, MovePc
    <3>2. \A p : Owns(a, p)' <=> Owns(a, p)
      BY <2>1, <2>2, <2>4, <3>1 DEF Owns, AfterPull, IsHandler
    <3>3. \A u \in Thread : \A p : Owns(u, p)' <=> Owns(u, p)
      <4>1. \A u \in Thread : u # a => \A p : Owns(u, p)' <=> Owns(u, p)
        BY ZenonT(100), <2>1, <2>2, <2>4, <3>1, OwnsKept
      <4>. QED BY <3>2, <4>1
    <3>4. PostsOnly'
      BY <2>1, <2>2, <2>4, <3>1 DEF OwnInv, PostsOnly, IsAsync
    <3>5. ASSUME NEW i \in 2 .. Len(wr), ~IsAsync(wr[i].actor) PROVE FALSE
      <4>1. i \in 1 .. Len(wr) /\ i # 1
        OBVIOUS
      <4>2. wr[i].page = wr[1].page
        BY ZenonT(100), <2>2, <2>4, <3>5, <4>1, ReadFacts
      <4>. QED BY ZenonT(100), <2>2, <4>1, <4>2 DEF OwnInv, OneRead
    <3>. QED BY ZenonT(100), <2>1, <2>4, <3>1, <3>3, <3>4, <3>5, OwnDrop
  <2>5. CASE UNCHANGED <<wr, pc, page, user_mutex>>
    BY ZenonT(100), <2>1, <2>5, OwnStay
  <2>. QED BY ZenonT(100), <2>0, <2>3, <2>4, <2>5, CompletionOutcome
<1>18. Thread \subseteq Actor /\ CQ \in Actor
  BY Zenon, ActorFacts
<1>19. ASSUME NEW t \in Thread, Step(t) PROVE OwnInv'
  BY ZenonT(100), <1>6, <1>7, <1>8, <1>9, <1>10, <1>11, <1>12, <1>13, <1>14, <1>15, <1>16, <1>18,
     <1>19 DEF Step
<1>20. ASSUME Completion PROVE OwnInv'
  BY ZenonT(100), <1>11, <1>12, <1>13, <1>17, <1>18, <1>20 DEF Completion
<1>. QED BY ZenonT(100), <1>1, <1>2, <1>3, <1>4, <1>5, <1>19, <1>20 DEF Next

-----------------------------------------------------------------------------
(* Whole pages: every read asks for a page, and the registration covers it.  *)

LEMMA WholeLength ==
  ASSUME WholePages
  PROVE  /\ \A p \in PageId : getPageSize(p) = PageSize
         /\ \A t : page[t] \in PageId => Length(t) = PageSize /\ (registered => Covered(t))
<1>1. PageSize \in Nat /\ PageSize > 0 /\ MemorySize \in Nat /\ num_pages \in Nat /\ PageId \subseteq Nat
  <2>1. PageSize \in Nat /\ PageSize > 0 /\ MemorySize \in Nat
    BY ConstantsAssumption
  <2>2. num_pages \in Nat /\ PageId \subseteq Nat
    BY Zenon, PageFacts
  <2>. QED BY <2>1, <2>2
<1>2. MemorySize = PageSize * num_pages
  <2>1. /\ MemorySize = PageSize * (MemorySize \div PageSize) + (MemorySize % PageSize)
        /\ MemorySize \div PageSize \in Nat
    BY ZenonT(100), <1>1, Division
  <2>2. num_pages = MemorySize \div PageSize /\ MemorySize % PageSize = 0
    BY Zenon DEF num_pages, PagesIn, WholePages
  <2>3. PageSize * num_pages \in Nat
    BY <1>1
  <2>. QED BY <1>1, <2>1, <2>2, <2>3
<1>3. \A p \in PageId : PageSize * p + PageSize <= MemorySize /\ PageSize * p \in Nat
  <2>. SUFFICES ASSUME NEW p \in PageId
                PROVE  PageSize * p + PageSize <= MemorySize /\ PageSize * p \in Nat
    OBVIOUS
  <2>1. p \in Nat /\ p < num_pages
    BY <1>1 DEF PageId
  <2>2. PageSize * p + PageSize <= PageSize * num_pages
    BY ZenonT(100), <1>1, <2>1, Growing
  <2>3. PageSize * p \in Nat
    BY <1>1, <2>1
  <2>. QED BY ZenonT(100), <1>2, <2>2, <2>3
<1>4. \A p \in PageId : getPageSize(p) = PageSize
  BY ZenonT(100) DEF getPageSize, WholePages
<1>5. \A p \in PageId : getPageSizeAt(getPageAddress(p)) = PageSize
  <2>. SUFFICES ASSUME NEW p \in PageId PROVE getPageSizeAt(getPageAddress(p)) = PageSize
    OBVIOUS
  <2>1. PICK a \in Nat : a = PageSize * p /\ a + PageSize <= MemorySize
    BY ZenonT(100), <1>3
  <2>2. ~(a + PageSize > MemorySize)
    BY <1>1, <2>1
  <2>. QED BY ZenonT(100), <2>1, <2>2 DEF getPageSizeAt, getPageAddress
<1>6. \A t : page[t] \in PageId => Length(t) = PageSize
  BY ZenonT(100), <1>4, <1>5 DEF Length
<1>. QED BY ZenonT(100), <1>3, <1>4, <1>6 DEF Covered, getPageAddress

-----------------------------------------------------------------------------
(* What the pages hold.                                                      *)

LEMMA HereFacts == \A p : Here(p) => data[p] # "empty"
BY DEF Here

\* A step of one actor that leaves the pages and the reads alone.
LEMMA DataMove ==
  ASSUME TypeInv, DataInv, UNCHANGED <<program, ps, data, wr>>, OpenIsHere',
         NEW t \in Actor, NEW l, NEW k, pc' = [pc EXCEPT ![t] = l], page' = [page EXCEPT ![t] = k],
         l # "post", l \in {"protect", "local", "count"} => Here(k),
         t = CQ /\ pc[CQ] # "idle" => l # "idle"
  PROVE  DataInv'
<1>1. /\ pc'[t] = l /\ page'[t] = k
      /\ \A u \in Actor : u # t => pc'[u] = pc[u] /\ page'[u] = page[u]
  BY ZenonT(100), MoveBoth
<1>2. Thread \subseteq Actor /\ CQ \in Actor
  BY Zenon, ActorFacts
<1>3. \A p : Here(p)' <=> Here(p)
  BY Zenon DEF Here
<1>4. RemoteEmpty'
  BY Zenon DEF DataInv, RemoteEmpty
<1>5. PostEmpty'
  BY <1>1, <1>2 DEF DataInv, PostEmpty
<1>6. ReadEmpty'
  BY ZenonT(100), <1>1, <1>2 DEF DataInv, ReadEmpty
<1>7. PulledHere'
  <2>1. \A u \in Actor : pc'[u] \in {"protect", "local", "count"} => Here(page'[u])
    BY ZenonT(100), <1>1 DEF DataInv, PulledHere
  <2>. QED BY Zenon, <2>1 DEF PulledHere, Here
<1>. QED BY Zenon, <1>4, <1>5, <1>6, <1>7 DEF DataInv

LEMMA DataStay ==
  ASSUME DataInv, UNCHANGED <<program, ps, data, wr, pc, page>>, OpenIsHere'
  PROVE  DataInv'
BY ZenonT(100) DEF DataInv, RemoteEmpty, PostEmpty, ReadEmpty, PulledHere, Here

\* Nothing more is open to the program.
LEMMA OpenKept ==
  ASSUME OpenIsHere, UNCHANGED <<ps, data>>, \A p \in PageId : prot'[p] = "RW" => prot[p] = "RW" \/ Here(p),
         state' = "Shared" \/ done_sent' => state = "Shared" \/ done_sent
  PROVE  OpenIsHere'
BY ZenonT(100) DEF OpenIsHere, Here

\* The contents of one page change.
LEMMA DataPoint ==
  ASSUME TypeInv, NEW q \in PageId, NEW v, data' = [data EXCEPT ![q] = v]
  PROVE  /\ data'[q] = v /\ \A p \in PageId : p # q => data'[p] = data[p]
         /\ \A p \in PageId : p # q => (Here(p)' <=> Here(p))
         /\ v \in {"source", "written"} => Here(q)'
<1>1. data \in [PageId -> {"empty", "partial", "source", "written"}]
  BY Zenon, TypeSplit DEF TypeInv, TypeRest
<1>2. data'[q] = v /\ \A p \in PageId : p # q => data'[p] = data[p]
  BY <1>1
<1>. QED BY ZenonT(100), <1>2 DEF Here

\* While a thread is about to post, a page is missing: the registration is still there.
LEMMA ReadCovered ==
  ASSUME WholePages, TypeInv, OwnInv, SettledInv, NEW t \in Thread, Read(t)
  PROVE  Covered(t) /\ Length(t) = PageSize /\ page[t] \in PageId
<1>1. pc[t] = "post" /\ page[t] \in PageId
  BY ZenonT(100), ReadOutcome
<1>2. ps[page[t]] = "InFlight"
  BY <1>1 DEF OwnInv, Claimed, Owns
<1>3. ~Settled
  BY <1>1, <1>2 DEF Settled
<1>4. registered
  BY ZenonT(100), <1>3 DEF SettledInv
<1>. QED BY ZenonT(100), <1>1, <1>4, WholeLength

\* The reads behind the oldest one are for pages that are still empty.
LEMMA ReadEmptyDrop ==
  ASSUME TypeInv, DataInv, wr # <<>>, wr' = Tail(wr),
         \A i \in 2 .. Len(wr) : data[wr[i].page] = "empty" => data'[wr[i].page] = "empty"
  PROVE  ReadEmpty'
<1>1. /\ Len(wr) \in Nat /\ Len(wr') = Len(wr) - 1
      /\ \A i \in 1 .. Len(wr') : i + 1 \in 1 .. Len(wr) /\ wr'[i] = wr[i + 1]
  BY ZenonT(100), DropEffect
<1>2. \A i \in 1 .. Len(wr') : i + 1 \in 2 .. Len(wr) /\ i + 1 # 1
  BY <1>1
<1>3. ASSUME NEW i \in 1 .. Len(wr') PROVE wr'[i].length = PageSize /\ data'[wr'[i].page] = "empty"
  <2>1. PICK j \in 2 .. Len(wr) : j \in 1 .. Len(wr) /\ wr'[i] = wr[j] /\ j # 1
    BY ZenonT(100), <1>1, <1>2
  <2>2. wr[j].length = PageSize /\ data[wr[j].page] = "empty"
    BY ZenonT(100), <2>1 DEF DataInv, ReadEmpty
  <2>. QED BY ZenonT(100), <2>1, <2>2
<1>. QED BY ZenonT(100), <1>3 DEF ReadEmpty

\* When nothing is left to pull every page is here.
LEMMA SettledHere == ASSUME DataInv, Settled PROVE \A p \in PageId : Here(p)
BY ZenonT(100) DEF DataInv, OpenIsHere, Settled

\* A read that completes is served, and fills a page that was empty.
LEMMA CompletionFills ==
  ASSUME WholePages, TypeInv, OwnInv, DataInv, SettledInv, OnCompletion
  PROVE  /\ serving /\ Head(wr).page \in PageId /\ data[Head(wr).page] = "empty"
         /\ data' = [data EXCEPT ![Head(wr).page] = "source"]
<1>1. pc[CQ] = "idle" /\ wr # <<>>
  BY ZenonT(100), CompletionOutcome
<1>2. serving
  BY ZenonT(100), <1>1 DEF SettledInv, Settled
<1>3. /\ Head(wr).page \in PageId /\ Head(wr) = wr[1] /\ 1 \in 1 .. Len(wr)
  BY ZenonT(100), <1>1, HeadRead
<1>4. Head(wr).length = PageSize /\ data[Head(wr).page] = "empty"
  <2>1. ReadEmpty
    BY Zenon DEF DataInv
  <2>. QED BY <1>1, <1>3, <2>1 DEF ReadEmpty
<1>5. getPageSize(Head(wr).page) = PageSize /\ PageSize >= PageSize
  <2>1. PageSize >= PageSize
    BY ConstantsAssumption
  <2>. QED BY ZenonT(100), <1>3, <2>1, WholeLength
<1>6. Head(wr).length >= getPageSize(Head(wr).page)
  BY Zenon, <1>4, <1>5
<1>. QED BY ZenonT(100), <1>2, <1>3, <1>4, <1>6 DEF OnCompletion

\* Every step preserves what the pages hold.
LEMMA DataInvStep ==
  ASSUME WholePages, TypeInv, OwnInv, DataInv, SettledInv, Next
  PROVE  DataInv'
<1>1. ASSUME OnTransfer PROVE DataInv'
  <2>. USE <1>1
  <2>1. UNCHANGED <<program, ps, data, wr, pc, page>> /\ \A p \in PageId : prot'[p] # "RW"
    <3>1. prot' = [p \in PageId |-> "NONE"] /\ "NONE" # "RW"
      BY DEF OnTransfer
    <3>. QED BY ZenonT(100), <3>1 DEF OnTransfer, connVars, threadVars
  <2>2. OpenIsHere'
    BY ZenonT(100), <2>1 DEF DataInv, OpenIsHere, Here
  <2>. QED BY ZenonT(100), <2>1, <2>2, DataStay
\* The program only writes pages that are here.
<1>2. ASSUME NEW t \in Thread, NEW q \in PageId, Write(t, q) PROVE DataInv'
  <2>. USE <1>2
  <2>1. UNCHANGED <<program, ps, wr, pc, page, prot, state, done_sent>>
    BY ZenonT(100) DEF Write, connVars, threadVars
  <2>2. Here(q) /\ data' = [data EXCEPT ![q] = "written"]
    BY ZenonT(100) DEF Write, DataInv, OpenIsHere
  <2>3. /\ data'[q] = "written" /\ (\A p \in PageId : p # q => data'[p] = data[p]) /\ Here(q)'
        /\ data[q] # "empty"
    BY ZenonT(100), <2>2, DataPoint, HereFacts
  <2>4. \A p \in PageId : Here(p) => Here(p)'
    BY ZenonT(100), <2>3 DEF Here
  <2>5. RemoteEmpty'
    BY ZenonT(100), <2>1, <2>3 DEF DataInv, RemoteEmpty
  <2>6. PostEmpty'
    <3>1. \A u \in Thread : pc[u] = "post" => page[u] \in PageId
      BY ActorFacts DEF TypeInv, AtPage, PageLabel
    <3>. QED BY ZenonT(100), <2>1, <2>3, <3>1 DEF DataInv, PostEmpty
  <2>7. ReadEmpty'
    <3>1. \A i \in 1 .. Len(wr) : wr[i].page \in PageId
      BY Zenon, ReadFacts
    <3>. QED BY ZenonT(100), <2>1, <2>3, <3>1 DEF DataInv, ReadEmpty
  <2>8. PulledHere'
    <3>1. \A u \in Actor : pc[u] \in {"protect", "local", "count"} => page[u] \in PageId
      BY DEF TypeInv, AtPage, PageLabel
    <3>2. \A u \in Actor : pc[u] \in {"protect", "local", "count"} => Here(page[u])
      BY Zenon DEF DataInv, PulledHere
    <3>3. \A u \in Actor : pc'[u] \in {"protect", "local", "count"} => Here(page[u])'
      <4>1. \A u \in Actor : pc[u] \in {"protect", "local", "count"} => \E p \in PageId : p = page[u] /\ Here(p)'
        BY Zenon, <2>4, <3>1, <3>2
      <4>. QED BY Zenon, <2>1, <4>1 DEF Here
    <3>. QED BY Zenon, <3>3 DEF PulledHere
  <2>9. OpenIsHere'
    BY Zenon, <2>1, <2>4 DEF DataInv, OpenIsHere
  <2>. QED BY ZenonT(100), <2>1, <2>5, <2>6, <2>7, <2>8, <2>9 DEF DataInv
<1>3. ASSUME OnClose PROVE DataInv'
  <2>. USE <1>3
  <2>1. UNCHANGED <<program, ps, data, wr, pc, page, prot, state, done_sent>>
    BY ZenonT(100) DEF OnClose, pageVars, threadVars
  <2>2. OpenIsHere'
    BY ZenonT(100), <2>1, OpenKept DEF DataInv
  <2>. QED BY ZenonT(100), <2>1, <2>2, DataStay
<1>4. ASSUME NEW t \in Thread, NEW p \in PageId, Fault(t, p) PROVE DataInv'
  <2>. USE <1>4
  <2>1. /\ UNCHANGED <<program, ps, data, wr, prot, state, done_sent>> /\ t \in Actor /\ t # CQ
        /\ pc' = [pc EXCEPT ![t] = "claim"] /\ page' = [page EXCEPT ![t] = p]
    BY ZenonT(100), ActorFacts DEF Fault, Goto, pageVars, connVars
  <2>2. OpenIsHere'
    BY ZenonT(100), <2>1, OpenKept DEF DataInv
  <2>3. "claim" # "post" /\ "claim" \notin {"protect", "local", "count"}
    OBVIOUS
  <2>. QED BY ZenonT(100), <2>1, <2>2, <2>3, DataMove
\* The steps of a thread between a page and the next.
<1>5. ASSUME NEW t \in Thread, \/ BeginPull(t) \/ Lookup(t) \/ Limit(t) \/ CheckAllPages(t) \/ CloseDeregisters(t) \/ Drain(t)
      PROVE  DataInv'
  <2>. USE <1>5
  <2>1. UNCHANGED <<program, ps, data, wr>> /\ t \in Actor /\ t # CQ
    BY ZenonT(100), ActorFacts
       DEF BeginPull, Lookup, Limit, CheckAllPages, CloseDeregisters, Drain, pageVars, connVars
  <2>2. OpenIsHere'
    <3>1. UNCHANGED <<prot, done_sent>> /\ (state' = state \/ state' = "Clean")
      BY ZenonT(100) DEF BeginPull, Lookup, Limit, CheckAllPages, CloseDeregisters, Drain, pageVars,
         connVars, UpdateState
    <3>2. state' = "Shared" \/ done_sent' => state = "Shared" \/ done_sent
      BY <3>1
    <3>. QED BY ZenonT(100), <2>1, <3>1, <3>2, OpenKept DEF DataInv
  <2>3. page = [page EXCEPT ![t] = page[t]]
    BY ZenonT(100), <2>1, TypeAt
  <2>4. \/ UNCHANGED <<pc, page>>
        \/ \E l \in {"lookup", "limit", "claim", "send", "check", "close", "drain", "done", "idle"} :
             \E k : pc' = [pc EXCEPT ![t] = l] /\ page' = [page EXCEPT ![t] = k]
    <3>1. CASE BeginPull(t) \/ Limit(t)
      BY ZenonT(100), <2>3, <3>1 DEF BeginPull, Limit, Goto
    <3>2. CASE Lookup(t)
      <4>1. pc = [pc EXCEPT ![t] = "lookup"]
        <5>1. pc[t] = "lookup"
          BY Zenon, <3>2 DEF Lookup, At
        <5>. QED BY ZenonT(100), <2>1, <5>1, TypeAt
      <4>. QED BY ZenonT(100), <2>3, <3>2, <4>1, LookupOutcome
    <3>3. CASE CheckAllPages(t) \/ CloseDeregisters(t) \/ Drain(t)
      BY ZenonT(100), <2>3, <3>3 DEF CheckAllPages, CloseDeregisters, Drain, Goto
    <3>. QED BY <3>1, <3>2, <3>3
  <2>5. CASE UNCHANGED <<pc, page>>
    BY ZenonT(100), <2>1, <2>2, <2>5, DataStay
  <2>6. ASSUME NEW l \in {"lookup", "limit", "claim", "send", "check", "close", "drain", "done", "idle"},
               NEW k, pc' = [pc EXCEPT ![t] = l], page' = [page EXCEPT ![t] = k]
        PROVE  DataInv'
    <3>1. l # "post" /\ l \notin {"protect", "local", "count"}
      BY <2>6
    <3>. QED BY ZenonT(100), <2>1, <2>2, <2>6, <3>1, DataMove
  <2>. QED BY ZenonT(100), <2>4, <2>5, <2>6
\* Only a page that is still empty is claimed.
<1>6. ASSUME NEW t \in Thread, Claim(t) PROVE DataInv'
  <2>. USE <1>6
  <2>1. /\ UNCHANGED <<program, data, wr, prot, state, done_sent>> /\ t \in Actor /\ t # CQ
        /\ Thread \subseteq Actor /\ CQ \in Actor /\ page[t] \in PageId /\ page = [page EXCEPT ![t] = page[t]]
    <3>1. t \in Actor /\ AtPage(t)
      BY Zenon, PageAt
    <3>. QED BY ZenonT(100), <3>1, TypeAt, ActorFacts DEF Claim, connVars
  <2>2. CASE /\ ps[page[t]] = "Remote" /\ ps' = [ps EXCEPT ![page[t]] = "InFlight"]
             /\ pc' = [pc EXCEPT ![t] = "post"] /\ page' = page
    <3>1. /\ pc'[t] = "post" /\ \A u \in Actor : u # t => pc'[u] = pc[u]
          /\ ps'[page[t]] = "InFlight" /\ \A p \in PageId : p # page[t] => ps'[p] = ps[p]
      BY ZenonT(100), <2>1, <2>2, MovePc, StorePoint
    <3>2. \A p \in PageId : (ps'[p] = "Remote" => ps[p] = "Remote") /\ (ps'[p] = "Local" => ps[p] = "Local")
      BY <3>1
    <3>3. RemoteEmpty'
      BY ZenonT(100), <2>1, <3>2 DEF DataInv, RemoteEmpty
    <3>4. data[page[t]] = "empty"
      BY ZenonT(100), <2>1, <2>2 DEF DataInv, RemoteEmpty
    <3>5. PostEmpty'
      <4>1. PostEmpty
        BY Zenon DEF DataInv
      <4>2. ASSUME NEW u \in Thread, pc'[u] = "post" PROVE data[page[u]] = "empty"
        <5>1. CASE u = t
          BY Zenon, <3>4, <5>1
        <5>2. CASE u # t
          <6>1. pc[u] = "post"
            BY Zenon, <2>1, <3>1, <4>2, <5>2
          <6>. QED BY Zenon, <4>1, <6>1 DEF PostEmpty
        <5>. QED BY Zenon, <5>1, <5>2
      <4>3. data' = data /\ page' = page
        BY Zenon, <2>1, <2>2
      <4>. QED BY Zenon, <4>2, <4>3 DEF PostEmpty
    <3>6. ReadEmpty'
      BY ZenonT(100), <2>1, <3>1 DEF DataInv, ReadEmpty
    <3>7. \A u \in Actor : pc'[u] \in {"protect", "local", "count"} => pc[u] \in {"protect", "local", "count"}
      BY <3>1
    <3>8. PulledHere'
      BY ZenonT(100), <2>1, <2>2, <3>7 DEF DataInv, PulledHere, Here
    <3>9. OpenIsHere'
      BY ZenonT(100), <2>1, <3>2 DEF DataInv, OpenIsHere, Here
    <3>. QED BY ZenonT(100), <2>1, <3>3, <3>5, <3>6, <3>8, <3>9 DEF DataInv
  <2>3. CASE /\ ps' = ps /\ pc' = [pc EXCEPT ![t] = IF program[t] = "app" THEN "idle" ELSE "lookup"]
             /\ page' = IF program[t] = "app" THEN page ELSE [page EXCEPT ![t] = page[t] + 1]
    <3>1. PICK l \in {"idle", "lookup"}, k \in {page[t], page[t] + 1} :
            pc' = [pc EXCEPT ![t] = l] /\ page' = [page EXCEPT ![t] = k]
      BY ZenonT(100), <2>1, <2>3
    <3>2. l # "post" /\ l \notin {"protect", "local", "count"}
      BY <3>1
    <3>3. OpenIsHere'
      BY ZenonT(100), <2>1, <2>3, OpenKept DEF DataInv
    <3>. QED BY ZenonT(100), <2>1, <2>3, <3>1, <3>2, <3>3, DataMove
  <2>. QED BY ZenonT(100), <2>2, <2>3 DEF Claim, Goto
<1>7. ASSUME NEW t \in Thread, Read(t) PROVE DataInv'
  <2>. USE <1>7
  <2>1. /\ pc[t] = "post" /\ UNCHANGED <<program, ps, data, prot, state, done_sent>>
        /\ t \in Actor /\ t # CQ /\ CQ \in Actor /\ Thread \subseteq Actor
        /\ page[t] \in PageId /\ Length(t) = PageSize
    BY ZenonT(100), ReadOutcome, ReadCovered, ActorFacts DEF Read, pageVars
  <2>2. PICK l \in {"wait", "lookup"}, k \in {page[t], page[t] + 1} :
          PostRead(t) /\ pc' = [pc EXCEPT ![t] = l] /\ page' = [page EXCEPT ![t] = k]
    <3>1. page = [page EXCEPT ![t] = page[t]]
      BY ZenonT(100), <2>1, TypeAt
    <3>. QED BY ZenonT(100), <3>1, ReadOutcome, ReadCovered
  <2>3. /\ pc'[t] = l /\ page'[t] = k
        /\ \A u \in Actor : u # t => pc'[u] = pc[u] /\ page'[u] = page[u]
    BY ZenonT(100), <2>1, <2>2, MoveBoth
  <2>4. l # "post" /\ l \notin {"protect", "local", "count"}
    BY <2>2
  <2>5. RemoteEmpty'
    BY ZenonT(100), <2>1 DEF DataInv, RemoteEmpty
  <2>6. PostEmpty'
    <3>1. PostEmpty
      BY Zenon DEF DataInv
    <3>2. ASSUME NEW u \in Thread, pc'[u] = "post" PROVE data'[page'[u]] = "empty"
      <4>1. u # t
        BY Zenon, <2>3, <2>4, <3>2
      <4>2. pc[u] = "post" /\ page'[u] = page[u]
        BY Zenon, <2>1, <2>3, <3>2, <4>1
      <4>. QED BY Zenon, <2>1, <3>1, <4>2 DEF PostEmpty
    <3>. QED BY Zenon, <3>2 DEF PostEmpty
  <2>7. ReadEmpty'
    <3>1. /\ Len(wr') = Len(wr) + 1 /\ Len(wr) \in Nat
          /\ \A i \in 1 .. Len(wr) : wr'[i] = wr[i]
          /\ wr'[Len(wr) + 1] = [actor |-> t, page |-> page[t], length |-> Length(t)]
      BY ZenonT(100), <2>1, <2>2, PostEffect
    <3>2. wr'[Len(wr) + 1].page = page[t] /\ wr'[Len(wr) + 1].length = PageSize
      BY <2>1, <3>1
    <3>3. \A i \in 1 .. Len(wr') : i \in 1 .. Len(wr) \/ i = Len(wr) + 1
      BY <3>1
    <3>4. data[page[t]] = "empty" /\ pc'[CQ] = pc[CQ]
      BY ZenonT(100), <2>1, <2>3 DEF DataInv, PostEmpty
    <3>5. ASSUME NEW i \in 1 .. Len(wr')
          PROVE  wr'[i].length = PageSize /\ (data'[wr'[i].page] = "empty" \/ (i = 1 /\ pc'[CQ] # "idle"))
      <4>1. CASE i \in 1 .. Len(wr)
        BY ZenonT(100), <2>1, <3>1, <3>4, <4>1 DEF DataInv, ReadEmpty
      <4>2. CASE i = Len(wr) + 1
        BY ZenonT(100), <2>1, <3>2, <3>4, <4>2
      <4>. QED BY Zenon, <3>3, <4>1, <4>2
    <3>. QED BY Zenon, <3>5 DEF ReadEmpty
  <2>8. PulledHere'
    <3>1. \A u \in Actor : pc'[u] \in {"protect", "local", "count"} => Here(page'[u])
      BY ZenonT(100), <2>3, <2>4 DEF DataInv, PulledHere
    <3>. QED BY Zenon, <2>1, <3>1 DEF PulledHere, Here
  <2>9. OpenIsHere'
    BY ZenonT(100), <2>1, OpenKept DEF DataInv
  <2>. QED BY ZenonT(100), <2>1, <2>5, <2>6, <2>7, <2>8, <2>9 DEF DataInv
\* A page may be opened once it has been pulled.
<1>8. ASSUME NEW t \in Actor, Protect(t) PROVE DataInv'
  <2>. USE <1>8
  <2>1. /\ pc[t] = "protect" /\ page[t] \in PageId /\ UNCHANGED <<program, ps, data, wr, state, done_sent>>
        /\ page' = [page EXCEPT ![t] = page[t]] /\ prot' = [prot EXCEPT ![page[t]] = "RW"]
    <3>1. pc[t] = "protect" /\ AtPage(t)
      BY DEF Protect, At, AtPage, PageLabel
    <3>. QED BY ZenonT(100), <3>1, TypeAt DEF Protect, connVars
  <2>2. Here(page[t])
    BY <2>1 DEF DataInv, PulledHere
  <2>3. OpenIsHere'
    <3>1. prot \in [PageId -> {"NONE", "RW"}]
      BY Zenon, TypeSplit DEF TypeInv, TypeRest
    <3>2. \A p \in PageId : p # page[t] => prot'[p] = prot[p]
      BY <2>1, <3>1
    <3>3. \A p \in PageId : prot'[p] = "RW" => prot[p] = "RW" \/ Here(p)
      BY ZenonT(100), <2>2, <3>2
    <3>. QED BY ZenonT(100), <2>1, <3>3, OpenKept DEF DataInv
  <2>4. PICK l \in {"idle", "local"} : pc' = [pc EXCEPT ![t] = l] /\ (t = CQ => l = "local")
    BY ZenonT(100), ActorFacts DEF Protect, Goto, IsHandler
  <2>5. l # "post" /\ (t = CQ => l # "idle")
    BY <2>4
  <2>. QED BY ZenonT(100), <2>1, <2>2, <2>3, <2>4, <2>5, DataMove
<1>9. ASSUME NEW t \in Actor, SetPageState(t) PROVE DataInv'
  <2>. USE <1>9
  <2>1. /\ pc[t] = "local" /\ page[t] \in PageId /\ ps' = [ps EXCEPT ![page[t]] = "Local"]
        /\ UNCHANGED <<program, data, wr, state, done_sent, prot, page>>
        /\ pc' = [pc EXCEPT ![t] = "count"]
    <3>1. pc[t] = "local" /\ AtPage(t)
      BY DEF SetPageState, At, AtPage, PageLabel
    <3>. QED BY ZenonT(100), <3>1, TypeAt DEF SetPageState, connVars, Goto
  <2>2. /\ pc'[t] = "count" /\ \A u \in Actor : u # t => pc'[u] = pc[u]
        /\ ps'[page[t]] = "Local" /\ \A p \in PageId : p # page[t] => ps'[p] = ps[p]
    BY ZenonT(100), <2>1, MovePc, StorePoint
  <2>3. Here(page[t]) /\ CQ \in Actor /\ Thread \subseteq Actor
    BY ZenonT(100), <2>1, ActorFacts DEF DataInv, PulledHere
  <2>4. \A p \in PageId : ps'[p] = "Remote" => ps[p] = "Remote"
    BY <2>2
  <2>5. RemoteEmpty'
    BY ZenonT(100), <2>1, <2>4 DEF DataInv, RemoteEmpty
  <2>6. PostEmpty'
    BY <2>1, <2>2, <2>3 DEF DataInv, PostEmpty
  <2>7. ReadEmpty'
    <3>1. pc[CQ] # "idle" => pc'[CQ] # "idle"
      BY <2>2, <2>3
    <3>. QED BY ZenonT(100), <2>1, <3>1 DEF DataInv, ReadEmpty
  <2>8. PulledHere'
    <3>1. \A u \in Actor : pc'[u] \in {"protect", "local", "count"} => Here(page[u])
      BY <2>2, <2>3 DEF DataInv, PulledHere
    <3>. QED BY ZenonT(100), <2>1, <3>1 DEF PulledHere, Here
  <2>9. OpenIsHere'
    <3>1. \A p \in PageId : ps'[p] = "Local" => Here(p)
      BY ZenonT(100), <2>2, <2>3 DEF DataInv, OpenIsHere
    <3>. QED BY ZenonT(100), <2>1, <3>1 DEF DataInv, OpenIsHere, Here
  <2>. QED BY ZenonT(100), <2>1, <2>5, <2>6, <2>7, <2>8, <2>9 DEF DataInv
<1>10. ASSUME NEW t \in Actor, CountPage(t) PROVE DataInv'
  <2>. USE <1>10
  <2>1. pc[t] = "count" /\ UNCHANGED <<program, ps, data, prot, state, done_sent>>
    BY ZenonT(100), CountOutcome DEF CountPage
  <2>2. /\ Here(page[t]) /\ page = [page EXCEPT ![t] = page[t]] /\ OpenIsHere'
        /\ CQ \in Actor /\ Thread \subseteq Actor /\ CQ \notin Thread
    <3>1. Here(page[t])
      BY <2>1 DEF DataInv, PulledHere
    <3>. QED BY ZenonT(100), <2>1, <3>1, OpenKept, TypeAt, ActorFacts DEF DataInv
  <2>3. CASE IsHandler(t) /\ pc' = [pc EXCEPT ![t] = "protect"] /\ page' = page /\ wr' = wr
    <3>1. t # CQ /\ "protect" # "post"
      BY <2>2, <2>3 DEF IsHandler
    <3>. QED BY ZenonT(100), <2>1, <2>2, <2>3, <3>1, DataMove
  <2>4. CASE t = CQ /\ pc' = [pc EXCEPT ![t] = "idle"] /\ page' = page /\ wr # <<>> /\ wr' = Tail(wr)
    <3>1. pc'[CQ] = "idle" /\ \A u \in Actor : u # CQ => pc'[u] = pc[u]
      BY ZenonT(100), <2>2, <2>4, MovePc
    <3>2. ReadEmpty'
      BY ZenonT(100), <2>1, <2>4, ReadEmptyDrop
    <3>3. RemoteEmpty'
      BY ZenonT(100), <2>1 DEF DataInv, RemoteEmpty
    <3>4. PostEmpty'
      BY ZenonT(100), <2>1, <2>2, <2>4, <3>1 DEF DataInv, PostEmpty
    <3>5. \A u \in Actor : pc'[u] \in {"protect", "local", "count"} => pc[u] \in {"protect", "local", "count"}
      BY <3>1
    <3>6. PulledHere'
      BY ZenonT(100), <2>1, <2>4, <3>5 DEF DataInv, PulledHere, Here
    <3>. QED BY ZenonT(100), <2>1, <2>2, <3>2, <3>3, <3>4, <3>6 DEF DataInv
  <2>5. CASE /\ t \in Thread /\ pc' = [pc EXCEPT ![t] = "lookup"] /\ wr' = wr
             /\ page' = [page EXCEPT ![t] = page[t] + 1]
    <3>1. "lookup" # "post" /\ "lookup" \notin {"protect", "local", "count"} /\ t # CQ
      BY <2>2, <2>5
    <3>. QED BY ZenonT(100), <2>1, <2>2, <2>5, <3>1, DataMove
  <2>. QED BY ZenonT(100), <2>3, <2>4, <2>5, CountOutcome
<1>11. ASSUME NEW t \in Thread, CloseOpens(t) PROVE DataInv'
  <2>. USE <1>11
  <2>1. /\ UNCHANGED <<program, ps, data, wr, state, done_sent>> /\ pc[t] = "close" /\ t \in Actor /\ t # CQ
        /\ page = [page EXCEPT ![t] = page[t]]
    BY ZenonT(100), ActorFacts, TypeAt DEF CloseOpens, At, connVars
  <2>2. Settled
    BY <2>1 DEF SettledInv
  <2>3. OpenIsHere'
    BY ZenonT(100), <2>1, <2>2, SettledHere, OpenKept DEF DataInv
  <2>4. PICK l \in {"lookup", "send"}, k \in {0, page[t]} :
          pc' = [pc EXCEPT ![t] = l] /\ page' = [page EXCEPT ![t] = k]
    BY ZenonT(100), <2>1 DEF CloseOpens, Goto
  <2>5. l # "post" /\ l \notin {"protect", "local", "count"}
    BY <2>4
  <2>. QED BY ZenonT(100), <2>1, <2>3, <2>4, <2>5, DataMove
<1>12. ASSUME NEW t \in Thread, SendClose(t) PROVE DataInv'
  <2>. USE <1>12
  <2>1. /\ UNCHANGED <<program, ps, data, wr>> /\ pc[t] = "send" /\ t \in Actor /\ t # CQ
        /\ page' = [page EXCEPT ![t] = page[t]] /\ pc' = [pc EXCEPT ![t] = "deregister"]
    BY ZenonT(100), ActorFacts, TypeAt DEF SendClose, At, Goto, pageVars
  <2>2. Settled
    BY <2>1 DEF SettledInv
  <2>3. OpenIsHere'
    BY ZenonT(100), <2>1, <2>2, SettledHere DEF OpenIsHere, Here
  <2>4. "deregister" # "post" /\ "deregister" \notin {"protect", "local", "count"}
    OBVIOUS
  <2>. QED BY ZenonT(100), <2>1, <2>3, <2>4, DataMove
<1>13. ASSUME OnCompletion PROVE DataInv'
  <2>. USE <1>13
  <2>0. PICK a, q : a = Head(wr).actor /\ q = Head(wr).page
    BY Zenon
  <2>1. /\ serving /\ q \in PageId /\ data[q] = "empty" /\ data' = [data EXCEPT ![q] = "source"]
    BY ZenonT(100), <2>0, CompletionFills
  <2>2. /\ pc[CQ] = "idle" /\ wr # <<>> /\ UNCHANGED <<program, ps, prot, state, done_sent>>
    BY ZenonT(100), CompletionOutcome DEF OnCompletion
  <2>3. /\ a \in Thread /\ a \in Actor /\ a # CQ /\ CQ \in Actor /\ Thread \subseteq Actor
        /\ wr[1].page = q /\ wr[1].actor = a /\ 1 \in 1 .. Len(wr)
    BY ZenonT(100), <2>0, <2>2, HeadRead, ActorFacts
  <2>4. /\ data'[q] = "source" /\ (\A p \in PageId : p # q => data'[p] = data[p]) /\ Here(q)'
    BY ZenonT(100), <2>1, DataPoint
  <2>5. \A p \in PageId : Here(p) => Here(p)'
    BY ZenonT(100), <2>4 DEF Here
  <2>6. ps[q] # "Remote"
    <3>1. ~Counting(1)
      BY <2>2 DEF Counting
    <3>2. ps[q] = "InFlight"
      BY ZenonT(100), <2>3, <3>1, ReadFacts
    <3>. QED BY <3>2
  <2>7. RemoteEmpty'
    BY ZenonT(100), <2>2, <2>4, <2>6 DEF DataInv, RemoteEmpty
  <2>8. \A u \in Thread : pc[u] = "post" => page[u] \in PageId /\ page[u] # q
    <3>. SUFFICES ASSUME NEW u \in Thread, pc[u] = "post", page[u] = q PROVE FALSE
      BY ActorFacts DEF TypeInv, AtPage, PageLabel
    <3>1. Owns(u, q)
      BY DEF Owns
    <3>2. CASE IsAsync(a)
      BY ZenonT(100), <2>3, <3>1, <3>2, ReadFacts
    <3>3. CASE ~IsAsync(a)
      <4>1. pc[a] = "wait" /\ page[a] = q
        BY ZenonT(100), <2>3, <3>3, ReadFacts
      <4>2. Owns(a, q)
        BY <4>1 DEF Owns
      <4>3. u = a
        BY ZenonT(100), <2>1, <2>3, <3>1, <4>2 DEF OwnInv, OneOwner
      <4>. QED BY <4>1, <4>3
    <3>. QED BY <3>2, <3>3
  <2>9. \A i \in 2 .. Len(wr) : i \in 1 .. Len(wr) /\ wr[i].page \in PageId /\ wr[i].page # q
    <3>1. \A i \in 2 .. Len(wr) : i \in 1 .. Len(wr) /\ i # 1
      OBVIOUS
    <3>. QED BY ZenonT(100), <2>3, <3>1, ReadFacts DEF OwnInv, OneRead
  <2>10. \A u \in Actor : pc[u] \in {"protect", "local", "count"} => page[u] \in PageId /\ Here(page[u])
    BY DEF TypeInv, AtPage, PageLabel, DataInv, PulledHere
  <2>11. OpenIsHere'
    BY <2>2, <2>5 DEF DataInv, OpenIsHere
  <2>12. CASE /\ pc' = [pc EXCEPT ![CQ] = "protect"] /\ page' = [page EXCEPT ![CQ] = q] /\ wr' = wr
    <3>1. /\ pc'[CQ] = "protect" /\ page'[CQ] = q
          /\ \A u \in Actor : u # CQ => pc'[u] = pc[u] /\ page'[u] = page[u]
      <4>1. CQ \in Actor
        BY Zenon, ActorFacts
      <4>. QED BY ZenonT(100), <2>12, <4>1, MoveBoth
    <3>2. \A u \in Thread : pc'[u] = pc[u] /\ page'[u] = page[u]
      BY <3>1, ActorFacts
    <3>3. PostEmpty'
      BY ZenonT(100), <2>4, <2>8, <3>2 DEF DataInv, PostEmpty
    <3>4. ReadEmpty'
      <4>1. pc'[CQ] # "idle"
        BY <3>1
      <4>2. \A i \in 1 .. Len(wr) : i = 1 \/ i \in 2 .. Len(wr)
        OBVIOUS
      <4>3. ASSUME NEW i \in 1 .. Len(wr)
            PROVE  wr[i].length = PageSize /\ (data'[wr[i].page] = "empty" \/ (i = 1 /\ pc'[CQ] # "idle"))
        BY ZenonT(100), <2>2, <2>4, <2>9, <4>1, <4>2 DEF DataInv, ReadEmpty
      <4>. QED BY ZenonT(100), <2>12, <4>3 DEF ReadEmpty
    <3>5. PulledHere'
      <4>1. ASSUME NEW u \in Actor, pc'[u] \in {"protect", "local", "count"} PROVE Here(page[u])'
        BY <2>4, <2>5, <2>10, <3>1, <4>1 DEF Here
      <4>. QED BY Zenon, <4>1 DEF PulledHere
    <3>. QED BY ZenonT(100), <2>2, <2>7, <2>11, <3>3, <3>4, <3>5 DEF DataInv
  <2>13. CASE /\ pc' = [pc EXCEPT ![a] = AfterPull(a)] /\ page' = page /\ wr' = Tail(wr)
              /\ page[a] = q
    <3>1. /\ pc'[a] = AfterPull(a) /\ \A u \in Actor : u # a => pc'[u] = pc[u]
      BY ZenonT(100), <2>3, <2>13, MovePc
    <3>2. \A u \in Thread : pc'[u] = "post" => pc[u] = "post"
      BY <2>3, <3>1 DEF AfterPull
    <3>3. PostEmpty'
      BY ZenonT(100), <2>4, <2>8, <2>13, <3>2 DEF DataInv, PostEmpty
    <3>4. ReadEmpty'
      BY ZenonT(100), <2>2, <2>4, <2>9, <2>13, ReadEmptyDrop
    <3>5. PulledHere'
      <4>1. ASSUME NEW u \in Actor, pc'[u] \in {"protect", "local", "count"} PROVE Here(page[u])'
        BY ZenonT(100), <2>4, <2>5, <2>10, <2>13, <3>1, <4>1 DEF Here
      <4>. QED BY Zenon, <4>1 DEF PulledHere
    <3>. QED BY ZenonT(100), <2>2, <2>7, <2>11, <3>3, <3>4, <3>5 DEF DataInv
  <2>. QED BY ZenonT(100), <2>0, <2>1, <2>12, <2>13, CompletionOutcome
<1>14. Thread \subseteq Actor /\ CQ \in Actor
  BY Zenon, ActorFacts
<1>15. ASSUME NEW t \in Thread, Step(t) PROVE DataInv'
  BY ZenonT(100), <1>5, <1>6, <1>7, <1>8, <1>9, <1>10, <1>11, <1>12, <1>14, <1>15 DEF Step
<1>16. ASSUME Completion PROVE DataInv'
  BY ZenonT(100), <1>8, <1>9, <1>10, <1>13, <1>14, <1>16 DEF Completion
<1>. QED BY ZenonT(100), <1>1, <1>2, <1>3, <1>4, <1>15, <1>16 DEF Next

-----------------------------------------------------------------------------
(* The end of the migration.                                                 *)

\* Once nothing is left to pull it stays so: a read is only posted for a page in flight.
LEMMA SettledKept == ASSUME TypeInv, OwnInv, Settled, [Next]_vars PROVE Settled'
<1>1. wr = <<>> /\ \A p \in PageId : ps[p] = "Local"
  BY Zenon DEF Settled
<1>2. SUFFICES wr' = wr /\ \A p \in PageId : ps'[p] = ps[p]
  BY ZenonT(100), <1>1 DEF Settled
<1>3. \A t \in Thread : pc[t] # "post"
  <2>. SUFFICES ASSUME NEW t \in Thread, pc[t] = "post" PROVE FALSE
    BY Zenon
  <2>1. page[t] \in PageId /\ Owns(t, page[t])
    BY ActorFacts DEF TypeInv, AtPage, PageLabel, Owns
  <2>. QED BY <1>1, <2>1 DEF OwnInv, Claimed
<1>4. CASE UNCHANGED vars
  BY ZenonT(100), <1>4 DEF vars, pageVars, connVars
<1>5. ASSUME NEW t \in Thread, Step(t) PROVE wr' = wr /\ \A p \in PageId : ps'[p] = ps[p]
  <2>1. CASE Claim(t)
    <3>1. t \in Actor /\ AtPage(t)
      BY Zenon, <2>1, PageAt
    <3>2. page[t] \in PageId
      BY ZenonT(100), <3>1, TypeAt
    <3>3. ps[page[t]] # "Remote"
      BY <1>1, <3>2
    <3>. QED BY ZenonT(100), <2>1, <3>3 DEF Claim, connVars
  <2>2. CASE Read(t)
    BY ZenonT(100), <1>3, <2>2, ReadOutcome
  <2>3. CASE SetPageState(t)
    <3>1. t \in Actor /\ AtPage(t)
      BY <2>3, ActorFacts DEF SetPageState, At, AtPage, PageLabel
    <3>2. page[t] \in PageId
      BY ZenonT(100), <3>1, TypeAt
    <3>3. ps' = [ps EXCEPT ![page[t]] = "Local"]
      BY Zenon, <2>3 DEF SetPageState
    <3>4. \A p \in PageId : ps'[p] = ps[p]
      BY ZenonT(100), <1>1, <3>2, <3>3, StorePoint
    <3>. QED BY ZenonT(100), <2>3, <3>4 DEF SetPageState, connVars
  <2>4. CASE CountPage(t)
    <3>1. t # CQ
      BY Zenon, ActorFacts
    <3>. QED BY ZenonT(100), <2>4, <3>1 DEF CountPage
  <2>5. CASE BeginPull(t) \/ Lookup(t) \/ Limit(t) \/ Protect(t)
    BY ZenonT(100), <2>5 DEF BeginPull, Lookup, Limit, Protect, pageVars, connVars
  <2>6. CASE CheckAllPages(t) \/ CloseOpens(t) \/ SendClose(t) \/ CloseDeregisters(t) \/ Drain(t)
    BY ZenonT(100), <2>6 DEF CheckAllPages, CloseOpens, SendClose, CloseDeregisters, Drain,
       pageVars, connVars
  <2>. QED BY ZenonT(100), <1>5, <2>1, <2>2, <2>3, <2>4, <2>5, <2>6 DEF Step
<1>6. ASSUME Completion PROVE FALSE
  <2>1. pc[CQ] = "idle"
    BY ZenonT(100), <1>1 DEF TypeInv
  <2>2. \/ wr # <<>>
        \/ pc[CQ] = "protect" \/ pc[CQ] = "local" \/ pc[CQ] = "count"
    BY ZenonT(100), <1>6 DEF Completion, OnCompletion, Protect, SetPageState, CountPage, At
  <2>. QED BY <1>1, <2>1, <2>2
<1>7. ASSUME NEW t \in Thread, NEW p \in PageId, Write(t, p) \/ Fault(t, p)
      PROVE  wr' = wr /\ ps' = ps
  BY ZenonT(100), <1>7 DEF Write, Fault, pageVars, connVars
<1>8. CASE OnTransfer \/ OnClose
  BY ZenonT(100), <1>8 DEF OnTransfer, OnClose, pageVars, connVars
<1>. QED BY ZenonT(100), <1>4, <1>5, <1>6, <1>7, <1>8 DEF Next

\* Thread t is in close, or was.
Ending(t) == pc[t] \in {"close", "send", "deregister"} \/ closing[t]

LEMMA EndMove ==
  ASSUME TypeInv, NEW t \in Actor, NEW l, pc' = [pc EXCEPT ![t] = l], closing' = closing,
         l \notin {"close", "send", "deregister"}, NEW u \in Thread, Ending(u)'
  PROVE  Ending(u)
<1>1. pc'[t] = l /\ \A v \in Actor : v # t => pc'[v] = pc[v]
  BY ZenonT(100), MovePc
<1>. QED BY <1>1, ActorFacts DEF Ending

LEMMA EndOther ==
  ASSUME TypeInv, NEW t \in Thread, NEW l, pc' = [pc EXCEPT ![t] = l],
         NEW u \in Thread, u # t, closing'[u] = closing[u], Ending(u)'
  PROVE  Ending(u)
<1>1. pc'[u] = pc[u]
  BY ZenonT(100), MovePc, ActorFacts
<1>. QED BY Zenon, <1>1 DEF Ending

\* The migration is only ended when nothing is left to pull.
LEMMA EndBegins ==
  ASSUME OnlyPullAllCloses, TypeInv, OwnInv, program \in Programs, Next, NEW u \in Thread, Ending(u)',
         ~(local_pages < num_pages) => Settled
  PROVE  Ending(u) \/ Settled
<1>1. ASSUME NEW t \in Thread, Step(t) PROVE Ending(u) \/ Settled
  <2>0. t \in Actor /\ t # CQ
    BY Zenon, ActorFacts
  <2>1. CASE Lookup(t)
    <3>1. closing' = closing
      BY Zenon, <2>1 DEF Lookup
    <3>2. program[t] # "pullThenClose"
      BY Zenon DEF OnlyPullAllCloses
    <3>3. pc' = pc \/ \E l \in {"send", "check", "close", "drain", "done", "limit", "claim"} :
                        /\ pc' = [pc EXCEPT ![t] = l]
                        /\ l = "send" => closing[t]
                        /\ l # "close"
      <4>1. "limit" # "send" /\ "limit" # "close" /\ "claim" # "send" /\ "claim" # "close"
        OBVIOUS
      <4>. QED BY ZenonT(100), <2>1, <3>2, <4>1, LookupOutcome
    <3>4. CASE pc' = pc
      BY ZenonT(100), <3>1, <3>4 DEF Ending
    <3>5. ASSUME NEW l \in {"send", "check", "close", "drain", "done", "limit", "claim"},
                 pc' = [pc EXCEPT ![t] = l], l = "send" => closing[t], l # "close"
          PROVE  Ending(u)
      <4>1. CASE l = "send"
        <5>1. CASE u = t
          BY ZenonT(100), <3>5, <4>1, <5>1 DEF Ending
        <5>2. CASE u # t
          BY ZenonT(100), <3>1, <3>5, <5>2, EndOther
        <5>. QED BY Zenon, <5>1, <5>2
      <4>2. CASE l # "send"
        <5>1. l \notin {"close", "send", "deregister"}
          BY <3>5, <4>2
        <5>. QED BY ZenonT(100), <2>0, <3>1, <3>5, <5>1, EndMove
      <4>. QED BY Zenon, <4>1, <4>2
    <3>. QED BY ZenonT(100), <3>3, <3>4, <3>5
  <2>2. CASE CheckAllPages(t)
    <3>1. closing' = closing
      BY Zenon, <2>2 DEF CheckAllPages
    <3>2. CASE local_pages < num_pages
      <4>1. pc' = [pc EXCEPT ![t] = "idle"]
        BY Zenon, <2>2, <3>2 DEF CheckAllPages, Goto
      <4>2. "idle" \notin {"close", "send", "deregister"}
        OBVIOUS
      <4>. QED BY ZenonT(100), <2>0, <3>1, <4>1, <4>2, EndMove
    <3>3. CASE ~(local_pages < num_pages)
      BY Zenon, <3>3
    <3>. QED BY Zenon, <3>2, <3>3
  <2>3. CASE CloseOpens(t) \/ SendClose(t)
    <3>1. PICK l : pc' = [pc EXCEPT ![t] = l]
      BY ZenonT(100), <2>3 DEF CloseOpens, SendClose, Goto
    <3>2. CASE u = t
      <4>1. pc[t] = "close" \/ pc[t] = "send"
        BY ZenonT(100), <2>3 DEF CloseOpens, SendClose, At
      <4>. QED BY <3>2, <4>1 DEF Ending
    <3>3. CASE u # t
      <4>1. closing'[u] = closing[u]
        <5>1. closing \in [Thread -> BOOLEAN]
          BY Zenon, TypeSplit DEF TypeInv, TypeRest
        <5>2. closing' = [closing EXCEPT ![t] = TRUE] \/ closing' = closing
          BY ZenonT(100), <2>3 DEF CloseOpens, SendClose
        <5>. QED BY <3>3, <5>1, <5>2
      <4>. QED BY ZenonT(100), <3>1, <3>3, <4>1, EndOther
    <3>. QED BY Zenon, <3>2, <3>3
  <2>4. CASE \/ BeginPull(t) \/ Limit(t) \/ Claim(t) \/ Protect(t) \/ SetPageState(t) \/ CountPage(t)
             \/ CloseDeregisters(t) \/ Drain(t)
    <3>1. PICK l \in {"lookup", "claim", "post", "idle", "local", "count", "protect", "done"} :
            pc' = [pc EXCEPT ![t] = l] /\ closing' = closing
      BY ZenonT(100), <2>0, <2>4
         DEF BeginPull, Limit, Claim, Protect, SetPageState, CountPage, CloseDeregisters, Drain, Goto
    <3>2. l \notin {"close", "send", "deregister"}
      BY <3>1
    <3>. QED BY ZenonT(100), <2>0, <3>1, <3>2, EndMove
  <2>5. CASE Read(t)
    <3>1. closing' = closing
      BY Zenon, <2>5 DEF Read
    <3>2. pc' = pc \/ \E l \in {"wait", "lookup", "protect"} : pc' = [pc EXCEPT ![t] = l]
      BY ZenonT(100), <2>5, ReadOutcome
    <3>3. \A l \in {"wait", "lookup", "protect"} : l \notin {"close", "send", "deregister"}
      OBVIOUS
    <3>4. CASE pc' = pc
      BY ZenonT(100), <3>1, <3>4 DEF Ending
    <3>. QED BY ZenonT(100), <2>0, <3>1, <3>2, <3>3, <3>4, EndMove
  <2>. QED BY ZenonT(100), <1>1, <2>1, <2>2, <2>3, <2>4, <2>5 DEF Step
<1>2. ASSUME Completion PROVE Ending(u)
  <2>1. CQ \in Actor /\ closing' = closing
    BY ZenonT(100), <1>2, ActorFacts DEF Completion, OnCompletion, Protect, SetPageState, CountPage
  <2>2. pc' = pc \/ \E a \in Actor, l \in {"protect", "local", "idle", "count"} : pc' = [pc EXCEPT ![a] = l]
    <3>1. CASE OnCompletion
      <4>1. Head(wr).actor \in Actor
        BY ZenonT(100), <3>1, CompletionOutcome, HeadRead, ActorFacts
      <4>. QED BY ZenonT(100), <2>1, <3>1, <4>1, CompletionOutcome DEF AfterPull
    <3>2. CASE Protect(CQ) \/ SetPageState(CQ)
      BY ZenonT(100), <2>1, <3>2 DEF Protect, SetPageState, Goto
    <3>3. CASE CountPage(CQ)
      <4>1. ~IsHandler(CQ)
        BY Zenon, ActorFacts DEF IsHandler
      <4>. QED BY ZenonT(100), <2>1, <3>3, <4>1 DEF CountPage, Goto
    <3>. QED BY Zenon, <1>2, <3>1, <3>2, <3>3 DEF Completion
  <2>3. \A l \in {"protect", "local", "idle", "count"} : l \notin {"close", "send", "deregister"}
    OBVIOUS
  <2>4. CASE pc' = pc
    BY ZenonT(100), <2>1, <2>4 DEF Ending
  <2>. QED BY ZenonT(100), <2>1, <2>2, <2>3, <2>4, EndMove
<1>3. ASSUME NEW t \in Thread, NEW p \in PageId, Write(t, p) PROVE Ending(u)
  BY ZenonT(100), <1>3 DEF Write, threadVars, Ending
<1>4. ASSUME NEW t \in Thread, NEW p \in PageId, Fault(t, p) PROVE Ending(u)
  <2>1. t \in Actor /\ pc' = [pc EXCEPT ![t] = "claim"] /\ closing' = closing
    BY ZenonT(100), <1>4, ActorFacts DEF Fault, Goto
  <2>2. "claim" \notin {"close", "send", "deregister"}
    OBVIOUS
  <2>. QED BY ZenonT(100), <2>1, <2>2, EndMove
<1>5. ASSUME OnTransfer \/ OnClose PROVE Ending(u)
  BY ZenonT(100), <1>5 DEF OnTransfer, OnClose, threadVars, Ending
<1>. QED BY ZenonT(100), <1>1, <1>2, <1>3, <1>4, <1>5 DEF Next

\* Who tells the source, deregisters the segment or stops serving it does so at the end.
LEMMA ReleaseSettled ==
  ASSUME SettledInv, Next, done_sent' \/ ~registered' \/ ~serving'
  PROVE  Settled
<1>1. CASE done_sent \/ ~registered \/ ~serving
  BY Zenon, <1>1 DEF SettledInv
<1>2. CASE UNCHANGED <<done_sent, registered, serving>>
  BY Zenon, <1>1, <1>2
<1>3. ASSUME NEW t \in Thread, SendClose(t) \/ CloseDeregisters(t) PROVE Settled
  <2>1. pc[t] = "send" \/ pc[t] = "deregister"
    BY ZenonT(100), <1>3 DEF SendClose, CloseDeregisters, At
  <2>. QED BY <2>1 DEF SettledInv
<1>4. CASE OnClose
  BY Zenon, <1>1, <1>4 DEF OnClose
<1>5. ASSUME NEW t \in Thread, Step(t), ~SendClose(t), ~CloseDeregisters(t)
      PROVE  UNCHANGED <<done_sent, registered, serving>>
  <2>1. CASE BeginPull(t) \/ Lookup(t) \/ Limit(t) \/ Claim(t) \/ Read(t)
    BY ZenonT(100), <2>1 DEF BeginPull, Lookup, Limit, Claim, Read, connVars
  <2>2. CASE Protect(t) \/ SetPageState(t) \/ CountPage(t)
    BY ZenonT(100), <2>2 DEF Protect, SetPageState, CountPage, connVars
  <2>3. CASE CheckAllPages(t) \/ CloseOpens(t) \/ Drain(t)
    BY ZenonT(100), <2>3 DEF CheckAllPages, CloseOpens, Drain, connVars
  <2>. QED BY ZenonT(100), <1>5, <2>1, <2>2, <2>3 DEF Step
<1>6. ASSUME Completion PROVE UNCHANGED <<done_sent, registered, serving>>
  BY ZenonT(100), <1>6 DEF Completion, OnCompletion, Protect, SetPageState, CountPage, connVars
<1>7. ASSUME NEW t \in Thread, NEW p \in PageId, Write(t, p) \/ Fault(t, p)
      PROVE  UNCHANGED <<done_sent, registered, serving>>
  BY ZenonT(100), <1>7 DEF Write, Fault, connVars
<1>8. ASSUME OnTransfer PROVE UNCHANGED <<done_sent, registered, serving>>
  BY ZenonT(100), <1>8 DEF OnTransfer, connVars
<1>. QED BY ZenonT(100), <1>2, <1>3, <1>4, <1>5, <1>6, <1>7, <1>8 DEF Next

\* The completion thread does not meet an error.
LEMMA RunKept == ASSUME TypeInv, OwnInv, SettledInv, Next PROVE run'
<1>1. run
  BY Zenon DEF SettledInv
<1>2. CASE OnCompletion
  <2>1. wr # <<>>
    BY ZenonT(100), <1>2, CompletionOutcome
  <2>2. serving
    BY ZenonT(100), <2>1 DEF SettledInv, Settled
  <2>. QED BY ZenonT(100), <1>1, <1>2, <2>2, CompletionOutcome
<1>3. ASSUME NEW t \in Thread, Step(t) PROVE run' = run
  <2>1. CASE BeginPull(t) \/ Lookup(t) \/ Limit(t) \/ Claim(t) \/ Read(t)
    BY ZenonT(100), <2>1 DEF BeginPull, Lookup, Limit, Claim, Read, connVars
  <2>2. CASE Protect(t) \/ SetPageState(t) \/ CountPage(t)
    BY ZenonT(100), <2>2 DEF Protect, SetPageState, CountPage, connVars
  <2>3. CASE CheckAllPages(t) \/ CloseOpens(t) \/ SendClose(t) \/ CloseDeregisters(t) \/ Drain(t)
    BY ZenonT(100), <2>3 DEF CheckAllPages, CloseOpens, SendClose, CloseDeregisters, Drain, connVars
  <2>. QED BY ZenonT(100), <1>3, <2>1, <2>2, <2>3 DEF Step
<1>4. ASSUME Completion, ~OnCompletion PROVE run' = run
  BY ZenonT(100), <1>4 DEF Completion, Protect, SetPageState, CountPage, connVars
<1>5. ASSUME NEW t \in Thread, NEW p \in PageId, Write(t, p) \/ Fault(t, p) PROVE run' = run
  BY ZenonT(100), <1>5 DEF Write, Fault, connVars
<1>6. ASSUME OnTransfer \/ OnClose PROVE run' = run
  BY ZenonT(100), <1>6 DEF OnTransfer, OnClose, connVars
<1>. QED BY ZenonT(100), <1>1, <1>2, <1>3, <1>4, <1>5, <1>6 DEF Next

-----------------------------------------------------------------------------
(* Exceptions.                                                               *)

\* No lookup leaves the page table.
LEMMA LookupInTable ==
  ASSUME IndexInTable, TypeInv, program \in Programs, NEW t \in Thread, Lookup(t), ~halted
  PROVE  ~halted'
<1>1. ASSUME ByAddress(t), page[t] < PagesIn(UsedSize) PROVE StateIndex(page[t]) \in PageId
  <2>1. program[t] \in {"pullPagesSync", "pullPagesAsync"}
    BY Zenon, <1>1 DEF ByAddress
  <2>2. page[t] \in 0 .. num_pages
    BY ZenonT(100), TypeAt, ActorFacts
  <2>3. PagesIn(UsedSize) \in Nat /\ num_pages \in Nat
    BY Zenon, PageFacts
  <2>. HIDE DEF num_pages
  <2>4. page[t] \in 0 .. PagesIn(UsedSize) - 1
    BY <1>1, <2>2, <2>3
  <2>. QED BY ZenonT(100), <2>1, <2>4 DEF IndexInTable
<1>. QED BY ZenonT(100), <1>1, LookupOutcome

LEMMA HaltedStep ==
  ASSUME WholePages, IndexInTable, TypeInv, OwnInv, DataInv, SettledInv, ~halted, Next
  PROVE  ~halted'
<1>1. ASSUME NEW t \in Thread, Step(t) PROVE ~halted'
  <2>1. CASE BeginPull(t) \/ Limit(t) \/ Claim(t)
    BY ZenonT(100), <2>1 DEF BeginPull, Limit, Claim
  <2>2. CASE Protect(t) \/ SetPageState(t) \/ CountPage(t)
    BY ZenonT(100), <2>2 DEF Protect, SetPageState, CountPage
  <2>3. CASE CheckAllPages(t) \/ CloseOpens(t) \/ SendClose(t) \/ CloseDeregisters(t) \/ Drain(t)
    BY ZenonT(100), <2>3 DEF CheckAllPages, CloseOpens, SendClose, CloseDeregisters, Drain
  <2>4. CASE Lookup(t)
    BY ZenonT(100), <2>4, LookupInTable DEF DataInv
  <2>5. CASE Read(t)
    BY ZenonT(100), <2>5, ReadOutcome, ReadCovered
  <2>. QED BY ZenonT(100), <1>1, <2>1, <2>2, <2>3, <2>4, <2>5 DEF Step
<1>2. ASSUME Completion PROVE ~halted'
  BY ZenonT(100), <1>2 DEF Completion, OnCompletion, Protect, SetPageState, CountPage
<1>3. ASSUME NEW t \in Thread, NEW p \in PageId, Write(t, p) \/ Fault(t, p) PROVE ~halted'
  BY ZenonT(100), <1>3 DEF Write, Fault
<1>4. ASSUME OnTransfer \/ OnClose PROVE ~halted'
  BY ZenonT(100), <1>4 DEF OnTransfer, OnClose
<1>. QED BY ZenonT(100), <1>1, <1>2, <1>3, <1>4 DEF Next

=============================================================================
