------------------------------- MODULE Paging --------------------------------
(***************************************************************************)
(* Demand paging of a segment that has just been transferred (PAGING 1):   *)
(* on_transfer closes the segment to its program, which then takes a       *)
(* SIGSEGV at every page that is not there, while prefetching threads and  *)
(* the call that ends the migration pull pages as well.  All of them meet  *)
(* in the page table (Pages), the mutex of the connection (user_mutex),    *)
(* its queue of reads and the completion thread that runs their callbacks. *)
(*                                                                         *)
(* An offset from the start of the segment stands for an address, and the  *)
(* segment starts at a multiple of a page size that is a power of two.     *)
(***************************************************************************)
EXTENDS Integers, Sequences, FiniteSets, Functions

CONSTANTS
  Thread,       \* threads of the destination, besides its completion thread
  Programs,     \* the assignments of programs to threads to be considered
  MemorySize,   \* size of the segment
  PageSize,     \* page_size
  UsedSize,     \* size passed to PullPagesSync and PullPagesAsync
  StartLow,     \* the low half of the address of the segment, an int
  MaxPending,   \* max_async_pending and max_async_limit
  Garbage,      \* what malloc can leave in a counter
  PREFETCHING   \* the compile-time switch

Program ==
  {"app",              \* runs the application, faults included
   "prefetch",         \* PullAllPagesWithoutClose
   "prefetchAsync",    \* PullAllPagesWithoutCloseAsync
   "pullAll",          \* PullAllPages
   "pullThenClose",    \* PullAllPagesWithoutClose, then close
   "pullPagesSync",    \* PullPagesSync
   "pullPagesAsync"}   \* PullPagesAsync

\* The completion thread.
CQ == "CQ"
Actor == Thread \cup {CQ}

ASSUME ConstantsAssumption ==
  /\ CQ \notin Thread
  /\ IsFiniteSet(Thread)
  /\ Programs \subseteq [Thread -> Program]
  /\ MemorySize \in Nat \ {0}
  /\ PageSize \in Nat \ {0}
  /\ UsedSize \in 1 .. MemorySize
  /\ StartLow \in Nat
  /\ MaxPending \in Nat
  /\ Garbage \subseteq Int
  /\ PREFETCHING \in BOOLEAN

-----------------------------------------------------------------------------
(* The arithmetic of Pages.                                                *)

PagesIn(size) ==
  IF size % PageSize = 0 THEN size \div PageSize ELSE size \div PageSize + 1

num_pages == PagesIn(MemorySize)
PageId == 0 .. num_pages - 1

getPageAddress(id) == PageSize * id

\* getPageSize(int)
getPageSize(id) ==
  IF id < num_pages - 1 \/ MemorySize % PageSize = 0
  THEN PageSize
  ELSE MemorySize - PageSize * (num_pages - 1)

\* getPageSize(void*): past the end of the segment it returns the excess.
getPageSizeAt(address) ==
  IF address + PageSize > MemorySize THEN address + PageSize - MemorySize ELSE PageSize

-----------------------------------------------------------------------------

VARIABLES
  program,      \* what each thread runs
  state,        \* state of the RDMAMemory
  ps,           \* state of every page
  local_pages,  \* pages counted as Local
  prot,         \* protection of every page
  data,         \* contents of every page
  registered,   \* the segment is registered on this side of the connection
  serving,      \* and on the side of the source
  done_sent,    \* close has sent the DONE
  user_mutex,   \* thread that waits for a read with the mutex, or CQ for none
  wr,           \* reads posted to the queue pair
  run,          \* the completion thread polls
  halted,       \* an exception nobody catches has ended the process
  pc,           \* what every actor does next
  page,         \* page at which it is
  snapshot,     \* pages a puller saw Local when it copied the page table
  closing,      \* the thread has entered close
  rate_limiter  \* the counter of an asynchronous puller

pageVars   == <<ps, local_pages, prot, data>>
connVars   == <<registered, serving, done_sent, user_mutex, wr, run>>
threadVars == <<pc, page, snapshot, closing, rate_limiter>>
vars == <<program, state, pageVars, connVars, threadVars, halted>>

Init ==
  /\ program \in Programs
  /\ state = "Clean"
  /\ ps = [p \in PageId |-> "Remote"]
  /\ local_pages = 0
  /\ prot = [p \in PageId |-> "RW"]
  /\ data = [p \in PageId |-> "empty"]
  /\ registered = TRUE
  /\ serving = TRUE
  /\ done_sent = FALSE
  /\ user_mutex = CQ
  /\ wr = <<>>
  /\ run = TRUE
  /\ halted = FALSE
  /\ pc = [t \in Actor |-> "idle"]
  /\ page = [t \in Actor |-> 0]
  /\ snapshot = [t \in Thread |-> {}]
  /\ closing = [t \in Thread |-> FALSE]
  /\ rate_limiter = [t \in Thread |-> 0]

\* RDMAMemoryManager::UpdateState
UpdateState(s) == state' = s

\* Mutant: no mprotect.
OnTransferOpen ==
  /\ state = "Clean" /\ ~done_sent
  /\ \A t \in Thread : pc[t] = "idle"
  /\ UpdateState("Shared")
  /\ UNCHANGED <<program, pageVars, connVars, threadVars, halted>>

\* on_transfer: the program gets the segment with every page protected.
OnTransfer ==
  /\ state = "Clean" /\ ~done_sent
  /\ \A t \in Thread : pc[t] = "idle"
  /\ prot' = [p \in PageId |-> "NONE"]
  /\ UpdateState("Shared")
  /\ UNCHANGED <<program, ps, local_pages, data, connVars, threadVars, halted>>

Goto(t, label) == pc' = [pc EXCEPT ![t] = label]

\* Thread t is at label and the process runs.
At(t, label) == ~halted /\ pc[t] = label

Throw == halted' = TRUE

IsAsync(t)   == program[t] \in {"prefetchAsync", "pullPagesAsync"}
ByAddress(t) == program[t] \in {"pullPagesSync", "pullPagesAsync"}

-----------------------------------------------------------------------------
(* The application.                                                        *)

\* The program writes a page that it may access.
Write(t, p) ==
  /\ At(t, "idle")
  /\ program[t] = "app"
  /\ state = "Shared" \/ done_sent
  /\ prot[p] = "RW"
  /\ data' = [data EXCEPT ![p] = "written"]
  /\ UNCHANGED <<program, state, ps, local_pages, prot, connVars, threadVars, halted>>

\* sigsegv_advance is entered.
Fault(t, p) ==
  /\ At(t, "idle")
  /\ program[t] = "app"
  /\ prot[p] = "NONE"
  /\ Goto(t, "claim")
  /\ page' = [page EXCEPT ![t] = p]
  /\ UNCHANGED <<program, state, pageVars, connVars, snapshot, closing, rate_limiter, halted>>

-----------------------------------------------------------------------------
(* The loops over the pages.                                               *)

\* Entry of a puller: it copies the page table, PullPages* do not.  The counter
\* of an asynchronous puller is never initialised.
BeginPull(t) ==
  /\ At(t, "idle")
  /\ program[t] # "app"
  /\ state = "Shared"
  /\ Goto(t, "lookup")
  /\ page' = [page EXCEPT ![t] = 0]
  /\ snapshot' = [snapshot EXCEPT ![t] =
                    IF ByAddress(t) THEN {} ELSE {p \in PageId : ps[p] = "Local"}]
  /\ IF IsAsync(t)
     THEN \E g \in Garbage : rate_limiter' = [rate_limiter EXCEPT ![t] = g]
     ELSE UNCHANGED rate_limiter
  /\ UNCHANGED <<program, state, pageVars, connVars, closing, halted>>

\* What PullPages* pass to getPageState: the address, cut to an int.
StateIndex(id) == StartLow + getPageAddress(id)

\* The page is passed over without an attempt to claim it: a puller looks at its copy of the
\* page table, PullPages* at the table.
Skips(t) ==
  IF ByAddress(t) THEN ps[StateIndex(page[t])] = "Local" ELSE page[t] \in snapshot[t]

\* Head of the loop.  After the last page PullAllPages checks the count, close
\* goes on and PullPagesAsync waits for its reads.  at() throws out of range.
Lookup(t) ==
  LET id == page[t]
      last == IF ByAddress(t) THEN PagesIn(UsedSize) ELSE num_pages
  IN
  /\ At(t, "lookup")
  /\ \/ /\ id = last
        /\ Goto(t, CASE closing[t] -> "send"
                     [] program[t] = "pullAll" -> "check"
                     [] program[t] = "pullThenClose" -> "close"
                     [] program[t] = "pullPagesAsync" -> "drain"
                     [] OTHER -> "done")
        /\ UNCHANGED <<page, halted>>
     \/ /\ id < last
        /\ ByAddress(t) /\ StateIndex(id) \notin PageId
        /\ Throw
        /\ UNCHANGED <<pc, page>>
     \/ /\ id < last
        /\ ByAddress(t) => StateIndex(id) \in PageId
        /\ IF Skips(t)
           THEN page' = [page EXCEPT ![t] = @ + 1] /\ UNCHANGED pc
           ELSE Goto(t, IF IsAsync(t) THEN "limit" ELSE "claim") /\ UNCHANGED page
        /\ UNCHANGED halted
  /\ UNCHANGED <<program, state, pageVars, connVars, snapshot, closing, rate_limiter>>

\* An asynchronous puller spins while too many of its reads are pending.
Limit(t) ==
  /\ At(t, "limit")
  /\ rate_limiter[t] <= MaxPending
  /\ rate_limiter' = [rate_limiter EXCEPT ![t] = @ + 1]
  /\ Goto(t, "claim")
  /\ UNCHANGED <<program, state, pageVars, connVars, page, snapshot, closing, halted>>

\* Mutants of the compare and swap: a plain store, and one that only leaves Local
\* pages alone.
ClaimAlways(t) ==
  /\ At(t, "claim")
  /\ ps' = [ps EXCEPT ![page[t]] = "InFlight"]
  /\ Goto(t, "post")
  /\ UNCHANGED <<program, state, local_pages, prot, data, connVars, page, snapshot, closing,
                 rate_limiter, halted>>

ClaimInFlight(t) ==
  /\ At(t, "claim")
  /\ ps[page[t]] # "Local"
  /\ ps' = [ps EXCEPT ![page[t]] = "InFlight"]
  /\ Goto(t, "post")
  /\ UNCHANGED <<program, state, local_pages, prot, data, connVars, page, snapshot, closing,
                 rate_limiter, halted>>

\* setPageStateCAS(addr, Remote, InFlight).  When it fails the handler returns,
\* to fault again if need be, and a puller goes to the next page.
Claim(t) ==
  /\ At(t, "claim")
  /\ IF ps[page[t]] = "Remote"
     THEN /\ ps' = [ps EXCEPT ![page[t]] = "InFlight"]
          /\ Goto(t, "post")
          /\ UNCHANGED page
     ELSE /\ Goto(t, IF program[t] = "app" THEN "idle" ELSE "lookup")
          /\ page' = IF program[t] = "app" THEN page ELSE [page EXCEPT ![t] = @ + 1]
          /\ UNCHANGED ps
  /\ UNCHANGED <<program, state, local_pages, prot, data, connVars, snapshot, closing,
                 rate_limiter, halted>>

-----------------------------------------------------------------------------
(* Reads.                                                                  *)

\* Bytes asked for: the handler and PullPages* take the size by address.
Length(t) ==
  IF program[t] = "app" \/ ByAddress(t)
  THEN getPageSizeAt(getPageAddress(page[t]))
  ELSE getPageSize(page[t])

\* What a puller does once Pull has returned.
AfterPull(t) == IF program[t] = "app" THEN "local" ELSE "protect"

\* A registration covers the region.
Covered(t) == registered /\ getPageAddress(page[t]) + Length(t) <= MemorySize

\* post_rdma_read
PostRead(t) == wr' = Append(wr, [actor |-> t, page |-> page[t], length |-> Length(t)])

\* rdma_read posts the read and waits for it with user_mutex held.  A puller ignores that
\* it has failed, the handler throws.
RdmaRead(t) ==
  /\ IF Covered(t)
     THEN PostRead(t) /\ Goto(t, "wait") /\ user_mutex' = t /\ UNCHANGED halted
     ELSE /\ IF program[t] = "app"
             THEN Throw /\ UNCHANGED pc
             ELSE Goto(t, AfterPull(t)) /\ UNCHANGED halted
          /\ UNCHANGED <<wr, user_mutex>>
  /\ UNCHANGED page

\* rdma_read_async posts the read and returns; it throws when nothing covers the region.
RdmaReadAsync(t) ==
  /\ IF Covered(t)
     THEN PostRead(t) /\ Goto(t, "lookup") /\ page' = [page EXCEPT ![t] = @ + 1]
                      /\ UNCHANGED halted
     ELSE Throw /\ UNCHANGED <<wr, pc, page>>
  /\ UNCHANGED user_mutex

\* Pull and PullAsync
Read(t) ==
  /\ At(t, "post")
  /\ user_mutex = CQ
  /\ IF IsAsync(t) THEN RdmaReadAsync(t) ELSE RdmaRead(t)
  /\ UNCHANGED <<program, state, pageVars, registered, serving, done_sent, run, snapshot,
                 closing, rate_limiter>>

\* on_completion of the oldest read.  A synchronous one wakes its thread, an
\* asynchronous one starts MarkPageLocalCB on the completion thread and stays at
\* the head of wr until that returns.  A read the source does not serve any more
\* completes with an error: the completion thread stops and wakes nobody.
OnCompletion ==
  LET r == Head(wr) IN
  /\ At(CQ, "idle")
  /\ run
  /\ wr # <<>>
  /\ IF serving
     THEN /\ data' = [data EXCEPT ![r.page] =
                        IF r.length >= getPageSize(r.page) THEN "source" ELSE "partial"]
          /\ IF IsAsync(r.actor)
             THEN /\ Goto(CQ, "protect")
                  /\ page' = [page EXCEPT ![CQ] = r.page]
                  /\ UNCHANGED <<wr, user_mutex>>
             ELSE /\ Goto(r.actor, AfterPull(r.actor))
                  /\ wr' = Tail(wr)
                  /\ user_mutex' = CQ
                  /\ UNCHANGED page
          /\ UNCHANGED run
     ELSE run' = FALSE /\ UNCHANGED <<data, wr, pc, page, user_mutex>>
  /\ UNCHANGED <<program, state, ps, local_pages, prot, registered, serving, done_sent,
                 snapshot, closing, rate_limiter, halted>>

-----------------------------------------------------------------------------
(* A page becomes Local.  The handler stores the state, counts the page and *)
(* then opens it; MarkPageLocal and MarkPageLocalCB open it first.          *)

IsHandler(t) == t \in Thread /\ program[t] = "app"

\* Mutant: the page stays closed.
ProtectSkips(t) ==
  /\ At(t, "protect")
  /\ Goto(t, IF IsHandler(t) THEN "idle" ELSE "local")
  /\ rate_limiter' = IF t = CQ
                     THEN [rate_limiter EXCEPT ![Head(wr).actor] = @ - 1]
                     ELSE rate_limiter
  /\ UNCHANGED <<program, state, pageVars, connVars, page, snapshot, closing, halted>>

\* mprotect of the page.  MarkPageLocalCB then lowers the counter of its puller.
Protect(t) ==
  /\ At(t, "protect")
  /\ prot' = [prot EXCEPT ![page[t]] = "RW"]
  /\ Goto(t, IF IsHandler(t) THEN "idle" ELSE "local")
  /\ rate_limiter' = IF t = CQ
                     THEN [rate_limiter EXCEPT ![Head(wr).actor] = @ - 1]
                     ELSE rate_limiter
  /\ UNCHANGED <<program, state, ps, local_pages, data, connVars, page, snapshot, closing,
                 halted>>

\* setPageState(addr, Local): the store ...
SetPageState(t) ==
  /\ At(t, "local")
  /\ ps' = [ps EXCEPT ![page[t]] = "Local"]
  /\ Goto(t, "count")
  /\ UNCHANGED <<program, state, local_pages, prot, data, connVars, page, snapshot, closing,
                 rate_limiter, halted>>

\* Mutants of the count: it is lowered, or forgotten by the callback.
CountDown(t) ==
  /\ At(t, "count")
  /\ local_pages' = local_pages - 1
  /\ Goto(t, "done")
  /\ UNCHANGED <<program, state, ps, prot, data, connVars, page, snapshot, closing,
                 rate_limiter, halted>>

CountNotInCallback(t) ==
  /\ At(t, "count")
  /\ local_pages' = IF t = CQ THEN local_pages ELSE local_pages + 1
  /\ IF IsHandler(t)
     THEN Goto(t, "protect") /\ UNCHANGED <<page, wr>>
     ELSE IF t = CQ
     THEN Goto(t, "idle") /\ wr' = Tail(wr) /\ UNCHANGED page
     ELSE Goto(t, "lookup") /\ page' = [page EXCEPT ![t] = @ + 1] /\ UNCHANGED wr
  /\ UNCHANGED <<program, state, ps, prot, data, registered, serving, done_sent, user_mutex,
                 run, snapshot, closing, rate_limiter, halted>>

\* ... and the increment of local_pages.
CountPage(t) ==
  /\ At(t, "count")
  /\ local_pages' = local_pages + 1
  /\ IF IsHandler(t)
     THEN Goto(t, "protect") /\ UNCHANGED <<page, wr>>
     ELSE IF t = CQ
     THEN Goto(t, "idle") /\ wr' = Tail(wr) /\ UNCHANGED page
     ELSE Goto(t, "lookup") /\ page' = [page EXCEPT ![t] = @ + 1] /\ UNCHANGED wr
  /\ UNCHANGED <<program, state, ps, prot, data, registered, serving, done_sent, user_mutex,
                 run, snapshot, closing, rate_limiter, halted>>

-----------------------------------------------------------------------------
(* The end of the migration.                                               *)

\* Mutants: one page short, and no check at all.
CheckShort(t) ==
  /\ At(t, "check")
  /\ IF local_pages < num_pages - 1
     THEN Goto(t, "idle") /\ UNCHANGED state
     ELSE Goto(t, "close") /\ UpdateState("Clean")
  /\ UNCHANGED <<program, pageVars, connVars, page, snapshot, closing, rate_limiter, halted>>

CheckNothing(t) ==
  /\ At(t, "check")
  /\ Goto(t, "close")
  /\ UpdateState("Clean")
  /\ UNCHANGED <<program, pageVars, connVars, page, snapshot, closing, rate_limiter, halted>>

\* PullAllPages after a pass: it begins another one while a page is missing.
CheckAllPages(t) ==
  /\ At(t, "check")
  /\ IF local_pages < num_pages
     THEN Goto(t, "idle") /\ UNCHANGED state
     ELSE Goto(t, "close") /\ UpdateState("Clean")
  /\ UNCHANGED <<program, pageVars, connVars, page, snapshot, closing, rate_limiter, halted>>

\* close: open the whole segment and, with PREFETCHING, pull once more.
CloseOpens(t) ==
  /\ At(t, "close")
  /\ prot' = [p \in PageId |-> "RW"]
  /\ closing' = [closing EXCEPT ![t] = TRUE]
  /\ IF PREFETCHING
     THEN /\ Goto(t, "lookup")
          /\ page' = [page EXCEPT ![t] = 0]
          /\ snapshot' = [snapshot EXCEPT ![t] = {p \in PageId : ps[p] = "Local"}]
     ELSE Goto(t, "send") /\ UNCHANGED <<page, snapshot>>
  /\ UNCHANGED <<program, state, ps, local_pages, data, connVars, rate_limiter, halted>>

\* UpdateState and send_close
SendClose(t) ==
  /\ At(t, "send")
  /\ user_mutex = CQ
  /\ UpdateState("Clean")
  /\ done_sent' = TRUE
  /\ Goto(t, "deregister")
  /\ UNCHANGED <<program, pageVars, registered, serving, user_mutex, wr, run, page, snapshot,
                 closing, rate_limiter, halted>>

\* deregister_memory
CloseDeregisters(t) ==
  /\ At(t, "deregister")
  /\ user_mutex = CQ
  /\ registered' = FALSE
  /\ Goto(t, "done")
  /\ UNCHANGED <<program, state, pageVars, serving, done_sent, user_mutex, wr, run, page,
                 snapshot, closing, rate_limiter, halted>>

\* on_close at the source, which deregisters its side.
OnClose ==
  /\ done_sent
  /\ serving
  /\ serving' = FALSE
  /\ UNCHANGED <<program, state, pageVars, registered, done_sent, user_mutex, wr, run,
                 threadVars, halted>>

\* PullPagesAsync waits until its counter is not positive, and frees it.
Drain(t) ==
  /\ At(t, "drain")
  /\ rate_limiter[t] <= 0
  /\ Goto(t, "done")
  /\ UNCHANGED <<program, state, pageVars, connVars, page, snapshot, closing, rate_limiter,
                 halted>>

-----------------------------------------------------------------------------

\* One step of a thread, without the accesses its program chooses to make.
Step(t) ==
  \/ BeginPull(t)
  \/ Lookup(t)
  \/ Limit(t)
  \/ Claim(t)
  \/ Read(t)
  \/ Protect(t)
  \/ SetPageState(t)
  \/ CountPage(t)
  \/ CheckAllPages(t)
  \/ CloseOpens(t)
  \/ SendClose(t)
  \/ CloseDeregisters(t)
  \/ Drain(t)

Completion ==
  \/ OnCompletion
  \/ Protect(CQ)
  \/ SetPageState(CQ)
  \/ CountPage(CQ)

Next ==
  \/ OnTransfer
  \/ \E t \in Thread, p \in PageId : Write(t, p)
  \/ \E t \in Thread, p \in PageId : Fault(t, p)
  \/ \E t \in Thread : Step(t)
  \/ Completion
  \/ OnClose

Spec == Init /\ [][Next]_vars

\* Every thread runs, the adapter completes the reads, and a thread that faults
\* at a page faults again until it may access it.
Fairness ==
  /\ WF_vars(OnTransfer)
  /\ \A t \in Thread : WF_vars(Step(t))
  /\ \A t \in Thread, p \in PageId : WF_vars(Fault(t, p) /\ page[t] = p)
  /\ WF_vars(Completion)

FairSpec == Spec /\ Fairness

-----------------------------------------------------------------------------
(* Properties.                                                             *)

\* Every variable has its type.
TypeOK ==
  /\ program \in [Thread -> Program]
  /\ state \in {"Clean", "Shared"}
  /\ ps \in [PageId -> {"Remote", "InFlight", "Local"}]
  /\ local_pages \in Nat
  /\ prot \in [PageId -> {"NONE", "RW"}]
  /\ data \in [PageId -> {"empty", "partial", "source", "written"}]
  /\ {registered, serving, done_sent, run, halted} \subseteq BOOLEAN
  /\ user_mutex \in Actor
  /\ wr \in Seq([actor : Thread, page : PageId, length : Nat])
  /\ pc \in [Actor -> {"idle", "lookup", "limit", "claim", "post", "wait", "protect", "local",
                       "count", "check", "close", "send", "deregister", "drain", "done"}]
  /\ page \in [Actor -> 0 .. num_pages]
  /\ snapshot \in [Thread -> SUBSET PageId]
  /\ closing \in [Thread -> BOOLEAN]
  /\ rate_limiter \in [Thread -> Int]

Here(p) == data[p] \in {"source", "written"}

\* A page that the table says is Local holds all of the data of the source, and once the
\* segment has been transferred an access that does not fault meets that data, whichever
\* thread stored the state and whichever opened the page.
OpenIsHere ==
  /\ \A p \in PageId : ps[p] = "Local" => Here(p)
  /\ state = "Shared" \/ done_sent => \A p \in PageId : prot[p] = "RW" => Here(p)

\* Nobody overwrites what the program has written: a page is never pulled after
\* it was opened.
WritesSurvive == [][\A p \in PageId : data[p] = "written" => data'[p] = "written"]_vars

\* local_pages counts every Local page once, whoever pulled it; it lags behind by
\* the pages whose thread is between the store and the increment.
CountExact ==
  local_pages + Cardinality({t \in Actor : pc[t] = "count"})
    = Cardinality({p \in PageId : ps[p] = "Local"})

\* When the source is told that it may release the segment, every page is here and
\* no read is pending.
CloseIsLast ==
  done_sent => wr = <<>> /\ \A p \in PageId : ps[p] = "Local" /\ Here(p)

\* No exception escapes and no read fails, after which threads would wait for ever.
NoFailure == run /\ ~halted

\* PullAllPages ends and the source can release the segment, whatever the other
\* threads pull and touch meanwhile.
PullAllPagesCloses == (\E t \in Thread : program[t] = "pullAll") ~> done_sent

\* A thread that faults gets at its page, though it may lose the race for it to
\* any of the others.
FaultServed ==
  \A p \in PageId :
    (\E t \in Thread : program[t] = "app" /\ pc[t] # "idle" /\ page[t] = p) ~> (prot[p] = "RW")

\* Prefetching ends: the counter holds a puller back only while reads are pending.
PrefetchEnds ==
  \A t \in Thread :
    (program[t] = "prefetchAsync") ~> (program[t] # "prefetchAsync" \/ pc[t] = "done")

=============================================================================
