------------------------------ MODULE MCPaging -------------------------------
(* Instances of Paging for TLC.                                            *)
EXTENDS Paging, TLC

CONSTANTS t1, t2, t3

\* A faulting thread, the thread that closes, and a third that faults, prefetches
\* or pulls its first page; and faults and prefetching that no close follows.
PullPrograms ==
  {t1 :> "app" @@ t2 :> x @@ t3 :> "pullAll" :
     x \in {"app", "prefetch", "prefetchAsync", "pullPagesAsync", "pullPagesSync"}}
  \cup {t1 :> "app" @@ t2 :> "prefetchAsync" @@ t3 :> "prefetch"}

\* A faulting thread and the asynchronous prefetcher.
LeakPrograms == {t1 :> "app" @@ t2 :> "prefetchAsync"}

=============================================================================
