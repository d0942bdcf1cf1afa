------------------------------ MODULE Ownership ------------------------------
(***************************************************************************)
(* What the migration protocol promises to the programs that use it: every *)
(* segment has at most one owner in the cluster, only the owner changes    *)
(* its contents, and a segment that is handed over reaches its new owner   *)
(* with the contents the old owner left in it.                             *)
(***************************************************************************)
EXTENDS Naturals

CONSTANTS
  Server,   \* servers of the cluster
  Addr,     \* addresses of the segments
  Nobody,   \* owner of a segment that is not allocated
  Moving    \* owner of a segment on its way to another server

VARIABLES
  owner,    \* owner[a]
  value     \* value[a], contents of the segment

vars == <<owner, value>>

Init ==
  /\ owner = [a \in Addr |-> Nobody]
  /\ value = [a \in Addr |-> 0]

Allocate(n, a) ==
  /\ owner[a] = Nobody
  /\ owner' = [owner EXCEPT ![a] = n]
  /\ value' = [value EXCEPT ![a] = 0]

Write(n, a) ==
  /\ owner[a] = n
  /\ value' = [value EXCEPT ![a] = @ + 1]
  /\ UNCHANGED owner

Release(n, a) ==
  /\ owner[a] = n
  /\ owner' = [owner EXCEPT ![a] = Moving]
  /\ UNCHANGED value

Acquire(n, a) ==
  /\ owner[a] = Moving
  /\ owner' = [owner EXCEPT ![a] = n]
  /\ UNCHANGED value

Free(n, a) ==
  /\ owner[a] = n
  /\ owner' = [owner EXCEPT ![a] = Nobody]
  /\ value' = [value EXCEPT ![a] = 0]

Next ==
  \E n \in Server, a \in Addr :
    \/ Allocate(n, a)
    \/ Write(n, a)
    \/ Release(n, a)
    \/ Acquire(n, a)
    \/ Free(n, a)

Spec == Init /\ [][Next]_vars
=============================================================================
