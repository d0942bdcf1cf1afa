----------------------------- MODULE MCContainer -----------------------------
(* Container for TLC: two servers with two container objects each. *)
EXTENDS Container, TLC

CONSTANTS o1, o2, p1, p2

TwoEach == (o1 :> 0) @@ (o2 :> 0) @@ (p1 :> 1) @@ (p2 :> 1)
=============================================================================
