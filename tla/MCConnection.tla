---------------------------- MODULE MCConnection -----------------------------
(***************************************************************************)
(* Connection for TLC, with the calls of tests/rdma-network: node 0        *)
(* announces a region to node 1 and sends it the address and the size in   *)
(* two messages; node 1 receives both and reads the region.                *)
(***************************************************************************)
EXTENDS Connection

Address == 7
Size    == 8

TestWork ==
  [n \in Node |->
     CASE n = 0 -> <<Call("register", 1, Address), Call("send", 1, Address),
                     Call("send", 1, Size)>>
       [] n = 1 -> <<Call("receive", 0, Address), Call("receive", 0, Size),
                     Call("read", 0, Address)>>
       [] OTHER -> <<>>]
=============================================================================
