------------------------------ MODULE MCMemory ------------------------------
EXTENDS Memory

CONSTANTS p1, p2

(* Two regions: one too small for the bootstrap pages, and the one they    *)
(* come from.                                                              *)
Regions == <<[base |-> 100, num |-> 2], [base |-> 10, num |-> 40]>>

(* Threads with their stacks; objects that processes share; and objects    *)
(* over pages that the caller names.                                       *)
Together ==
  {[ops |-> {"thread"}, steps |-> 14],
   [ops |-> {"create", "map", "send", "unmap"}, steps |-> 9],
   [ops |-> {"contiguous", "physical", "map"}, steps |-> 8]}

(* Init gets one program.                                                  *)
Programs == <<1>>

Slots == 16 :> 2 @@ 32 :> 4 @@ 64 :> 2
=============================================================================
