--------------------------- MODULE MCLiveUpdates ---------------------------
(***************************************************************************)
(* LiveUpdates with two members, and the device of one of them.            *)
(***************************************************************************)
EXTENDS LiveUpdates, TLC

CONSTANTS ann, bob, d1

MCBounds ==
  {[edits |-> 1, access |-> 1, faults |-> 0],
   [edits |-> 0, access |-> 2, faults |-> 0],
   [edits |-> 2, access |-> 0, faults |-> 1],
   [edits |-> 0, access |-> 1, faults |-> 1]}

MCUserOf == d1 :> ann
=============================================================================
