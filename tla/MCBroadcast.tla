----------------------------- MODULE MCBroadcast -----------------------------
(***************************************************************************)
(* Three listeners over an array that is full with two of them: in-place   *)
(* appends, a reallocation, and slots freed and taken again all happen.    *)
(***************************************************************************)
EXTENDS Broadcast, TLC

CONSTANTS l1, l2, l3

MCListeners == {l1, l2, l3}
MCMatching == {l1, l2, l3}
MCPrevented == {l3}
MCInitialCap == 2
MCMaxWrites == 7

MCSymmetry == Permutations({l1, l2})
=============================================================================
