---------------------------- MODULE MCConnection ----------------------------
(***************************************************************************)
(* A REQ with a filter that has limit 0 and one for members, which two     *)
(* query functions answer, and one for another subscription.  An event is  *)
(* stored before them or meanwhile, and broadcast.                         *)
(***************************************************************************)
EXTENDS Connection, TLC

CONSTANTS r1, r2, new

All == {new}
MCRequests == {r1, r2}
MCSub == r1 :> "a" @@ r2 :> "b"
MCFilters ==
  r1 :> <<[matches |-> {new}, members |-> FALSE, zero |-> TRUE],
          [matches |-> {new}, members |-> TRUE, zero |-> FALSE]>> @@
  r2 :> <<[matches |-> {new}, members |-> FALSE, zero |-> TRUE]>>
=============================================================================
