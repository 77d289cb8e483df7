-------------------------- MODULE MCAuthentication --------------------------
(***************************************************************************)
(* Three goroutines that ask, wait or read, and two AUTH messages with two *)
(* keys.                                                                   *)
(***************************************************************************)
EXTENDS Authentication, TLC

CONSTANTS a1, a2, k1, k2

MCKeyOf == a1 :> k1 @@ a2 :> k2
Symmetry == Permutations(Goroutines)
=============================================================================
