----------------------------- MODULE MCBlossom -----------------------------
(***************************************************************************)
(* Two owners that upload and delete the same blob, up to three requests   *)
(* at a time and five in all, in one of two seconds, with a call that      *)
(* fails.                                                                  *)
(***************************************************************************)
EXTENDS Blossom, TLC

Symmetry == Permutations(Owners) \cup Permutations(Handlers)
=============================================================================
