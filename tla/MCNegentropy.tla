---------------------------- MODULE MCNegentropy ----------------------------
(***************************************************************************)
(* Four messages for an id, two handled at a time; a timer takes two ticks.*)
(***************************************************************************)
EXTENDS Negentropy
=============================================================================
