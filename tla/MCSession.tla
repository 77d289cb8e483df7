----------------------------- MODULE MCSession -----------------------------
(***************************************************************************)
(* Two goroutines that write to one connection, with a read deadline of    *)
(* two pings.                                                              *)
(***************************************************************************)
EXTENDS Session
=============================================================================
