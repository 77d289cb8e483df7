--------------------------- MODULE MCRateLimiter ---------------------------
(***************************************************************************)
(* Three callers that ask about one key: one counter is in the map while   *)
(* the callers hold up to three others, or all add to the same one.  Keys  *)
(* share nothing but the goroutine that visits them.                       *)
(***************************************************************************)
EXTENDS RateLimiter
=============================================================================
