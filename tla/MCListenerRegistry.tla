------------------------- MODULE MCListenerRegistry -------------------------
(* A small instance of the registry: two connections, two ids, one filter, *)
(* the top relay and one relay behind its router.                          *)
EXTENDS ListenerRegistry, TLC

CONSTANTS c1, c2, i1, i2, top, sub

MCConns == {c1, c2}
MCIds == {i1, i2}
MCRelays == {top, sub}
MCMaxListeners == (top :> 3) @@ (sub :> 2)

Symmetry == Permutations(MCConns) \cup Permutations(MCIds)
=============================================================================
