-------------------------- MODULE ListenerRegistry --------------------------
(***************************************************************************)
(* The table of live subscriptions of a relay (listener.go).               *)
(*                                                                         *)
(* A subscription filter lives in two places that point at each other: a   *)
(* listener, in the `listeners` slice of the (sub)relay that serves the    *)
(* filter, and a listenerSpec, in the slice the top relay keeps for the    *)
(* connection, whose `index` is the listener's place.  Both slices are     *)
(* kept dense by swap-deletion, so a removal moves an element that belongs *)
(* to somebody else and has to find and repair the spec that points at it. *)
(*                                                                         *)
(* Everything here runs under the top relay's clientsMutex.  The loops of  *)
(* the two removals take one step per iteration, because notifyListeners   *)
(* reads `listeners` without the mutex and can see what an iteration left. *)
(***************************************************************************)
EXTENDS Integers, Sequences

CONSTANTS
  Conns,         \* *WebSocket pointers; a value may be used again once its connection is gone
  Ids,           \* subscription ids
  Filters,       \* nostr filters
  Relays,        \* the top relay and the relays its router forwards to
  Top,           \* the relay the connections were accepted by
  MaxListeners   \* bound on the length of each relay's `listeners`

ASSUME TopAssumption == Top \in Relays
ASSUME BoundAssumption == MaxListeners \in [Relays -> Nat]

VARIABLES
  registered,    \* the keys of rl.clients
  clients,       \* rl.clients: the specs of each connection (<<>>, Go's nil, for no key)
  listeners,     \* the `listeners` of each relay
  down,          \* Shutdown was called
  op             \* the removal that holds clientsMutex between two iterations

vars == <<registered, clients, listeners, down, op>>

-----------------------------------------------------------------------------
(* Data.  `index` counts from 0, as the code does; -1 marks a spec whose   *)
(* listener is gone.  spec.cancel is not kept: nothing here reads it.      *)

listenerSpec == [id: Ids, index: Int, subrelay: Relays]
listener == [id: Ids, filter: Filters, ws: Conns]

Free == [kind |-> "free"]
Close == [kind: {"close"}, ws: Conns, id: Ids, s: Nat]
Leave == [kind: {"leave"}, ws: Conns, s: Nat]

ListenerAt(r, index) == listeners[r][index + 1]
LastIndex(r) == Len(listeners[r]) - 1

\* q[i] = q[len(q)-1]; q = q[0:len(q)-1]
SwapDelete(q, i) == [k \in 1..(Len(q) - 1) |-> IF k = i THEN q[Len(q)] ELSE q[k]]

\* Mutant: the search for the moved spec looks at the index only.
SpecPointingAtAnyRelay(specs, r, index) ==
  IF \E s \in DOMAIN specs : specs[s].index = index
  THEN CHOOSE s \in DOMAIN specs :
         specs[s].index = index /\ \A t \in 1..(s - 1) : specs[t].index # index
  ELSE 0

\* slices.IndexFunc(...): the first spec that points at a place of r, 0 if none does
SpecPointingAt(specs, r, index) ==
  LET hit(s) == specs[s].index = index /\ specs[s].subrelay = r
  IN  IF \E s \in DOMAIN specs : hit(s)
      THEN CHOOSE s \in DOMAIN specs : hit(s) /\ \A t \in 1..(s - 1) : ~hit(t)
      ELSE 0

-----------------------------------------------------------------------------
Init ==
  /\ registered = {}
  /\ clients = [c \in Conns |-> <<>>]
  /\ listeners = [r \in Relays |-> <<>>]
  /\ down = FALSE
  /\ op = Free

(* HandleWebsocket stores an empty slice for the new connection.  A request *)
(* that was being upgraded when Shutdown ran still gets here.              *)
Connect(c) ==
  /\ op = Free
  /\ c \notin registered
  /\ registered' = registered \cup {c}
  /\ clients' = [clients EXCEPT ![c] = <<>>]
  /\ UNCHANGED <<listeners, down, op>>

(* addListener.  It does nothing for a connection that has gone already.   *)
AddListener(c, id, r, f) ==
  /\ op = Free
  /\ c \in registered
  /\ Len(listeners[r]) < MaxListeners[r]
  /\ clients' = [clients EXCEPT ![c] =
                   Append(@, [id |-> id, index |-> Len(listeners[r]), subrelay |-> r])]
  /\ listeners' = [listeners EXCEPT ![r] = Append(@, [id |-> id, filter |-> f, ws |-> c])]
  /\ UNCHANGED <<registered, down, op>>

\* Mutant: the last listener is cut off without taking the free place.
DropCutsLast(specs, r, index) ==
  LET moved == ListenerAt(r, LastIndex(r))
      t == SpecPointingAt(specs[moved.ws], r, LastIndex(r))
  IN  /\ listeners' = [listeners EXCEPT ![r] = SwapDelete(@, Len(@))]
      /\ clients' = IF index = LastIndex(r)
                      THEN specs
                      ELSE [specs EXCEPT ![moved.ws][t].index = index]

(* Drop the listener at place `index` of r: the last one takes its place,  *)
(* and the spec that pointed at the last one, found in `specs`, follows.   *)
Drop(specs, r, index) ==
  LET moved == ListenerAt(r, LastIndex(r))
      t == SpecPointingAt(specs[moved.ws], r, LastIndex(r))
  IN  /\ listeners' = [listeners EXCEPT ![r] = SwapDelete(@, index + 1)]
      /\ clients' = IF index = LastIndex(r)
                      THEN specs
                      ELSE [specs EXCEPT ![moved.ws][t].index = index]

(* What clients is when an iteration drops the listener: a CLOSE has taken *)
(* the spec out; a disconnection keeps the specs in their slice until the  *)
(* end, and marks the one being dropped if a search for another follows.   *)
SpecsAfterClose(c, s) == [clients EXCEPT ![c] = SwapDelete(@, s)]

SpecsAfterLeave(c, s) ==
  IF clients[c][s].index = LastIndex(clients[c][s].subrelay)
    THEN clients
    ELSE [clients EXCEPT ![c][s].index = -1]

(* removeListenerId: the caller gets the mutex and starts from the last spec. *)
RemoveListenerIdBegin(c, id) ==
  /\ op = Free
  /\ c \in registered
  /\ op' = [kind |-> "close", ws |-> c, id |-> id, s |-> Len(clients[c])]
  /\ UNCHANGED <<registered, clients, listeners, down>>

\* Mutant: the loop goes on for one spec more than there are.
RemoveListenerIdEndLate ==
  /\ op \in Close
  /\ op.s = 0
  /\ op' = [op EXCEPT !.s = -1]
  /\ UNCHANGED <<registered, clients, listeners, down>>

RemoveListenerIdStep ==
  /\ op \in Close
  /\ op.s > 0
  /\ LET spec == clients[op.ws][op.s]
     IN  IF spec.id = op.id
         THEN Drop(SpecsAfterClose(op.ws, op.s), spec.subrelay, spec.index)
         ELSE UNCHANGED <<clients, listeners>>
  /\ op' = [op EXCEPT !.s = @ - 1]
  /\ UNCHANGED <<registered, down>>

RemoveListenerIdEnd ==
  /\ op \in Close
  /\ op.s = 0
  /\ op' = Free
  /\ UNCHANGED <<registered, clients, listeners, down>>

(* removeClientAndListeners: from the first spec on.                       *)
RemoveClientBegin(c) ==
  /\ op = Free
  /\ c \in registered
  /\ op' = [kind |-> "leave", ws |-> c, s |-> 1]
  /\ UNCHANGED <<registered, clients, listeners, down>>

RemoveClientStep ==
  /\ op \in Leave
  /\ op.s <= Len(clients[op.ws])
  /\ LET spec == clients[op.ws][op.s]
     IN  Drop(SpecsAfterLeave(op.ws, op.s), spec.subrelay, spec.index)
  /\ op' = [op EXCEPT !.s = @ + 1]
  /\ UNCHANGED <<registered, down>>

RemoveClientEnd ==
  /\ op \in Leave
  /\ op.s > Len(clients[op.ws])
  /\ registered' = registered \ {op.ws}
  /\ clients' = [clients EXCEPT ![op.ws] = <<>>]
  /\ op' = Free
  /\ UNCHANGED <<listeners, down>>

(* Shutdown forgets every connection and empties the top relay's listeners *)
(* only: those of the other relays keep their entries.                     *)
Shutdown ==
  /\ op = Free
  /\ registered' = {}
  /\ clients' = [c \in Conns |-> <<>>]
  /\ listeners' = [listeners EXCEPT ![Top] = <<>>]
  /\ down' = TRUE
  /\ UNCHANGED op

Next ==
  \/ \E c \in Conns : Connect(c)
  \/ \E c \in Conns, id \in Ids, r \in Relays, f \in Filters : AddListener(c, id, r, f)
  \/ \E c \in Conns, id \in Ids : RemoveListenerIdBegin(c, id)
  \/ RemoveListenerIdStep
  \/ RemoveListenerIdEnd
  \/ \E c \in Conns : RemoveClientBegin(c)
  \/ RemoveClientStep
  \/ RemoveClientEnd
  \/ Shutdown

Spec == Init /\ [][Next]_vars

-----------------------------------------------------------------------------
(* Properties                                                              *)

\* The state is made of what the code stores (listener.go:13-24, relay.go:99-101).
TypeOK ==
  /\ registered \subseteq Conns
  /\ clients \in [Conns -> Seq(listenerSpec)]
  /\ listeners \in [Relays -> Seq(listener)]
  /\ down \in BOOLEAN
  /\ op \in {Free} \cup Close \cup Leave

\* The specs of c that still stand for a listener: a disconnection is done with those before op.s.
Live(c) == IF op \in Leave /\ op.ws = c THEN op.s..Len(clients[c]) ELSE DOMAIN clients[c]

\* Place i of r's listeners is the place some live spec points at.
PointsAt(c, s, r, i) == clients[c][s].subrelay = r /\ clients[c][s].index = i - 1
Owned(r, i) == \E c \in Conns : \E s \in Live(c) : PointsAt(c, s, r, i)

\* A live spec points at a listener that exists and carries the connection and the id of the
\* spec, whatever swap-deletions happened since it was added (listener.go:47-58, 81-95, 111-129).
SpecsPointHome ==
  \A c \in Conns : \A s \in Live(c) :
    LET spec == clients[c][s]
    IN  /\ spec.index \in 0..LastIndex(spec.subrelay)
        /\ ListenerAt(spec.subrelay, spec.index).ws = c
        /\ ListenerAt(spec.subrelay, spec.index).id = spec.id

\* Two live specs of a connection never share a listener: a filter is not lost behind another one
\* (listener.go:34, "each filter will be added as an independent listener").
NoSharedListener ==
  \A c \in Conns : \A s, t \in Live(c) :
    s # t /\ clients[c][s].subrelay = clients[c][t].subrelay
      => clients[c][s].index # clients[c][t].index

\* No listener outlives its spec: what a disconnection or a CLOSE leaves behind nobody could
\* remove any more.  Only Shutdown leaves some, and only in relays other than the top one
\* (get-started.go:63-64).
NoOrphanListener ==
  \A r \in Relays : \A i \in DOMAIN listeners[r] : Owned(r, i) \/ (down /\ r # Top)

\* When the next iteration of a removal has to move a listener, the spec of the moved listener
\* is there to be found; the code indexes with IndexFunc's -1 otherwise and panics with the
\* mutex held (listener.go:88-92, 122-126).
MoveFinds(specs, r, index) ==
  index # LastIndex(r) =>
    SpecPointingAt(specs[ListenerAt(r, LastIndex(r)).ws], r, LastIndex(r)) # 0

MovedSpecFound ==
  \A c \in Conns : \A s \in DOMAIN clients[c] :
    LET spec == clients[c][s]
    IN  /\ op \in Close /\ op.ws = c /\ op.s = s /\ spec.id = op.id
             => MoveFinds(SpecsAfterClose(c, s), spec.subrelay, spec.index)
        /\ op \in Leave /\ op.ws = c /\ op.s = s
             => MoveFinds(SpecsAfterLeave(c, s), spec.subrelay, spec.index)

\* Through every addition and swap deletion the specs of the clients and the listeners of the
\* relays point at each other one to one, but for what Shutdown leaves behind a router, and no
\* removal fails to find the spec it has to correct (listener.go:47-58, 62-133).
IndexIsRight ==
  SpecsPointHome /\ NoSharedListener /\ NoOrphanListener /\ MovedSpecFound

-----------------------------------------------------------------------------
(* The table a connection has: its live specs, each with the listener it   *)
(* points at.                                                              *)
LiveSpecs(c) ==
  IF op \in Leave /\ op.ws = c THEN SubSeq(clients[c], op.s, Len(clients[c])) ELSE clients[c]

Resolve(spec) == [relay |-> spec.subrelay, to |-> ListenerAt(spec.subrelay, spec.index)]

Table == [c \in Conns |-> [s \in DOMAIN LiveSpecs(c) |-> Resolve(LiveSpecs(c)[s])]]

Busy ==
  CASE op \in Close -> [kind |-> "close", ws |-> op.ws, id |-> op.id]
    [] op \in Leave -> [kind |-> "leave", ws |-> op.ws]
    [] OTHER -> Free

Abstract == INSTANCE SubscriptionTable WITH members <- registered, table <- Table, busy <- Busy

\* The two-way index is invisible: through every swap-deletion each connection keeps exactly the
\* entries it subscribed to and has not closed, and the end of a CLOSE leaves none with its id
\* (listener.go:62-133).
ImplementsTable == Abstract!TableSpec
=============================================================================
