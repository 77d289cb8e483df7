-------------------------- MODULE SubscriptionTable --------------------------
(***************************************************************************)
(* What the listener registry promises: every connection has a table of    *)
(* its own, an entry for each filter it subscribed to.  An entry is what   *)
(* notifyListeners uses, and it never changes.  A CLOSE takes away the     *)
(* connection's entries with the id, a disconnection takes away all of     *)
(* them, one at a time, and no other connection's table is touched.        *)
(* The order of a table means nothing.                                     *)
(***************************************************************************)
EXTENDS Integers, Sequences

CONSTANTS Conns, Ids, Filters, Relays

VARIABLES
  members,   \* the connections that can subscribe
  table,     \* the entries of each connection
  busy       \* whose entries are being taken away, and which of them

tableVars == <<members, table, busy>>

Entry(c, id, r, f) == [relay |-> r, to |-> [id |-> id, filter |-> f, ws |-> c]]

Idle == [kind |-> "free"]
Closing(c, id) == [kind |-> "close", ws |-> c, id |-> id]
Leaving(c) == [kind |-> "leave", ws |-> c]

SwapDelete(q, i) == [k \in 1..(Len(q) - 1) |-> IF k = i THEN q[Len(q)] ELSE q[k]]

TInit ==
  /\ members = {}
  /\ table = [c \in Conns |-> <<>>]
  /\ busy = Idle

Join(c) ==
  /\ busy = Idle
  /\ c \notin members
  /\ members' = members \cup {c}
  /\ UNCHANGED <<table, busy>>

Subscribe(c, id, r, f) ==
  /\ busy = Idle
  /\ c \in members
  /\ table' = [table EXCEPT ![c] = Append(@, Entry(c, id, r, f))]
  /\ UNCHANGED <<members, busy>>

BeginClose(c, id) ==
  /\ busy = Idle
  /\ c \in members
  /\ busy' = Closing(c, id)
  /\ UNCHANGED <<members, table>>

\* The last entry takes the place of the one that goes.
Cut(c, id, i) ==
  /\ busy = Closing(c, id)
  /\ i \in DOMAIN table[c]
  /\ table[c][i].to.id = id
  /\ table' = [table EXCEPT ![c] = SwapDelete(@, i)]
  /\ UNCHANGED <<members, busy>>

EndClose(c, id) ==
  /\ busy = Closing(c, id)
  /\ \A i \in DOMAIN table[c] : table[c][i].to.id # id
  /\ busy' = Idle
  /\ UNCHANGED <<members, table>>

BeginLeave(c) ==
  /\ busy = Idle
  /\ c \in members
  /\ busy' = Leaving(c)
  /\ UNCHANGED <<members, table>>

Forget(c) ==
  /\ busy = Leaving(c)
  /\ table[c] # <<>>
  /\ table' = [table EXCEPT ![c] = Tail(@)]
  /\ UNCHANGED <<members, busy>>

EndLeave(c) ==
  /\ busy = Leaving(c)
  /\ table[c] = <<>>
  /\ members' = members \ {c}
  /\ busy' = Idle
  /\ UNCHANGED table

ForgetAll ==
  /\ busy = Idle
  /\ members' = {}
  /\ table' = [c \in Conns |-> <<>>]
  /\ UNCHANGED busy

TNext ==
  \/ \E c \in Conns : Join(c) \/ BeginLeave(c) \/ Forget(c) \/ EndLeave(c)
  \/ \E c \in Conns, id \in Ids :
       \/ BeginClose(c, id)
       \/ \E i \in DOMAIN table[c] : Cut(c, id, i)
       \/ EndClose(c, id)
       \/ \E r \in Relays, f \in Filters : Subscribe(c, id, r, f)
  \/ ForgetAll

TableSpec == TInit /\ [][TNext]_tableVars
=============================================================================
