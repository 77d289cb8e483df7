----------------------------- MODULE Connection -----------------------------
(***************************************************************************)
(* The messages of one client: REQ, CLOSE and AUTH (handlers.go,           *)
(* responding.go, utils.go).  The reader of the connection gives every     *)
(* message a goroutine of its own, so the handlers of messages a client    *)
(* sent one after the other run at the same time.                          *)
(*                                                                         *)
(* The handler of a REQ goes through its filters.  Each is judged, put to  *)
(* the query functions, whose answers goroutines of their own stream to    *)
(* the client, and then listened to.  A WaitGroup counts the answers: when *)
(* all are out the client gets an EOSE.  Some filters are for clients that *)
(* authenticated: a REQ with one of those ends with AUTH and CLOSED.       *)
(*                                                                         *)
(* Events are broadcast meanwhile, by goroutines that go through the list  *)
(* of listeners without its mutex while others write it.  The list and its *)
(* slots are in ListenerRegistry and Broadcast.  Here it is a set, and a   *)
(* broadcast under way reaches what Broadcast shows it to reach: the       *)
(* matching listeners there when it was called, and perhaps some added     *)
(* since; but if listeners were both added and removed meanwhile it may    *)
(* miss any, and with a removal the fields of two may mix in what it       *)
(* sends.  No hook of PreventBroadcast is set.                             *)
(***************************************************************************)
EXTENDS Integers, Sequences, FiniteSets

CONSTANTS
  Requests,      \* the REQ messages of the client
  Sub,           \* the subscription id of each
  Filters,       \* the filters of each: what they match, if they are for members, if their limit is 0
  Events,        \* the events
  OldEvents,     \* those that are stored when the client connects
  Queries,       \* how many query functions there are
  MaxFaults,     \* bound on the queries that fail
  MaxCloses      \* bound on the CLOSE messages

ASSUME FiltersAssumption ==
  Filters \in [Requests -> Seq([matches : SUBSET Events, members : BOOLEAN, zero : BOOLEAN])]
ASSUME EventsAssumption == OldEvents \subseteq Events
\* What is stored is what the query functions find, so there is one.
ASSUME BoundsAssumption == Queries \in Nat \ {0} /\ {MaxFaults, MaxCloses} \subseteq Nat

VARIABLES
  connected,
  stored,        \* the events in the stores
  told,          \* the events whose broadcast was called
  walking,       \* those it goes on of
  reach,         \* of each event: the listeners registered at some moment since it was called
  there,         \* those that were when it was called
  crossed,       \* whether it was met by additions, removals or both
  run,           \* the handler of each REQ: where it is, at which filter and which query function
  eose,          \* its WaitGroup
  streams,       \* the answers still to be written: the filter, the query function and what is left
  cancelled,     \* the REQs whose context was cancelled
  listeners,     \* <<request, position of the filter>>
  closing,       \* the ids of CLOSE messages whose handler did not run yet
  authed,        \* AuthedPublicKey is set
  got,           \* the events each REQ got
  spent,         \* the bounded things that happened
  before,        \* what each REQ asked for of what was stored when its handler started
  failed,        \* the REQs of which a query failed
  closed,        \* the REQs for whose id a CLOSE was handled since they were sent
  quiet,         \* the ids that were closed after all of their REQs had an EOSE
  audience,      \* of each event: the REQs with an EOSE that asked for it when it was called
  hushed         \* of each event: the ids that have been quiet since before that

answer == <<run, eose, streams, failed>>
ghosts == <<before, closed, quiet>>
broadcasts == <<told, walking, reach, there, crossed, audience, hushed>>
vars == <<connected, stored, told, run, eose, streams, cancelled, listeners, closing, authed,
          got, spent, before, failed, closed, quiet, walking, reach, there, crossed, audience, hushed>>

Ids == {Sub[r] : r \in Requests}

-----------------------------------------------------------------------------
Init ==
  /\ connected = TRUE
  /\ stored = OldEvents
  /\ told = {}
  /\ run = [r \in Requests |-> [at |-> "unsent", i |-> 1, q |-> 1]]
  /\ eose = [r \in Requests |-> 0]
  /\ streams = [r \in Requests |-> {}]
  /\ cancelled = {} /\ listeners = {} /\ closing = {}
  /\ authed = FALSE
  /\ got = [r \in Requests |-> {}]
  /\ spent = [faults |-> 0, closes |-> 0]
  /\ before = [r \in Requests |-> {}]
  /\ failed = {} /\ closed = {} /\ quiet = {}
  /\ walking = {}
  /\ reach = [e \in Events |-> {}] /\ there = [e \in Events |-> {}]
  /\ crossed = [e \in Events |-> {}]
  /\ audience = [e \in Events |-> {}] /\ hushed = [e \in Events |-> {}]

Goto(r, step) == run' = [run EXCEPT ![r].at = step]
Filter(r) == Filters[r][run[r].i]
\* The events that r asks for of the stored ones: a filter with a limit of 0 asks for none.
Recalled(r) ==
  {e \in Events : \E i \in DOMAIN Filters[r] : ~Filters[r][i].zero /\ e \in Filters[r][i].matches}
Done(r) == eose' = [eose EXCEPT ![r] = @ - 1]

\* The list of listeners is written while broadcasts go on.
Crosses(kind) ==
  crossed' = [e \in Events |-> IF e \in walking THEN crossed[e] \cup {kind} ELSE crossed[e]]

(* The handler of a REQ starts.                                            *)
Req(r) ==
  /\ connected
  /\ run[r].at = "unsent"
  /\ Goto(r, IF Filters[r] = <<>> THEN "wait" ELSE "filter")
  /\ eose' = [eose EXCEPT ![r] = Len(Filters[r])]
  /\ before' = [before EXCEPT ![r] = stored \cap Recalled(r)]
  /\ quiet' = quiet \ {Sub[r]}
  /\ hushed' = [e \in Events |-> hushed[e] \ {Sub[r]}]
  /\ UNCHANGED <<connected, stored, told, walking, reach, there, crossed, audience, streams, cancelled,
                 listeners, closing, authed, got, spent, failed, closed>>

\* Mutant: a filter with limit 0 is counted as done twice.
HandleFilterDoneTwice(r) ==
  /\ run[r].at = "filter"
  /\ \/ /\ Filter(r).zero
        /\ Goto(r, "listen")
        /\ eose' = [eose EXCEPT ![r] = @ - 2]
     \/ /\ ~Filter(r).zero
        /\ Filter(r).members /\ ~authed
        /\ Goto(r, "reject")
        /\ Done(r)
     \/ /\ ~Filter(r).zero
        /\ Filter(r).members => authed
        /\ run' = [run EXCEPT ![r].at = "query", ![r].q = 1]
        /\ eose' = [eose EXCEPT ![r] = @ + Queries]
  /\ UNCHANGED <<connected, stored, broadcasts, streams, cancelled, listeners, closing, authed, got,
                 spent, failed, ghosts>>

\* Mutant: the answers are not counted.
HandleFilterCountsNone(r) ==
  /\ run[r].at = "filter"
  /\ \/ /\ Filter(r).zero
        /\ Goto(r, "listen")
        /\ Done(r)
     \/ /\ ~Filter(r).zero
        /\ Filter(r).members /\ ~authed
        /\ Goto(r, "reject")
        /\ Done(r)
     \/ /\ ~Filter(r).zero
        /\ Filter(r).members => authed
        /\ run' = [run EXCEPT ![r].at = "query", ![r].q = 1]
        /\ UNCHANGED eose
  /\ UNCHANGED <<connected, stored, broadcasts, streams, cancelled, listeners, closing, authed, got,
                 spent, failed, ghosts>>

(* handleRequest begins.  The reject functions see if the client is        *)
(* authenticated: a rejected filter ends the whole REQ.                    *)
HandleFilter(r) ==
  /\ run[r].at = "filter"
  /\ \/ /\ Filter(r).zero
        /\ Goto(r, "listen")
        /\ Done(r)
     \/ /\ ~Filter(r).zero
        /\ Filter(r).members /\ ~authed
        /\ Goto(r, "reject")
        /\ Done(r)
     \/ /\ ~Filter(r).zero
        /\ Filter(r).members => authed
        /\ run' = [run EXCEPT ![r].at = "query", ![r].q = 1]
        /\ eose' = [eose EXCEPT ![r] = @ + Queries]
  /\ UNCHANGED <<connected, stored, broadcasts, streams, cancelled, listeners, closing, authed, got,
                 spent, failed, ghosts>>

\* Mutant: a query that fails is not taken off the count.
QueryErrorForgets(r) ==
  /\ run[r].at = "query"
  /\ run[r].q <= Queries
  /\ LET found == stored \cap Filter(r).matches IN
       \/ /\ streams' = [streams EXCEPT ![r] =
               @ \cup {[filter |-> run[r].i, query |-> run[r].q, left |-> found]}]
          /\ UNCHANGED <<eose, spent, failed>>
       \/ /\ found = {}
          /\ Done(r)
          /\ UNCHANGED <<streams, spent, failed>>
       \/ /\ spent.faults < MaxFaults
          /\ spent' = [spent EXCEPT !.faults = @ + 1]
          /\ failed' = failed \cup {r}
          /\ UNCHANGED <<eose, streams>>
  /\ run' = [run EXCEPT ![r].q = @ + 1]
  /\ UNCHANGED <<connected, stored, broadcasts, cancelled, listeners, closing, authed, got, ghosts>>

(* A query function answers with a channel, with nil because it has        *)
(* nothing, or with an error.                                              *)
Query(r) ==
  /\ run[r].at = "query"
  /\ run[r].q <= Queries
  /\ LET found == stored \cap Filter(r).matches IN
       \/ /\ streams' = [streams EXCEPT ![r] =
               @ \cup {[filter |-> run[r].i, query |-> run[r].q, left |-> found]}]
          /\ UNCHANGED <<eose, spent, failed>>
       \/ /\ found = {}
          /\ Done(r)
          /\ UNCHANGED <<streams, spent, failed>>
       \/ /\ spent.faults < MaxFaults
          /\ spent' = [spent EXCEPT !.faults = @ + 1]
          /\ failed' = failed \cup {r}
          /\ Done(r)
          /\ UNCHANGED streams
  /\ run' = [run EXCEPT ![r].q = @ + 1]
  /\ UNCHANGED <<connected, stored, broadcasts, cancelled, listeners, closing, authed, got, ghosts>>

(* handleRequest returns.                                                  *)
QueriesEnd(r) ==
  /\ run[r].at = "query"
  /\ run[r].q > Queries
  /\ Goto(r, "listen")
  /\ Done(r)
  /\ UNCHANGED <<connected, stored, broadcasts, streams, cancelled, listeners, closing, authed, got,
                 spent, failed, ghosts>>

(* addListener, unless the client is gone.                                 *)
AddListener(r) ==
  /\ run[r].at = "listen"
  /\ IF connected
     THEN LET l == <<r, run[r].i>> IN
            /\ listeners' = listeners \cup {l}
            /\ reach' = [e \in Events |-> IF e \in walking THEN reach[e] \cup {l} ELSE reach[e]]
            /\ Crosses("added")
     ELSE UNCHANGED <<listeners, reach, crossed>>
  /\ run' = IF run[r].i < Len(Filters[r]) THEN [run EXCEPT ![r].at = "filter", ![r].i = @ + 1]
            ELSE [run EXCEPT ![r].at = "wait"]
  /\ UNCHANGED <<connected, stored, told, walking, there, audience, hushed, eose, streams, cancelled,
                 closing, authed, got, spent, failed, ghosts>>

(* The AUTH and the CLOSED of a rejected REQ.                              *)
Reject(r) ==
  /\ run[r].at = "reject"
  /\ cancelled' = cancelled \cup {r}
  /\ Goto(r, "closed")
  /\ UNCHANGED <<connected, stored, broadcasts, eose, streams, listeners, closing, authed, got,
                 spent, failed, ghosts>>

(* A goroutine writes an event of its answer...                            *)
Stream(r) ==
  /\ \E s \in streams[r] : \E e \in s.left :
       /\ streams' = [streams EXCEPT ![r] = (@ \ {s}) \cup {[s EXCEPT !.left = @ \ {e}]}]
       /\ got' = IF connected THEN [got EXCEPT ![r] = @ \cup {e}] ELSE got
  /\ UNCHANGED <<connected, stored, broadcasts, run, eose, cancelled, listeners, closing, authed,
                 spent, failed, ghosts>>

(* ...until the query function closes the channel, which it may do early   *)
(* when the REQ is cancelled.                                              *)
StreamEnd(r) ==
  /\ \E s \in streams[r] :
       /\ s.left = {} \/ r \in cancelled
       /\ streams' = [streams EXCEPT ![r] = @ \ {s}]
  /\ Done(r)
  /\ UNCHANGED <<connected, stored, broadcasts, run, cancelled, listeners, closing, authed, got,
                 spent, failed, ghosts>>

(* All is out: the EOSE.                                                   *)
Eose(r) ==
  /\ run[r].at = "wait"
  /\ eose[r] = 0
  /\ Goto(r, "eose")
  /\ UNCHANGED <<connected, stored, broadcasts, eose, streams, cancelled, listeners, closing, authed,
                 got, spent, failed, ghosts>>

-----------------------------------------------------------------------------
(* The client closes a subscription...                                     *)
SendClose(id) ==
  /\ connected
  /\ id \notin closing
  /\ \E r \in Requests : Sub[r] = id /\ run[r].at # "unsent"
  /\ spent.closes < MaxCloses
  /\ spent' = [spent EXCEPT !.closes = @ + 1]
  /\ closing' = closing \cup {id}
  /\ UNCHANGED <<connected, stored, broadcasts, answer, cancelled, listeners, authed, got, ghosts>>

\* Mutants: only the listener of the first filter goes, or the listeners of every id.
ClosedFirst(id) == {l \in listeners : Sub[l[1]] = id /\ l[2] = 1}
ClosedAll(id) == listeners

\* The listeners that a CLOSE takes away.
Closed(id) == {l \in listeners : Sub[l[1]] = id}

(* ...and removeListenerId runs.                                           *)
Close(id) ==
  /\ id \in closing
  /\ closing' = closing \ {id}
  /\ listeners' = listeners \ Closed(id)
  /\ cancelled' = cancelled \cup {l[1] : l \in Closed(id)}
  /\ IF Closed(id) # {} THEN Crosses("removed") ELSE UNCHANGED crossed
  /\ LET sent == {r \in Requests : Sub[r] = id /\ run[r].at # "unsent"} IN
       /\ closed' = closed \cup sent
       /\ quiet' = IF \A r \in sent : run[r].at = "eose" THEN quiet \cup {id} ELSE quiet
  /\ UNCHANGED <<connected, stored, told, walking, reach, there, audience, hushed, answer, authed, got,
                 spent, before>>

(* kill: the contexts are cancelled and the client is forgotten.  Its      *)
(* listeners go, but what broadcasts make of that is sent to others.       *)
Disconnect ==
  /\ connected
  /\ connected' = FALSE
  /\ listeners' = {}
  /\ cancelled' = Requests
  /\ UNCHANGED <<stored, broadcasts, answer, closing, authed, got, spent, ghosts>>

-----------------------------------------------------------------------------
(* The handler of a valid AUTH writes AuthedPublicKey.                     *)
Authenticate ==
  /\ connected
  /\ ~authed
  /\ authed' = TRUE
  /\ UNCHANGED <<connected, stored, broadcasts, answer, cancelled, listeners, closing, got, spent,
                 ghosts>>

-----------------------------------------------------------------------------
(* Other clients publish.                                                  *)
SaveEvent(e) ==
  /\ e \notin stored
  /\ stored' = stored \cup {e}
  /\ UNCHANGED <<connected, broadcasts, answer, cancelled, listeners, closing, authed, got, spent,
                 ghosts>>

\* The listeners for whom e is.
Wants(l, e) == e \in Filters[l[1]][l[2]].matches

(* notifyListeners begins.                                                 *)
BroadcastEvent(e) ==
  /\ e \in stored \ (OldEvents \cup told)
  /\ told' = told \cup {e}
  /\ walking' = walking \cup {e}
  /\ reach' = [reach EXCEPT ![e] = listeners]
  /\ there' = [there EXCEPT ![e] = listeners]
  /\ audience' = [audience EXCEPT ![e] =
                    {r \in Requests : /\ connected /\ run[r].at = "eose" /\ r \notin closed
                                     /\ \E i \in DOMAIN Filters[r] : Wants(<<r, i>>, e)}]
  /\ hushed' = [hushed EXCEPT ![e] = quiet]
  /\ UNCHANGED <<connected, stored, answer, cancelled, listeners, closing, authed, got, spent,
                 crossed, ghosts>>

\* What it sends may be of no listener, but mix the fields of two.
Torn(e) == "removed" \in crossed[e] /\ reach[e] # {}

\* It comes to all that stay in the list.
Exact(e) == crossed[e] # {"added", "removed"}

(* Its loop comes to a listener and writes to the connection, which has    *)
(* no effect if it is closed.  Under which id, if the copy is torn, nobody *)
(* knows.                                                                  *)
NotifyListener(e) ==
  /\ connected
  /\ e \in walking
  /\ \/ \E l \in reach[e] :
          /\ Wants(l, e)
          /\ got' = [got EXCEPT ![l[1]] = @ \cup {e}]
     \/ /\ Torn(e)
        /\ \E r \in Requests : got' = [got EXCEPT ![r] = @ \cup {e}]
  /\ UNCHANGED <<connected, stored, answer, cancelled, listeners, closing, authed, spent, broadcasts,
                 ghosts>>

(* The loop ends.                                                          *)
BroadcastEnd(e) ==
  /\ e \in walking
  /\ Exact(e) => \A l \in there[e] \cap listeners : Wants(l, e) => e \in got[l[1]]
  /\ walking' = walking \ {e}
  /\ reach' = [reach EXCEPT ![e] = {}] /\ there' = [there EXCEPT ![e] = {}]
  /\ crossed' = [crossed EXCEPT ![e] = {}]
  /\ audience' = [audience EXCEPT ![e] = {}] /\ hushed' = [hushed EXCEPT ![e] = {}]
  /\ UNCHANGED <<connected, stored, answer, cancelled, listeners, closing, authed, got, spent, told,
                 ghosts>>

(* The listeners of other clients come and go.  For a client that is gone  *)
(* it is all one.                                                          *)
OthersWrite ==
  /\ connected
  /\ \E kind \in {"added", "removed"} : Crosses(kind)
  /\ UNCHANGED <<connected, stored, answer, cancelled, listeners, closing, authed, got, spent, told,
                 walking, reach, there, audience, hushed, ghosts>>

(* The array grew between the loads of the two words of its header: what   *)
(* is read past the end is not the relay's, which is no better than both.  *)
Overrun(e) ==
  /\ connected
  /\ "added" \in crossed[e]
  /\ crossed' = [crossed EXCEPT ![e] = {"added", "removed"}]
  /\ UNCHANGED <<connected, stored, answer, cancelled, listeners, closing, authed, got, spent, told,
                 walking, reach, there, audience, hushed, ghosts>>

-----------------------------------------------------------------------------
Handle(r) ==
  \/ HandleFilter(r) \/ Query(r) \/ QueriesEnd(r) \/ AddListener(r) \/ Reject(r)
  \/ Stream(r) \/ StreamEnd(r) \/ Eose(r)

Next ==
  \/ \E r \in Requests : Req(r) \/ Handle(r)
  \/ \E id \in Ids : SendClose(id) \/ Close(id)
  \/ Disconnect \/ Authenticate
  \/ \E e \in Events : SaveEvent(e) \/ BroadcastEvent(e) \/ NotifyListener(e) \/ BroadcastEnd(e)
  \/ \E e \in Events : Overrun(e)
  \/ OthersWrite

(* The goroutines of a REQ run on.                                         *)
Fairness == \A r \in Requests : WF_vars(Handle(r))

Spec == Init /\ [][Next]_vars
FairSpec == Spec /\ Fairness

-----------------------------------------------------------------------------
(* Properties                                                              *)

TypeOK ==
  /\ connected \in BOOLEAN /\ authed \in BOOLEAN
  /\ told \subseteq stored /\ stored \subseteq Events
  /\ \A r \in Requests :
       /\ run[r].at \in {"unsent", "filter", "query", "listen", "reject", "wait", "eose", "closed"}
       /\ run[r].at \in {"filter", "query", "listen", "reject"} => run[r].i \in 1..Len(Filters[r])
       /\ eose[r] \in Nat
       /\ streams[r] \subseteq [filter : 1..Len(Filters[r]), query : 1..Queries, left : SUBSET Events]
       /\ got[r] \subseteq Events
  /\ \A l \in listeners : \E r \in Requests : l \in {r} \X (1..Len(Filters[r]))
  /\ cancelled \cup failed \cup closed \subseteq Requests
  /\ closing \cup quiet \subseteq Ids
  /\ walking \subseteq told
  /\ \A e \in Events :
       /\ there[e] \subseteq reach[e]
       /\ \A l \in reach[e] : l[1] \in Requests /\ l[2] \in 1..Len(Filters[l[1]])
       /\ crossed[e] \subseteq {"added", "removed"}
       /\ audience[e] \subseteq Requests /\ hushed[e] \subseteq Ids

\* When the EOSE is out, all that matched and was stored before the REQ was read is out, whatever
\* the order in which the answers came: only a query that failed or a cancelled REQ is an excuse
\* (handlers.go:290-324, responding.go:12-62).
StoredBeforeEose ==
  \A r \in Requests :
    run[r].at = "eose" /\ r \notin failed \cup cancelled =>
      \A i \in 1..Len(Filters[r]) :
        ~Filters[r][i].zero => before[r] \cap Filters[r][i].matches \subseteq got[r]

\* A client with an EOSE gets every event whose broadcast begins after it, before that broadcast ends,
\* unless it closed the subscription or is gone: closing another one, or a REQ that is rejected, takes
\* nothing from it.  What does is additions and removals that both meet the walk, whoever's they are,
\* or an array that grew under it (handlers.go:305-327, listener.go:137-150).
NothingMissedAfterEose ==
  [][\A e \in walking \ walking' :
       Exact(e) /\ connected => \A r \in audience[e] \ closed : e \in got'[r]]_vars

\* A subscription that is closed after its EOSE is quiet until its id is used again: none of its
\* filters stays behind in the list of listeners.  What it still gets is of a broadcast that began
\* before the CLOSE was handled, or sent with the fields of two listeners mixed
\* (handlers.go:325-327, listener.go:64-99 against 139-146).
QuietAfterClose ==
  [][\A r \in Requests : Sub[r] \in quiet /\ run[r].at # "unsent" =>
       \A e \in got'[r] \ got[r] : e \in walking /\ (Sub[r] \notin hushed[e] \/ Torn(e))]_vars

\* A REQ ends: with an EOSE, or with a CLOSED if a filter is rejected, and failing queries do not
\* keep it from it (handlers.go:289-324, responding.go:36-59).
EveryReqEnds ==
  \A r \in Requests : run[r].at = "filter" ~> run[r].at \in {"eose", "closed"}

-----------------------------------------------------------------------------
(* How a client sees it                                                    *)

Phase(r) ==
  CASE run[r].at = "unsent" -> "unsent"
    [] run[r].at = "eose"   -> "live"
    [] run[r].at = "closed" -> "refused"
    [] OTHER                -> "asked"

Phases == [r \in Requests |-> Phase(r)]
Excused == failed \cup cancelled

View == INSTANCE ClientView WITH phase <- Phases, owed <- before, excused <- Excused,
                                publishing <- walking

\* However goroutines, counters, contexts and listeners meet, the client gets what a relay without
\* them would give it: stored events that it asks for and may have, one EOSE after all it is owed,
\* then every event published until it closes, nothing that is published after it closed, and nothing
\* that is for members unless it authenticated.  Broadcasts that additions and removals meet are the
\* exception ClientView names (handlers.go:289-331, responding.go:12-62, listener.go:137-150).
ImplementsClientView == View!ViewSpec
=============================================================================
