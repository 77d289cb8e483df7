----------------------------- MODULE ClientView -----------------------------
(***************************************************************************)
(* What the client of a connection may count on when it sends REQs, and    *)
(* what no client may get: the relay without its goroutines, counters,     *)
(* contexts and listeners.  A REQ is asked and then live, with its EOSE,   *)
(* or refused.  Until then it is answered from the store, an event at a    *)
(* time in any order; when it is live it hears what is published.  Filters *)
(* for members are answered to a client that logged in only.               *)
(*                                                                         *)
(* Publishing takes time.  When it ends everybody has heard who was live   *)
(* when it began and did not close, and nobody whose id was quiet before.  *)
(* No more than that: a CLOSE may come too late for what is on its way,    *)
(* and the publication may go astray if `crossed` says so, which is when   *)
(* subscriptions come and go meanwhile, of this client or of others.       *)
(***************************************************************************)
EXTENDS Integers, Sequences

CONSTANTS Requests, Sub, Filters, Events, OldEvents

VARIABLES
  connected,
  authed,
  stored,
  told,      \* the events that were published, or are being
  publishing,
  crossed,   \* what met their publication: subscriptions "added", "removed" or both
  audience,  \* who was to hear of them when it began
  hushed,    \* the ids that were quiet then, and have not been used since
  phase,     \* of each REQ: unsent, asked, live or refused
  owed,      \* what was stored when it was asked, and is to be out before its EOSE
  got,
  excused,   \* the REQs that need not be answered in full: cancelled, or a query failed
  closed,    \* the REQs that were closed since they were sent
  quiet      \* the ids that were closed when all of their REQs were live

publications == <<told, publishing, crossed, audience, hushed>>
viewVars == <<connected, authed, stored, told, phase, owed, got, excused, closed, quiet,
              publishing, crossed, audience, hushed>>

Requested(id) == {r \in Requests : Sub[r] = id /\ phase[r] # "unsent"}

\* The events r asks for, and those of them that it asks to be recalled from the store.
AsksFor(r, e) == \E i \in DOMAIN Filters[r] : e \in Filters[r][i].matches
Recalls(r, e) == \E i \in DOMAIN Filters[r] : ~Filters[r][i].zero /\ e \in Filters[r][i].matches

\* Those it may get.  A filter with a limit of zero is not judged, members or not.
MayRecall(r, e) ==
  \E i \in DOMAIN Filters[r] : LET f == Filters[r][i] IN
    ~f.zero /\ e \in f.matches /\ (f.members => authed)
MayHear(r, e) ==
  \E i \in DOMAIN Filters[r] : LET f == Filters[r][i] IN
    e \in f.matches /\ (f.members => authed \/ f.zero)

\* Whether r may be live, and whether it may be refused.
MayListen(r) == \A i \in DOMAIN Filters[r] : Filters[r][i].members => authed \/ Filters[r][i].zero
MayRefuse(r) == \E i \in DOMAIN Filters[r] : Filters[r][i].members /\ ~Filters[r][i].zero

-----------------------------------------------------------------------------
ViewInit ==
  /\ connected = TRUE
  /\ authed = FALSE
  /\ stored = OldEvents
  /\ told = {}
  /\ phase = [r \in Requests |-> "unsent"]
  /\ owed = [r \in Requests |-> {}]
  /\ got = [r \in Requests |-> {}]
  /\ excused = {} /\ closed = {} /\ quiet = {}
  /\ publishing = {}
  /\ crossed = [e \in Events |-> {}]
  /\ audience = [e \in Events |-> {}] /\ hushed = [e \in Events |-> {}]

\* Subscriptions come and go.
Crossing ==
  /\ crossed' \in [Events -> SUBSET {"added", "removed"}]
  /\ \A e \in Events : crossed[e] \subseteq crossed'[e]
  /\ \A e \in Events \ publishing : crossed'[e] = crossed[e]

Ask(r) ==
  /\ connected
  /\ phase[r] = "unsent"
  /\ phase' = [phase EXCEPT ![r] = "asked"]
  /\ owed' = [owed EXCEPT ![r] = {e \in stored : Recalls(r, e)}]
  /\ quiet' = quiet \ {Sub[r]}
  /\ hushed' = [e \in Events |-> hushed[e] \ {Sub[r]}]
  /\ UNCHANGED <<connected, authed, stored, told, publishing, crossed, audience, got, excused, closed>>

(* An event from the store.                                                *)
Answer(r, e) ==
  /\ connected
  /\ phase[r] \in {"asked", "refused"} /\ Sub[r] \notin quiet
  /\ e \in stored /\ MayRecall(r, e)
  /\ got' = [got EXCEPT ![r] = @ \cup {e}]
  /\ UNCHANGED <<connected, authed, stored, publications, phase, owed, excused, closed, quiet>>

Fail(r) ==
  /\ phase[r] = "asked"
  /\ excused' = excused \cup {r}
  /\ UNCHANGED <<connected, authed, stored, publications, phase, owed, got, closed, quiet>>

(* The EOSE.                                                               *)
Finish(r) ==
  /\ phase[r] = "asked"
  /\ r \in excused \/ owed[r] \subseteq got[r]
  /\ MayListen(r)
  /\ phase' = [phase EXCEPT ![r] = "live"]
  /\ UNCHANGED <<connected, authed, stored, publications, owed, got, excused, closed, quiet>>

Refuse(r) ==
  /\ phase[r] = "asked"
  /\ MayRefuse(r)
  /\ phase' = [phase EXCEPT ![r] = "refused"]
  /\ excused' = excused \cup {r}
  /\ UNCHANGED <<connected, authed, stored, publications, owed, got, closed, quiet>>

(* A CLOSE is handled: it cancels some of the REQs of its id.              *)
Unsubscribe(id) ==
  /\ \E R \in SUBSET Requested(id) : excused' = excused \cup R
  /\ closed' = closed \cup Requested(id)
  /\ quiet' = IF \A r \in Requested(id) : phase[r] = "live" THEN quiet \cup {id} ELSE quiet
  /\ Crossing
  /\ UNCHANGED <<connected, authed, stored, told, publishing, audience, hushed, phase, owed, got>>

Leave ==
  /\ connected
  /\ connected' = FALSE
  /\ excused' = Requests
  /\ UNCHANGED <<authed, stored, publications, phase, owed, got, closed, quiet>>

Login ==
  /\ connected
  /\ authed' = TRUE
  /\ UNCHANGED <<connected, stored, publications, phase, owed, got, excused, closed, quiet>>

-----------------------------------------------------------------------------
Save(e) ==
  /\ stored' = stored \cup {e}
  /\ UNCHANGED <<connected, authed, publications, phase, owed, got, excused, closed, quiet>>

(* The subscriptions of others, or those no event is sent for yet.         *)
Cross ==
  /\ Crossing
  /\ UNCHANGED <<connected, authed, stored, told, publishing, audience, hushed, phase, owed, got, excused,
                 closed, quiet>>

\* Who must be told of an event.
Audience(e) == {r \in Requests : connected /\ phase[r] = "live" /\ r \notin closed /\ AsksFor(r, e)}

Publish(e) ==
  /\ e \in stored \ told
  /\ told' = told \cup {e}
  /\ publishing' = publishing \cup {e}
  /\ audience' = [audience EXCEPT ![e] = Audience(e)]
  /\ hushed' = [hushed EXCEPT ![e] = quiet]
  /\ UNCHANGED <<connected, authed, stored, crossed, phase, owed, got, excused, closed, quiet>>

\* It may be sent to the wrong subscription, and somebody may be left out.
Garbled(e) == "removed" \in crossed[e]
Missing(e) == crossed[e] = {"added", "removed"}

Tell(r, e) ==
  /\ connected
  /\ e \in publishing
  /\ Garbled(e) \/ (phase[r] # "unsent" /\ Sub[r] \notin hushed[e] /\ MayHear(r, e))
  /\ got' = [got EXCEPT ![r] = @ \cup {e}]
  /\ UNCHANGED <<connected, authed, stored, publications, phase, owed, excused, closed, quiet>>

Published(e) ==
  /\ e \in publishing
  /\ Missing(e) \/ \A r \in audience[e] \ closed : connected => e \in got[r]
  /\ publishing' = publishing \ {e}
  /\ crossed' = [crossed EXCEPT ![e] = {}]
  /\ audience' = [audience EXCEPT ![e] = {}] /\ hushed' = [hushed EXCEPT ![e] = {}]
  /\ UNCHANGED <<connected, authed, stored, told, phase, owed, got, excused, closed, quiet>>

-----------------------------------------------------------------------------
ViewNext ==
  \/ \E r \in Requests : Ask(r) \/ Fail(r) \/ Finish(r) \/ Refuse(r)
  \/ \E r \in Requests, e \in Events : Answer(r, e) \/ Tell(r, e)
  \/ \E r \in Requests : Unsubscribe(Sub[r])
  \/ Leave \/ Login \/ Cross
  \/ \E e \in Events : Save(e) \/ Publish(e) \/ Published(e)

ViewSpec == ViewInit /\ [][ViewNext]_viewVars
=============================================================================
