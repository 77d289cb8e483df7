----------------------------- MODULE FilterFlow -----------------------------
(***************************************************************************)
(* What becomes of the filters of one client and of the events others      *)
(* publish, in a relay or a router over relays (router.go, responding.go,  *)
(* negentropy.go, handlers.go).  Each filter and each event goes to one of *)
(* the relays.  There a filter of a REQ is overwritten, skipped if its     *)
(* limit is zero now, judged, put to the store, and kept as a listener: as *)
(* the client sent it, but for the map of its tags, which the overwriting  *)
(* shares.  A NEG-OPEN does all of it but the listening.  A COUNT is       *)
(* neither overwritten nor skipped.                                        *)
(*                                                                         *)
(* Anything may happen between two filters of a REQ, and after a filter is *)
(* put to the store before there is a listener for it.  An event is stored *)
(* and broadcast in one step.  No listener is removed here, and broadcasts *)
(* miss nobody: when they do is in Broadcast and Connection.               *)
(***************************************************************************)
EXTENDS Policies

CONSTANTS
  Relays,        \* the top relay and those behind the router
  Top,
  Configs,       \* how a relay and its routes may be set up
  Filters,
  Reqs,          \* the REQs the client may send, each a sequence of filters
  Events,
  Me,            \* the key the client authenticates with
  MaxMessages    \* bound on the messages of the client

ASSUME TopAssumption == Top \in Relays
ASSUME FiltersAssumption == \A f \in Filters : IsFilter(f)
ASSUME ReqsAssumption == Reqs \subseteq Seq(Filters)
ASSUME MaxMessagesAssumption == MaxMessages \in Nat
ASSUME ConfigsAssumption ==
  \A c \in Configs :
    /\ c.routes \in Seq([filters : SUBSET Filters, events : SUBSET Events, relay : Relays])
    /\ \A r \in Relays : LET overwrite == c.relay[r].overwrite IN
         /\ overwrite \in Seq(Range(overwrite))
         /\ \A policy \in Range(overwrite) : policy.name \in OverwriteFilters
         /\ c.relay[r].reject \subseteq RejectFilters

VARIABLES
  config,        \* the routes, and the policies of each relay
  authed,        \* AuthedPublicKey
  pending,       \* the filters of a REQ that are still to be handled
  stored,        \* what is in the store of each relay
  answered,      \* the filter of the REQ that was handled last, until its listener is added
  listeners,     \* each with what the client asked, and what was in the store when it was added but
                 \* not when, and if, the store was asked for just that
  queries,       \* what was put to the stores, for which filter, with the key the client had then
  sent,          \* which events were sent for which filter
  counted,       \* the answers to COUNTs, with how many there were
  messages       \* how many messages the client sent

filterVars ==
  <<config, authed, pending, answered, stored, listeners, queries, sent, counted, messages>>

Policy(r) == config.relay[r]

\* The relay of the first route that matches, or else the top one.
FirstRoute(R) == IF R = {} THEN Top ELSE config.routes[CHOOSE n \in R : \A m \in R : n <= m].relay
SubRelayFromFilter(f) == FirstRoute({n \in DOMAIN config.routes : f \in config.routes[n].filters})
SubRelayFromEvent(e) == FirstRoute({n \in DOMAIN config.routes : e \in config.routes[n].events})

Overwritten(r, f) == OverwriteAll(Policy(r).overwrite, f)

\* Mutant: a filter is judged as it came.
JudgedAsAsked(r, f) == f
Judged(r, f) == Overwritten(r, f)

Rejected(r, f) == \E policy \in Policy(r).reject : Rejects(policy, Judged(r, f), authed)

\* Mutant: the listener gets the filter as it was put to the store.
ListenedAsQueried(r, f) == Overwritten(r, f)

\* The tags are deleted from the map that the listener has too.
Listened(r, f) == [f EXCEPT !.tags = Overwritten(r, f).tags]

\* nip45.HyperLogLogEventPubkeyOffsetForFilter is not -1.
HasOffset(f) ==
  f.kinds = {3} /\ f.authors = {} /\ ~f.search /\ DOMAIN f.tags = {"p"}

Found(r, f) == {e \in stored[r] : Matches(f, e)}

-----------------------------------------------------------------------------
FilterInit ==
  /\ config \in Configs
  /\ authed = Nobody
  /\ pending = <<>>
  /\ stored = [r \in Relays |-> {}]
  /\ answered = {} /\ listeners = {} /\ queries = {} /\ sent = {} /\ counted = {}
  /\ messages = 0

Message == messages < MaxMessages /\ messages' = messages + 1

Req(fs) ==
  /\ pending = <<>> /\ answered = {}
  /\ Message
  /\ pending' = fs
  /\ UNCHANGED <<config, authed, answered, stored, listeners, queries, sent, counted>>

\* The first filter of the REQ that was not handled is f, which goes to the relay r.
Handling(f, r) ==
  /\ answered = {}
  /\ pending # <<>> /\ f = Head(pending)
  /\ r = SubRelayFromFilter(f)

\* handleRequest returns, and what is there of what was asked is answered, now or later.
Answered(r, f, searched) ==
  answered' = {[relay |-> r, filter |-> Listened(r, f), asked |-> f, searched |-> searched]}

(* A filter with a limit of zero, whether it came with it or overwriting   *)
(* set it, is neither judged nor put to the store.                         *)
SkipQuery ==
  /\ \E f \in Filters, r \in Relays :
       /\ Handling(f, r)
       /\ Overwritten(r, f).limitZero
       /\ Answered(r, f, {})
  /\ pending' = Tail(pending)
  /\ UNCHANGED <<config, authed, stored, listeners, queries, sent, counted, messages>>

(* The rejection of one filter ends the REQ.                               *)
Reject ==
  /\ \E f \in Filters, r \in Relays :
       Handling(f, r) /\ ~Overwritten(r, f).limitZero /\ Rejected(r, f)
  /\ pending' = <<>>
  /\ UNCHANGED <<config, authed, answered, stored, listeners, queries, sent, counted, messages>>

Query ==
  /\ \E f \in Filters, r \in Relays : LET queried == Overwritten(r, f) IN
       /\ Handling(f, r)
       /\ ~queried.limitZero /\ ~Rejected(r, f)
       /\ queries' = queries \cup {[relay |-> r, asked |-> f, filter |-> queried, authed |-> authed]}
       /\ sent' = sent \cup {<<f, e>> : e \in Found(r, queried)}
       /\ Answered(r, f, IF queried = f THEN stored[r] ELSE {})
  /\ pending' = Tail(pending)
  /\ UNCHANGED <<config, authed, stored, listeners, counted, messages>>

Listener(r, a) ==
  [relay |-> r, filter |-> a.filter, asked |-> a.asked, missed |-> stored[r] \ a.searched]

\* Mutant: the listener is one of the top relay.
ListenAtTop(a) == listeners' = listeners \cup {Listener(Top, a)}
Listen(a) == listeners' = listeners \cup {Listener(a.relay, a)}

(* addListener, when handleRequest has returned.                           *)
AddListener ==
  /\ \E a \in answered : Listen(a)
  /\ answered' = {}
  /\ UNCHANGED <<config, authed, pending, stored, queries, sent, counted, messages>>

(* Behind a router a relay that has no Negentropy ignores the message;     *)
(* without one it was not parsed.                                          *)
NegOpen(f) ==
  LET r == SubRelayFromFilter(f) queried == Overwritten(r, f) IN
  /\ Message
  /\ Policy(Top).negentropy /\ Policy(r).negentropy
  /\ ~queried.limitZero /\ ~Rejected(r, f)
  /\ queries' = queries \cup {[relay |-> r, asked |-> f, filter |-> queried, authed |-> authed]}
  /\ UNCHANGED <<config, authed, pending, answered, stored, listeners, sent, counted>>

(* The top relay must have functions that count, or the answer is CLOSED;  *)
(* the one the filter goes to counts by those for filters of its sort, if  *)
(* it has any, and else there is nothing to add up.                        *)
Count(f) ==
  LET r == SubRelayFromFilter(f)
      able == /\ (IF HasOffset(f) THEN "CountEventsHLL" ELSE "CountEvents") \in Policy(r).count
              /\ ~\E policy \in Policy(r).rejectCount : Rejects(policy, f, authed)
  IN
  /\ Message
  /\ Policy(Top).count # {}
  /\ counted' = counted \cup
       {[asked |-> f, able |-> able, total |-> IF able THEN Cardinality(Found(r, f)) ELSE 0,
         there |-> {e \in UNION {stored[s] : s \in Relays} : Matches(f, e)}]}
  /\ UNCHANGED <<config, authed, pending, answered, stored, listeners, queries, sent>>

Auth ==
  /\ authed = Nobody
  /\ authed' = Me
  /\ UNCHANGED <<config, pending, answered, stored, listeners, queries, sent, counted, messages>>

\* Mutant: the event is stored by the top relay.
StoreAtTop(r, e) == stored' = [stored EXCEPT ![Top] = @ \cup {e}]
StoreEvent(r, e) == stored' = [stored EXCEPT ![r] = @ \cup {e}]

(* An event is stored by the relay it is routed to, unless one of its      *)
(* policies rejects it, and sent to the listeners of that relay.           *)
Event(e) ==
  LET r == SubRelayFromEvent(e) IN
  /\ e \notin stored[r]
  /\ ~\E policy \in Policy(r).rejectEvent : RejectsEvent(policy, e)
  /\ StoreEvent(r, e)
  /\ sent' = sent \cup {<<l.asked, e>> : l \in {m \in listeners : m.relay = r /\ Matches(m.filter, e)}}
  /\ UNCHANGED <<config, authed, pending, answered, listeners, queries, counted, messages>>

-----------------------------------------------------------------------------
FilterNext ==
  \/ \E fs \in Reqs : Req(fs)
  \/ SkipQuery \/ Reject \/ Query \/ AddListener
  \/ \E f \in Filters : NegOpen(f) \/ Count(f)
  \/ Auth
  \/ \E e \in Events : Event(e)

FilterSpec == FilterInit /\ [][FilterNext]_filterVars

-----------------------------------------------------------------------------
(* Properties                                                              *)

\* A relay has what is routed to it and its policies let through (router.go:32-39,
\* handlers.go:208-211, adding.go:25-34).
FiltersOK ==
  /\ config \in Configs
  /\ authed \in {Nobody, Me}
  /\ pending \in Seq(Filters)
  /\ stored \in [Relays -> SUBSET Events]
  /\ \A r \in Relays : \A e \in stored[r] :
       /\ SubRelayFromEvent(e) = r
       /\ ~\E policy \in Policy(r).rejectEvent : RejectsEvent(policy, e)
  /\ \A l \in answered \cup listeners : l.asked \in Filters /\ l.relay \in Relays
  /\ \A q \in queries : q.relay \in Relays /\ q.asked \in Filters /\ q.authed \in {Nobody, Me}
  /\ sent \subseteq Filters \X Events
  /\ \A c \in counted : c.asked \in Filters
  /\ messages \in 0..MaxMessages

\* What a policy is there for, of a query q it was applied to.
IsOverwritten(policy, q) ==
  CASE policy.name = "RemoveSearchQueries" -> ~q.filter.search
    [] policy.name = "RemoveAllButKinds" ->
         /\ \A k \in q.filter.kinds : uint16(k) \in policy.arg
         /\ q.filter.kinds = {} => q.asked.kinds = {}
    [] policy.name = "RemoveAllButTags" ->
         /\ DOMAIN q.filter.tags \subseteq policy.arg
         /\ DOMAIN q.filter.tags = {} => DOMAIN q.asked.tags = {}

Receivers(e) == IF "p" \in DOMAIN e.tags THEN e.tags["p"] ELSE {}

IsAcceptable(policy, q) ==
  LET f == q.filter answers == {e \in Events : Matches(f, e)} IN
  CASE policy = "NoComplexFilters" ->
         Cardinality(DOMAIN f.tags) <= 2 \/ Cardinality(DOMAIN f.tags) + Cardinality(f.kinds) <= 4
    [] policy = "MustAuth" -> q.authed # Nobody
    [] policy = "NoEmptyFilters" -> f.kinds # {} \/ f.authors # {} \/ DOMAIN f.tags # {}
    [] policy = "AntiSyncBots" -> \A e \in answers : e.kind = 1 => f.authors # {}
    [] policy = "NoSearchQueries" -> ~f.search
    [] policy = "RejectKind04Snoopers" ->
         \A e \in answers : e.kind = 4 /\ 4 \in f.kinds => q.authed \in {e.author} \cup Receivers(e)

\* What is put to the store of a relay, by a REQ or a NEG-OPEN, is what every policy of that relay
\* is there to ensure, however the overwriting of one changes what another looks at: a filter that
\* is less strict once tags are removed is judged again as it is, and one that has lost all its
\* kinds or tags, and would match everything, is not asked at all.  Kinds are told apart modulo
\* 2^16 (responding.go:15-34, negentropy.go:24-36, policies/filters.go, policies/nip04.go).
QueriesFitPolicies ==
  \A q \in queries :
    /\ \A n \in DOMAIN Policy(q.relay).overwrite : IsOverwritten(Policy(q.relay).overwrite[n], q)
    /\ \A policy \in Policy(q.relay).reject : IsAcceptable(policy, q)

\* All that is sent for a filter, stored or later, was asked for by it, though the stored events
\* are queried by one filter and the live ones matched by another.  Only where RemoveAllButTags
\* takes tags out of the filter, and so out of the listener's, more is sent, and of a filter that
\* had no other tags all later events that fit the rest (responding.go:17-19, 40, handlers.go:316,
\* listener.go:139-146, policies/filters.go:80-93).
SentIsAsked ==
  \A pair \in sent :
    LET f == pair[1]
        overwrite == Policy(SubRelayFromFilter(f)).overwrite
        removesTags == \E n \in DOMAIN overwrite : overwrite[n].name = "RemoveAllButTags"
    IN  Matches(IF removesTags THEN [f EXCEPT !.tags = <<>>] ELSE f, pair[2])

\* An event that was accepted is sent to every subscription that asks for it and counted by every
\* COUNT that is answered, provided that it is routed where the filter is, which the two functions
\* of a Route do not ensure.  One that is accepted after the store was asked (responding.go:40) and
\* before there is a listener (handlers.go:316) is lost to the subscription: missed excepts it, and
\* what was stored before, if the store was not asked for just that.  Nothing else is lost
\* (handlers.go:208-211, 265-278, 302-317, router.go:24-39, listener.go:136-148).
AcceptedIsFound ==
  /\ \A l \in listeners : \A e \in UNION {stored[r] : r \in Relays} :
       /\ Matches(l.asked, e)
       /\ SubRelayFromEvent(e) = SubRelayFromFilter(l.asked)
       /\ e \notin l.missed
       => <<l.asked, e>> \in sent
  /\ \A c \in counted :
       c.able /\ (\A e \in c.there : SubRelayFromEvent(e) = SubRelayFromFilter(c.asked))
         => c.total = Cardinality(c.there)
=============================================================================
