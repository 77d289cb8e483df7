---------------------------- MODULE EventPipeline ----------------------------
(***************************************************************************)
(* What happens to an event a relay receives (handlers.go, adding.go,      *)
(* deleting.go, ephemeral.go).  Every EVENT message has a goroutine of its *)
(* own and there is no lock: between the query a decision rests on and the *)
(* call that acts on it the store may change.                              *)
(*                                                                         *)
(* The relay has one store, whose calls are atomic and may fail.  A failed *)
(* query is skipped by the code, so it looks like one that found nothing.  *)
(* Kinds are abstracted to their class, `slot` stands for kind and d tag,  *)
(* and the signature, id and NIP-70 checks to the choice of Events.        *)
(***************************************************************************)
EXTENDS Integers, Sequences, FiniteSets

CONSTANTS
  Events,        \* the valid events there are, by their ids
  Class,         \* of each: "regular", "replaceable", "addressable", "deletion" or "ephemeral"
  Author, Slot,  \* of each: who signed it, and its kind and d tag
  Date, Tags,    \* of each: its timestamp, and its tags as <<name, value>> pairs
  Handlers,      \* the goroutines, or callers of AddEvent, that may run at once
  Outcomes,      \* of some targets and deletions: whether OverwriteDeletionOutcome accepts them
  HearsTop,      \* the top relay has an OnEphemeralEvent hook
  None,          \* no event
  MaxReceived,   \* bound on the events received
  MaxFaults      \* bound on the store calls that fail

ASSUME NoneAssumption == None \notin Events
ASSUME IdAssumption == Events \subseteq Nat
ASSUME ClassAssumption ==
  Class \in [Events -> {"regular", "replaceable", "addressable", "deletion", "ephemeral"}]
ASSUME DateAssumption == Date \in [Events -> Int]
ASSUME TagsAssumption ==
  \A e \in Events :
    /\ Len(Tags[e]) \in Nat /\ DOMAIN Tags[e] = 1..Len(Tags[e])
    /\ \A k \in DOMAIN Tags[e] : Tags[e][k] # <<"e", e>>  \* an id is a hash of the tags, too
ASSUME OutcomesAssumption ==
  DOMAIN Outcomes \subseteq Events \X Events /\ Outcomes \in [DOMAIN Outcomes -> BOOLEAN]
ASSUME HandlersAssumption == IsFiniteSet(Handlers)
ASSUME BoundAssumption == MaxReceived \in Nat /\ MaxFaults \in Nat

VARIABLES
  setup,         \* how the relay is put together: the store has a ReplaceEvent function, or is
                 \* split by kind as docs/core/eventstore.md shows
  stored,        \* what the store holds
  run,           \* what each handler is at
  received,      \* how many events were received
  faults,        \* how many store calls failed
  seen,          \* the events received
  once,          \* those that were stored at some time
  refused,       \* those the store failed to take
  acked,         \* those a client got an OK for
  saves,         \* how often each was stored
  notified,      \* how often each was sent to the listeners
  raced          \* two handlers were at work on versions of one address at a time

vars == <<setup, stored, run, received, faults, seen, once, refused, acked, saves, notified, raced>>
history == <<setup, seen, once, refused, acked, saves, notified, raced>>

-----------------------------------------------------------------------------
(* Events and filters.                                                     *)

Regular(e) == Class[e] \in {"regular", "deletion"}
Ephemeral(e) == Class[e] = "ephemeral"
Address(e) == <<Author[e], Slot[e]>>
Versioned(e) == Class[e] \in {"replaceable", "addressable"}
SameAddress(e, f) == Versioned(e) /\ Class[e] = Class[f] /\ Address(e) = Address(f)

Tagged(e, name, value) == \E k \in DOMAIN Tags[e] : Tags[e][k] = <<name, value>>

\* Shards answer a filter without a kind of theirs with a nil channel, which nobody ever sends to
\* or closes.  handleRequest looks for one; handleNormal and handleDeleteRequest just receive.
NilChannel(r) ==
  /\ setup.shards
  /\ \/ r.at = "delete" /\ r.k <= Len(Tags[r.evt]) /\ Tags[r.evt][r.k][1] = "e"
     \/ r.at = "admit" /\ ~Ephemeral(r.evt)

IsOlder(previous, next) ==
  \/ Date[previous] < Date[next]
  \/ Date[previous] = Date[next] /\ previous > next

\* Mutant: an "a" tag deletes whatever version is there.
TargetsAnyTime(d, k) ==
  {x \in stored :
     \/ Tags[d][k] = <<"e", x>>
     \/ Class[x] = "addressable" /\ Tags[d][k] = <<"a", Address(x)>>}

\* The events tag k of a deletion request asks for: by id, or by address up to its own date.
\* Tags of other names are passed over.
\* The filter has a d tag in it always, which an event of a plain replaceable kind has not.
Targets(d, k) ==
  {x \in stored :
     \/ Tags[d][k] = <<"e", x>>
     \/ Class[x] = "addressable" /\ Tags[d][k] = <<"a", Address(x)>> /\ Date[x] <= Date[d]}

\* The outcome of the author check, unless the hook overwrites it, to either.
AcceptDeletion(target, d) ==
  IF <<target, d>> \in DOMAIN Outcomes THEN Outcomes[<<target, d>>] ELSE Author[target] = Author[d]

\* The tombstones handleNormal looks for: kind 5 and a tag of the name "#e", or "#a".
DeletionsById(e) == {d \in stored : Class[d] = "deletion" /\ Tagged(d, "#e", e)}
DeletionsByAddress(e) ==
  {d \in stored : Class[d] = "deletion" /\ Tagged(d, "#a", Address(e)) /\ Date[d] >= Date[e]}

\* A query for the latest version, Limit 1.
Previous(e) ==
  {x \in stored : SameAddress(x, e) /\ \A y \in stored : SameAddress(y, e) /\ y # x => IsOlder(y, x)}

-----------------------------------------------------------------------------
Rest == [at |-> "rest", evt |-> None, byMessage |-> FALSE, k |-> 0, target |-> None,
         blind |-> FALSE, since |-> {}]

Init ==
  /\ setup \in [replaces: BOOLEAN, shards: BOOLEAN]
  /\ stored = {}
  /\ run = [h \in Handlers |-> Rest]
  /\ received = 0 /\ faults = 0
  /\ seen = {} /\ once = {} /\ refused = {} /\ acked = {}
  /\ saves = [e \in Events |-> 0] /\ notified = [e \in Events |-> 0]
  /\ raced = FALSE

Goto(h, step) == run' = [run EXCEPT ![h].at = step]
Fault == faults < MaxFaults /\ faults' = faults + 1

\* Mutant: an event the store has already goes on like a new one.
IfDuplicateGoesOn(h) == "saved"

\* Where a handler goes when the store has the event already: OK, and nobody is notified.
IfDuplicate(h) == "skip"

\* StoreEvent and ReplaceEvent succeed, the latter in place of the older versions.
Save(h, replaced) ==
  LET e == run[h].evt
  IN  /\ stored' = (stored \ replaced) \cup {e}
      /\ once' = once \cup {e}
      /\ saves' = [saves EXCEPT ![e] = @ + 1]
      /\ run' = [g \in Handlers |->
                   IF g = h THEN [run[g] EXCEPT !.at = "saved"]
                            ELSE [run[g] EXCEPT !.since = @ \cup {e}]]
      /\ UNCHANGED <<setup, received, faults, seen, refused, acked, notified, raced>>

Fails(h) ==
  /\ Fault
  /\ refused' = refused \cup {run[h].evt}
  /\ run' = [run EXCEPT ![h] = Rest]
  /\ UNCHANGED <<setup, stored, received, seen, once, acked, saves, notified, raced>>

AlreadyThere(h) ==
  /\ run[h].evt \in stored
  /\ Goto(h, IfDuplicate(h))
  /\ UNCHANGED <<stored, received, faults, history>>

\* An error goes back to the client, or to the caller of AddEvent.
Refuse(h) ==
  /\ run' = [run EXCEPT ![h] = Rest]
  /\ UNCHANGED <<stored, received, faults, history>>

-----------------------------------------------------------------------------
Race(h, e) ==
  \E g \in Handlers \ {h} : run[g].evt # None /\ SameAddress(run[g].evt, e)

\* Mutant: any event of a regular kind is taken for a deletion request.
ReceiveTakesAllForDeletions(h, e) ==
  /\ run[h].at = "rest"
  /\ received < MaxReceived
  /\ received' = received + 1
  /\ run' = [run EXCEPT ![h] =
               [Rest EXCEPT !.evt = e, !.byMessage = TRUE, !.k = 1,
                            !.at = IF Regular(e) THEN "delete" ELSE "admit"]]
  /\ seen' = seen \cup {e}
  /\ raced' = (raced \/ Race(h, e))
  /\ UNCHANGED <<setup, stored, faults, once, refused, acked, saves, notified>>

(* An EVENT message: a deletion request is carried out before anything     *)
(* looks at the event itself.                                              *)
Receive(h, e) ==
  /\ run[h].at = "rest"
  /\ received < MaxReceived
  /\ received' = received + 1
  /\ run' = [run EXCEPT ![h] =
               [Rest EXCEPT !.evt = e, !.byMessage = TRUE, !.k = 1,
                            !.at = IF Class[e] = "deletion" THEN "delete" ELSE "admit"]]
  /\ seen' = seen \cup {e}
  /\ raced' = (raced \/ Race(h, e))
  /\ UNCHANGED <<setup, stored, faults, once, refused, acked, saves, notified>>

(* AddEvent, for code that has the relay as a library: no deletion request *)
(* is carried out and nobody is notified.                                  *)
AddEvent(h, e) ==
  /\ run[h].at = "rest"
  /\ received < MaxReceived
  /\ received' = received + 1
  /\ run' = [run EXCEPT ![h] = [Rest EXCEPT !.evt = e, !.at = "admit"]]
  /\ seen' = seen \cup {e}
  /\ raced' = (raced \/ Race(h, e))
  /\ UNCHANGED <<setup, stored, faults, once, refused, acked, saves, notified>>

(* handleDeleteRequest, one tag at a time: query...                        *)
DeleteQuery(h) ==
  /\ run[h].at = "delete"
  /\ run[h].k <= Len(Tags[run[h].evt])
  /\ ~NilChannel(run[h])
  /\ \/ \E x \in Targets(run[h].evt, run[h].k) :
          run' = [run EXCEPT ![h] = IF AcceptDeletion(x, @.evt)
                                      THEN [@ EXCEPT !.at = "deleteTarget", !.target = x]
                                      ELSE Rest]
          /\ UNCHANGED faults
     \/ /\ Targets(run[h].evt, run[h].k) = {}
        /\ run' = [run EXCEPT ![h].k = @ + 1]
        /\ UNCHANGED faults
     \/ /\ Fault
        /\ Tags[run[h].evt][run[h].k][1] \in {"e", "a"}
        /\ run' = [run EXCEPT ![h].k = @ + 1, ![h].blind = TRUE]
  /\ UNCHANGED <<stored, received, history>>

\* Mutant: the loop ends with the first target it deletes.
DeleteTargetStops(h) ==
  /\ run[h].at = "deleteTarget"
  /\ stored' = stored \ {run[h].target}
  /\ run' = [run EXCEPT ![h].at = "delete", ![h].target = None, ![h].k = Len(Tags[run[h].evt]) + 1]
  /\ UNCHANGED <<received, faults, history>>

(* ...and delete what it found.                                            *)
DeleteTarget(h) ==
  /\ run[h].at = "deleteTarget"
  /\ \/ /\ stored' = stored \ {run[h].target}
        /\ run' = [run EXCEPT ![h].at = "delete", ![h].target = None, ![h].k = @ + 1]
        /\ UNCHANGED faults
     \/ /\ Fault
        /\ run' = [run EXCEPT ![h] = Rest]
        /\ UNCHANGED stored
  /\ UNCHANGED <<received, history>>

(* A receive from a nil channel: the goroutine waits for ever.             *)
Hang(h) ==
  /\ NilChannel(run[h])
  /\ Goto(h, "hang")
  /\ UNCHANGED <<stored, received, faults, history>>

DeleteEnd(h) ==
  /\ run[h].at = "delete"
  /\ run[h].k > Len(Tags[run[h].evt])
  /\ Goto(h, "admit")
  /\ UNCHANGED <<stored, received, faults, history>>

(* handleNormal and handleEphemeral begin with the RejectEvent policies.   *)
Reject(h) == run[h].at = "admit" /\ Refuse(h)

(* handleNormal: was the event deleted by id?                              *)
Admit(h) ==
  LET e == run[h].evt
  IN  /\ run[h].at = "admit"
      /\ ~Ephemeral(e)
      /\ ~NilChannel(run[h])
      /\ \/ DeletionsById(e) # {} /\ Refuse(h)
         \/ /\ \/ DeletionsById(e) = {} /\ UNCHANGED faults
               \/ Fault
            /\ Goto(h, IF Regular(e) THEN "store" ELSE "byAddress")
            /\ UNCHANGED <<stored, received, history>>

StoreRegular(h) ==
  /\ run[h].at = "store"
  /\ \/ AlreadyThere(h)
     \/ run[h].evt \notin stored /\ Save(h, {})
     \/ Fails(h)

(* A replaceable event: was its address deleted, with a later date?        *)
CheckAddress(h) ==
  LET e == run[h].evt
  IN  /\ run[h].at = "byAddress"
      /\ \/ DeletionsByAddress(e) # {} /\ Refuse(h)
         \/ /\ \/ DeletionsByAddress(e) = {} /\ UNCHANGED faults
               \/ Fault
            /\ Goto(h, IF setup.replaces THEN "replace" ELSE "previous")
            /\ UNCHANGED <<stored, received, history>>

(* With a ReplaceEvent function the store does the rest at once: it keeps  *)
(* the event unless it has a version that is not older, and may say of one *)
(* it has already that it is a duplicate.                                  *)
Replace(h) ==
  LET e == run[h].evt
      versions == {x \in stored : SameAddress(x, e)}
  IN  /\ run[h].at = "replace"
      /\ \/ AlreadyThere(h)
         \/ /\ e \notin stored
            /\ \A x \in versions : IsOlder(x, e)
            /\ Save(h, versions)
         \/ /\ \E x \in versions : ~IsOlder(x, e)
            /\ Goto(h, "saved")
            /\ UNCHANGED <<stored, received, faults, history>>
         \/ Fails(h)

(* Without one: fetch the latest version...                                *)
FetchPrevious(h) ==
  LET e == run[h].evt
  IN  /\ run[h].at = "previous"
      /\ \/ /\ Previous(e) = {}
            /\ Goto(h, "storeNew")
            /\ UNCHANGED faults
         \/ /\ \E x \in Previous(e) :
                 run' = [run EXCEPT ![h] = IF IsOlder(x, e)
                                             THEN [@ EXCEPT !.at = "deletePrevious", !.target = x]
                                             ELSE [@ EXCEPT !.at = "saved"]]
            /\ UNCHANGED faults
         \/ /\ Fault
            /\ Goto(h, "storeNew")
      /\ UNCHANGED <<stored, received, history>>

\* Mutant: the older version stays.
DeletePreviousForgets(h) ==
  /\ run[h].at = "deletePrevious"
  /\ run' = [run EXCEPT ![h].at = "storeNew", ![h].target = None]
  /\ UNCHANGED <<stored, received, faults, history>>

(* ...delete it if it is older, whether or not that works...               *)
DeletePrevious(h) ==
  /\ run[h].at = "deletePrevious"
  /\ \/ stored' = stored \ {run[h].target} /\ UNCHANGED faults
     \/ Fault /\ UNCHANGED stored
  /\ run' = [run EXCEPT ![h].at = "storeNew", ![h].target = None]
  /\ UNCHANGED <<received, history>>

(* ...and store the new one.                                               *)
StoreNew(h) ==
  /\ run[h].at = "storeNew"
  /\ \/ AlreadyThere(h)
     \/ run[h].evt \notin stored /\ Save(h, {})
     \/ Fails(h)

(* The event went through: a client gets an OK, and unless the store had   *)
(* it already the listeners are notified.                                  *)
Finish(h) ==
  LET e == run[h].evt
  IN  /\ run[h].at \in {"saved", "skip"}
      /\ run' = [run EXCEPT ![h] = Rest]
      /\ acked' = IF run[h].byMessage THEN acked \cup {e} ELSE acked
      /\ notified' = IF run[h].byMessage /\ run[h].at = "saved"
                       THEN [notified EXCEPT ![e] = @ + 1] ELSE notified
      /\ UNCHANGED <<setup, stored, received, faults, seen, once, refused, saves, raced>>

(* handleEphemeral, and the reply to it, which depends on how many of the  *)
(* listeners matched.  AddEvent sends none.                                *)
FinishEphemeral(h, listeners) ==
  LET e == run[h].evt
      unheard == run[h].byMessage /\ listeners = 0 /\ ~HearsTop
  IN  /\ run[h].at = "admit"
      /\ Ephemeral(e)
      /\ run' = [run EXCEPT ![h] = Rest]
      /\ notified' = IF run[h].byMessage THEN [notified EXCEPT ![e] = @ + 1] ELSE notified
      /\ acked' = IF run[h].byMessage /\ ~unheard THEN acked \cup {e} ELSE acked
      /\ UNCHANGED <<setup, stored, received, faults, seen, once, refused, saves, raced>>

Step(h) ==
  \/ DeleteQuery(h)
  \/ DeleteTarget(h)
  \/ DeleteEnd(h)
  \/ Hang(h)
  \/ Reject(h)
  \/ Admit(h)
  \/ StoreRegular(h)
  \/ CheckAddress(h)
  \/ Replace(h)
  \/ FetchPrevious(h)
  \/ DeletePrevious(h)
  \/ StoreNew(h)
  \/ Finish(h)
  \/ \E n \in {0, 1} : FinishEphemeral(h, n)

Next ==
  \/ \E h \in Handlers, e \in Events : Receive(h, e) \/ AddEvent(h, e)
  \/ \E h \in Handlers : Step(h)

Spec == Init /\ [][Next]_vars

-----------------------------------------------------------------------------
(* Properties                                                              *)

Steps == {"rest", "delete", "deleteTarget", "admit", "store", "byAddress", "replace", "previous",
          "deletePrevious", "storeNew", "saved", "skip", "hang"}

\* The store holds events, and each handler is at a step its event can be at: it never has a
\* target to delete without knowing one (handlers.go:212-224, adding.go:25-156).
TypeOK ==
  /\ stored \subseteq Events
  /\ \A h \in Handlers :
       LET r == run[h]
       IN  /\ r.at \in Steps
           /\ r.evt \in Events \cup {None} /\ (r.evt = None <=> r.at = "rest")
           /\ r.at \in {"deleteTarget", "deletePrevious"} <=> r.target \in Events
           /\ r.at \in {"delete", "deleteTarget"} => r.byMessage /\ Class[r.evt] = "deletion"
           /\ r.at = "store" => Regular(r.evt)
           /\ r.at \in {"byAddress", "replace", "previous", "deletePrevious", "storeNew"} => Versioned(r.evt)

\* A deletion request that was received asks for e and may have it.
DeletionWanted(e) ==
  \E d \in seen :
    /\ Class[d] = "deletion" /\ AcceptDeletion(e, d)
    /\ \/ Tagged(d, "e", e)
       \/ Class[e] = "addressable" /\ Tagged(d, "a", Address(e)) /\ Date[e] <= Date[d]

\* A newer version of e was stored, or is about to be, or the store would not take it.
Displaced(e) ==
  \E n \in Events :
    /\ SameAddress(e, n) /\ IsOlder(e, n)
    /\ \/ n \in once \cup refused
       \/ \E h \in Handlers : run[h].evt = n /\ run[h].at \in {"deletePrevious", "storeNew"}

\* Nothing is lost: an event the store had, or a client got an OK for, is still there unless a
\* deletion request may have it or a newer version displaced it, however the handlers overlap
\* (adding.go:54-148, deleting.go:40-66).  An event older than one already there was never kept.
AcknowledgedIsKept ==
  \A e \in once \cup {a \in acked : ~Ephemeral(a)} :
    e \in stored \/ DeletionWanted(e) \/ Displaced(e)

\* The OK to a deletion means something: once its tags are done, what it named by id and may
\* delete is gone, or came back through a handler that was at work at the same time; a query
\* that failed on the way is the exception (deleting.go:14-79).
DeletionTakesEffect ==
  \A h \in Handlers :
    LET r == run[h]
    IN  r.byMessage /\ r.at \in {"admit", "store", "saved", "skip"} /\ ~r.blind /\ Class[r.evt] = "deletion" =>
          \A x \in stored : Tagged(r.evt, "e", x) => x \in r.since

\* An event of a regular kind goes to the listeners once each time it is stored and no more,
\* also when several handlers have it at once (adding.go:54-62, handlers.go:239-240).
SentOncePerSave == \A e \in Events : Regular(e) => notified[e] <= saves[e]

\* One version of an address is all there is, unless two handlers were at work on it at once or
\* the store failed (adding.go:92-148).
OneVersion ==
  ~raced /\ faults = 0 => \A e, f \in stored : SameAddress(e, f) => e = f

\* "Check to see if the event has been deleted by ID" (adding.go:36): an event that a stored
\* deletion of its author names by id is not let through.
Names(d, e) == Class[d] = "deletion" /\ Author[d] = Author[e] /\ Tagged(d, "e", e)

DeletedIsBlocked ==
  [][\A h \in Handlers :
       run[h].at = "admit" /\ run'[h].at = "store" /\ faults' = faults =>
         ~\E d \in stored : Names(d, run[h].evt)]_vars
=============================================================================
