----------------------------- MODULE Expiration -----------------------------
(***************************************************************************)
(* The expiration manager (expiration.go).  A ticker wakes a goroutine     *)
(* that, the first time, scans the stores for events with an expiration    *)
(* and, each time, takes from a heap those whose time has come and deletes *)
(* them.  Handlers put events on the heap after storing them and take them *)
(* off after deleting them.  The heap is under a mutex; the stores are not, *)
(* so an event can change between its store and its heap entry.            *)
(*                                                                         *)
(* The relay queries its stores one after the other: the first is where    *)
(* its own events go, a second may hold others.  Each of the calls may     *)
(* fail.  The process may restart, which loses the heap.                   *)
(***************************************************************************)
EXTENDS Integers

CONSTANTS
  Events,        \* the events with an expiration tag (numbers from 1)
  Expires,       \* when each of them expires
  Older,         \* the pairs of events of which the first is an older version of the second
  Stores,        \* how many stores there are to query
  MaxTime,       \* bound on the clock
  MaxSaves,      \* bound on the events stored while running
  MaxDeletions,  \* bound on the deletion requests
  MaxFaults,     \* bound on the store calls that fail
  MaxRestarts    \* bound on the restarts

ASSUME ExpiresAssumption == Expires \in [Events -> Nat]
ASSUME OlderAssumption == Older \subseteq Events \X Events /\ \A p \in Older : p[1] # p[2]
ASSUME StoresAssumption == Stores \in Nat \ {0}
ASSUME BoundsAssumption == {MaxTime, MaxSaves, MaxDeletions, MaxFaults, MaxRestarts} \subseteq Nat

VARIABLES
  now,           \* the clock
  stored,        \* what each store holds
  heap,          \* how many entries each event has on the heap
  scanned,       \* initialScanDone
  sweep,         \* the manager's goroutine: what it does with the mutex, and how far it is
  tracking,      \* events stored whose trackEvent did not run yet
  untracking,    \* events deleted on request whose removeEvent did not run yet
  spent,         \* the bounded things that happened
  blamed         \* events a failed call, or a removal that crossed a new save, left untracked

vars == <<now, stored, heap, scanned, sweep, tracking, untracking, spent, blamed>>

-----------------------------------------------------------------------------
Idle == [at |-> "idle", e |-> 0, store |-> 0, now |-> 0]
Nothing == [saves |-> 0, deletions |-> 0, faults |-> 0, restarts |-> 0]

OnHeap == {e \in Events : heap[e] > 0}
MutexFree == sweep.at \in {"idle", "scanned"}
Fault == spent.faults < MaxFaults /\ spent' = [spent EXCEPT !.faults = @ + 1]

Init ==
  /\ now = 0
  /\ stored \in [1..Stores -> SUBSET Events]
  /\ heap = [e \in Events |-> 0]
  /\ scanned = FALSE
  /\ sweep = Idle
  /\ tracking = {} /\ untracking = {}
  /\ spent = Nothing
  /\ blamed = {}

Clock ==
  /\ now < MaxTime
  /\ now' = now + 1
  /\ UNCHANGED <<stored, heap, scanned, sweep, tracking, untracking, spent, blamed>>

(* The process stops and starts again: newExpirationManager.               *)
Restart ==
  /\ spent.restarts < MaxRestarts
  /\ spent' = [spent EXCEPT !.restarts = @ + 1]
  /\ heap' = [e \in Events |-> 0]
  /\ scanned' = FALSE
  /\ sweep' = Idle
  /\ tracking' = {} /\ untracking' = {}
  /\ blamed' = {}
  /\ UNCHANGED <<now, stored>>

-----------------------------------------------------------------------------
(* The handlers of events.                                                 *)

\* The versions of e that e replaces, and those that keep it from being stored.
Previous(e) == {f \in Events : <<f, e>> \in Older}
Newer(e) == {f \in Events : <<e, f>> \in Older} \cup {e}
Replaceable(e) == Previous(e) \cup Newer(e) # {e}

(* handleNormal: the event is stored, in place of its older versions.  One *)
(* handler at a time has it...                                             *)
Save(e) ==
  /\ spent.saves < MaxSaves
  /\ spent' = [spent EXCEPT !.saves = @ + 1]
  /\ e \notin tracking
  /\ Newer(e) \cap UNION {stored[s] : s \in 1..Stores} = {}
  /\ stored' = [s \in 1..Stores |-> (stored[s] \ Previous(e)) \cup IF s = 1 THEN {e} ELSE {}]
  /\ tracking' = tracking \cup {e}
  /\ blamed' = IF e \in untracking THEN blamed \cup {e} ELSE blamed
  /\ UNCHANGED <<now, heap, scanned, sweep, untracking>>

(* ...or not stored, because a newer version is there or the event itself: *)
(* the handler goes on to trackEvent all the same.                         *)
SaveStale(e) ==
  /\ spent.saves < MaxSaves
  /\ spent' = [spent EXCEPT !.saves = @ + 1]
  /\ e \notin tracking
  /\ Replaceable(e)
  /\ Newer(e) \cap UNION {stored[s] : s \in 1..Stores} # {}
  /\ tracking' = tracking \cup {e}
  /\ UNCHANGED <<now, stored, heap, scanned, sweep, untracking, blamed>>

(* The handler's trackEvent.                                               *)
TrackEvent(e) ==
  /\ e \in tracking
  /\ MutexFree
  /\ heap' = [heap EXCEPT ![e] = @ + 1]
  /\ tracking' = tracking \ {e}
  /\ UNCHANGED <<now, stored, scanned, sweep, untracking, spent, blamed>>

\* Mutant: the entry goes whether or not the stores could delete the event.
DeleteRequestUntracksAnyway(e) ==
  /\ spent.deletions < MaxDeletions
  /\ e \notin untracking
  /\ \E s \in 1..Stores : e \in stored[s]
  /\ \E n \in 0..Stores :
       /\ spent' = [spent EXCEPT !.deletions = @ + 1, !.faults = IF n < Stores THEN @ + 1 ELSE @]
       /\ spent'.faults <= MaxFaults
       /\ stored' = [s \in 1..Stores |-> IF s <= n THEN stored[s] \ {e} ELSE stored[s]]
       /\ untracking' = untracking \cup {e}
  /\ UNCHANGED <<now, heap, scanned, sweep, tracking, blamed>>

(* handleDeleteRequest: the stores delete the event, one request for it at *)
(* a time, up to one that fails.                                           *)
DeleteRequest(e) ==
  /\ spent.deletions < MaxDeletions
  /\ e \notin untracking
  /\ \E s \in 1..Stores : e \in stored[s]
  /\ \E n \in 0..Stores :
       /\ spent' = [spent EXCEPT !.deletions = @ + 1, !.faults = IF n < Stores THEN @ + 1 ELSE @]
       /\ spent'.faults <= MaxFaults
       /\ stored' = [s \in 1..Stores |-> IF s <= n THEN stored[s] \ {e} ELSE stored[s]]
       /\ untracking' = IF n < Stores THEN untracking ELSE untracking \cup {e}
  /\ UNCHANGED <<now, heap, scanned, sweep, tracking, blamed>>

\* Mutant: an entry is taken off whether or not there is one.
RemoveEventUnfound(e) ==
  /\ e \in untracking
  /\ MutexFree
  /\ heap' = [heap EXCEPT ![e] = @ - 1]
  /\ untracking' = untracking \ {e}
  /\ UNCHANGED <<now, stored, scanned, sweep, tracking, spent, blamed>>

(* The request's removeEvent: one entry of the event goes, if it has any.    *)
RemoveEvent(e) ==
  /\ e \in untracking
  /\ MutexFree
  /\ heap' = [heap EXCEPT ![e] = IF @ > 0 THEN @ - 1 ELSE 0]
  /\ untracking' = untracking \ {e}
  /\ UNCHANGED <<now, stored, scanned, sweep, tracking, spent, blamed>>

-----------------------------------------------------------------------------
(* The manager's goroutine.                                                *)

\* checkExpiredEvents reads the clock once.
CheckFrom == [Idle EXCEPT !.at = "check", !.now = now]

(* The ticker fires, at any time the goroutine is waiting for it.          *)
Tick ==
  /\ sweep.at = "idle"
  /\ sweep' = IF scanned THEN CheckFrom ELSE [Idle EXCEPT !.at = "scan", !.store = 1]
  /\ UNCHANGED <<now, stored, heap, scanned, tracking, untracking, spent, blamed>>

(* initialScan queries a store.  One that fails is passed over.            *)
Scan ==
  /\ sweep.at = "scan"
  /\ sweep.store <= Stores
  /\ \/ /\ heap' = [e \in Events |-> heap[e] + IF e \in stored[sweep.store] THEN 1 ELSE 0]
        /\ UNCHANGED <<spent, blamed>>
     \/ /\ Fault
        /\ blamed' = blamed \cup stored[sweep.store]
        /\ UNCHANGED heap
  /\ sweep' = [sweep EXCEPT !.store = @ + 1]
  /\ UNCHANGED <<now, stored, scanned, tracking, untracking>>

(* The mutex is let go...                                                  *)
ScanEnd ==
  /\ sweep.at = "scan"
  /\ sweep.store > Stores
  /\ scanned' = TRUE
  /\ sweep' = [Idle EXCEPT !.at = "scanned"]
  /\ UNCHANGED <<now, stored, heap, tracking, untracking, spent, blamed>>

(* ...and taken again for the check.                                       *)
CheckBegin ==
  /\ sweep.at = "scanned"
  /\ sweep' = CheckFrom
  /\ UNCHANGED <<now, stored, heap, scanned, tracking, untracking, spent, blamed>>

\* Mutant: the greatest entry of the heap.
LastToExpire(e) == \A f \in OnHeap : Expires[f] <= Expires[e]

\* em.events[0]: an entry no other entry expires before.
NextToExpire(e) == \A f \in OnHeap : Expires[e] <= Expires[f]

(* The next entry, if it expired.                                          *)
Pop ==
  /\ sweep.at = "check"
  /\ \E e \in OnHeap :
       /\ NextToExpire(e)
       /\ sweep.now >= Expires[e]
       /\ heap' = [heap EXCEPT ![e] = @ - 1]
       /\ sweep' = [sweep EXCEPT !.at = "query", !.e = e, !.store = 1]
  /\ UNCHANGED <<now, stored, scanned, tracking, untracking, spent, blamed>>

CheckEnd ==
  /\ sweep.at = "check"
  /\ \A e \in OnHeap : NextToExpire(e) => sweep.now < Expires[e]
  /\ sweep' = Idle
  /\ UNCHANGED <<now, stored, heap, scanned, tracking, untracking, spent, blamed>>

(* A store is asked for the event: the first that answers ends the search, *)
(* whether or not it has it.                                               *)
Query ==
  /\ sweep.at = "query"
  /\ \/ /\ sweep.store <= Stores
        /\ sweep' = IF sweep.e \in stored[sweep.store] THEN [sweep EXCEPT !.at = "delete", !.store = 1]
                    ELSE [sweep EXCEPT !.at = "check"]
        /\ UNCHANGED <<spent, blamed>>
     \/ /\ sweep.store <= Stores
        /\ Fault
        /\ sweep' = [sweep EXCEPT !.store = @ + 1]
        /\ blamed' = blamed \cup {sweep.e}
     \/ /\ sweep.store > Stores
        /\ sweep' = [sweep EXCEPT !.at = "check"]
        /\ UNCHANGED <<spent, blamed>>
  /\ UNCHANGED <<now, stored, heap, scanned, tracking, untracking>>

(* A store deletes the event.  One that fails is not noticed.              *)
Delete ==
  /\ sweep.at = "delete"
  /\ \/ /\ stored' = [stored EXCEPT ![sweep.store] = @ \ {sweep.e}]
        /\ UNCHANGED <<spent, blamed>>
     \/ /\ Fault
        /\ blamed' = blamed \cup {sweep.e}
        /\ UNCHANGED stored
  /\ sweep' = IF sweep.store < Stores THEN [sweep EXCEPT !.store = @ + 1] ELSE [sweep EXCEPT !.at = "check"]
  /\ UNCHANGED <<now, heap, scanned, tracking, untracking>>

Manager == Tick \/ Scan \/ ScanEnd \/ CheckBegin \/ Pop \/ CheckEnd \/ Query \/ Delete

Next ==
  \/ Clock
  \/ Restart
  \/ \E e \in Events : Save(e) \/ SaveStale(e) \/ TrackEvent(e) \/ DeleteRequest(e) \/ RemoveEvent(e)
  \/ Manager

(* The goroutine of the manager runs on, and the mutex starves no handler  *)
(* that waits for it.                                                      *)
Fairness ==
  /\ WF_vars(Manager)
  /\ \A e \in Events : SF_vars(TrackEvent(e))

Spec == Init /\ [][Next]_vars
FairSpec == Spec /\ Fairness

-----------------------------------------------------------------------------
(* Properties                                                              *)

\* No event has less than no entry, and the goroutine has an event in hand exactly between taking
\* its entry off and being done with it (expiration.go:101-125, 139-150).
TypeOK ==
  /\ now \in 0..MaxTime
  /\ stored \in [1..Stores -> SUBSET Events]
  /\ heap \in [Events -> Nat]
  /\ sweep.at \in {"idle", "scan", "scanned", "check", "query", "delete"}
  /\ sweep.at \in {"query", "delete"} => sweep.e \in Events /\ sweep.now >= Expires[sweep.e]
  /\ tracking \cup untracking \cup blamed \subseteq Events

InHand(e) == sweep.at \in {"query", "delete"} /\ sweep.e = e
Known(e) == e \in OnHeap \cup tracking \/ InHand(e)

\* After the initial scan the manager forgets no event of the first store, through any overlap of
\* saves, deletions and sweeps, and over restarts.  Only a store call that failed, or a removal
\* that was still to come when the event was saved again, can be the cause of one without an
\* entry (expiration.go:67-91, 127-150; deleting.go:64-72; adding.go:153-154).
NothingForgotten ==
  scanned => \A e \in stored[1] : Known(e) \/ e \in blamed

\* What has expired goes: the hourly check gets to every expired event of the first store
\* (expiration.go:93-125).
ExpiredGoes ==
  \A e \in Events :
    (e \in stored[1] /\ now >= Expires[e]) ~> (e \notin stored[1] \/ e \in blamed)
=============================================================================
