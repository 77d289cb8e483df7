-------------------------- MODULE ExpirationProofs --------------------------
(***************************************************************************)
(* The expiration manager forgets no event of the first store, for any     *)
(* number of events, stores, saves, deletions, faults and restarts.        *)
(***************************************************************************)
EXTENDS Expiration, TLAPS

\* An event that has an entry on the heap, or one to come.
Tracked(e) == heap[e] > 0 \/ e \in tracking

\* What the manager knows of, or is not to blame for.
Accounted(e) == Tracked(e) \/ InHand(e) \/ e \in blamed

Sweeps ==
  [at : {"idle", "scan", "scanned", "check", "query", "delete"},
   e : Events \cup {0}, store : Nat, now : Nat]

SweepOK ==
  /\ sweep \in Sweeps
  /\ sweep.at \in {"query", "delete"} => sweep.e \in Events /\ sweep.now >= Expires[sweep.e]
  /\ sweep.at \in {"scan", "query", "delete"} => sweep.store >= 1
  /\ sweep.at = "delete" => sweep.store <= Stores

TypesOK ==
  /\ now \in 0..MaxTime
  /\ stored \in [1..Stores -> SUBSET Events]
  /\ heap \in [Events -> Nat]
  /\ scanned \in BOOLEAN
  /\ tracking \subseteq Events /\ untracking \subseteq Events /\ blamed \subseteq Events

\* The scan is over the first store when it is at the second...
ScanCovers ==
  scanned \/ (sweep.at = "scan" /\ sweep.store > 1) => \A e \in stored[1] : Accounted(e)

\* ...and only then does the manager check.
ScannedFirst == sweep.at \in {"scanned", "check", "query", "delete"} => scanned

\* An event that a request took out of the stores comes back by a new save only.
RemovalsCrossed == \A e \in untracking : e \in stored[1] => e \in blamed

\* Past the first store, the search has failed there, and the deletion has not, or another save
\* has brought the event back.
InHandLater ==
  /\ sweep.at = "query" /\ sweep.store > 1 => sweep.e \in blamed
  /\ sweep.at = "delete" /\ sweep.store > 1 /\ sweep.e \in stored[1] =>
       Tracked(sweep.e) \/ sweep.e \in blamed

IInv ==
  /\ TypesOK /\ SweepOK
  /\ ScanCovers /\ ScannedFirst /\ RemovalsCrossed /\ InHandLater

-----------------------------------------------------------------------------
LEMMA Numbers == 1 \in 1..Stores /\ Stores \in Nat /\ MaxTime \in Nat
BY StoresAssumption, BoundsAssumption

LEMMA InitEstablishes == Init => IInv
<1> SUFFICES ASSUME Init
             PROVE  IInv
  OBVIOUS
<1>1. TypesOK
  <2>1. heap \in [Events -> Nat] /\ now \in 0..MaxTime
    BY Numbers DEF Init
  <2> QED
    BY <2>1 DEF Init, TypesOK
<1>2. SweepOK
  BY DEF Init, SweepOK, Sweeps, Idle
<1>3. ScanCovers /\ ScannedFirst /\ RemovalsCrossed /\ InHandLater
  BY DEF Init, Idle, ScanCovers, ScannedFirst, RemovalsCrossed, InHandLater
<1> QED
  BY <1>1, <1>2, <1>3 DEF IInv

(* What the handlers, which leave the goroutine alone, have to see to:     *)
(* that an event in the first store is tracked, or was not before.         *)
LEMMA HandlersKeep ==
  ASSUME IInv, sweep' = sweep, scanned' = scanned, blamed \subseteq blamed',
         \A f \in stored'[1] :
           \/ Tracked(f)' \/ f \in blamed'
           \/ f \in stored[1] /\ ~Tracked(f) /\ f \notin blamed
  PROVE  SweepOK' /\ ScanCovers' /\ ScannedFirst' /\ InHandLater'
<1>1. SweepOK' /\ ScannedFirst'
  BY DEF IInv, SweepOK, Sweeps, ScannedFirst
<1>2. ScanCovers'
  BY DEF IInv, ScanCovers, Accounted, InHand
<1>3. InHandLater'
  BY DEF IInv, InHandLater
<1> QED
  BY <1>1, <1>2, <1>3

LEMMA HandlerStepKeeps ==
  ASSUME IInv, NEW e \in Events,
         Save(e) \/ SaveStale(e) \/ TrackEvent(e) \/ DeleteRequest(e) \/ RemoveEvent(e)
  PROVE  IInv'
<1> USE Numbers
<1>0. TypesOK /\ RemovalsCrossed
  BY DEF IInv
<1>1. CASE Save(e)
  <2>1. TypesOK'
    BY <1>0, <1>1 DEF Save, TypesOK
  <2>2. /\ sweep' = sweep /\ scanned' = scanned /\ heap' = heap
        /\ tracking' = tracking \cup {e} /\ untracking' = untracking
        /\ blamed \subseteq blamed' /\ (e \in untracking => e \in blamed')
        /\ stored'[1] \subseteq stored[1] \cup {e}
    BY <1>0, <1>1 DEF Save, TypesOK
  <2>3. SweepOK' /\ ScanCovers' /\ ScannedFirst' /\ InHandLater'
    BY <2>2, HandlersKeep DEF Tracked
  <2>4. RemovalsCrossed'
    BY <1>0, <2>2 DEF RemovalsCrossed
  <2> QED
    BY <2>1, <2>3, <2>4 DEF IInv
<1>2. CASE SaveStale(e)
  <2>1. /\ sweep' = sweep /\ scanned' = scanned /\ heap' = heap /\ stored' = stored
        /\ tracking' = tracking \cup {e} /\ untracking' = untracking /\ blamed' = blamed
        /\ now' = now
    BY <1>2 DEF SaveStale
  <2>2. TypesOK'
    BY <1>0, <2>1 DEF TypesOK
  <2>3. SweepOK' /\ ScanCovers' /\ ScannedFirst' /\ InHandLater'
    BY <2>1, HandlersKeep DEF Tracked
  <2>4. RemovalsCrossed'
    BY <1>0, <2>1 DEF RemovalsCrossed
  <2> QED
    BY <2>2, <2>3, <2>4 DEF IInv
<1>3. CASE TrackEvent(e)
  <2>1. /\ sweep' = sweep /\ scanned' = scanned /\ stored' = stored
        /\ heap' = [heap EXCEPT ![e] = @ + 1] /\ tracking' = tracking \ {e}
        /\ untracking' = untracking /\ blamed' = blamed /\ now' = now
    BY <1>3 DEF TrackEvent
  <2>2. TypesOK'
    BY <1>0, <2>1 DEF TypesOK
  <2>3. \A f \in Events : Tracked(f) => Tracked(f)'
    BY <1>0, <2>1 DEF Tracked, TypesOK
  <2>4. stored[1] \subseteq Events
    BY <1>0 DEF TypesOK
  <2>5. SweepOK' /\ ScanCovers' /\ ScannedFirst' /\ InHandLater'
    BY <2>1, <2>3, <2>4, HandlersKeep
  <2>6. RemovalsCrossed'
    BY <1>0, <2>1 DEF RemovalsCrossed
  <2> QED
    BY <2>2, <2>5, <2>6 DEF IInv
<1>4. CASE DeleteRequest(e)
  <2>1. PICK n \in 0..Stores :
          /\ stored' = [s \in 1..Stores |-> IF s <= n THEN stored[s] \ {e} ELSE stored[s]]
          /\ untracking' = IF n < Stores THEN untracking ELSE untracking \cup {e}
    BY <1>4 DEF DeleteRequest
  <2>2. /\ sweep' = sweep /\ scanned' = scanned /\ heap' = heap /\ tracking' = tracking
        /\ blamed' = blamed /\ now' = now
    BY <1>4 DEF DeleteRequest
  <2>3. TypesOK'
    BY <1>0, <2>1, <2>2 DEF TypesOK
  <2>4. stored'[1] \subseteq stored[1] /\ (untracking' # untracking => e \notin stored'[1])
    BY <1>0, <2>1 DEF TypesOK
  <2>5. SweepOK' /\ ScanCovers' /\ ScannedFirst' /\ InHandLater'
    BY <2>2, <2>4, HandlersKeep DEF Tracked
  <2>6. RemovalsCrossed'
    BY <1>0, <2>1, <2>2, <2>4 DEF RemovalsCrossed
  <2> QED
    BY <2>3, <2>5, <2>6 DEF IInv
<1>5. CASE RemoveEvent(e)
  <2>1. /\ sweep' = sweep /\ scanned' = scanned /\ stored' = stored
        /\ heap' = [heap EXCEPT ![e] = IF @ > 0 THEN @ - 1 ELSE 0] /\ tracking' = tracking
        /\ e \in untracking /\ untracking' = untracking \ {e} /\ blamed' = blamed /\ now' = now
    BY <1>5 DEF RemoveEvent
  <2>2. TypesOK'
    BY <1>0, <2>1 DEF TypesOK
  <2>3. \A f \in Events \ {e} : Tracked(f) => Tracked(f)'
    BY <1>0, <2>1 DEF Tracked, TypesOK
  <2>4. stored[1] \subseteq Events /\ (e \in stored[1] => e \in blamed)
    BY <1>0, <2>1 DEF TypesOK, RemovalsCrossed
  <2>5. SweepOK' /\ ScanCovers' /\ ScannedFirst' /\ InHandLater'
    BY <2>1, <2>3, <2>4, HandlersKeep
  <2>6. RemovalsCrossed'
    BY <1>0, <2>1 DEF RemovalsCrossed
  <2> QED
    BY <2>2, <2>5, <2>6 DEF IInv
<1> QED
  BY <1>1, <1>2, <1>3, <1>4, <1>5

(* The steps of the goroutine.                                             *)
LEMMA ManagerStepKeeps ==
  ASSUME IInv, Manager
  PROVE  IInv'
<1> USE Numbers
<1>0. TypesOK /\ SweepOK /\ ScanCovers /\ ScannedFirst /\ RemovalsCrossed /\ InHandLater
  BY DEF IInv
<1>1. CASE Tick \/ CheckBegin
  <2>1. /\ now' = now /\ stored' = stored /\ heap' = heap /\ scanned' = scanned
        /\ tracking' = tracking /\ untracking' = untracking /\ blamed' = blamed
        /\ sweep.at \in {"idle", "scanned"}
        /\ \/ scanned /\ sweep' = [at |-> "check", e |-> 0, store |-> 0, now |-> now]
           \/ ~scanned /\ sweep' = [at |-> "scan", e |-> 0, store |-> 1, now |-> 0]
    BY <1>0, <1>1 DEF Tick, CheckBegin, CheckFrom, Idle, ScannedFirst
  <2>2. TypesOK' /\ SweepOK'
    BY <1>0, <2>1 DEF TypesOK, SweepOK, Sweeps
  <2>3. ScanCovers' /\ ScannedFirst' /\ RemovalsCrossed' /\ InHandLater'
    BY <1>0, <2>1 DEF ScanCovers, ScannedFirst, RemovalsCrossed, InHandLater, Accounted, Tracked, InHand
  <2> QED
    BY <2>2, <2>3 DEF IInv
<1>2. CASE Scan
  <2>1. /\ now' = now /\ stored' = stored /\ scanned' = scanned
        /\ tracking' = tracking /\ untracking' = untracking
        /\ sweep.at = "scan" /\ sweep.store \in 1..Stores
        /\ sweep' = [sweep EXCEPT !.store = @ + 1]
    BY <1>0, <1>2 DEF Scan, SweepOK, Sweeps
  <2>2. \/ /\ heap' = [f \in Events |-> heap[f] + IF f \in stored[sweep.store] THEN 1 ELSE 0]
           /\ blamed' = blamed
        \/ /\ heap' = heap
           /\ blamed' = blamed \cup stored[sweep.store]
    BY <1>2 DEF Scan
  <2>3. TypesOK' /\ SweepOK'
    <3>1. heap' \in [Events -> Nat] /\ blamed' \subseteq Events
      BY <1>0, <2>1, <2>2 DEF TypesOK
    <3>2. TypesOK'
      BY <1>0, <2>1, <3>1 DEF TypesOK
    <3> QED
      BY <1>0, <2>1, <3>2 DEF SweepOK, Sweeps
  <2>4. /\ blamed \subseteq blamed'
        /\ \A f \in Events : Tracked(f) => Tracked(f)'
        /\ \A f \in stored[sweep.store] : Tracked(f)' \/ f \in blamed'
    <3>1. blamed \subseteq blamed'
      BY <2>2
    <3>2. ASSUME NEW f \in Events
          PROVE  /\ heap[f] \in Nat /\ heap'[f] \in Nat /\ heap'[f] >= heap[f]
                 /\ f \in stored[sweep.store] => heap'[f] > 0 \/ f \in blamed'
      BY <1>0, <2>2 DEF TypesOK
    <3>3. \A f \in Events : Tracked(f) => Tracked(f)'
      BY <2>1, <3>2 DEF Tracked
    <3>4. \A f \in stored[sweep.store] : f \in Events
      BY <1>0, <2>1 DEF TypesOK
    <3> QED
      BY <3>1, <3>2, <3>3, <3>4 DEF Tracked
  <2>5. ScanCovers'
    <3>1. \A f \in stored[1] : f \in Events /\ ~InHand(f)
      BY <1>0, <2>1 DEF TypesOK, InHand
    <3>2. sweep.store = 1 \/ sweep.store > 1
      BY <2>1
    <3> QED
      BY <1>0, <2>1, <2>4, <3>1, <3>2 DEF ScanCovers, Accounted
  <2>6. ScannedFirst' /\ RemovalsCrossed' /\ InHandLater'
    BY <1>0, <2>1, <2>4 DEF ScannedFirst, RemovalsCrossed, InHandLater, SweepOK, Sweeps
  <2> QED
    BY <2>3, <2>5, <2>6 DEF IInv
<1>3. CASE ScanEnd
  <2>1. /\ now' = now /\ stored' = stored /\ heap' = heap /\ scanned' = TRUE
        /\ tracking' = tracking /\ untracking' = untracking /\ blamed' = blamed
        /\ sweep.at = "scan" /\ sweep.store > 1
        /\ sweep' = [at |-> "scanned", e |-> 0, store |-> 0, now |-> 0]
    BY <1>0, <1>3 DEF ScanEnd, Idle, SweepOK, Sweeps
  <2>2. TypesOK' /\ SweepOK'
    BY <1>0, <2>1 DEF TypesOK, SweepOK, Sweeps
  <2>3. ScanCovers' /\ ScannedFirst' /\ RemovalsCrossed' /\ InHandLater'
    BY <1>0, <2>1 DEF ScanCovers, ScannedFirst, RemovalsCrossed, InHandLater, Accounted, Tracked, InHand
  <2> QED
    BY <2>2, <2>3 DEF IInv
<1>4. CASE Pop
  <2>1. PICK e \in Events :
          /\ heap[e] > 0 /\ sweep.now >= Expires[e]
          /\ heap' = [heap EXCEPT ![e] = @ - 1]
          /\ sweep' = [sweep EXCEPT !.at = "query", !.e = e, !.store = 1]
    BY <1>4 DEF Pop, OnHeap
  <2>2. /\ now' = now /\ stored' = stored /\ scanned' = scanned /\ scanned
        /\ tracking' = tracking /\ untracking' = untracking /\ blamed' = blamed
        /\ sweep.at = "check"
    BY <1>0, <1>4 DEF Pop, ScannedFirst
  <2>3. sweep'.at = "query" /\ sweep'.e = e /\ sweep'.store = 1 /\ sweep'.now = sweep.now
    BY <1>0, <2>1 DEF SweepOK, Sweeps
  <2>4. TypesOK' /\ SweepOK'
    <3>1. heap' \in [Events -> Nat]
      BY <1>0, <2>1 DEF TypesOK
    <3>2. TypesOK'
      BY <1>0, <2>2, <3>1 DEF TypesOK
    <3>3. sweep' \in Sweeps
      BY <1>0, <2>1 DEF SweepOK, Sweeps
    <3> QED
      BY <1>0, <2>1, <2>2, <2>3, <3>2, <3>3 DEF SweepOK
  <2>5. \A f \in Events \ {e} : Tracked(f) => Tracked(f)'
    BY <1>0, <2>1, <2>2 DEF TypesOK, Tracked
  <2>6. ScanCovers'
    <3>1. InHand(e)' /\ \A f \in stored[1] : f \in Events /\ ~InHand(f)
      BY <1>0, <2>2, <2>3 DEF TypesOK, InHand
    <3> QED
      BY <1>0, <2>2, <2>5, <3>1 DEF ScanCovers, Accounted
  <2>7. ScannedFirst' /\ RemovalsCrossed' /\ InHandLater'
    BY <1>0, <2>2, <2>3 DEF ScannedFirst, RemovalsCrossed, InHandLater
  <2> QED
    BY <2>4, <2>6, <2>7 DEF IInv
<1>5. CASE CheckEnd
  <2>1. /\ now' = now /\ stored' = stored /\ heap' = heap /\ scanned' = scanned
        /\ tracking' = tracking /\ untracking' = untracking /\ blamed' = blamed
        /\ sweep.at = "check"
        /\ sweep' = [at |-> "idle", e |-> 0, store |-> 0, now |-> 0]
    BY <1>5 DEF CheckEnd, Idle
  <2>2. TypesOK' /\ SweepOK'
    BY <1>0, <2>1 DEF TypesOK, SweepOK, Sweeps
  <2>3. ScanCovers' /\ ScannedFirst' /\ RemovalsCrossed' /\ InHandLater'
    BY <1>0, <2>1 DEF ScanCovers, ScannedFirst, RemovalsCrossed, InHandLater, Accounted, Tracked, InHand
  <2> QED
    BY <2>2, <2>3 DEF IInv
<1> DEFINE x == sweep.e
<1>6. CASE Query
  <2>1. /\ now' = now /\ stored' = stored /\ heap' = heap /\ scanned' = scanned
        /\ tracking' = tracking /\ untracking' = untracking
        /\ sweep.at = "query" /\ sweep.store \in Nat /\ sweep.store >= 1
        /\ x \in Events /\ scanned
    BY <1>0, <1>6 DEF Query, SweepOK, Sweeps, ScannedFirst
  <2>2. /\ blamed \subseteq blamed' /\ blamed' \subseteq Events
        /\ \/ sweep' = [sweep EXCEPT !.at = "delete", !.store = 1]
           \/ sweep' = [sweep EXCEPT !.at = "check"] /\ (x \in stored[1] => x \in blamed)
           \/ sweep' = [sweep EXCEPT !.store = @ + 1] /\ x \in blamed'
    <3>1. sweep.store > 1 => x \in blamed
      BY <1>0, <2>1 DEF InHandLater
    <3>2. CASE sweep.store <= Stores /\ blamed' = blamed
                /\ sweep' = IF x \in stored[sweep.store] THEN [sweep EXCEPT !.at = "delete", !.store = 1]
                             ELSE [sweep EXCEPT !.at = "check"]
      <4>1. sweep.store = 1 \/ x \in blamed
        BY <2>1, <3>1
      <4> QED
        BY <1>0, <3>2, <4>1 DEF TypesOK
    <3>3. CASE sweep' = [sweep EXCEPT !.store = @ + 1] /\ blamed' = blamed \cup {x}
      BY <1>0, <2>1, <3>3 DEF TypesOK
    <3>4. CASE sweep.store > Stores /\ blamed' = blamed /\ sweep' = [sweep EXCEPT !.at = "check"]
      <4>1. x \in blamed
        BY <2>1, <3>1, <3>4
      <4> QED
        BY <1>0, <3>4, <4>1 DEF TypesOK
    <3> QED
      BY <1>6, <3>2, <3>3, <3>4 DEF Query
  <2>3. \/ sweep'.at = "delete" /\ sweep'.e = x /\ sweep'.store = 1 /\ sweep'.now = sweep.now
        \/ sweep'.at = "check" /\ sweep'.e = x /\ (x \in stored[1] => x \in blamed)
        \/ /\ sweep'.at = "query" /\ sweep'.e = x /\ sweep'.store = sweep.store + 1
           /\ sweep'.now = sweep.now /\ x \in blamed'
    BY <1>0, <2>1, <2>2 DEF SweepOK, Sweeps
  <2>4. TypesOK'
    BY <1>0, <2>1, <2>2 DEF TypesOK
  <2>5. SweepOK'
    <3>1. CASE sweep' = [sweep EXCEPT !.at = "delete", !.store = 1]
      <4>1. sweep' \in Sweeps
        BY <1>0, <3>1 DEF SweepOK, Sweeps
      <4> QED
        BY <1>0, <2>1, <2>3, <3>1, <4>1, Numbers DEF SweepOK
    <3>2. CASE sweep' = [sweep EXCEPT !.at = "check"]
      BY <1>0, <2>1, <3>2 DEF SweepOK, Sweeps
    <3>3. CASE sweep' = [sweep EXCEPT !.store = @ + 1]
      <4>1. sweep' \in Sweeps
        BY <1>0, <2>1, <3>3 DEF SweepOK, Sweeps
      <4>2. sweep'.at = "query" /\ sweep'.e = x /\ sweep'.store = sweep.store + 1 /\ sweep'.now = sweep.now
        BY <1>0, <2>1, <3>3 DEF SweepOK, Sweeps
      <4> QED
        BY <1>0, <2>1, <4>1, <4>2 DEF SweepOK
    <3> QED
      BY <2>2, <3>1, <3>2, <3>3
  <2>6. ScanCovers'
    BY <1>0, <2>1, <2>2, <2>3 DEF ScanCovers, Accounted, Tracked, InHand
  <2>7. ScannedFirst' /\ RemovalsCrossed' /\ InHandLater'
    BY <1>0, <2>1, <2>2, <2>3 DEF ScannedFirst, RemovalsCrossed, InHandLater
  <2> QED
    BY <2>4, <2>5, <2>6, <2>7 DEF IInv
<1>7. CASE Delete
  <2>1. /\ now' = now /\ heap' = heap /\ scanned' = scanned
        /\ tracking' = tracking /\ untracking' = untracking
        /\ sweep.at = "delete" /\ sweep.store \in 1..Stores
        /\ x \in Events /\ scanned
        /\ sweep' = IF sweep.store < Stores THEN [sweep EXCEPT !.store = @ + 1]
                    ELSE [sweep EXCEPT !.at = "check"]
    BY <1>0, <1>7 DEF Delete, SweepOK, Sweeps, ScannedFirst
  <2>2. \/ stored' = [stored EXCEPT ![sweep.store] = @ \ {x}] /\ blamed' = blamed
        \/ stored' = stored /\ blamed' = blamed \cup {x}
    BY <1>7 DEF Delete
  <2>3. /\ blamed \subseteq blamed' /\ stored'[1] \subseteq stored[1]
        /\ x \in stored'[1] => Tracked(x)' \/ x \in blamed'
    <3>1. \A f : Tracked(f)' <=> Tracked(f)
      BY <2>1 DEF Tracked
    <3>2. sweep.store > 1 /\ x \in stored[1] => Tracked(x) \/ x \in blamed
      BY <1>0, <2>1 DEF InHandLater
    <3>3. sweep.store = 1 \/ sweep.store > 1
      BY <2>1
    <3> QED
      BY <1>0, <2>1, <2>2, <3>1, <3>2, <3>3 DEF TypesOK
  <2>4. TypesOK'
    BY <1>0, <2>1, <2>2 DEF TypesOK
  <2>5. \/ /\ sweep'.at = "delete" /\ sweep'.e = x /\ sweep'.store = sweep.store + 1
           /\ sweep'.now = sweep.now /\ sweep.store < Stores
        \/ sweep'.at = "check" /\ sweep'.e = x
    BY <1>0, <2>1 DEF SweepOK, Sweeps
  <2>6. SweepOK'
    BY <1>0, <2>1, <2>5 DEF SweepOK, Sweeps
  <2>7. ScanCovers'
    BY <1>0, <2>1, <2>3, <2>5 DEF ScanCovers, Accounted, Tracked, InHand
  <2>8. ScannedFirst' /\ RemovalsCrossed' /\ InHandLater'
    BY <1>0, <2>1, <2>3, <2>5 DEF ScannedFirst, RemovalsCrossed, InHandLater
  <2> QED
    BY <2>4, <2>6, <2>7, <2>8 DEF IInv
<1> QED
  BY <1>1, <1>2, <1>3, <1>4, <1>5, <1>6, <1>7 DEF Manager

LEMMA StepKeeps == IInv /\ [Next]_vars => IInv'
<1> SUFFICES ASSUME IInv, [Next]_vars
             PROVE  IInv'
  OBVIOUS
<1> USE Numbers
<1>1. CASE UNCHANGED vars
  <2>1. TypesOK' /\ RemovalsCrossed'
    BY <1>1 DEF vars, IInv, TypesOK, RemovalsCrossed
  <2>2. SweepOK' /\ ScanCovers' /\ ScannedFirst' /\ InHandLater'
    BY <1>1, HandlersKeep DEF vars, Tracked
  <2> QED
    BY <2>1, <2>2 DEF IInv
<1>2. CASE Clock
  <2>1. TypesOK' /\ RemovalsCrossed'
    BY <1>2 DEF Clock, IInv, TypesOK, RemovalsCrossed
  <2>2. SweepOK' /\ ScanCovers' /\ ScannedFirst' /\ InHandLater'
    BY <1>2, HandlersKeep DEF Clock, Tracked
  <2> QED
    BY <2>1, <2>2 DEF IInv
<1>3. CASE Restart
  <2>1. TypesOK' /\ SweepOK'
    BY <1>3 DEF Restart, Idle, IInv, TypesOK, SweepOK, Sweeps
  <2>2. ScanCovers' /\ ScannedFirst' /\ RemovalsCrossed' /\ InHandLater'
    BY <1>3 DEF Restart, Idle, ScanCovers, ScannedFirst, RemovalsCrossed, InHandLater
  <2> QED
    BY <2>1, <2>2 DEF IInv
<1>4. ASSUME NEW e \in Events,
             Save(e) \/ SaveStale(e) \/ TrackEvent(e) \/ DeleteRequest(e) \/ RemoveEvent(e)
      PROVE  IInv'
  BY <1>4, HandlerStepKeeps
<1>5. CASE Manager
  BY <1>5, ManagerStepKeeps
<1> QED
  BY <1>1, <1>2, <1>3, <1>4, <1>5 DEF Next

-----------------------------------------------------------------------------
\* Whatever meets a sweep, an event of the first store has an entry, is about to get one, is in the
\* goroutine's hand, or is excused (expiration.go:67-150).
THEOREM EventsStayAccounted == Spec => []IInv
<1>1. Init => IInv
  BY InitEstablishes
<1>2. IInv /\ [Next]_vars => IInv'
  BY StepKeeps
<1> QED
  BY <1>1, <1>2, PTL DEF Spec

\* The manager counts entries, never below none, and deletes only an event that has expired
\* (expiration.go:93-150).
THEOREM TypesHold == Spec => []TypeOK
<1>1. IInv => TypeOK
  BY DEF IInv, TypesOK, SweepOK, Sweeps, TypeOK
<1> QED
  BY <1>1, EventsStayAccounted, PTL

\* No event of the first store is forgotten, for any number of events, stores, saves, deletion
\* requests, failed calls and restarts (expiration.go:67-150, deleting.go:64-72, adding.go:153-154).
THEOREM NothingIsForgotten == Spec => []NothingForgotten
<1>1. IInv => NothingForgotten
  <2> SUFFICES ASSUME IInv, scanned, NEW e \in stored[1]
               PROVE  Known(e) \/ e \in blamed
    BY DEF NothingForgotten
  <2>1. e \in Events
    BY Numbers DEF IInv, TypesOK
  <2>2. Accounted(e)
    BY DEF IInv, ScanCovers
  <2> QED
    BY <2>1, <2>2 DEF Accounted, Tracked, Known, OnHeap
<1> QED
  BY <1>1, EventsStayAccounted, PTL
=============================================================================
