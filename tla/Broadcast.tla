------------------------------ MODULE Broadcast ------------------------------
(***************************************************************************)
(* notifyListeners sends an event to the matching listeners (listener.go,  *)
(* broadcasting.go).  It walks `listeners` without clientsMutex while other *)
(* goroutines, which do hold the mutex, append to the slice and swap-delete *)
(* from it.                                                                *)
(*                                                                         *)
(* A Go slice is a header, here `arr` and `len`, over a backing array of   *)
(* fixed capacity in `mem`.  The walk loads the two words of the header    *)
(* one after the other and copies each slot while it may be overwritten,   *)
(* so a copy can mix the fields of two listeners.  ListenerRegistry says   *)
(* which slot a removal frees; here any registered listener may go.        *)
(***************************************************************************)
EXTENDS Integers, Sequences

CONSTANTS
  Listeners,     \* the subscription filters that come and go: (ws, id, filter) each
  Matching,      \* those whose filter matches the event being broadcast
  Prevented,     \* those whose connection a PreventBroadcast hook keeps from it
  InitialCap,    \* the capacity NewRelay gives the slice (100 in the code)
  MaxWrites,     \* bound on the additions and removals of a behaviour
  None           \* what an array holds where nothing was stored yet

ASSUME SubsetsAssumption == Matching \subseteq Listeners /\ Prevented \subseteq Listeners
ASSUME CapAssumption == InitialCap \in Nat \ {0} /\ MaxWrites \in Nat
ASSUME NoneAssumption == None \notin Listeners

VARIABLES
  mem,           \* the backing arrays allocated so far
  arr, len,      \* the words of the slice header: an array of mem, and a length
  removing,      \* the listener a removal has overwritten and not cut off yet, or None
  writes,        \* the additions and removals so far
  present,       \* the listeners added and not removed (in full) yet
  walk,          \* the broadcast: where its loop is and what it has loaded
  delivered,     \* the copies of listeners it sent the event to, in order
  stayed,        \* the listeners registered when it was called that no removal has touched
  seen,          \* those registered at some moment since
  added, removed \* whether a listener was added, or was being removed, since

broadcastVars ==
  <<mem, arr, len, removing, writes, present, walk, delivered, stayed, seen, added, removed>>
writers == <<mem, arr, len, removing, writes, present>>
history == <<stayed, seen, added, removed>>

-----------------------------------------------------------------------------
Cap(a) == Len(mem[a])
EmptyArray(cap) == [k \in 1..cap |-> None]

Idle == [at |-> "idle", arr |-> 0, len |-> -1, i |-> 0, slot |-> None]

BroadcastInit ==
  /\ mem = <<EmptyArray(InitialCap)>>
  /\ arr = 1
  /\ len = 0
  /\ removing = None
  /\ writes = 0
  /\ present = {}
  /\ walk = Idle
  /\ delivered = <<>>
  /\ stayed = {} /\ seen = {}
  /\ added = FALSE /\ removed = FALSE

-----------------------------------------------------------------------------
(* The goroutines that hold clientsMutex.                                  *)

\* An operation begins: the mutex is free.
Write == removing = None /\ writes < MaxWrites /\ writes' = writes + 1

\* Mutant: a full array is replaced by a fresh one that keeps nothing.
AppendForgets(l) ==
  IF len < Cap(arr)
  THEN /\ mem' = [mem EXCEPT ![arr][len + 1] = l]
       /\ UNCHANGED arr
  ELSE /\ mem' = Append(mem, [EmptyArray(2 * Cap(arr)) EXCEPT ![len + 1] = l])
       /\ arr' = Len(mem) + 1

(* append(subrelay.listeners, l): in place while there is capacity, into a *)
(* copy twice as large when there is none.                                 *)
AppendSlot(l) ==
  IF len < Cap(arr)
  THEN /\ mem' = [mem EXCEPT ![arr][len + 1] = l]
       /\ UNCHANGED arr
  ELSE /\ mem' = Append(mem, [k \in 1..(2 * Cap(arr)) |->
                                CASE k <= len -> mem[arr][k]
                                  [] k = len + 1 -> l
                                  [] OTHER -> None])
       /\ arr' = Len(mem) + 1

AddToSlice(l) ==
  /\ Write
  /\ l \notin present
  /\ AppendSlot(l)
  /\ len' = len + 1
  /\ present' = present \cup {l}
  /\ seen' = seen \cup {l}
  /\ added' = TRUE
  /\ UNCHANGED <<removing, walk, delivered, stayed, removed>>

(* A removal stores the last listener in the slot it frees...              *)
RemoveOverwrite(k) ==
  /\ Write
  /\ k \in 1..len
  /\ mem' = [mem EXCEPT ![arr][k] = mem[arr][len]]
  /\ removing' = mem[arr][k]
  /\ stayed' = stayed \ {mem[arr][k]}
  /\ removed' = TRUE
  /\ UNCHANGED <<arr, len, present, walk, delivered, seen, added>>

\* Mutant: the slice is not shortened.
RemoveShrinkForgets ==
  /\ removing # None
  /\ removing' = None
  /\ present' = present \ {removing}
  /\ UNCHANGED <<mem, arr, len, writes, walk, delivered, stayed, seen, added, removed>>

(* ...and then shortens the slice.  The slot at its end keeps its listener *)
(* until an append takes it.                                               *)
RemoveShrink ==
  /\ removing # None
  /\ len' = len - 1
  /\ removing' = None
  /\ present' = present \ {removing}
  /\ UNCHANGED <<mem, arr, writes, walk, delivered, stayed, seen, added, removed>>

(* Shutdown.                                                               *)
Clear ==
  /\ Write
  /\ len' = 0
  /\ present' = {}
  /\ stayed' = {}
  /\ removed' = TRUE
  /\ UNCHANGED <<mem, arr, removing, walk, delivered, seen, added>>

-----------------------------------------------------------------------------
(* The goroutine that broadcasts.  Nothing is left of one broadcast for the *)
(* next, so one is enough.                                                 *)

Begin ==
  /\ walk.at = "idle"
  /\ walk' = [Idle EXCEPT !.at = "load"]
  /\ stayed' = present \ {removing}
  /\ seen' = present
  /\ added' = FALSE
  /\ removed' = (removing # None)
  /\ UNCHANGED <<writers, delivered>>

\* range rl.listeners: the two words of the header are loaded in whatever order.
LoadArray ==
  /\ walk.at = "load"
  /\ walk.arr = 0
  /\ walk' = [walk EXCEPT !.arr = arr, !.at = IF walk.len = -1 THEN "load" ELSE "next"]
  /\ UNCHANGED <<writers, delivered, history>>

LoadLength ==
  /\ walk.at = "load"
  /\ walk.len = -1
  /\ walk' = [walk EXCEPT !.len = len, !.at = IF walk.arr = 0 THEN "load" ELSE "next"]
  /\ UNCHANGED <<writers, delivered, history>>

\* The copy of a listener to the loop's variable begins.
CopyBegins ==
  /\ walk.at = "next"
  /\ walk.i < walk.len
  /\ walk.i < Cap(walk.arr)
  /\ walk' = [walk EXCEPT !.at = "copy", !.slot = mem[walk.arr][walk.i + 1]]
  /\ UNCHANGED <<writers, delivered, history>>

\* An old array with the new length: the loop is past the end of the array and what it reads
\* there is not the relay's.  Nothing is said of what follows.
Overrun ==
  /\ walk.at = "next"
  /\ walk.i < walk.len
  /\ walk.i = Cap(walk.arr)
  /\ walk' = [walk EXCEPT !.at = "lost"]
  /\ UNCHANGED <<writers, delivered, history>>

\* Mutant: a prevented listener ends the loop.
SentPreventedStops(copy) ==
  IF copy.filter \in Matching /\ copy.ws \notin Prevented
  THEN /\ delivered' = Append(delivered, copy)
       /\ walk' = [walk EXCEPT !.at = "next", !.i = @ + 1]
  ELSE /\ walk' = [walk EXCEPT !.at = "next",
                               !.i = IF copy.filter \in Matching THEN walk.len ELSE @ + 1]
       /\ UNCHANGED delivered

\* The loop's body on a copy: the filter decides, then the hooks, then the event is written.
Sent(copy) ==
  /\ delivered' = IF copy.filter \in Matching /\ copy.ws \notin Prevented
                    THEN Append(delivered, copy) ELSE delivered
  /\ walk' = [walk EXCEPT !.at = "next", !.i = @ + 1]

\* The copy ends: each field is what the slot held at either end of it.
CopyEnds ==
  /\ walk.at = "copy"
  /\ LET held == {walk.slot, mem[walk.arr][walk.i + 1]}
     IN  \E w, d, f \in held : Sent([ws |-> w, id |-> d, filter |-> f])
  /\ UNCHANGED <<writers, history>>

Return ==
  /\ walk.at = "next"
  /\ walk.i >= walk.len
  /\ walk' = [walk EXCEPT !.at = "done"]
  /\ UNCHANGED <<writers, delivered, history>>

BroadcastNext ==
  \/ \E l \in Listeners : AddToSlice(l)
  \/ \E k \in 1..Len(mem[arr]) : RemoveOverwrite(k)
  \/ RemoveShrink
  \/ Clear
  \/ Begin
  \/ LoadArray
  \/ LoadLength
  \/ CopyBegins
  \/ Overrun
  \/ CopyEnds
  \/ Return

BroadcastSpec == BroadcastInit /\ [][BroadcastNext]_broadcastVars

-----------------------------------------------------------------------------
(* Properties                                                              *)

Copies == [ws: Listeners, id: Listeners, filter: Listeners]

\* The slice is well formed: the header is within its array, and what is below its length is a
\* listener (relay.go:38, listener.go:53-57).
SliceOK ==
  /\ arr \in DOMAIN mem
  /\ len \in 0..Cap(arr)
  /\ \A k \in 1..len : mem[arr][k] \in Listeners
  /\ removing \in present \cup {None}
  /\ present \subseteq Listeners
  /\ delivered \in Seq(Copies)

\* Nothing is sent to a connection, or for a subscription or a filter, that was gone before the
\* broadcast was called: however stale the slots it reads, all it sends comes from listeners
\* registered at some moment since (listener.go:139-148 against 81-97 and 53).
NothingForTheGone ==
  \A n \in DOMAIN delivered :
    {delivered[n].ws, delivered[n].id, delivered[n].filter} \subseteq seen

Wanted(S) == (S \cap Matching) \ Prevented
Got == {l \in Listeners : \E n \in DOMAIN delivered : delivered[n] = [ws |-> l, id |-> l, filter |-> l]}

\* While nothing is removed a broadcast is exact, additions or not: whole listeners, nobody twice,
\* and everybody who was there when it was called.  And removals alone may move a listener behind
\* the loop but cost it no event: its last slot keeps it within reach (listener.go:81-97, 139-148).
OneSidedIsExact ==
  /\ ~removed =>
       /\ \A n \in DOMAIN delivered :
            delivered[n].ws = delivered[n].id /\ delivered[n].ws = delivered[n].filter
       /\ \A m, n \in DOMAIN delivered : m # n => delivered[m] # delivered[n]
       /\ walk.at = "done" => Got \subseteq Wanted(seen)
  /\ walk.at = "done" /\ ~(added /\ removed) => Wanted(stayed) \subseteq Got
=============================================================================
