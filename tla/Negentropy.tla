----------------------------- MODULE Negentropy -----------------------------
(***************************************************************************)
(* NIP-77 (handlers.go, negentropy.go): sessions in which a client and the *)
(* relay compare what they store, for one subscription id of a connection. *)
(* NEG-OPEN makes a session out of a query and, if one answer was not      *)
(* enough, puts it in the map of the connection; NEG-MSG goes on with the  *)
(* session in the map; NEG-CLOSE takes it out.  Every message is handled   *)
(* in a goroutine of its own and answered before the map is written.       *)
(*                                                                         *)
(* A session also has a timer, which is started before the session is in   *)
(* the map, and again by every message that leaves more to do.  When it    *)
(* goes off the entry of the id is deleted, whichever session it is.  A    *)
(* handler may be late: a timer that goes off before its session is in the *)
(* map deletes nothing of it, and leaves it there for good if there is no  *)
(* other message.  What comes of comparing is not modelled: any of its     *)
(* three outcomes may come of any message.                                 *)
(***************************************************************************)
EXTENDS Integers, FiniteSets

CONSTANTS
  Handlers,       \* the goroutines of messages
  Sessions,       \* the sessions in memory, one is taken up again when nobody refers to it
  NoSession,      \* nothing in the map
  Wait,           \* after how many ticks a timer goes off: 7 seconds
  MaxMessages     \* bound on the messages

ASSUME NilAssumption == NoSession \notin Sessions
ASSUME WaitAssumption == Wait \in Nat \ {0} /\ MaxMessages \in Nat

VARIABLES
  session,        \* negentropySessions at the id
  timer,          \* how long the timer of each session runs, or Off
  run,            \* what each handler does, with which session
  messages,       \* how many messages came
  idle,           \* for how long each session has not been answered
  last,           \* the session that was answered last
  ended,          \* the sessions that came to their end, were closed, or whose timer went off
                  \* when a handler had loaded them and did not start it again yet
  late,           \* the sessions whose timer went off, and was not started again, before they were
                  \* in the map
  reused          \* when the id was opened last another session was not over

ghosts == <<idle, last, ended, late, reused>>
vars == <<session, timer, run, messages, ghosts>>

Off == Wait + 1
Idle == [at |-> "idle", session |-> NoSession]
Outcomes == {"more", "done", "error"}

Receive(h) ==
  /\ run[h] = Idle
  /\ messages < MaxMessages
  /\ messages' = messages + 1

Goto(h, step) == run' = [run EXCEPT ![h].at = step]
Return(h) == run' = [run EXCEPT ![h] = Idle]

\* Nothing refers to the session, not even a timer.
Unused(s) == s # session /\ timer[s] = Off /\ \A h \in Handlers : run[h].session # s

-----------------------------------------------------------------------------
Init ==
  /\ session = NoSession
  /\ timer = [s \in Sessions |-> Off]
  /\ run = [h \in Handlers |-> Idle]
  /\ messages = 0
  /\ idle = [s \in Sessions |-> 0]
  /\ last = NoSession
  /\ ended = {}
  /\ late = {}
  /\ reused = FALSE

\* startNegentropySession gives the handler the ids of what is stored now, or rejects the filter.
StartSession(h, s) ==
  \/ run' = [run EXCEPT ![h] = [at |-> "open", session |-> s]]
  \/ UNCHANGED run

(* NEG-OPEN.                                                               *)
Open(h, s) ==
  /\ Receive(h)
  /\ Unused(s)
  /\ StartSession(h, s)
  /\ reused' = \E t \in Sessions : ~Unused(t)
  /\ ended' = ended \ {s}
  /\ late' = late \ {s}
  /\ idle' = [idle EXCEPT ![s] = 0]
  /\ last' = IF last = s THEN NoSession ELSE last
  /\ UNCHANGED <<session, timer>>

\* Mutant: the session is put in the map before the answer.
OpenReconcileStores(h) ==
  /\ run[h].at = "open"
  /\ \E out \in Outcomes :
       IF out = "more"
       THEN /\ Goto(h, "time")
            /\ session' = run[h].session
            /\ idle' = [idle EXCEPT ![run[h].session] = 0]
            /\ last' = run[h].session
            /\ UNCHANGED ended
       ELSE /\ Return(h)
            /\ UNCHANGED <<session, idle, last, ended>>
  /\ UNCHANGED <<timer, messages, late, reused>>

(* The first answer.  If it is empty, or an error, there is no session.    *)
OpenReconcile(h) ==
  /\ run[h].at = "open"
  /\ \E out \in Outcomes :
       IF out = "more"
       THEN /\ Goto(h, "time")
            /\ idle' = [idle EXCEPT ![run[h].session] = 0]
            /\ last' = run[h].session
            /\ UNCHANGED ended
       ELSE /\ Return(h)
            /\ UNCHANGED <<idle, last, ended>>
  /\ UNCHANGED <<session, timer, messages, late, reused>>

\* Mutant: the timer is not started with the session.
StartTimerNot(h) ==
  /\ run[h].at = "time"
  /\ Goto(h, "store")
  /\ UNCHANGED <<session, timer, messages, ghosts>>

(* The timer of the session is started...                                  *)
StartTimer(h) ==
  /\ run[h].at = "time"
  /\ timer' = [timer EXCEPT ![run[h].session] = 0]
  /\ Goto(h, "store")
  /\ UNCHANGED <<session, messages, ghosts>>

(* ...and then the session is put in the map.                              *)
StoreSession(h) ==
  /\ run[h].at = "store"
  /\ session' = run[h].session
  /\ Return(h)
  /\ UNCHANGED <<timer, messages, ghosts>>

-----------------------------------------------------------------------------
(* NEG-MSG: the session is loaded from the map...                          *)
Message(h) ==
  /\ Receive(h)
  /\ run' = IF session = NoSession THEN run
            ELSE [run EXCEPT ![h] = [at |-> "message", session |-> session]]
  /\ UNCHANGED <<session, timer, ghosts>>

\* The client is told that there is no session any more.
ToldClosed(h) == Message(h) /\ session = NoSession

\* What is done after an answer.
After(out) == IF out = "more" THEN "postpone" ELSE "delete"

(* ...and its answer written, or that it failed.                           *)
Reconcile(h) ==
  /\ run[h].at = "message"
  /\ \E out \in Outcomes :
       LET s == run[h].session IN
         /\ Goto(h, After(out))
         /\ IF out = "more"
            THEN /\ idle' = [idle EXCEPT ![s] = 0]
                 /\ last' = s
                 /\ UNCHANGED ended
            ELSE /\ ended' = ended \cup {s}
                 /\ UNCHANGED <<idle, last>>
  /\ UNCHANGED <<session, timer, messages, late, reused>>

\* Mutant: the timer goes on as it was.
PostponeCloseNot(h) ==
  /\ run[h].at = "postpone"
  /\ Return(h)
  /\ UNCHANGED <<session, timer, messages, ghosts>>

(* postponeClose: the debouncer starts the timer again, even one that went *)
(* off.                                                                    *)
PostponeClose(h) ==
  /\ run[h].at = "postpone"
  /\ timer' = [timer EXCEPT ![run[h].session] = 0]
  /\ late' = late \ {run[h].session}
  /\ Return(h)
  /\ UNCHANGED <<session, messages, idle, last, ended, reused>>

(* The entry is deleted, though it may be another session's by now.        *)
DeleteSession(h) ==
  /\ run[h].at = "delete"
  /\ session' = NoSession
  /\ Return(h)
  /\ UNCHANGED <<timer, messages, ghosts>>

(* NEG-CLOSE.                                                              *)
Close(h) ==
  /\ Receive(h)
  /\ session' = NoSession
  /\ ended' = ended \cup ({session, last} \cap Sessions)
  /\ UNCHANGED <<timer, run, idle, last, late, reused>>

-----------------------------------------------------------------------------
\* The session is with a handler that loaded it, or with the one about to put it in the map.
Loaded(s) == \E h \in Handlers : run[h].session = s /\ run[h].at # "store"
Storing(s) == \E h \in Handlers : run[h].session = s /\ run[h].at = "store"

\* Mutant: a timer deletes its session only if it was closed already.
ExpireKeeps(s) ==
  /\ timer[s] = Wait
  /\ timer' = [timer EXCEPT ![s] = Off]
  /\ session' = IF s \in ended THEN NoSession ELSE session
  /\ ended' = IF Loaded(s) THEN ended \cup {s} ELSE ended
  /\ late' = IF Storing(s) THEN late \cup {s} ELSE late
  /\ UNCHANGED <<run, messages, idle, last, reused>>

(* The timer of a session goes off.                                        *)
Expire(s) ==
  /\ timer[s] = Wait
  /\ timer' = [timer EXCEPT ![s] = Off]
  /\ session' = NoSession
  /\ ended' = IF Loaded(s) THEN ended \cup {s} ELSE ended
  /\ late' = IF Storing(s) THEN late \cup {s} ELSE late
  /\ UNCHANGED <<run, messages, idle, last, reused>>

(* Time passes.                                                            *)
Tick ==
  /\ \E s \in Sessions : timer[s] < Wait
  /\ timer' = [s \in Sessions |-> IF timer[s] < Wait THEN timer[s] + 1 ELSE timer[s]]
  /\ idle' = [s \in Sessions |-> IF idle[s] < Wait THEN idle[s] + 1 ELSE Wait]
  /\ UNCHANGED <<session, run, messages, last, ended, late, reused>>

Next ==
  \/ \E h \in Handlers :
       \/ \E s \in Sessions : Open(h, s)
       \/ OpenReconcile(h) \/ StartTimer(h) \/ StoreSession(h)
       \/ Message(h) \/ Reconcile(h) \/ PostponeClose(h) \/ DeleteSession(h)
       \/ Close(h)
  \/ \E s \in Sessions : Expire(s)
  \/ Tick

(* Time passes, and the runtime calls the functions of timers.             *)
Fairness == WF_vars(Tick) /\ \A s \in Sessions : WF_vars(Expire(s))

Spec == Init /\ [][Next]_vars
FairSpec == Spec /\ Fairness

-----------------------------------------------------------------------------
(* Properties                                                              *)

Handling == [at : {"open", "time", "store", "message", "postpone", "delete"}, session : Sessions]

\* Only h has what h is about to store.
OwnsNew(h) ==
  run[h].at \in {"open", "time", "store"} =>
    session # run[h].session /\ \A g \in Handlers : run[g].session = run[h].session => g = h

\* The state is made of what the code stores, and a handler that is about to store its session is
\* the only one that has it (handlers.go:363-385).
TypeOK ==
  /\ session \in Sessions \cup {NoSession}
  /\ timer \in [Sessions -> 0..Off]
  /\ run \in [Handlers -> Handling \cup {Idle}]
  /\ \A h \in Handlers : OwnsNew(h)
  /\ messages \in 0..MaxMessages
  /\ idle \in [Sessions -> 0..Wait]
  /\ last \in Sessions \cup {NoSession}
  /\ ended \subseteq Sessions
  /\ late \subseteq Sessions
  /\ reused \in BOOLEAN

\* What is in the map has a timer that still has to go off, whatever messages for the id are
\* handled at the same time and in whatever order, so that it does not stay there for as long as the
\* connection.  There is one way around it: the timer goes off between handlers.go:382, where it is
\* started, and 384, where the session is stored, and no message starts it again
\* (handlers.go:372-385, 402-404).
EveryEntryIsTimed == session # NoSession /\ session \notin late => timer[session] # Off

\* The session of a client that stops sending is forgotten, but in that one way, where only another
\* message ends it (handlers.go:373-384).
Forgotten == \A s \in Sessions : session = s ~> session # s \/ s \in late

\* A client that goes on within the time with the session that was answered last is told CLOSED
\* only when that session came to its end.  There are two other ways: an id that is opened again
\* while something of an earlier session is left, whose timer or last handler then deletes the new
\* one; and a message that is handled before the session is stored, which is after its first answer.
\* A timer that goes off while a handler has the session loaded ends it (handlers.go:369-408).
GoesOn ==
  [][(\E h \in Handlers : ToldClosed(h)) =>
       \/ last = NoSession
       \/ last \in ended
       \/ idle[last] = Wait
       \/ reused
       \/ \E h \in Handlers : run[h].session = last /\ run[h].at \in {"time", "store"}]_vars
=============================================================================
