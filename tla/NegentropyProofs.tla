-------------------------- MODULE NegentropyProofs --------------------------
(***************************************************************************)
(* No session stays in the map of a connection without a timer that will   *)
(* take it out, if its timer did not go off before it was there, for any   *)
(* number of sessions, handlers and messages.                              *)
(*                                                                         *)
(* TypeOK is inductive as it stands, because it says of a session that is  *)
(* about to be stored that only its handler has it.  EveryEntryIsTimed is  *)
(* not: it takes that a session that is about to be stored has its timer,  *)
(* or it went off.  Then a timer that goes off empties the map, whoever is *)
(* in it, or is late.  Nor is a session taken out of the map while its     *)
(* client goes on in time, if nothing else of its id is in use.            *)
(***************************************************************************)
EXTENDS Negentropy, TLAPS

LEMMA HandlersHold ==
  ASSUME TypeOK, NEW h \in Handlers, run[h] # Idle
  PROVE  run[h] \in Handling /\ run[h].session \in Sessions
  BY DEF TypeOK, Handling

LEMMA TypeInit == Init => TypeOK
<1>. SUFFICES ASSUME Init PROVE TypeOK
  OBVIOUS
<1>1. /\ session \in Sessions \cup {NoSession}
      /\ run \in [Handlers -> Handling \cup {Idle}]
      /\ last \in Sessions \cup {NoSession}
      /\ ended \subseteq Sessions /\ late \subseteq Sessions /\ reused \in BOOLEAN
  BY DEF Init
<1>2. timer \in [Sessions -> 0..Off] /\ idle \in [Sessions -> 0..Wait] /\ messages \in 0..MaxMessages
  BY WaitAssumption DEF Init, Off
<1>3. \A h \in Handlers : OwnsNew(h)
  BY DEF Init, OwnsNew, Idle
<1>. QED
  BY <1>1, <1>2, <1>3 DEF TypeOK

(* A handler that returns leaves the others what they are about to store,  *)
(* also if it put its own session in the map.                              *)
LEMMA ReturnKeeps ==
  ASSUME TypeOK, NEW h \in Handlers, run[h] # Idle, Return(h),
         session' \in {session, NoSession, run[h].session}
  PROVE  /\ session' \in Sessions \cup {NoSession}
         /\ run' \in [Handlers -> Handling \cup {Idle}]
         /\ \A g \in Handlers : OwnsNew(g)'
<1>1. run[h] \in Handling /\ run[h].session \in Sessions
  BY HandlersHold
<1>2. run'[h] = Idle /\ \A g \in Handlers \ {h} : run'[g] = run[g]
  BY DEF TypeOK, Return
<1>3. ASSUME NEW g \in Handlers PROVE OwnsNew(g)'
  <2>1. CASE run'[g].at \notin {"open", "time", "store"}
    BY <2>1 DEF OwnsNew
  <2>2. CASE run'[g].at \in {"open", "time", "store"}
    <3>1. g # h /\ run'[g] = run[g] /\ run[g] # Idle
      BY <1>2, <2>2 DEF Idle
    <3>2. run[g].session \in Sessions /\ session # run[g].session
          /\ \A f \in Handlers : run[f].session = run[g].session => f = g
      BY <2>2, <3>1, HandlersHold DEF TypeOK, OwnsNew
    <3>3. session' # run'[g].session
      BY <3>1, <3>2, NilAssumption
    <3>4. \A f \in Handlers : run'[f].session = run'[g].session => f = g
      BY <1>2, <3>1, <3>2, NilAssumption DEF Idle
    <3>. QED
      BY <3>3, <3>4 DEF OwnsNew
  <2>. QED
    BY <2>1, <2>2
<1>. QED
  BY <1>1, <1>2, <1>3 DEF TypeOK, Return

-----------------------------------------------------------------------------
LEMMA TypeStep == TypeOK /\ [Next]_vars => TypeOK'
<1>. SUFFICES ASSUME TypeOK, [Next]_vars PROVE TypeOK'
  OBVIOUS
<1>0. Wait \in Nat /\ MaxMessages \in Nat /\ NoSession \notin Sessions /\ 0 \in 0..Off
  BY WaitAssumption, NilAssumption DEF Off
<1>1. ASSUME NEW h \in Handlers, NEW s \in Sessions, Open(h, s)
      PROVE  TypeOK'
  <2>1. run' \in [Handlers -> Handling \cup {Idle}]
    BY <1>1 DEF TypeOK, Open, StartSession, Handling
  <2>2. \A g \in Handlers : OwnsNew(g)'
    <3>1. CASE UNCHANGED run
      BY <1>1, <3>1 DEF TypeOK, Open, OwnsNew
    <3>2. CASE run' = [run EXCEPT ![h] = [at |-> "open", session |-> s]]
      <4>1. s # session /\ \A g \in Handlers : run[g].session # s
        BY <1>1 DEF Open, Unused
      <4>2. run'[h] = [at |-> "open", session |-> s] /\ \A g \in Handlers \ {h} : run'[g] = run[g]
        BY <3>2 DEF TypeOK
      <4>. QED
        BY <1>1, <4>1, <4>2 DEF TypeOK, Open, OwnsNew
    <3>. QED
      BY <1>1, <3>1, <3>2 DEF Open, StartSession
  <2>3. messages' \in 0..MaxMessages
    BY <1>0, <1>1 DEF TypeOK, Open, Receive
  <2>4. /\ idle' \in [Sessions -> 0..Wait]
        /\ last' \in Sessions \cup {NoSession}
        /\ ended' \subseteq Sessions /\ late' \subseteq Sessions /\ reused' \in BOOLEAN
    BY <1>0, <1>1 DEF TypeOK, Open
  <2>. QED
    BY <1>1, <2>1, <2>2, <2>3, <2>4 DEF TypeOK, Open
<1>2. ASSUME NEW h \in Handlers, OpenReconcile(h)
      PROVE  TypeOK'
  <2>1. run[h] \in Handling /\ run[h].session \in Sessions
    BY <1>2, HandlersHold DEF OpenReconcile, Idle
  <2>2. CASE Goto(h, "time") /\ idle' = [idle EXCEPT ![run[h].session] = 0]
             /\ last' = run[h].session /\ UNCHANGED ended
    <3>1. run'[h] = [at |-> "time", session |-> run[h].session]
          /\ \A g \in Handlers \ {h} : run'[g] = run[g]
      BY <2>1, <2>2 DEF TypeOK, Goto, Handling
    <3>2. \A g \in Handlers : OwnsNew(g)'
      BY <1>2, <3>1 DEF TypeOK, OpenReconcile, OwnsNew
    <3>3. run' \in [Handlers -> Handling \cup {Idle}]
      BY <2>1, <2>2 DEF TypeOK, Goto, Handling
    <3>4. idle' \in [Sessions -> 0..Wait] /\ last' \in Sessions
      BY <1>0, <2>1, <2>2 DEF TypeOK
    <3>. QED
      BY <1>2, <2>2, <3>2, <3>3, <3>4 DEF TypeOK, OpenReconcile
  <2>3. CASE Return(h) /\ UNCHANGED <<idle, last, ended>>
    <3>1. run[h] # Idle /\ session' = session
      BY <1>2 DEF OpenReconcile, Idle
    <3>. QED
      BY <1>2, <2>3, <3>1, ReturnKeeps DEF TypeOK, OpenReconcile
  <2>. QED
    BY <1>2, <2>2, <2>3 DEF OpenReconcile
<1>3. ASSUME NEW h \in Handlers, StoreSession(h)
      PROVE  TypeOK'
  <2>1. run[h] # Idle
    BY <1>3 DEF StoreSession, Idle
  <2>. QED
    BY <1>3, <2>1, ReturnKeeps DEF TypeOK, StoreSession, ghosts
<1>13. ASSUME NEW h \in Handlers, StartTimer(h)
       PROVE  TypeOK'
  <2>1. run[h] \in Handling /\ run[h].session \in Sessions
    BY <1>13, HandlersHold DEF StartTimer, Idle
  <2>2. timer' \in [Sessions -> 0..Off]
    BY <1>0, <1>13 DEF TypeOK, StartTimer
  <2>3. run'[h] = [at |-> "store", session |-> run[h].session]
        /\ \A g \in Handlers \ {h} : run'[g] = run[g]
    BY <1>13, <2>1 DEF TypeOK, StartTimer, Goto, Handling
  <2>4. run' \in [Handlers -> Handling \cup {Idle}]
    BY <1>13, <2>1 DEF TypeOK, StartTimer, Goto, Handling
  <2>5. \A g \in Handlers : OwnsNew(g)'
    BY <1>13, <2>3 DEF TypeOK, StartTimer, OwnsNew
  <2>. QED
    BY <1>13, <2>2, <2>4, <2>5 DEF TypeOK, StartTimer, ghosts
<1>4. ASSUME NEW h \in Handlers, Message(h)
      PROVE  TypeOK'
  <2>1. messages' \in 0..MaxMessages
    BY <1>0, <1>4 DEF TypeOK, Message, Receive
  <2>2. CASE UNCHANGED run
    BY <1>4, <2>1, <2>2 DEF TypeOK, Message, ghosts, OwnsNew
  <2>3. CASE session # NoSession /\ run' = [run EXCEPT ![h] = [at |-> "message", session |-> session]]
    <3>1. run' \in [Handlers -> Handling \cup {Idle}]
          /\ run'[h] = [at |-> "message", session |-> session]
          /\ \A g \in Handlers \ {h} : run'[g] = run[g]
      BY <2>3 DEF TypeOK, Handling
    <3>2. \A g \in Handlers : OwnsNew(g)'
      BY <1>4, <3>1 DEF TypeOK, Message, OwnsNew
    <3>. QED
      BY <1>4, <2>1, <3>1, <3>2 DEF TypeOK, Message, ghosts
  <2>. QED
    BY <1>4, <2>2, <2>3 DEF Message
<1>5. ASSUME NEW h \in Handlers, Reconcile(h)
      PROVE  TypeOK'
  <2>1. run[h] \in Handling /\ run[h].session \in Sessions
    BY <1>5, HandlersHold DEF Reconcile, Idle
  <2>2. PICK out \in Outcomes : Goto(h, After(out))
    BY <1>5 DEF Reconcile
  <2>3. After(out) \in {"postpone", "delete"}
    BY DEF After
  <2>4. run'[h] = [at |-> After(out), session |-> run[h].session]
        /\ \A g \in Handlers \ {h} : run'[g] = run[g]
    BY <2>1, <2>2 DEF TypeOK, Goto, Handling
  <2>5. run' \in [Handlers -> Handling \cup {Idle}]
    BY <2>1, <2>2, <2>3 DEF TypeOK, Goto, Handling
  <2>6. \A g \in Handlers : OwnsNew(g)'
    BY <1>5, <2>3, <2>4 DEF TypeOK, Reconcile, OwnsNew
  <2>7. idle' \in [Sessions -> 0..Wait] /\ last' \in Sessions \cup {NoSession} /\ ended' \subseteq Sessions
    BY <1>0, <1>5, <2>1 DEF TypeOK, Reconcile
  <2>. QED
    BY <1>5, <2>5, <2>6, <2>7 DEF TypeOK, Reconcile
<1>6. ASSUME NEW h \in Handlers, PostponeClose(h)
      PROVE  TypeOK'
  <2>1. run[h] # Idle
    BY <1>6 DEF PostponeClose, Idle
  <2>2. timer' \in [Sessions -> 0..Off]
    BY <1>0, <1>6 DEF TypeOK, PostponeClose
  <2>. QED
    BY <1>6, <2>1, <2>2, ReturnKeeps DEF TypeOK, PostponeClose
<1>7. ASSUME NEW h \in Handlers, DeleteSession(h)
      PROVE  TypeOK'
  <2>1. run[h] # Idle
    BY <1>7 DEF DeleteSession, Idle
  <2>. QED
    BY <1>7, <2>1, ReturnKeeps DEF TypeOK, DeleteSession, ghosts
<1>8. ASSUME session' = NoSession, UNCHANGED run
      PROVE  \A g \in Handlers : OwnsNew(g)'
  <2>. SUFFICES ASSUME NEW g \in Handlers, run[g].at \in {"open", "time", "store"}
                PROVE  run[g].session # NoSession /\ OwnsNew(g)
    BY <1>8 DEF OwnsNew
  <2>. QED
    BY <1>0, HandlersHold DEF TypeOK, Idle
<1>9. ASSUME NEW h \in Handlers, Close(h)
      PROVE  TypeOK'
  <2>1. messages' \in 0..MaxMessages
    BY <1>0, <1>9 DEF TypeOK, Close, Receive
  <2>. QED
    BY <1>8, <1>9, <2>1 DEF TypeOK, Close
<1>10. ASSUME NEW s \in Sessions, Expire(s)
       PROVE  TypeOK'
  <2>1. timer' \in [Sessions -> 0..Off]
    BY <1>0, <1>10 DEF TypeOK, Expire, Off
  <2>2. ended' \subseteq Sessions /\ late' \subseteq Sessions
    BY <1>10 DEF TypeOK, Expire
  <2>. QED
    BY <1>8, <1>10, <2>1, <2>2 DEF TypeOK, Expire
<1>11. CASE Tick
  <2>1. timer' \in [Sessions -> 0..Off] /\ idle' \in [Sessions -> 0..Wait]
    BY <1>0, <1>11 DEF TypeOK, Tick, Off
  <2>. QED
    BY <1>11, <2>1 DEF TypeOK, Tick, OwnsNew
<1>12. CASE UNCHANGED vars
  BY <1>12 DEF TypeOK, vars, ghosts, OwnsNew
<1>. QED
  BY <1>1, <1>2, <1>3, <1>4, <1>5, <1>6, <1>7, <1>9, <1>10, <1>11, <1>12, <1>13 DEF Next

\* The handlers of an id and what they hold are what the code makes them, and a session that is
\* about to be put in the map is nobody else's (handlers.go:342-412).
THEOREM TypesHold == Spec => []TypeOK
  BY TypeInit, TypeStep, PTL DEF Spec

-----------------------------------------------------------------------------
(* A session has its timer, or its timer was late; so has each that is     *)
(* about to be stored.                                                     *)
Timed(s) == timer[s] # Off \/ s \in late

StoringIsTimed == \A s \in Sessions : Storing(s) => Timed(s)

LEMMA TimedStep ==
  ASSUME TypeOK, EveryEntryIsTimed, StoringIsTimed, [Next]_vars
  PROVE  EveryEntryIsTimed' /\ StoringIsTimed'
<1>0. Wait \in Nat /\ Off = Wait + 1 /\ Off' = Off
  BY WaitAssumption DEF Off
<1>1. SUFFICES ASSUME NEW s \in Sessions, session' = s \/ Storing(s)'
               PROVE  Timed(s)'
  BY TypeStep DEF TypeOK, EveryEntryIsTimed, StoringIsTimed, Timed
<1>2. session = s \/ Storing(s) => Timed(s)
  BY NilAssumption DEF EveryEntryIsTimed, StoringIsTimed, Timed
<1>3. ASSUME NEW h \in Handlers, NEW t \in Sessions, Open(h, t)
      PROVE  Timed(s)'
  <2>1. session = s \/ Storing(s)
    BY <1>1, <1>3 DEF Open, StartSession, Storing, TypeOK
  <2>2. s # t
    BY <1>3, <2>1 DEF Open, Unused, Storing
  <2>. QED
    BY <1>2, <1>3, <2>1, <2>2 DEF Open, Timed, Off
<1>4. ASSUME NEW h \in Handlers, OpenReconcile(h) \/ Reconcile(h)
      PROVE  Timed(s)'
  <2>1. /\ UNCHANGED <<session, timer, late>>
        /\ \A g \in Handlers : run'[g].at = "store" => run'[g] = run[g]
    BY <1>4 DEF OpenReconcile, Reconcile, Return, Goto, After, Idle, TypeOK, Handling
  <2>. QED
    BY <1>1, <1>2, <2>1 DEF Timed, Storing, Off
<1>5. ASSUME NEW h \in Handlers, Message(h)
      PROVE  Timed(s)'
  <2>1. /\ UNCHANGED <<session, timer, late>>
        /\ \A g \in Handlers : run'[g].at = "store" => run'[g] = run[g]
    BY <1>5 DEF Message, ghosts, TypeOK
  <2>. QED
    BY <1>1, <1>2, <2>1 DEF Timed, Storing, Off
<1>6. ASSUME NEW h \in Handlers, StartTimer(h)
      PROVE  Timed(s)'
  <2>. DEFINE t == run[h].session
  <2>1. t \in Sessions /\ run[h] \in Handling
    BY <1>6, HandlersHold DEF StartTimer, Idle
  <2>2. /\ timer'[t] = 0 /\ \A u \in Sessions \ {t} : timer'[u] = timer[u]
        /\ session' = session /\ late' = late
        /\ \A g \in Handlers \ {h} : run'[g] = run[g]
        /\ run'[h].session = t
    BY <1>6, <2>1 DEF StartTimer, Goto, ghosts, TypeOK, Handling
  <2>3. CASE s = t
    BY <1>0, <2>2, <2>3 DEF Timed
  <2>4. CASE s # t
    BY <1>0, <1>1, <1>2, <2>2, <2>4 DEF Timed, Storing
  <2>. QED
    BY <2>3, <2>4
<1>7. ASSUME NEW h \in Handlers, StoreSession(h)
      PROVE  Timed(s)'
  <2>1. \A g \in Handlers : run'[g] = Idle \/ run'[g] = run[g]
    BY <1>7 DEF StoreSession, Return, TypeOK
  <2>2. Storing(s)
    BY <1>1, <1>7, <2>1 DEF StoreSession, Storing, Idle
  <2>. QED
    BY <1>0, <1>2, <1>7, <2>2 DEF StoreSession, ghosts, Timed
<1>8. ASSUME NEW h \in Handlers, PostponeClose(h)
      PROVE  Timed(s)'
  <2>. DEFINE t == run[h].session
  <2>1. /\ t \in Sessions => timer'[t] = 0
        /\ \A u \in Sessions \ {t} : timer'[u] = timer[u]
        /\ session' = session /\ late' = late \ {t}
        /\ \A g \in Handlers : run'[g] = Idle \/ run'[g] = run[g]
    BY <1>8 DEF PostponeClose, Return, TypeOK
  <2>2. session = s \/ Storing(s)
    BY <1>1, <2>1 DEF Storing, Idle
  <2>3. CASE s = t
    BY <1>0, <2>1, <2>3 DEF Timed
  <2>4. CASE s # t
    BY <1>0, <1>2, <2>1, <2>2, <2>4 DEF Timed
  <2>. QED
    BY <2>3, <2>4
<1>9. ASSUME NEW h \in Handlers, DeleteSession(h) \/ Close(h)
      PROVE  Timed(s)'
  <2>1. /\ session' = NoSession /\ UNCHANGED <<timer, late>>
        /\ \A g \in Handlers : run'[g] = Idle \/ run'[g] = run[g]
    BY <1>9 DEF DeleteSession, Close, Return, ghosts, TypeOK
  <2>2. Storing(s)
    BY <1>1, <2>1, NilAssumption DEF Storing, Idle
  <2>. QED
    BY <1>0, <1>2, <2>1, <2>2 DEF Timed
<1>10. ASSUME NEW t \in Sessions, Expire(t)
       PROVE  Timed(s)'
  <2>1. /\ session' = NoSession /\ run' = run
        /\ \A u \in Sessions \ {t} : timer'[u] = timer[u]
        /\ late \subseteq late' /\ (Storing(t) => t \in late')
    BY <1>10 DEF Expire, TypeOK
  <2>2. Storing(s)
    BY <1>1, <2>1, NilAssumption DEF Storing
  <2>. QED
    BY <1>0, <1>2, <2>1, <2>2 DEF Timed
<1>11. CASE Tick
  <2>1. /\ session' = session /\ run' = run /\ late' = late
        /\ timer[s] # Off => timer'[s] # Off
    BY <1>0, <1>11 DEF TypeOK, Tick
  <2>. QED
    BY <1>0, <1>1, <1>2, <2>1 DEF Timed, Storing
<1>12. CASE UNCHANGED vars
  BY <1>0, <1>1, <1>2, <1>12 DEF vars, ghosts, Timed, Storing
<1>. QED
  BY <1>3, <1>4, <1>5, <1>6, <1>7, <1>8, <1>9, <1>10, <1>11, <1>12 DEF Next

\* Whatever messages for an id are handled at the same time, and in whatever order, the session in
\* the map has a timer that still has to go off, unless it went off before the session was there
\* (handlers.go:372-385, 402-404).
THEOREM EntriesAreTimed == Spec => []EveryEntryIsTimed
<1>1. Init => EveryEntryIsTimed /\ StoringIsTimed
  BY DEF Init, EveryEntryIsTimed, StoringIsTimed, Storing, Idle
<1>. QED
  BY <1>1, TypesHold, TimedStep, PTL DEF Spec

-----------------------------------------------------------------------------
(***************************************************************************)
(* GoesOn.  The session that was answered last stays in the map until it   *)
(* ends, if nothing else of the id is in use: then all that empties the    *)
(* map is its own handlers and its own timer.  A handler about to delete   *)
(* has ended it, and the timer is never ahead of the time since the answer *)
(* unless a handler is still to start it again: when it goes off, that     *)
(* handler has the session loaded, or the time is over, also if it was     *)
(* late.                                                                   *)
(***************************************************************************)
Later == {"message", "postpone", "delete"}

Has(h, at, s) == run[h].at = at /\ run[h].session = s

\* A new session has no timer yet, and then has, unless it was late; who is about to delete a
\* session ended it; and it still is in the map, if nothing else is in use.
NewUntimed(h) ==
  run[h].at \in {"open", "time"} => timer[run[h].session] = Off /\ run[h].session \notin late
StoresTimed(h) == run[h].at = "store" => Timed(run[h].session)
DeletesEnded(h) == run[h].at = "delete" => run[h].session \in ended
HeldIsCurrent(h) ==
  run[h].at \in Later /\ reused = FALSE => run[h].session \in ended \/ session = run[h].session

HandlerOK(h) == NewUntimed(h) /\ StoresTimed(h) /\ DeletesEnded(h) /\ HeldIsCurrent(h)

OneInUse == reused = FALSE => \A s, t \in Sessions : ~Unused(s) /\ ~Unused(t) => s = t

Postponing(s) == \E h \in Handlers : Has(h, "postpone", s)

ClockBehind ==
  \A s \in Sessions : Timed(s) =>
    \/ s \in ended \/ Postponing(s)
    \/ (timer[s] # Off => timer[s] <= idle[s]) /\ (s \in late => idle[s] = Wait)

\* The session that was answered last, while it did not end and its client may go on with it.
Going == last # NoSession /\ last \notin ended /\ idle[last] # Wait
Fresh(s) == \E h \in Handlers : run[h].at \in {"time", "store"} /\ run[h].session = s

LastInUse == Going => timer[last] # Off \/ Fresh(last) \/ Postponing(last)
LastIsCurrent == Going /\ reused = FALSE => session = last \/ Fresh(last)

Alive == (\A h \in Handlers : HandlerOK(h)) /\ OneInUse /\ ClockBehind /\ LastInUse /\ LastIsCurrent

LEMMA Numbers ==
  /\ Wait \in Nat /\ Wait >= 1 /\ Off = Wait + 1 /\ NoSession \notin Sessions
  /\ Idle.at = "idle" /\ Idle.session = NoSession
BY WaitAssumption, NilAssumption DEF Off, Idle

LEMMA HeldInUse ==
  ASSUME TypeOK, NEW h \in Handlers, run[h].at # "idle"
  PROVE  run[h].session \in Sessions /\ ~Unused(run[h].session)
BY HandlersHold, Numbers DEF Unused

\* What h goes on to, or that it returns.
LEMMA GotoMoves ==
  ASSUME TypeOK, NEW h \in Handlers, run[h].at # "idle", NEW step, Goto(h, step)
  PROVE  /\ run'[h].at = step /\ run'[h].session = run[h].session
         /\ \A g \in Handlers \ {h} : run'[g] = run[g]
<1>1. run[h] \in Handling
  BY HandlersHold, Numbers
<1> QED
  BY <1>1 DEF Goto, TypeOK, Handling

LEMMA ReturnMoves ==
  ASSUME TypeOK, NEW h \in Handlers, Return(h)
  PROVE  /\ run'[h] = Idle /\ run'[h].at = "idle" /\ run'[h].session = NoSession
         /\ \A g \in Handlers \ {h} : run'[g] = run[g]
BY Numbers DEF Return, TypeOK

LEMMA OpenKeepsAlive ==
  ASSUME TypeOK, Alive, NEW h \in Handlers, NEW s \in Sessions, Open(h, s)
  PROVE  Alive'
<1>1. /\ session' = session /\ timer' = timer /\ ended' = ended \ {s} /\ late' = late \ {s}
      /\ run[h].at = "idle" /\ run[h].session = NoSession
      /\ \A g \in Handlers \ {h} : run'[g] = run[g]
      /\ (run'[h].at = "open" /\ run'[h].session = s) \/ run'[h] = run[h]
  BY Numbers DEF Open, Receive, StartSession, TypeOK
<1>2. timer[s] = Off /\ session # s /\ \A g \in Handlers : run[g].session # s
  BY DEF Open, Unused
<1>3. /\ idle'[s] = 0 /\ \A t \in Sessions \ {s} : idle'[t] = idle[t]
      /\ last' # s /\ (last' # NoSession => last' = last)
  BY Numbers DEF Open, TypeOK
<1>4. reused' = FALSE => \A t \in Sessions : Unused(t)
  BY DEF Open
<1>5. ASSUME NEW g \in Handlers
      PROVE  HandlerOK(g)'
  <2>1. NewUntimed(g)'
    BY <1>1, <1>2 DEF Alive, HandlerOK, NewUntimed
  <2>2. StoresTimed(g)'
    BY <1>1, <1>2 DEF Alive, HandlerOK, StoresTimed, Timed
  <2>3. DeletesEnded(g)'
    BY <1>1, <1>2 DEF Alive, HandlerOK, DeletesEnded
  <2>4. HeldIsCurrent(g)'
    <3>1. run'[g].at \in Later => run[g].at # "idle"
      BY <1>1 DEF Later
    <3> QED
      BY <1>4, <3>1, HeldInUse DEF HeldIsCurrent
  <2> QED
    BY <2>1, <2>2, <2>3, <2>4 DEF HandlerOK
<1>6. OneInUse'
  BY <1>1, <1>4 DEF OneInUse, Unused
<1>7. ClockBehind'
  BY <1>1, <1>2, <1>3 DEF Alive, ClockBehind, Timed, Postponing, Has
<1>8. Going' => Going
  BY <1>1, <1>3 DEF Going, TypeOK
<1>9. LastInUse'
  BY <1>1, <1>3, <1>8 DEF Alive, LastInUse, Going, Fresh, Postponing, Has
<1>10. LastIsCurrent'
  <2>1. Going => last \in Sessions /\ ~Unused(last)
    BY HeldInUse DEF Alive, LastInUse, Going, Fresh, Postponing, Has, Unused, TypeOK
  <2> QED
    BY <1>4, <1>8, <2>1 DEF LastIsCurrent
<1> QED
  BY <1>5, <1>6, <1>7, <1>9, <1>10 DEF Alive

LEMMA OpenReconcileKeepsAlive ==
  ASSUME TypeOK, Alive, NEW h \in Handlers, OpenReconcile(h)
  PROVE  Alive'
<1> DEFINE s == run[h].session
<1>1. run[h].at = "open" /\ s \in Sessions /\ ~Timed(s)
  BY HeldInUse DEF OpenReconcile, Alive, HandlerOK, NewUntimed, Timed
<1>2. /\ session' = session /\ timer' = timer /\ ended' = ended /\ late' = late /\ reused' = reused
      /\ \A g \in Handlers \ {h} : run'[g] = run[g]
  BY <1>1, GotoMoves, ReturnMoves DEF OpenReconcile
<1>3. \/ /\ run'[h].at = "time" /\ run'[h].session = s /\ last' = s
         /\ \A t \in Sessions \ {s} : idle'[t] = idle[t]
      \/ run'[h].at = "idle" /\ run'[h].session = NoSession /\ last' = last /\ idle' = idle
  BY <1>1, GotoMoves, ReturnMoves DEF OpenReconcile, TypeOK
<1>4. \A g \in Handlers : HandlerOK(g)'
  BY <1>1, <1>2, <1>3 DEF Alive, HandlerOK, NewUntimed, StoresTimed, Timed, DeletesEnded, HeldIsCurrent, Later
<1>5. OneInUse'
  BY <1>1, <1>2, <1>3, Numbers DEF Alive, OneInUse, Unused
<1>6. ClockBehind'
  BY <1>1, <1>2, <1>3 DEF Alive, ClockBehind, Timed, Postponing, Has
<1>7. LastInUse' /\ LastIsCurrent'
  <2>1. CASE run'[h].at = "time" /\ run'[h].session = s /\ last' = s
    BY <2>1 DEF LastInUse, LastIsCurrent, Fresh
  <2>2. CASE last' = last /\ idle' = idle
    BY <1>1, <1>2, <2>2 DEF Alive, LastInUse, LastIsCurrent, Going, Fresh, Postponing, Has
  <2> QED
    BY <1>3, <2>1, <2>2
<1> QED
  BY <1>4, <1>5, <1>6, <1>7 DEF Alive

LEMMA StartTimerKeepsAlive ==
  ASSUME TypeOK, Alive, NEW h \in Handlers, StartTimer(h)
  PROVE  Alive'
<1> DEFINE s == run[h].session
<1>1. run[h].at = "time" /\ s \in Sessions /\ s \notin late
  BY HeldInUse DEF StartTimer, Alive, HandlerOK, NewUntimed
<1>2. /\ session' = session /\ ended' = ended /\ late' = late /\ reused' = reused
      /\ idle' = idle /\ last' = last
      /\ timer'[s] = 0 /\ \A t \in Sessions \ {s} : timer'[t] = timer[t]
      /\ run'[h].at = "store" /\ run'[h].session = s
      /\ \A g \in Handlers \ {h} : run'[g] = run[g]
  BY <1>1, GotoMoves DEF StartTimer, ghosts, TypeOK
<1>3. \A g \in Handlers \ {h} : run[g].session # s
  BY <1>1 DEF TypeOK, OwnsNew
<1>4. ASSUME NEW g \in Handlers
      PROVE  HandlerOK(g)'
  <2>1. CASE g = h
    BY <1>2, <2>1, Numbers
       DEF HandlerOK, NewUntimed, StoresTimed, Timed, DeletesEnded, HeldIsCurrent, Later, Off
  <2>2. CASE g # h
    <3>1. run[g].at # "idle" => run[g].session \in Sessions \ {s}
      BY <1>3, <2>2, HeldInUse
    <3> QED
      BY <1>2, <2>2, <3>1
         DEF Alive, HandlerOK, NewUntimed, StoresTimed, Timed, DeletesEnded, HeldIsCurrent, Later, Off
  <2> QED
    BY <2>1, <2>2
<1>5. OneInUse'
  BY <1>1, <1>2, Numbers DEF Alive, OneInUse, Unused
<1>6. ClockBehind'
  BY <1>1, <1>2 DEF Alive, ClockBehind, Timed, Postponing, Has, TypeOK
<1>7. LastInUse' /\ LastIsCurrent'
  BY <1>1, <1>2, Numbers DEF Alive, LastInUse, LastIsCurrent, Going, Fresh, Postponing, Has, TypeOK
<1> QED
  BY <1>4, <1>5, <1>6, <1>7 DEF Alive

LEMMA StoreSessionKeepsAlive ==
  ASSUME TypeOK, Alive, NEW h \in Handlers, StoreSession(h)
  PROVE  Alive'
<1> DEFINE s == run[h].session
<1>1. run[h].at = "store" /\ s \in Sessions /\ ~Unused(s) /\ Timed(s)
  BY HeldInUse DEF StoreSession, Alive, HandlerOK, StoresTimed
<1>2. /\ session' = s /\ ended' = ended /\ reused' = reused /\ idle' = idle /\ last' = last
      /\ timer' = timer /\ late' = late
      /\ run'[h].at = "idle" /\ run'[h].session = NoSession
      /\ \A g \in Handlers \ {h} : run'[g] = run[g]
  BY <1>1, ReturnMoves DEF StoreSession, ghosts, TypeOK
<1>3. \A g \in Handlers \ {h} : run[g].session # s
  BY <1>1 DEF TypeOK, OwnsNew
<1>4. ASSUME NEW g \in Handlers
      PROVE  HandlerOK(g)'
  <2>1. CASE g = h
    BY <1>2, <2>1 DEF HandlerOK, NewUntimed, StoresTimed, Timed, DeletesEnded, HeldIsCurrent, Later
  <2>2. CASE g # h
    <3>1. run[g].at # "idle" => run[g].session \in Sessions \ {s} /\ ~Unused(run[g].session)
      BY <1>3, <2>2, HeldInUse
    <3>2. run[g].at \in Later => reused # FALSE
      BY <1>1, <3>1 DEF Alive, OneInUse, Later
    <3> QED
      BY <1>2, <2>2, <3>1, <3>2
         DEF Alive, HandlerOK, NewUntimed, StoresTimed, Timed, DeletesEnded, HeldIsCurrent, Later
  <2> QED
    BY <2>1, <2>2
<1>5. OneInUse'
  BY <1>1, <1>2, Numbers DEF Alive, OneInUse, Unused
<1>6. ClockBehind'
  BY <1>1, <1>2 DEF Alive, ClockBehind, Timed, Postponing, Has, TypeOK
<1>7. LastInUse'
  <2>1. last = s /\ Going => timer[s] # Off
    BY <1>1, <1>3 DEF Alive, ClockBehind, Timed, Postponing, Has, Going, TypeOK
  <2> QED
    BY <1>1, <1>2, <2>1 DEF Alive, LastInUse, Going, Fresh, Postponing, Has, Off
<1>8. LastIsCurrent'
  <2>1. Going /\ reused = FALSE => last \in Sessions /\ ~Unused(last)
    BY HeldInUse DEF Alive, LastIsCurrent, Going, Fresh, Postponing, Has, Unused, TypeOK
  <2> QED
    BY <1>1, <1>2, <2>1 DEF Alive, OneInUse, LastIsCurrent, Going
<1> QED
  BY <1>4, <1>5, <1>6, <1>7, <1>8 DEF Alive

LEMMA MessageKeepsAlive ==
  ASSUME TypeOK, Alive, NEW h \in Handlers, Message(h)
  PROVE  Alive'
<1>1. /\ session' = session /\ timer' = timer /\ ended' = ended /\ late' = late /\ reused' = reused
      /\ idle' = idle /\ last' = last /\ run[h].at = "idle"
      /\ \A g \in Handlers \ {h} : run'[g] = run[g]
      /\ \/ run'[h] = run[h]
         \/ run'[h].at = "message" /\ run'[h].session = session /\ session # NoSession
  BY Numbers DEF Message, Receive, ghosts, TypeOK
<1>2. \A g \in Handlers : HandlerOK(g)'
  BY <1>1 DEF Alive, HandlerOK, NewUntimed, StoresTimed, Timed, DeletesEnded, HeldIsCurrent, Later
<1>3. OneInUse'
  BY <1>1 DEF Alive, OneInUse, Unused
<1>4. ClockBehind'
  BY <1>1 DEF Alive, ClockBehind, Timed, Postponing, Has
<1>5. LastInUse' /\ LastIsCurrent'
  BY <1>1 DEF Alive, LastInUse, LastIsCurrent, Going, Fresh, Postponing, Has
<1> QED
  BY <1>2, <1>3, <1>4, <1>5 DEF Alive

LEMMA ReconcileKeepsAlive ==
  ASSUME TypeOK, Alive, NEW h \in Handlers, Reconcile(h)
  PROVE  Alive'
<1> DEFINE s == run[h].session
<1>1. run[h].at = "message" /\ s \in Sessions
  BY HeldInUse DEF Reconcile
<1>2. /\ session' = session /\ timer' = timer /\ late' = late /\ reused' = reused
      /\ run'[h].session = s /\ \A g \in Handlers \ {h} : run'[g] = run[g]
      /\ \/ /\ run'[h].at = "postpone" /\ last' = s /\ ended' = ended
            /\ \A t \in Sessions \ {s} : idle'[t] = idle[t]
         \/ run'[h].at = "delete" /\ last' = last /\ ended' = ended \cup {s} /\ idle' = idle
  BY <1>1, GotoMoves DEF Reconcile, After, TypeOK
<1>3. HandlerOK(h)
  BY DEF Alive
<1>4. \A g \in Handlers : HandlerOK(g)'
  BY <1>1, <1>2 DEF Alive, HandlerOK, NewUntimed, StoresTimed, Timed, DeletesEnded, HeldIsCurrent, Later
<1>5. OneInUse'
  BY <1>1, <1>2 DEF Alive, OneInUse, Unused
<1>6. ClockBehind'
  BY <1>1, <1>2 DEF Alive, ClockBehind, Timed, Postponing, Has
<1>7. LastInUse' /\ LastIsCurrent'
  <2>1. CASE last' = s /\ ended' = ended
    BY <1>1, <1>2, <1>3, <2>1 DEF LastInUse, LastIsCurrent, Going, Postponing, Has, HandlerOK,
       HeldIsCurrent, Later
  <2>2. CASE last' = last /\ ended' = ended \cup {s} /\ idle' = idle
    BY <1>1, <1>2, <2>2 DEF Alive, LastInUse, LastIsCurrent, Going, Fresh, Postponing, Has
  <2> QED
    BY <1>2, <2>1, <2>2
<1> QED
  BY <1>4, <1>5, <1>6, <1>7 DEF Alive

LEMMA PostponeCloseKeepsAlive ==
  ASSUME TypeOK, Alive, NEW h \in Handlers, PostponeClose(h)
  PROVE  Alive'
<1> DEFINE s == run[h].session
<1>1. run[h].at = "postpone" /\ s \in Sessions
  BY HeldInUse DEF PostponeClose
<1>2. /\ session' = session /\ ended' = ended /\ late' = late \ {s} /\ reused' = reused
      /\ idle' = idle /\ last' = last
      /\ timer'[s] = 0 /\ \A t \in Sessions \ {s} : timer'[t] = timer[t]
      /\ run'[h].at = "idle" /\ run'[h].session = NoSession
      /\ \A g \in Handlers \ {h} : run'[g] = run[g]
  BY <1>1, ReturnMoves DEF PostponeClose, TypeOK
<1>3. ASSUME NEW g \in Handlers
      PROVE  HandlerOK(g)'
  <2>1. CASE g = h
    BY <1>2, <2>1 DEF HandlerOK, NewUntimed, StoresTimed, Timed, DeletesEnded, HeldIsCurrent, Later
  <2>2. CASE g # h
    <3>1. run[g].at # "idle" => run[g].session \in Sessions
      BY HeldInUse
    <3>2. run[g].at \in {"open", "time", "store"} => run[g].session # s
      BY <1>1, <2>2 DEF TypeOK, OwnsNew
    <3> QED
      BY <1>2, <2>2, <3>1, <3>2, Numbers
         DEF Alive, HandlerOK, NewUntimed, StoresTimed, Timed, DeletesEnded, HeldIsCurrent, Later
  <2> QED
    BY <2>1, <2>2
<1>4. OneInUse'
  BY <1>1, <1>2, Numbers DEF Alive, OneInUse, Unused
<1>5. ClockBehind'
  BY <1>1, <1>2 DEF Alive, ClockBehind, Timed, Postponing, Has, TypeOK
<1>6. LastInUse' /\ LastIsCurrent'
  BY <1>1, <1>2, Numbers DEF Alive, LastInUse, LastIsCurrent, Going, Fresh, Postponing, Has, TypeOK
<1> QED
  BY <1>3, <1>4, <1>5, <1>6 DEF Alive

LEMMA DeleteSessionKeepsAlive ==
  ASSUME TypeOK, Alive, NEW h \in Handlers, DeleteSession(h)
  PROVE  Alive'
<1> DEFINE s == run[h].session
<1>1. run[h].at = "delete" /\ s \in Sessions /\ ~Unused(s) /\ s \in ended
  BY HeldInUse DEF DeleteSession, Alive, HandlerOK, DeletesEnded
<1>2. /\ session' = NoSession /\ timer' = timer /\ ended' = ended /\ late' = late /\ reused' = reused
      /\ idle' = idle /\ last' = last
      /\ run'[h].at = "idle" /\ run'[h].session = NoSession
      /\ \A g \in Handlers \ {h} : run'[g] = run[g]
  BY ReturnMoves DEF DeleteSession, ghosts
<1>3. ASSUME NEW g \in Handlers
      PROVE  HandlerOK(g)'
  <2>1. run[g].at \in Later /\ reused = FALSE => run[g].session \in ended
    BY <1>1, HeldInUse DEF Alive, OneInUse, Later
  <2> QED
    BY <1>2, <2>1 DEF Alive, HandlerOK, NewUntimed, StoresTimed, Timed, DeletesEnded, HeldIsCurrent, Later
<1>4. OneInUse'
  BY <1>1, <1>2, Numbers DEF Alive, OneInUse, Unused
<1>5. ClockBehind'
  BY <1>1, <1>2 DEF Alive, ClockBehind, Timed, Postponing, Has
<1>6. LastInUse'
  BY <1>1, <1>2 DEF Alive, LastInUse, Going, Fresh, Postponing, Has
<1>7. LastIsCurrent'
  <2>1. Going /\ reused = FALSE => last \in Sessions /\ ~Unused(last)
    BY HeldInUse DEF Alive, LastIsCurrent, Going, Fresh, Postponing, Has, Unused, TypeOK
  <2>2. Going => last # s
    BY <1>1 DEF Going
  <2> QED
    BY <1>1, <1>2, <2>1, <2>2 DEF Alive, OneInUse, LastIsCurrent, Going
<1> QED
  BY <1>3, <1>4, <1>5, <1>6, <1>7 DEF Alive

LEMMA CloseKeepsAlive ==
  ASSUME TypeOK, Alive, NEW h \in Handlers, Close(h)
  PROVE  Alive'
<1>1. /\ session' = NoSession /\ timer' = timer /\ run' = run /\ late' = late /\ reused' = reused
      /\ idle' = idle /\ last' = last /\ ended' = ended \cup ({session, last} \cap Sessions)
  BY DEF Close
<1>2. \A g \in Handlers : run[g].at \in Later => run[g].session \in Sessions
  BY HeldInUse DEF Later
<1>3. \A g \in Handlers : HandlerOK(g)'
  BY <1>1, <1>2 DEF Alive, HandlerOK, NewUntimed, StoresTimed, Timed, DeletesEnded, HeldIsCurrent, Later
<1>4. OneInUse'
  BY <1>1, Numbers DEF Alive, OneInUse, Unused
<1>5. ClockBehind'
  BY <1>1 DEF Alive, ClockBehind, Timed, Postponing, Has
<1>6. LastInUse' /\ LastIsCurrent'
  BY <1>1 DEF LastInUse, LastIsCurrent, Going, TypeOK
<1> QED
  BY <1>3, <1>4, <1>5, <1>6 DEF Alive

LEMMA ExpireKeepsAlive ==
  ASSUME TypeOK, Alive, NEW s \in Sessions, Expire(s)
  PROVE  Alive'
<1>1. /\ session' = NoSession /\ run' = run /\ reused' = reused /\ idle' = idle /\ last' = last
      /\ timer[s] = Wait /\ timer'[s] = Off /\ \A t \in Sessions \ {s} : timer'[t] = timer[t]
      /\ ended \subseteq ended' /\ late \subseteq late' /\ late' \subseteq late \cup {s}
      /\ \A g \in Handlers : run[g].session = s => s \in (IF run[g].at = "store" THEN late' ELSE ended')
  BY DEF Expire, Loaded, Storing, TypeOK
<1>2. ~Unused(s) /\ timer[s] # Off /\ Off' = Off
  BY <1>1, Numbers DEF Unused, Off
<1>3. ASSUME NEW g \in Handlers
      PROVE  HandlerOK(g)'
  <2>1. run[g].at # "idle" => run[g].session \in Sessions /\ ~Unused(run[g].session)
    BY HeldInUse
  <2>2. run[g].at \in Later /\ reused = FALSE => run[g].session \in ended'
    BY <1>1, <1>2, <2>1 DEF Alive, OneInUse, Later
  <2> QED
    BY <1>1, <1>2, <2>1, <2>2
       DEF Alive, HandlerOK, NewUntimed, StoresTimed, Timed, DeletesEnded, HeldIsCurrent, Later
<1>4. OneInUse'
  BY <1>1, Numbers DEF Alive, OneInUse, Unused
<1>5. s \in ended' \/ idle[s] = Wait
  <2>1. Postponing(s) => s \in ended'
    BY <1>1 DEF Postponing, Has
  <2>2. s \in ended \/ Postponing(s) \/ timer[s] <= idle[s]
    BY <1>2 DEF Alive, ClockBehind, Timed
  <2> QED
    BY <1>1, <2>1, <2>2, Numbers DEF TypeOK
<1>6. ClockBehind'
  <2> SUFFICES ASSUME NEW t \in Sessions, Timed(t)', t \notin ended', ~Postponing(t)'
               PROVE  (timer'[t] # Off => timer'[t] <= idle'[t]) /\ (t \in late' => idle'[t] = Wait)
    BY <1>2 DEF ClockBehind
  <2>1. CASE t = s
    BY <1>1, <1>5, <2>1
  <2>2. CASE t # s
    BY <1>1, <1>2, <2>2 DEF Alive, ClockBehind, Timed, Postponing, Has
  <2> QED
    BY <2>1, <2>2
<1>7. Going' => Going /\ last # s
  BY <1>1, <1>5 DEF Going
<1>8. LastInUse'
  BY <1>1, <1>7 DEF Alive, LastInUse, Going, Fresh, Postponing, Has, TypeOK
<1>9. LastIsCurrent'
  <2>1. Going /\ reused = FALSE => last \in Sessions /\ ~Unused(last)
    BY HeldInUse DEF Alive, LastIsCurrent, Going, Fresh, Postponing, Has, Unused, TypeOK
  <2> QED
    BY <1>1, <1>2, <1>7, <2>1 DEF Alive, OneInUse, LastIsCurrent
<1> QED
  BY <1>3, <1>4, <1>6, <1>8, <1>9 DEF Alive

LEMMA TickKeepsAlive ==
  ASSUME TypeOK, Alive, Tick
  PROVE  Alive'
<1>1. /\ session' = session /\ run' = run /\ reused' = reused /\ last' = last
      /\ ended' = ended /\ late' = late
      /\ \A t \in Sessions : timer'[t] = Off <=> timer[t] = Off
      /\ \A t \in Sessions : idle'[t] # Wait => idle[t] # Wait
  BY Numbers DEF Tick, TypeOK
<1>2. \A g \in Handlers : HandlerOK(g)'
  <2>1. \A g \in Handlers : run[g].at # "idle" => run[g].session \in Sessions
    BY HeldInUse
  <2> QED
    BY <1>1, <2>1, Numbers
       DEF Alive, HandlerOK, NewUntimed, StoresTimed, Timed, DeletesEnded, HeldIsCurrent, Later, Off
<1>3. OneInUse'
  BY <1>1 DEF Alive, OneInUse, Unused, Off
<1>4. ClockBehind'
  <2>1. \A t \in Sessions : timer[t] <= idle[t] /\ timer[t] # Off => timer'[t] <= idle'[t]
    BY Numbers DEF Tick, TypeOK
  <2> QED
    BY <1>1, <2>1 DEF Alive, ClockBehind, Timed, Postponing, Has, Off
<1>5. Going' => Going
  BY <1>1 DEF Going, TypeOK
<1>6. LastInUse' /\ LastIsCurrent'
  BY <1>1, <1>5 DEF Alive, LastInUse, LastIsCurrent, Going, Fresh, Postponing, Has, Off, TypeOK
<1> QED
  BY <1>2, <1>3, <1>4, <1>6 DEF Alive

LEMMA AliveInit == Init => Alive
<1> SUFFICES ASSUME Init
             PROVE  Alive
  OBVIOUS
<1>1. \A h \in Handlers : run[h].at = "idle" /\ run[h].session = NoSession
  BY Numbers DEF Init
<1>2. \A s \in Sessions : timer[s] = Off /\ Unused(s)
  BY <1>1, Numbers DEF Init, Unused
<1> QED
  BY <1>1, <1>2 DEF Init, Alive, HandlerOK, NewUntimed, StoresTimed, Timed, DeletesEnded, HeldIsCurrent, Later,
     OneInUse, ClockBehind, LastInUse, LastIsCurrent, Going

LEMMA AliveStep == TypeOK /\ Alive /\ [Next]_vars => Alive'
<1>1. CASE UNCHANGED vars
  BY <1>1 DEF vars, ghosts, Alive, HandlerOK, NewUntimed, StoresTimed, Timed, DeletesEnded, HeldIsCurrent,
     Later, OneInUse, Unused, ClockBehind, LastInUse, LastIsCurrent, Going, Fresh, Postponing, Has, Off
<1> QED
  BY <1>1, OpenKeepsAlive, OpenReconcileKeepsAlive, StartTimerKeepsAlive, StoreSessionKeepsAlive,
     MessageKeepsAlive, ReconcileKeepsAlive, PostponeCloseKeepsAlive, DeleteSessionKeepsAlive, CloseKeepsAlive,
     ExpireKeepsAlive, TickKeepsAlive
  DEF Next

\* Whatever else is handled, the session that was answered last stays in the map until it ends, if
\* no other session of its id is in use (handlers.go:363-412).
THEOREM LastStaysCurrent == Spec => []Alive
BY TypeInit, TypeStep, AliveInit, AliveStep, PTL DEF Spec

\* A client that goes on within the time with the session that was answered last is told CLOSED only
\* for the reasons GoesOn names (handlers.go:369-408).
THEOREM ClientGoesOn == Spec => GoesOn
<1>1. Alive /\ TypeOK /\ [Next]_vars =>
        [(\E h \in Handlers : ToldClosed(h)) =>
           \/ last = NoSession
           \/ last \in ended
           \/ idle[last] = Wait
           \/ reused
           \/ \E h \in Handlers : run[h].session = last /\ run[h].at \in {"time", "store"}]_vars
  <2> SUFFICES ASSUME Alive, TypeOK, NEW h \in Handlers, ToldClosed(h),
                      last # NoSession, last \notin ended, idle[last] # Wait, ~reused
               PROVE  Fresh(last)
    BY DEF Fresh
  <2>1. reused = FALSE
    BY DEF TypeOK
  <2>2. session # last
    BY DEF ToldClosed
  <2> QED
    BY <2>1, <2>2 DEF Alive, LastIsCurrent, Going
<1> QED
  BY <1>1, TypesHold, LastStaysCurrent, PTL DEF Spec, GoesOn
=============================================================================
