------------------------------- MODULE Session -------------------------------
(***************************************************************************)
(* The life of one websocket (handlers.go, websocket.go, get-started.go).  *)
(* HandleWebsocket upgrades the connection, registers it and starts two    *)
(* goroutines: the reader, that reads messages and keeps a read deadline   *)
(* of PongWait which every pong postpones, and the pinger, that sends a    *)
(* ping every PingPeriod.  When one of the two ends it kills the           *)
(* connection, which makes the other end and kill it again.  Everybody     *)
(* else who writes, handlers of its messages and of the events of other    *)
(* clients, does so under the mutex of the connection, and no write has a  *)
(* deadline: a peer that does not read holds up whoever writes to it.      *)
(*                                                                         *)
(* The unit of time is PingPeriod.  What a listener hears is in Broadcast. *)
(***************************************************************************)
EXTENDS Integers, FiniteSets

CONSTANTS
  Writers,       \* the goroutines that handle messages and broadcasts
  PongWait       \* in units of PingPeriod, which "must be less" (relay.go:114)

ASSUME PongWaitAssumption == PongWait \in Nat /\ PongWait > 1
ASSUME WritersAssumption == Writers \cap {"reader", "pinger", "nobody"} = {}

VARIABLES
  at,            \* where the reader, the pinger and every writer is
  open,          \* conn is not closed at our end
  peer,          \* what the client does: it reads, it does not, it is gone
  mutex,         \* who holds it
  deadline,      \* units to the read deadline
  due,           \* the ticker fired
  pinged,        \* a ping is on its way, or its pong
  registered,    \* it is in rl.clients
  listening,     \* the writers whose REQ added a listener
  done,          \* ctx is cancelled
  hooked,        \* how often the OnDisconnect hooks ran
  shutdown       \* Relay.Shutdown ran: "never", "ran" or, before Register, "missed"

sessionVars == <<at, open, peer, mutex, deadline, due, pinged, registered, listening, done, hooked, shutdown>>

Keepers == {"reader", "pinger"}
StepTo(g, step) == at' = [at EXCEPT ![g] = step]

-----------------------------------------------------------------------------
(* The connection was upgraded.                                            *)
SessionInit ==
  /\ at = [g \in Keepers \cup Writers |-> IF g \in Keepers THEN "upgraded" ELSE "idle"]
  /\ open = TRUE /\ peer = "reads" /\ mutex = "nobody"
  /\ deadline = PongWait /\ due = FALSE /\ pinged = FALSE
  /\ registered = FALSE /\ listening = {} /\ done = FALSE /\ hooked = 0
  /\ shutdown = "never"

(* It is put into rl.clients and its two goroutines start.                 *)
Register ==
  /\ at["reader"] = "upgraded"
  /\ registered' = TRUE
  /\ at' = [at EXCEPT !["reader"] = "connect", !["pinger"] = "select"]
  /\ UNCHANGED <<open, peer, mutex, deadline, due, pinged, listening, done, hooked, shutdown>>

\* Mutant: there is no read deadline until the first pong.
ConnectForgetsDeadline ==
  /\ at["reader"] = "connect"
  /\ deadline' = -1
  /\ StepTo("reader", "read")
  /\ UNCHANGED <<open, peer, mutex, due, pinged, registered, listening, done, hooked, shutdown>>

(* The reader sets the deadline and runs the OnConnect hooks.              *)
Connect ==
  /\ at["reader"] = "connect"
  /\ deadline' = PongWait
  /\ StepTo("reader", "read")
  /\ UNCHANGED <<open, peer, mutex, due, pinged, registered, listening, done, hooked, shutdown>>

(* A message comes in and gets a goroutine of its own...                   *)
Message(w) ==
  /\ at["reader"] = "read" /\ open /\ peer # "gone"
  /\ at[w] = "idle"
  /\ StepTo(w, "handle")
  /\ UNCHANGED <<open, peer, mutex, deadline, due, pinged, registered, listening, done, hooked, shutdown>>

\* Mutant: a listener is added without a look at rl.clients.
HandleAddsAnyway(w) ==
  /\ at[w] = "handle"
  /\ UNCHANGED listening \/ listening' = listening \cup {w}
  /\ StepTo(w, "lock")
  /\ UNCHANGED <<open, peer, mutex, deadline, due, pinged, registered, done, hooked, shutdown>>

(* ...that may add a listener, if the connection is still registered, and  *)
(* answers.                                                                *)
HandleMessage(w) ==
  /\ at[w] = "handle"
  /\ UNCHANGED listening \/ (registered /\ listening' = listening \cup {w})
  /\ StepTo(w, "lock")
  /\ UNCHANGED <<open, peer, mutex, deadline, due, pinged, registered, done, hooked, shutdown>>

(* An event of another client is for one of the listeners.                 *)
NotifyListeners(w) ==
  /\ at[w] = "idle"
  /\ listening # {}
  /\ StepTo(w, "lock")
  /\ UNCHANGED <<open, peer, mutex, deadline, due, pinged, registered, listening, done, hooked, shutdown>>

-----------------------------------------------------------------------------
\* Mutant: nobody waits for the mutex.
LockAnyway(g) ==
  /\ at[g] = "lock"
  /\ mutex' = g
  /\ StepTo(g, "write")
  /\ UNCHANGED <<open, peer, deadline, due, pinged, registered, listening, done, hooked, shutdown>>

(* WriteJSON and WriteMessage take the mutex...                            *)
Lock(g) ==
  /\ at[g] = "lock"
  /\ mutex = "nobody"
  /\ mutex' = g
  /\ StepTo(g, "write")
  /\ UNCHANGED <<open, peer, deadline, due, pinged, registered, listening, done, hooked, shutdown>>

(* ...and write.  To a peer that does not read a write may end, while      *)
(* there is room in the buffers on the way, or may not.                    *)
Written(w) ==
  /\ at[w] = "write"
  /\ mutex' = "nobody"
  /\ StepTo(w, "answered")
  /\ UNCHANGED <<open, peer, deadline, due, pinged, registered, listening, done, hooked, shutdown>>

(* The pinger does the same; an error ends it.                             *)
PingWritten ==
  /\ at["pinger"] = "write"
  /\ mutex' = "nobody"
  /\ IF open /\ peer # "gone"
     THEN StepTo("pinger", "select") /\ pinged' = TRUE
     ELSE StepTo("pinger", "kill") /\ UNCHANGED pinged
  /\ UNCHANGED <<open, peer, deadline, due, registered, listening, done, hooked, shutdown>>

\* A write that will not be held up.
Flows == ~open \/ peer \in {"reads", "gone"}

(* The pinger waits for its ticker or the end of the connection.           *)
Select ==
  /\ at["pinger"] = "select"
  /\ \/ done /\ StepTo("pinger", "kill") /\ UNCHANGED due
     \/ due /\ StepTo("pinger", "lock") /\ due' = FALSE
  /\ UNCHANGED <<open, peer, mutex, deadline, pinged, registered, listening, done, hooked, shutdown>>

(* ReadMessage fails: the connection is closed, or the deadline passed.    *)
ReadError ==
  /\ at["reader"] = "read"
  /\ ~open \/ peer = "gone" \/ deadline = 0
  /\ StepTo("reader", "kill")
  /\ UNCHANGED <<open, peer, mutex, deadline, due, pinged, registered, listening, done, hooked, shutdown>>

-----------------------------------------------------------------------------
(* kill: the OnDisconnect hooks...                                         *)
OnDisconnect(k) ==
  /\ at[k] = "kill"
  /\ hooked' = hooked + 1
  /\ StepTo(k, "close")
  /\ UNCHANGED <<open, peer, mutex, deadline, due, pinged, registered, listening, done, shutdown>>

(* ...the ticker, the contexts and the connection...                       *)
CloseConn(k) ==
  /\ at[k] = "close"
  /\ done' = TRUE
  /\ open' = FALSE
  /\ StepTo(k, "remove")
  /\ UNCHANGED <<peer, mutex, deadline, due, pinged, registered, listening, hooked, shutdown>>

(* ...and removeClientAndListeners.                                        *)
Remove(k) ==
  /\ at[k] = "remove"
  /\ registered' = FALSE
  /\ listening' = IF registered THEN {} ELSE listening
  /\ StepTo(k, "ended")
  /\ UNCHANGED <<open, peer, mutex, deadline, due, pinged, done, hooked, shutdown>>

(* Relay.Shutdown closes the connections that are registered.              *)
Shutdown ==
  /\ shutdown = "never"
  /\ shutdown' = IF at["reader"] = "upgraded" THEN "missed" ELSE "ran"
  /\ open' = (open /\ ~registered)
  /\ registered' = FALSE
  /\ listening' = {}
  /\ UNCHANGED <<at, peer, mutex, deadline, due, pinged, done, hooked>>

-----------------------------------------------------------------------------
(* The client stops to read, and then sends nothing or pongs that no ping  *)
(* asked for; it reads on, or goes.                                        *)
Stall == peer = "reads" /\ peer' \in {"stalls", "pushes"}
Resume == peer \in {"stalls", "pushes"} /\ peer' = "reads"
Leave == peer # "gone" /\ peer' = "gone"

Peer ==
  /\ Stall \/ Resume \/ Leave
  /\ UNCHANGED <<at, open, mutex, deadline, due, pinged, registered, listening, done, hooked, shutdown>>

(* A pong is read.                                                         *)
Pong ==
  /\ at["reader"] = "read" /\ open /\ deadline # 0
  /\ (pinged /\ peer = "reads") \/ peer = "pushes"
  /\ pinged' = FALSE
  /\ deadline' = PongWait
  /\ UNCHANGED <<at, open, peer, mutex, due, registered, listening, done, hooked, shutdown>>

(* Time passes, up to where it changes nothing.                            *)
Tick ==
  /\ deadline > 0 \/ ~(due \/ done)
  /\ deadline' = IF deadline > 0 THEN deadline - 1 ELSE deadline
  /\ due' = (due \/ ~done)
  /\ UNCHANGED <<at, open, peer, mutex, pinged, registered, listening, done, hooked, shutdown>>

-----------------------------------------------------------------------------
Kill(k) == OnDisconnect(k) \/ CloseConn(k) \/ Remove(k)
Reader == Register \/ Connect \/ ReadError \/ Kill("reader")
Pinger == Select \/ Lock("pinger") \/ PingWritten \/ Kill("pinger")
Writer(w) == HandleMessage(w) \/ Lock(w) \/ Written(w)

SessionNext ==
  \/ Reader \/ Pinger
  \/ \E w \in Writers : Message(w) \/ NotifyListeners(w) \/ Writer(w)
  \/ Shutdown \/ Peer \/ Pong \/ Tick

(* Goroutines run on; a write that flows ends, and who waits for the mutex *)
(* gets it, since Go's hands it over to who waits longest; time passes.    *)
SessionFairness ==
  /\ WF_sessionVars(Reader)
  /\ SF_sessionVars((at["pinger"] = "write" => Flows) /\ Pinger)
  /\ \A w \in Writers : SF_sessionVars((at[w] = "write" => Flows) /\ Writer(w))
  /\ WF_sessionVars(Tick)

SessionSpec == SessionInit /\ [][SessionNext]_sessionVars
FairSessionSpec == SessionSpec /\ SessionFairness

-----------------------------------------------------------------------------
(* Properties                                                              *)

\* One at a time writes, and holds the mutex (websocket.go:34-46).
SessionOK ==
  /\ at \in [Keepers \cup Writers ->
               {"upgraded", "connect", "read", "select", "idle", "handle", "lock", "write", "answered",
                "kill", "close", "remove", "ended"}]
  /\ \A g \in Keepers \cup Writers : at[g] = "write" <=> mutex = g
  /\ {open, due, pinged, registered, done} \subseteq BOOLEAN
  /\ peer \in {"reads", "stalls", "pushes", "gone"}
  /\ shutdown \in {"never", "ran", "missed"}
  /\ deadline \in -1..PongWait
  /\ listening \subseteq Writers
  /\ hooked \in 0..2

\* A client that does not read holds up who writes to it, and with it the broadcast of an event to
\* everybody else, but not for ever: no pong comes and the read deadline closes the connection under
\* the write.  Only a client that goes on with pongs that no ping asked for can keep it open
\* (handlers.go:110-115, 124-138, listener.go:146, websocket.go:34-39).
WritesEnd ==
  \A w \in Writers : at[w] = "lock" ~> at[w] = "answered" \/ peer = "pushes"

\* When a connection ends, whoever ends it, nothing stays of it: both goroutines end, the hooks ran
\* once for each, it is not registered, and no handler that is late adds a listener.  So it is after
\* a Shutdown, unless it was not registered then (handlers.go:94-138, 416-433, listener.go:40-59,
\* get-started.go:53-65).
GoneIsForgotten ==
  (registered /\ ~open) \/ shutdown = "ran"
    ~> [](/\ \A k \in Keepers : at[k] = "ended"
          /\ hooked = 2 /\ ~registered /\ listening = {})
=============================================================================
