--------------------------- MODULE Authentication ---------------------------
(***************************************************************************)
(* NIP-42 on one connection (utils.go, handlers.go, websocket.go).         *)
(* RequestAuth, which hooks and handlers call, makes the channel Authed if *)
(* there is none, under authLock, and sends the challenge.  The handler of *)
(* a valid AUTH message writes AuthedPublicKey, without a lock, and then,  *)
(* under authLock, closes the channel and sets it to nil.  A hook may wait *)
(* for the channel, as docs/core/auth.md does; it looks at the field       *)
(* without the lock.  All of these run at the same time, each message in   *)
(* a goroutine of its own.                                                 *)
(*                                                                         *)
(* A Go string is two words, a pointer and a length, and the write and the *)
(* reads of AuthedPublicKey race: words are stored and loaded one at a     *)
(* time, in either order.  Public keys have all the same length.           *)
(***************************************************************************)
EXTENDS Integers, FiniteSets

CONSTANTS
  Goroutines,    \* those of hooks and of the handlers of other messages
  Auths,         \* the AUTH messages
  Keys,          \* the public keys
  KeyOf,         \* the key each AUTH message is signed with
  Blank          \* a word of the empty string

ASSUME AuthsAssumption == KeyOf \in [Auths -> Keys] /\ Auths \cap Goroutines = {}
ASSUME BlankAssumption == Blank \notin Keys \cup {"full"}

VARIABLES
  Authed,          \* the channel: 0 is nil, the n-th that was made is n
  made,            \* how many were made
  closed,          \* the closed ones
  AuthedPublicKey, \* its two words
  challenged,      \* the client knows the challenge
  at,              \* where each goroutine and each handler of an AUTH is
  todo,            \* the words it has still to load or store
  channel,         \* the channel a goroutine waits for
  seen,            \* the words a goroutine loaded
  woken,           \* the goroutines that a closed channel woke
  late             \* the goroutines that began to read a key that was whole

vars == <<Authed, made, closed, AuthedPublicKey, challenged, at, todo, channel, seen, woken, late>>

Nil == 0
Words == {"pointer", "length"}
Word(k, w) == IF w = "length" THEN "full" ELSE k
EmptyString == [w \in Words |-> Blank]
Whole(string) == string["length"] = "full" /\ string["pointer"] \in Keys

Goto(g, step) == at' = [at EXCEPT ![g] = step]

-----------------------------------------------------------------------------
Init ==
  /\ Authed = Nil /\ made = 0 /\ closed = {}
  /\ AuthedPublicKey = EmptyString
  /\ challenged = FALSE
  /\ at = [g \in Goroutines \cup Auths |-> "start"]
  /\ todo = [g \in Goroutines \cup Auths |-> Words]
  /\ channel = [g \in Goroutines |-> Nil]
  /\ seen = [g \in Goroutines |-> EmptyString]
  /\ woken = {} /\ late = {}

\* Mutant: a channel is made even if there is one.
RequestAuthAlwaysMakes(g) ==
  /\ at[g] = "start"
  /\ made' = made + 1
  /\ Authed' = made + 1
  /\ Goto(g, "challenge")
  /\ UNCHANGED <<closed, AuthedPublicKey, challenged, todo, channel, seen, woken, late>>

(* RequestAuth, under authLock...                                          *)
RequestAuth(g) ==
  /\ at[g] = "start"
  /\ IF Authed = Nil THEN made' = made + 1 /\ Authed' = made + 1 ELSE UNCHANGED <<made, Authed>>
  /\ Goto(g, "challenge")
  /\ UNCHANGED <<closed, AuthedPublicKey, challenged, todo, channel, seen, woken, late>>

(* ...and then it sends the challenge.  Who called it goes on to wait for  *)
(* the channel, or does not.                                               *)
SendChallenge(g) ==
  /\ at[g] = "challenge"
  /\ challenged' = TRUE
  /\ Goto(g, "look") \/ Goto(g, "done")
  /\ UNCHANGED <<Authed, made, closed, AuthedPublicKey, todo, channel, seen, woken, late>>

(* <-ws.Authed: the field is read, without the lock, by who asked or by    *)
(* another...                                                              *)
Look(g) ==
  /\ at[g] \in {"start", "look"}
  /\ channel' = [channel EXCEPT ![g] = Authed]
  /\ Goto(g, "wait")
  /\ UNCHANGED <<Authed, made, closed, AuthedPublicKey, challenged, todo, seen, woken, late>>

(* ...and what was read is waited for; nobody ever closes nil.             *)
Wake(g) ==
  /\ at[g] = "wait"
  /\ channel[g] \in closed
  /\ woken' = woken \cup {g}
  /\ late' = IF Whole(AuthedPublicKey) THEN late \cup {g} ELSE late
  /\ Goto(g, "read")
  /\ UNCHANGED <<Authed, made, closed, AuthedPublicKey, challenged, todo, channel, seen>>

(* GetAuthed, by a handler that did not wait: at any time.                 *)
GetAuthed(g) ==
  /\ at[g] = "start"
  /\ late' = IF Whole(AuthedPublicKey) THEN late \cup {g} ELSE late
  /\ Goto(g, "read")
  /\ UNCHANGED <<Authed, made, closed, AuthedPublicKey, challenged, todo, channel, seen, woken>>

(* A word of AuthedPublicKey is loaded.                                    *)
LoadWord(g, w) ==
  /\ at[g] = "read"
  /\ w \in todo[g]
  /\ seen' = [seen EXCEPT ![g] = [@ EXCEPT ![w] = AuthedPublicKey[w]]]
  /\ todo' = [todo EXCEPT ![g] = @ \ {w}]
  /\ Goto(g, IF todo[g] = {w} THEN "done" ELSE "read")
  /\ UNCHANGED <<Authed, made, closed, AuthedPublicKey, challenged, channel, woken, late>>

-----------------------------------------------------------------------------
\* Mutant: the channel is closed before the key is written.
AuthClosesFirst(a) ==
  /\ at[a] = "start"
  /\ \/ /\ challenged
        /\ Goto(a, "store")
        /\ closed' = IF Authed = Nil THEN closed ELSE closed \cup {Authed}
        /\ Authed' = Nil
     \/ Goto(a, "done") /\ UNCHANGED <<closed, Authed>>
  /\ UNCHANGED <<made, AuthedPublicKey, challenged, todo, channel, seen, woken, late>>

(* An AUTH message is handled.  Who does not know the challenge can not    *)
(* answer it; who does may get it wrong.                                   *)
Auth(a) ==
  /\ at[a] = "start"
  /\ (challenged /\ Goto(a, "store")) \/ Goto(a, "done")
  /\ UNCHANGED <<Authed, made, closed, AuthedPublicKey, challenged, todo, channel, seen, woken, late>>

(* A word of AuthedPublicKey is stored.                                    *)
StoreWord(a, w) ==
  /\ at[a] = "store"
  /\ w \in todo[a]
  /\ AuthedPublicKey' = [AuthedPublicKey EXCEPT ![w] = Word(KeyOf[a], w)]
  /\ todo' = [todo EXCEPT ![a] = @ \ {w}]
  /\ Goto(a, IF todo[a] = {w} THEN "close" ELSE "store")
  /\ UNCHANGED <<Authed, made, closed, challenged, channel, seen, woken, late>>

\* Mutant: the channel is not set to nil.
CloseAuthedKeeps(a) ==
  /\ at[a] = "close"
  /\ closed' = IF Authed = Nil THEN closed ELSE closed \cup {Authed}
  /\ Goto(a, "done")
  /\ UNCHANGED <<Authed, made, AuthedPublicKey, challenged, todo, channel, seen, woken, late>>

(* The channel is closed and set to nil, under authLock.                   *)
CloseAuthed(a) ==
  /\ at[a] = "close"
  /\ closed' = IF Authed = Nil THEN closed ELSE closed \cup {Authed}
  /\ Authed' = Nil
  /\ Goto(a, "done")
  /\ UNCHANGED <<made, AuthedPublicKey, challenged, todo, channel, seen, woken, late>>

-----------------------------------------------------------------------------
Next ==
  \/ \E g \in Goroutines :
       \/ RequestAuth(g) \/ SendChallenge(g) \/ Look(g) \/ Wake(g) \/ GetAuthed(g)
       \/ \E w \in Words : LoadWord(g, w)
  \/ \E a \in Auths :
       \/ Auth(a) \/ CloseAuthed(a)
       \/ \E w \in Words : StoreWord(a, w)

Spec == Init /\ [][Next]_vars

-----------------------------------------------------------------------------
(* Properties                                                              *)

\* The channel in the field is never a closed one: the next AUTH would close it again and panic
\* (handlers.go:333-336).
TypeOK ==
  /\ made \in Nat
  /\ closed \subseteq 1..made
  /\ Authed \in (0..made) \ closed
  /\ AuthedPublicKey \in [Words -> Keys \cup {Blank, "full"}]
  /\ challenged \in BOOLEAN
  /\ at \in [Goroutines \cup Auths ->
               {"start", "challenge", "look", "wait", "read", "store", "close", "done"}]
  /\ todo \in [Goroutines \cup Auths -> SUBSET Words]
  /\ channel \in [Goroutines -> 0..made]
  /\ seen \in [Goroutines -> [Words -> Keys \cup {Blank, "full"}]]
  /\ woken \subseteq Goroutines /\ late \subseteq Goroutines

\* No channel is lost: whoever waits for one is woken already or by the next AUTH, however many
\* ask for authentication and authenticate at the same time.  Only who looked when there was none
\* waits for nothing (utils.go:19-23, handlers.go:332-337).
WaitersAreWoken ==
  \A g \in Goroutines :
    at[g] = "wait" /\ channel[g] # Nil => channel[g] \in closed \cup {Authed}

\* Whoever was woken reads a public key, whole, and so does every handler that begins to read when
\* one was there, though other AUTH messages write the two words meanwhile.  Only a read that meets
\* the first AUTH of the connection can be torn (handlers.go:331-335, utils.go:35-43).
ReadKeysAreWhole ==
  \A g \in woken \cup late : at[g] = "done" => Whole(seen[g])
=============================================================================
