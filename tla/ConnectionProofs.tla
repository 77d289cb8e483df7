-------------------------- MODULE ConnectionProofs --------------------------
(***************************************************************************)
(* For any REQs, filters, query functions and broadcasts under way: an     *)
(* EOSE comes after all that was stored; a broadcast that begins after it  *)
(* reaches the client, unless additions and removals both meet it; a       *)
(* closed id is quiet; a client sees of it what ClientView says.           *)
(* Of the websocket under it, for any number of goroutines: one at a time  *)
(* writes, and nothing stays when it ends.  Session has the names of its   *)
(* definitions to itself, since both are extended here.                    *)
(***************************************************************************)
EXTENDS Connection, Session, FiniteSetTheorems, TLAPS

Steps == {"unsent", "filter", "query", "listen", "reject", "wait", "eose", "closed"}
place == [at : Steps, i : Nat, q : Nat]
stream == [filter : Nat, query : Nat, left : SUBSET Events]

Types ==
  /\ connected \in BOOLEAN /\ authed \in BOOLEAN
  /\ told \subseteq stored /\ stored \subseteq Events
  /\ run \in [Requests -> place]
  /\ eose \in [Requests -> Int]
  /\ streams \in [Requests -> SUBSET stream]
  /\ got \in [Requests -> SUBSET Events]
  /\ before \in [Requests -> SUBSET stored] /\ \A r \in Requests : before[r] \subseteq Recalled(r)
  /\ \A l \in listeners : \E r \in Requests : l \in {r} \X (1..Len(Filters[r]))
  /\ cancelled \cup failed \cup closed \subseteq Requests
  /\ closing \cup quiet \subseteq Ids

\* Where the handler of r can be.
PlaceOK(r) ==
  /\ run[r].at \in {"filter", "query", "listen", "reject", "closed"} => run[r].i \in 1..Len(Filters[r])
  /\ run[r].at = "query" => run[r].q \in 1..(Queries + 1)
  /\ run[r].at = "unsent" => run[r].i = 1 /\ streams[r] = {}
  /\ run[r].at = "eose" => streams[r] = {}

\* There is one answer for each filter and query function the handler has put the question to.
StreamsOK(r) ==
  /\ \A s \in streams[r] :
       /\ s.filter \in 1..Len(Filters[r]) /\ s.query \in 1..Queries
       /\ run[r].at = "filter" => s.filter < run[r].i
       /\ run[r].at = "query" => s.filter < run[r].i \/ (s.filter = run[r].i /\ s.query < run[r].q)
       /\ run[r].at = "listen" => s.filter <= run[r].i
  /\ \A s, t \in streams[r] : s.filter = t.filter /\ s.query = t.query => s = t

\* The answers that are being written, and what the handler has counted in advance.
Open(r) == {<<s.filter, s.query>> : s \in streams[r]}

Undone(r) ==
  IF run[r].at = "filter" THEN Len(Filters[r]) - run[r].i + 1
  ELSE IF run[r].at = "query" THEN (Len(Filters[r]) - run[r].i + 1) + (Queries - run[r].q + 1)
  ELSE IF run[r].at \in {"listen", "reject", "closed"} THEN Len(Filters[r]) - run[r].i
  ELSE 0

CountOK(r) == eose[r] = Undone(r) + Cardinality(Open(r))

\* The filters of which a query function was asked.
Asked(r, i) ==
  \/ run[r].at \in {"wait", "eose"}
  \/ run[r].at # "unsent" /\ i < run[r].i
  \/ i = run[r].i /\ run[r].at = "listen"
  \/ i = run[r].i /\ run[r].at = "query" /\ run[r].q > 1

AnsweredOK(r) ==
  r \notin failed \cup cancelled =>
    \A i \in 1..Len(Filters[r]) : ~Filters[r][i].zero /\ Asked(r, i) =>
      \A e \in before[r] \cap Filters[r][i].matches :
        e \in got[r] \/ \E s \in streams[r] : s.filter = i /\ e \in s.left

\* The REQs of a client that is gone are cancelled, and it has no listeners.
GoneOK == connected = FALSE => cancelled = Requests /\ listeners = {}

Listened(r, i) == run[r].at \in {"wait", "eose"} \/ i < run[r].i

ListenOK(r) ==
  connected = TRUE /\ r \notin closed =>
    \A i \in 1..Len(Filters[r]) : Listened(r, i) => <<r, i>> \in listeners

QuietOK(r) ==
  Sub[r] \in quiet /\ run[r].at # "unsent" =>
    run[r].at = "eose" /\ \A l \in listeners : l[1] # r

HandlerOK(r) == PlaceOK(r) /\ StreamsOK(r) /\ CountOK(r) /\ AnsweredOK(r)

ListensOK(r) == ListenOK(r) /\ QuietOK(r)

IInv == Types /\ GoneOK /\ \A r \in Requests : HandlerOK(r) /\ ListensOK(r)
-----------------------------------------------------------------------------
(* Lemmas about the constants and the moves of a handler.                  *)

LEMMA FilterCounts ==
  ASSUME NEW r \in Requests
  PROVE  /\ Len(Filters[r]) \in Nat
         /\ Queries \in Nat /\ Queries >= 1
         /\ Filters[r] = <<>> <=> Len(Filters[r]) = 0
BY FiltersAssumption, BoundsAssumption

\* The handler of r goes to the place p, and the others stay.
Moves(r, p) ==
  /\ run' \in [Requests -> place]
  /\ run'[r] = p /\ run'[r].at = p.at /\ run'[r].i = p.i /\ run'[r].q = p.q
  /\ \A o \in Requests \ {r} : run'[o] = run[o]

LEMMA PlaceIs ==
  ASSUME Types, NEW r \in Requests
  PROVE  run[r] \in place /\ run[r].at \in Steps /\ run[r].i \in Nat /\ run[r].q \in Nat
BY DEF Types, place

\* A handler counts no less than nothing in advance (responding.go:38).
LEMMA UndoneIsNat ==
  ASSUME Types, NEW r \in Requests, PlaceOK(r)
  PROVE  Undone(r) \in Nat
<1> DEFINE n == Len(Filters[r])
           p == run[r]
<1>1. /\ p.at \in {"filter", "query", "listen", "reject", "closed"} => p.i \in 1..n
      /\ p.at = "query" => p.q \in 1..(Queries + 1)
      /\ n \in Nat /\ Queries \in Nat
  BY FilterCounts DEF PlaceOK
<1>2. Undone(r) =
        IF p.at = "filter" THEN n - p.i + 1
        ELSE IF p.at = "query" THEN (n - p.i + 1) + (Queries - p.q + 1)
        ELSE IF p.at \in {"listen", "reject", "closed"} THEN n - p.i
        ELSE 0
  BY DEF Undone
<1> HIDE DEF n, p
<1>3. CASE p.at = "filter"
  BY <1>1, <1>2, <1>3
<1>4. CASE p.at = "query"
  <2>1. p.i \in 1..n /\ p.q \in 1..(Queries + 1) /\ Undone(r) = (n - p.i + 1) + (Queries - p.q + 1)
    BY <1>1, <1>2, <1>4
  <2> QED
    BY <1>1, <2>1
<1>5. CASE p.at \in {"listen", "reject", "closed"}
  <2>1. p.i \in 1..n /\ Undone(r) = n - p.i
    BY <1>1, <1>2, <1>5
  <2> QED
    BY <1>1, <2>1
<1>6. CASE p.at \notin {"filter", "query", "listen", "reject", "closed"}
  BY <1>2, <1>6
<1> QED
  BY <1>3, <1>4, <1>5, <1>6

LEMMA GotoMoves ==
  ASSUME Types, NEW r \in Requests, NEW step \in Steps, Goto(r, step)
  PROVE  Moves(r, [at |-> step, i |-> run[r].i, q |-> run[r].q])
BY PlaceIs DEF Types, Goto, Moves, place

LEMMA AsksMoves ==
  ASSUME Types, NEW r \in Requests, run' = [run EXCEPT ![r].at = "query", ![r].q = 1]
  PROVE  Moves(r, [at |-> "query", i |-> run[r].i, q |-> 1])
BY PlaceIs DEF Types, Moves, place, Steps

LEMMA AskedMoves ==
  ASSUME Types, NEW r \in Requests, run' = [run EXCEPT ![r].q = @ + 1]
  PROVE  Moves(r, [at |-> run[r].at, i |-> run[r].i, q |-> run[r].q + 1])
BY PlaceIs DEF Types, Moves, place, Steps

LEMMA NextMoves ==
  ASSUME Types, NEW r \in Requests, run' = [run EXCEPT ![r].at = "filter", ![r].i = @ + 1]
  PROVE  Moves(r, [at |-> "filter", i |-> run[r].i + 1, q |-> run[r].q])
<1> DEFINE p == [at |-> "filter", i |-> run[r].i + 1, q |-> run[r].q]
           mid == [run EXCEPT ![r].at = "filter"]
<1>1. /\ mid \in [Requests -> place] /\ mid[r] = [at |-> "filter", i |-> run[r].i, q |-> run[r].q]
      /\ \A o \in Requests \ {r} : mid[o] = run[o]
  BY PlaceIs DEF Types, place, Steps
<1>2. run' = [mid EXCEPT ![r].i = @ + 1]
  OBVIOUS
<1> HIDE DEF mid
<1>3. run' \in [Requests -> place] /\ run'[r] = p /\ \A o \in Requests \ {r} : run'[o] = run[o]
  BY <1>1, <1>2, PlaceIs DEF place
<1> QED
  BY <1>3 DEF Moves

LEMMA DoneCounts ==
  ASSUME Types, NEW r \in Requests, Done(r)
  PROVE  /\ eose' \in [Requests -> Int] /\ eose'[r] = eose[r] - 1
         /\ \A o \in Requests \ {r} : eose'[o] = eose[o]
BY DEF Types, Done

\* Nothing of the answer of o changes.
Still(o) ==
  /\ run'[o] = run[o] /\ eose'[o] = eose[o] /\ streams'[o] = streams[o] /\ before'[o] = before[o]
  /\ failed \subseteq failed' /\ cancelled \subseteq cancelled' /\ got[o] \subseteq got'[o]

LEMMA StillKeeps ==
  ASSUME NEW o \in Requests, HandlerOK(o), Still(o)
  PROVE  HandlerOK(o)'
<1>1. PlaceOK(o)'
  BY DEF HandlerOK, Still, PlaceOK
<1>2. StreamsOK(o)'
  BY DEF HandlerOK, Still, StreamsOK
<1>3. CountOK(o)'
  BY DEF HandlerOK, Still, CountOK, Undone, Open
<1>4. AnsweredOK(o)'
  BY DEF HandlerOK, Still, AnsweredOK, Asked
<1> QED
  BY <1>1, <1>2, <1>3, <1>4 DEF HandlerOK

\* The answers of a REQ that are being written are finitely many.
LEMMA OpenIsFinite ==
  ASSUME NEW r \in Requests, StreamsOK(r)
  PROVE  IsFiniteSet(Open(r)) /\ Cardinality(Open(r)) \in Nat
<1> DEFINE all == (1..Len(Filters[r])) \X (1..Queries)
<1>1. IsFiniteSet(1..Len(Filters[r])) /\ IsFiniteSet(1..Queries)
  BY FilterCounts, FS_Interval
<1>2. IsFiniteSet(all)
  BY <1>1, FS_Product
<1>3. Open(r) \subseteq all
  BY DEF Open, StreamsOK
<1> HIDE DEF all
<1> QED
  BY <1>2, <1>3, FS_Subset, FS_CardinalityType

\* The steps of broadcasts.
Broadcasting ==
  \/ \E e \in Events : BroadcastEvent(e) \/ NotifyListener(e) \/ BroadcastEnd(e) \/ Overrun(e)
  \/ OthersWrite

\* They write to the client, and leave its REQs and listeners alone.
LEMMA BroadcastingLeaves ==
  ASSUME Types, Broadcasting
  PROVE  /\ connected' = connected /\ stored' = stored /\ run' = run /\ eose' = eose
         /\ streams' = streams /\ failed' = failed /\ cancelled' = cancelled
         /\ listeners' = listeners /\ closing' = closing /\ authed' = authed /\ spent' = spent
         /\ before' = before /\ closed' = closed /\ quiet' = quiet
         /\ told \subseteq told' /\ told' \subseteq stored
         /\ got' \in [Requests -> SUBSET Events] /\ \A r \in Requests : got[r] \subseteq got'[r]
<1>1. ASSUME NEW e \in Events, NotifyListener(e)
      PROVE  /\ got' \in [Requests -> SUBSET Events] /\ \A r \in Requests : got[r] \subseteq got'[r]
             /\ told' = told
  <2>1. PICK r : got' = [got EXCEPT ![r] = @ \cup {e}]
    BY <1>1 DEF NotifyListener
  <2> QED
    BY <1>1, <2>1 DEF NotifyListener, broadcasts, Types
<1>2. ASSUME NEW e \in Events, BroadcastEvent(e) \/ BroadcastEnd(e) \/ Overrun(e) \/ OthersWrite
      PROVE  got' = got /\ (told' = told \/ (e \in stored /\ told' = told \cup {e}))
  BY <1>2 DEF BroadcastEvent, BroadcastEnd, Overrun, OthersWrite
<1>3. OthersWrite => got' = got /\ told' = told
  BY DEF OthersWrite
<1>4. UNCHANGED <<connected, stored, answer, cancelled, listeners, closing, authed, spent, ghosts>>
  BY DEF Broadcasting, BroadcastEvent, NotifyListener, BroadcastEnd, Overrun, OthersWrite
<1> QED
  BY <1>1, <1>2, <1>3, <1>4 DEF Broadcasting, Types, answer, ghosts

-----------------------------------------------------------------------------
(* Types.                                                                  *)

LEMMA InitTypes ==
  ASSUME Init
  PROVE  Types
<1>1. run \in [Requests -> place]
  BY DEF Init, place, Steps
<1>2. streams \in [Requests -> SUBSET stream] /\ got \in [Requests -> SUBSET Events]
  BY DEF Init
<1>3. eose \in [Requests -> Int] /\ before \in [Requests -> SUBSET stored]
  BY DEF Init
<1> QED
  BY <1>1, <1>2, <1>3, EventsAssumption DEF Init, Types

LEMMA TypesStay ==
  ASSUME Types, Next, \A r \in Requests : PlaceOK(r)
  PROVE  Types'
<1>1. ASSUME NEW r \in Requests, Req(r)
      PROVE  Types'
  <2>1. run' \in [Requests -> place]
    <3>1. CASE Filters[r] = <<>>
      BY <1>1, <3>1, GotoMoves DEF Req, Moves, Steps
    <3>2. CASE Filters[r] # <<>>
      BY <1>1, <3>2, GotoMoves DEF Req, Moves, Steps
    <3> QED
      BY <3>1, <3>2
  <2>2. eose' \in [Requests -> Int] /\ before' \in [Requests -> SUBSET stored]
    BY <1>1, FilterCounts DEF Req, Types
  <2> QED
    BY <1>1, <2>1, <2>2 DEF Req, Types
<1>2. ASSUME NEW r \in Requests, HandleFilter(r)
      PROVE  Types'
  <2>1. run' \in [Requests -> place]
    BY <1>2, GotoMoves, AsksMoves DEF HandleFilter, Moves, Steps
  <2>2. eose' \in [Requests -> Int]
    BY <1>2, DoneCounts, FilterCounts DEF HandleFilter, Types
  <2> QED
    BY <1>2, <2>1, <2>2 DEF HandleFilter, Types, ghosts, broadcasts
<1>3. ASSUME NEW r \in Requests, Query(r)
      PROVE  Types'
  <2>1. run' \in [Requests -> place]
    BY <1>3, AskedMoves DEF Query, Moves
  <2>2. eose' \in [Requests -> Int]
    BY <1>3, DoneCounts DEF Query, Types
  <2>3. streams' \in [Requests -> SUBSET stream]
    <3> DEFINE found == stored \cap Filter(r).matches
               new == [filter |-> run[r].i, query |-> run[r].q, left |-> found]
    <3>1. new \in stream
      BY PlaceIs DEF Types, stream
    <3>2. streams' = [streams EXCEPT ![r] = @ \cup {new}] \/ streams' = streams
      BY <1>3 DEF Query
    <3> HIDE DEF new
    <3> QED
      BY <3>1, <3>2 DEF Types
  <2>4. failed' \subseteq Requests
    BY <1>3 DEF Query, Types
  <2> QED
    BY <1>3, <2>1, <2>2, <2>3, <2>4 DEF Query, Types, ghosts, broadcasts
<1>4. ASSUME NEW r \in Requests, QueriesEnd(r)
      PROVE  Types'
  <2>1. run' \in [Requests -> place] /\ eose' \in [Requests -> Int]
    BY <1>4, GotoMoves, DoneCounts DEF QueriesEnd, Moves, Steps
  <2> QED
    BY <1>4, <2>1 DEF QueriesEnd, Types, ghosts, broadcasts
<1>5. ASSUME NEW r \in Requests, AddListener(r), PlaceOK(r)
      PROVE  Types'
  <2>1. run' \in [Requests -> place]
    <3>1. CASE run[r].i < Len(Filters[r])
      BY <1>5, <3>1, NextMoves DEF AddListener, Moves
    <3>2. CASE ~(run[r].i < Len(Filters[r]))
      BY <1>5, <3>2, GotoMoves DEF AddListener, Moves, Goto, Steps
    <3> QED
      BY <3>1, <3>2
  <2>2. run[r].i \in 1..Len(Filters[r])
    BY <1>5 DEF PlaceOK, AddListener
  <2>3. \A l \in listeners' : \E o \in Requests : l \in {o} \X (1..Len(Filters[o]))
    BY <1>5, <2>2 DEF AddListener, Types
  <2> QED
    BY <1>5, <2>1, <2>3 DEF AddListener, Types, ghosts
<1>6. ASSUME NEW r \in Requests, Reject(r)
      PROVE  Types'
  <2>1. run' \in [Requests -> place]
    BY <1>6, GotoMoves DEF Reject, Moves, Steps
  <2> QED
    BY <1>6, <2>1 DEF Reject, Types, ghosts, broadcasts
<1>7. ASSUME NEW r \in Requests, Stream(r)
      PROVE  Types'
  <2> PICK s \in streams[r] : \E e \in s.left :
        /\ streams' = [streams EXCEPT ![r] = (@ \ {s}) \cup {[s EXCEPT !.left = @ \ {e}]}]
        /\ got' = IF connected THEN [got EXCEPT ![r] = @ \cup {e}] ELSE got
    BY <1>7 DEF Stream
  <2> PICK e \in s.left :
        /\ streams' = [streams EXCEPT ![r] = (@ \ {s}) \cup {[s EXCEPT !.left = @ \ {e}]}]
        /\ got' = IF connected THEN [got EXCEPT ![r] = @ \cup {e}] ELSE got
    OBVIOUS
  <2>1. s \in stream
    BY DEF Types
  <2>2. e \in Events /\ [s EXCEPT !.left = @ \ {e}] \in stream
    BY <2>1 DEF stream
  <2>3. streams' \in [Requests -> SUBSET stream]
    BY <2>2 DEF Types
  <2>4. got' \in [Requests -> SUBSET Events]
    BY <2>2 DEF Types
  <2> QED
    BY <1>7, <2>3, <2>4 DEF Stream, Types, ghosts, broadcasts
<1>8. ASSUME NEW r \in Requests, StreamEnd(r)
      PROVE  Types'
  <2>1. streams' \in [Requests -> SUBSET stream] /\ eose' \in [Requests -> Int]
    BY <1>8, DoneCounts DEF StreamEnd, Types
  <2> QED
    BY <1>8, <2>1 DEF StreamEnd, Types, ghosts, broadcasts
<1>9. ASSUME NEW r \in Requests, Eose(r)
      PROVE  Types'
  <2>1. run' \in [Requests -> place]
    BY <1>9, GotoMoves DEF Eose, Moves, Steps
  <2> QED
    BY <1>9, <2>1 DEF Eose, Types, ghosts, broadcasts
<1>10. ASSUME NEW id \in Ids, SendClose(id)
       PROVE  Types'
  BY <1>10 DEF SendClose, Types, answer, ghosts, broadcasts
<1>11. ASSUME NEW id \in Ids, Close(id)
       PROVE  Types'
  <2>1. \A l \in Closed(id) : l[1] \in Requests
    BY DEF Closed, Types
  <2>2. cancelled' \subseteq Requests /\ closed' \subseteq Requests
    BY <1>11, <2>1 DEF Close, Types
  <2> QED
    BY <1>11, <2>2 DEF Close, Types, answer
<1>12. CASE Disconnect
  BY <1>12 DEF Disconnect, Types, answer, ghosts, broadcasts
<1>13. CASE Authenticate
  BY <1>13 DEF Authenticate, Types, answer, ghosts, broadcasts
<1>14. ASSUME NEW e \in Events, SaveEvent(e)
       PROVE  Types'
  BY <1>14 DEF SaveEvent, Types, answer, ghosts, broadcasts
<1>15. CASE Broadcasting
  BY <1>15, BroadcastingLeaves DEF Types
<1> QED
  BY <1>1, <1>2, <1>3, <1>4, <1>5, <1>6, <1>7, <1>8, <1>9, <1>10, <1>11, <1>12, <1>13, <1>14, <1>15
     DEF Next, Handle, Broadcasting

-----------------------------------------------------------------------------
(* The handlers: what each of their steps does to the count and to what is *)
(* still to be written.                                                    *)

LEMMA ReqKeeps ==
  ASSUME Types, NEW r \in Requests, HandlerOK(r), Req(r)
  PROVE  HandlerOK(r)' /\ \A o \in Requests \ {r} : Still(o)
<1> DEFINE step == IF Filters[r] = <<>> THEN "wait" ELSE "filter"
<1>1. run'[r].at = step /\ run'[r].i = 1 /\ \A o \in Requests \ {r} : run'[o] = run[o]
  <2>1. step \in Steps /\ Goto(r, step) /\ run[r].i = 1
    BY DEF Req, Steps, HandlerOK, PlaceOK
  <2> HIDE DEF step
  <2> QED
    BY <2>1, GotoMoves DEF Moves
<1>2. streams'[r] = {} /\ eose'[r] = Len(Filters[r])
  BY DEF Req, HandlerOK, PlaceOK, Types
<1>3. Cardinality(Open(r)') = 0
  BY <1>2, FS_EmptySet DEF Open
<1>4. PlaceOK(r)'
  BY <1>1, <1>2, FilterCounts DEF PlaceOK
<1>5. StreamsOK(r)'
  BY <1>2 DEF StreamsOK
<1>6. CountOK(r)'
  BY <1>1, <1>2, <1>3, FilterCounts DEF CountOK, Undone
<1>7. AnsweredOK(r)'
  BY <1>1, FilterCounts DEF AnsweredOK, Asked
<1>8. ASSUME NEW o \in Requests \ {r}
      PROVE  Still(o)
  BY <1>1, <1>8 DEF Req, Still, Types
<1> QED
  BY <1>4, <1>5, <1>6, <1>7, <1>8 DEF HandlerOK

LEMMA HandleFilterKeeps ==
  ASSUME Types, NEW r \in Requests, HandlerOK(r), HandleFilter(r)
  PROVE  HandlerOK(r)' /\ \A o \in Requests \ {r} : Still(o)
<1> DEFINE n == Len(Filters[r])
<1>1. /\ run[r].at = "filter" /\ run[r].i \in 1..n /\ n \in Nat
      /\ eose[r] \in Int /\ eose[r] = (n - run[r].i + 1) + Cardinality(Open(r))
      /\ streams'[r] = streams[r] /\ Open(r)' = Open(r)
      /\ IsFiniteSet(Open(r)) /\ Cardinality(Open(r)) \in Nat
  BY OpenIsFinite, FilterCounts DEF HandlerOK, PlaceOK, CountOK, Undone, HandleFilter, Open, Types
<1>2. /\ run'[r].i = run[r].i /\ \A o \in Requests \ {r} : run'[o] = run[o] /\ eose'[o] = eose[o]
      /\ \/ run'[r].at = "listen" /\ eose'[r] = eose[r] - 1
         \/ run'[r].at = "reject" /\ eose'[r] = eose[r] - 1
         \/ run'[r].at = "query" /\ run'[r].q = 1 /\ eose'[r] = eose[r] + Queries
  <2>1. CASE Filter(r).zero /\ Goto(r, "listen") /\ Done(r)
    BY <2>1, GotoMoves, DoneCounts DEF Moves, Steps
  <2>2. CASE Goto(r, "reject") /\ Done(r)
    BY <2>2, GotoMoves, DoneCounts DEF Moves, Steps
  <2>3. CASE /\ run' = [run EXCEPT ![r].at = "query", ![r].q = 1]
             /\ eose' = [eose EXCEPT ![r] = @ + Queries]
    <3>1. /\ run'[r].at = "query" /\ run'[r].q = 1 /\ run'[r].i = run[r].i
          /\ \A o \in Requests \ {r} : run'[o] = run[o]
      BY <2>3, AsksMoves DEF Moves
    <3>2. eose'[r] = eose[r] + Queries /\ \A o \in Requests \ {r} : eose'[o] = eose[o]
      BY <2>3 DEF Types
    <3> QED
      BY <3>1, <3>2
  <2> QED
    BY <2>1, <2>2, <2>3 DEF HandleFilter
<1>3. PlaceOK(r)'
  BY <1>1, <1>2, FilterCounts DEF PlaceOK
<1>4. StreamsOK(r)'
  BY <1>1, <1>2, FilterCounts DEF StreamsOK, HandlerOK
<1>5. CountOK(r)'
  <2>1. CASE run'[r].at \in {"listen", "reject"} /\ eose'[r] = eose[r] - 1
    BY <1>1, <1>2, <2>1 DEF Undone, CountOK
  <2>2. CASE run'[r].at = "query" /\ run'[r].q = 1 /\ eose'[r] = eose[r] + Queries
    <3>1. Undone(r)' = (n - run[r].i + 1) + Queries
      BY <1>1, <1>2, <2>2, FilterCounts DEF Undone
    <3> HIDE DEF n
    <3> QED
      BY <1>1, <2>2, <3>1, FilterCounts DEF CountOK
  <2> QED
    BY <1>2, <2>1, <2>2
<1>6. AnsweredOK(r)'
  <2>1. \A i \in 1..n : ~Filters[r][i].zero /\ Asked(r, i)' => Asked(r, i)
    <3>1. run'[r].at = "listen" => Filters[r][run[r].i].zero
      <4>1. Goto(r, "reject") => run'[r].at = "reject"
        BY GotoMoves DEF Moves, Steps
      <4>2. run' = [run EXCEPT ![r].at = "query", ![r].q = 1] => run'[r].at = "query"
        BY AsksMoves DEF Moves
      <4> QED
        BY <4>1, <4>2 DEF HandleFilter, Filter
    <3> TAKE j \in 1..n
    <3>2. CASE run'[r].at = "listen" /\ j = run[r].i
      BY <3>1, <3>2
    <3>3. CASE ~(run'[r].at = "listen" /\ j = run[r].i)
      <4>1. Asked(r, j)' => Asked(r, j)
        BY <1>1, <1>2, <3>3 DEF Asked
      <4> QED
        BY <4>1
    <3> QED
      BY <3>2, <3>3
  <2>2. /\ before'[r] = before[r] /\ got'[r] = got[r]
        /\ failed' = failed /\ cancelled' = cancelled
    BY DEF HandleFilter, ghosts
  <2> QED
    BY <1>1, <2>1, <2>2 DEF AnsweredOK, HandlerOK
<1>7. ASSUME NEW o \in Requests \ {r}
      PROVE  Still(o)
  BY <1>2, <1>7 DEF HandleFilter, Still, ghosts
<1> QED
  BY <1>3, <1>4, <1>5, <1>6, <1>7 DEF HandlerOK

LEMMA QueryKeeps ==
  ASSUME Types, NEW r \in Requests, HandlerOK(r), Query(r)
  PROVE  HandlerOK(r)' /\ \A o \in Requests \ {r} : Still(o)
<1> DEFINE n == Len(Filters[r])
           i == run[r].i
           q == run[r].q
           found == stored \cap Filter(r).matches
           new == [filter |-> i, query |-> q, left |-> found]
<1>1. /\ run[r].at = "query" /\ i \in 1..n /\ n \in Nat /\ q \in 1..Queries /\ Queries \in Nat
      /\ eose[r] \in Int
      /\ eose[r] = (n - i + 1) + (Queries - q + 1) + Cardinality(Open(r))
      /\ IsFiniteSet(Open(r)) /\ Cardinality(Open(r)) \in Nat
  BY OpenIsFinite, FilterCounts DEF HandlerOK, PlaceOK, CountOK, Undone, Query, Types
<1>2. /\ run'[r].at = "query" /\ run'[r].i = i /\ run'[r].q = q + 1
      /\ \A o \in Requests \ {r} : run'[o] = run[o]
  BY <1>1, AskedMoves DEF Query, Moves
<1>3. \/ /\ streams'[r] = streams[r] \cup {new} /\ eose' = eose /\ failed' = failed
         /\ \A o \in Requests \ {r} : streams'[o] = streams[o]
      \/ streams' = streams /\ eose'[r] = eose[r] - 1 /\ (found = {} \/ r \in failed')
  BY DoneCounts DEF Query, Types
<1>4. PlaceOK(r)'
  BY <1>1, <1>2 DEF PlaceOK
<1>5. StreamsOK(r)'
  <2>1. \A s \in streams'[r] : s \in streams[r] \/ (s = new /\ s.filter = i /\ s.query = q)
    BY <1>3
  <2>2. \A s \in streams[r] :
          /\ s.filter \in 1..n /\ s.query \in 1..Queries
          /\ s.filter < i \/ (s.filter = i /\ s.query < q)
    BY <1>1 DEF StreamsOK, HandlerOK
  <2>3. \A s, t \in streams[r] : s.filter = t.filter /\ s.query = t.query => s = t
    BY DEF StreamsOK, HandlerOK
  <2>4. \A s \in streams'[r] :
          /\ s.filter \in 1..n /\ s.query \in 1..Queries
          /\ s.filter < i \/ (s.filter = i /\ s.query < q + 1)
    <3>1. i \in 1..n /\ n \in Nat /\ q \in 1..Queries /\ Queries \in Nat
      BY <1>1
    <3> HIDE DEF n, i, q, found, new
    <3>2. ASSUME NEW s \in streams[r]
          PROVE  /\ s.filter \in 1..n /\ s.query \in 1..Queries
                 /\ s.filter < i \/ (s.filter = i /\ s.query < q + 1)
      BY <2>2, <3>1
    <3> QED
      BY <2>1, <3>1, <3>2
  <2>5. \A s, t \in streams'[r] : s.filter = t.filter /\ s.query = t.query => s = t
    <3>1. i \in Nat /\ q \in Nat
      BY <1>1
    <3> HIDE DEF n, i, q, found, new
    <3>2. \A s \in streams[r] : ~(s.filter = i /\ s.query = q)
      BY <2>2, <3>1
    <3> QED
      BY <2>1, <2>3, <3>2
  <2> QED
    BY <1>1, <1>2, <2>4, <2>5 DEF StreamsOK
<1>6. Undone(r)' = (n - i + 1) + (Queries - q)
  BY <1>1, <1>2 DEF Undone
<1>7. CountOK(r)'
  <2>1. CASE streams'[r] = streams[r] \cup {new} /\ eose' = eose
    <3>1. Open(r)' = Open(r) \cup {<<i, q>>}
      <4>1. new.filter = i /\ new.query = q
        OBVIOUS
      <4> HIDE DEF new
      <4> QED
        BY <2>1, <4>1 DEF Open
    <3>2. <<i, q>> \notin Open(r)
      <4>1. \A s \in streams[r] : s.filter < i \/ s.query < q
        BY <1>1 DEF StreamsOK, HandlerOK
      <4>2. i \in Int /\ q \in Int
        BY <1>1
      <4> HIDE DEF n, i, q, found, new
      <4>3. SUFFICES ASSUME NEW s \in streams[r], s.filter = i, s.query = q
                     PROVE  FALSE
        BY DEF Open
      <4> QED
        BY <4>1, <4>2, <4>3
    <3>3. Cardinality(Open(r)') = Cardinality(Open(r)) + 1
      BY <1>1, <3>1, <3>2, FS_AddElement
    <3>4. eose'[r] = eose[r]
      BY <2>1
    <3> HIDE DEF n, i, q, new, found
    <3> QED
      BY <1>1, <3>3, <3>4, <1>6 DEF CountOK
  <2>2. CASE streams' = streams /\ eose'[r] = eose[r] - 1
    <3>1. Open(r)' = Open(r)
      BY <2>2 DEF Open
    <3>2. eose'[r] = eose[r] - 1
      BY <2>2
    <3> HIDE DEF n, i, q, new, found
    <3> QED
      BY <1>1, <3>1, <3>2, <1>6 DEF CountOK
  <2> QED
    BY <1>3, <2>1, <2>2
<1>8. AnsweredOK(r)'
  <2>1. /\ before' = before /\ got' = got /\ cancelled' = cancelled /\ failed \subseteq failed'
        /\ before[r] \subseteq stored /\ streams[r] \subseteq streams'[r]
    BY <1>3 DEF Query, ghosts, Types
  <2> SUFFICES ASSUME r \notin failed' \cup cancelled',
                      NEW j \in 1..n, ~Filters[r][j].zero, Asked(r, j)',
                      NEW e \in before[r] \cap Filters[r][j].matches
               PROVE  e \in got[r] \/ \E s \in streams'[r] : s.filter = j /\ e \in s.left
    BY <2>1 DEF AnsweredOK
  <2>2. CASE Asked(r, j)
    BY <2>1, <2>2 DEF AnsweredOK, HandlerOK
  <2>3. CASE j = i
    <3>1. e \in found
      BY <2>1, <2>3 DEF Filter
    <3>2. streams'[r] = streams[r] \cup {new}
      BY <1>3, <3>1
    <3>3. new \in streams'[r] /\ new.filter = i /\ new.left = found
      BY <3>2
    <3> HIDE DEF new, found
    <3> QED
      BY <2>3, <3>1, <3>3
  <2>4. Asked(r, j) \/ j = i
    BY <1>1, <1>2 DEF Asked
  <2> QED
    BY <2>2, <2>3, <2>4
<1>9. ASSUME NEW o \in Requests \ {r}
      PROVE  Still(o)
  <2>1. eose'[o] = eose[o] /\ streams'[o] = streams[o] /\ failed \subseteq failed'
    BY <1>9, DoneCounts DEF Query, Types
  <2> QED
    BY <1>2, <1>9, <2>1 DEF Query, Still, ghosts
<1> QED
  BY <1>4, <1>5, <1>7, <1>8, <1>9 DEF HandlerOK

LEMMA QueriesEndKeeps ==
  ASSUME Types, NEW r \in Requests, HandlerOK(r), QueriesEnd(r)
  PROVE  HandlerOK(r)' /\ \A o \in Requests \ {r} : Still(o)
<1> DEFINE n == Len(Filters[r])
           i == run[r].i
<1>1. /\ run[r].at = "query" /\ i \in 1..n /\ n \in Nat /\ run[r].q = Queries + 1
      /\ Queries \in Nat /\ Queries >= 1
      /\ eose[r] \in Int /\ Cardinality(Open(r)) \in Nat
      /\ eose[r] = (n - i + 1) + (Queries - run[r].q + 1) + Cardinality(Open(r))
  BY OpenIsFinite, FilterCounts DEF HandlerOK, PlaceOK, CountOK, Undone, QueriesEnd, Types
<1>2. /\ run'[r].at = "listen" /\ run'[r].i = i /\ eose'[r] = eose[r] - 1
      /\ \A o \in Requests \ {r} : run'[o] = run[o] /\ eose'[o] = eose[o]
  BY GotoMoves, DoneCounts DEF QueriesEnd, Moves, Steps
<1>3. /\ streams' = streams /\ before' = before /\ got' = got
      /\ failed' = failed /\ cancelled' = cancelled
  BY DEF QueriesEnd, ghosts
<1>4. PlaceOK(r)'
  BY <1>1, <1>2 DEF PlaceOK
<1>5. StreamsOK(r)'
  <2>1. \A s \in streams[r] :
          s.filter \in 1..n /\ s.query \in 1..Queries /\ (s.filter < i \/ s.filter = i)
    BY <1>1 DEF StreamsOK, HandlerOK
  <2>2. \A s, t \in streams[r] : s.filter = t.filter /\ s.query = t.query => s = t
    BY DEF StreamsOK, HandlerOK
  <2>3. \A s \in streams[r] :
          s.filter \in 1..n /\ s.query \in 1..Queries /\ s.filter <= i
    <3>1. i \in Nat
      BY <1>1
    <3> HIDE DEF n, i
    <3> QED
      BY <2>1, <3>1
  <2> QED
    BY <1>2, <1>3, <2>2, <2>3 DEF StreamsOK
<1>6. CountOK(r)'
  <2>1. Open(r)' = Open(r) /\ Undone(r)' = n - i
    BY <1>2, <1>3 DEF Open, Undone
  <2> HIDE DEF n, i
  <2> QED
    BY <1>1, <1>2, <2>1 DEF CountOK
<1>7. AnsweredOK(r)'
  <2>1. \A j \in 1..n : Asked(r, j)' => Asked(r, j)
    BY <1>1, <1>2 DEF Asked
  <2> QED
    BY <1>3, <2>1 DEF AnsweredOK, HandlerOK
<1>8. ASSUME NEW o \in Requests \ {r}
      PROVE  Still(o)
  BY <1>2, <1>3, <1>8 DEF Still
<1> QED
  BY <1>4, <1>5, <1>6, <1>7, <1>8 DEF HandlerOK

\* The handler goes to the next filter, or waits.
LEMMA AddListenerMoves ==
  ASSUME Types, NEW r \in Requests, PlaceOK(r), AddListener(r)
  PROVE  /\ \/ /\ run[r].i < Len(Filters[r])
               /\ run'[r].at = "filter" /\ run'[r].i = run[r].i + 1
            \/ run[r].i = Len(Filters[r]) /\ run'[r].at = "wait" /\ run'[r].i = run[r].i
         /\ \A o \in Requests \ {r} : run'[o] = run[o]
<1>1. run[r].i \in 1..Len(Filters[r]) /\ Len(Filters[r]) \in Nat
  BY FilterCounts DEF AddListener, PlaceOK
<1>2. CASE run[r].i < Len(Filters[r])
  BY <1>2, NextMoves DEF AddListener, Moves
<1>3. CASE ~(run[r].i < Len(Filters[r]))
  <2>1. Goto(r, "wait") /\ "wait" \in Steps
    BY <1>3 DEF AddListener, Goto, Steps
  <2>2. /\ run'[r].at = "wait" /\ run'[r].i = run[r].i
        /\ \A o \in Requests \ {r} : run'[o] = run[o]
    BY <2>1, GotoMoves DEF Moves
  <2>3. run[r].i = Len(Filters[r])
    BY <1>1, <1>3
  <2> QED
    BY <2>2, <2>3
<1> QED
  BY <1>2, <1>3

LEMMA AddListenerKeeps ==
  ASSUME Types, NEW r \in Requests, HandlerOK(r), AddListener(r)
  PROVE  HandlerOK(r)' /\ \A o \in Requests \ {r} : Still(o)
<1> DEFINE n == Len(Filters[r])
           i == run[r].i
<1>1. /\ run[r].at = "listen" /\ i \in 1..n /\ n \in Nat
      /\ eose[r] \in Int /\ Cardinality(Open(r)) \in Nat
      /\ eose[r] = (n - i) + Cardinality(Open(r))
  BY OpenIsFinite, FilterCounts DEF HandlerOK, PlaceOK, CountOK, Undone, AddListener, Types
<1>2. /\ \/ i < n /\ run'[r].at = "filter" /\ run'[r].i = i + 1
         \/ i = n /\ run'[r].at = "wait" /\ run'[r].i = i
      /\ \A o \in Requests \ {r} : run'[o] = run[o]
  BY AddListenerMoves DEF HandlerOK
<1>3. /\ streams' = streams /\ before' = before /\ got' = got /\ eose' = eose
      /\ failed' = failed /\ cancelled' = cancelled
  BY DEF AddListener, ghosts
<1>4. PlaceOK(r)'
  BY <1>1, <1>2 DEF PlaceOK
<1>5. StreamsOK(r)'
  <2>1. \A s \in streams[r] : s.filter \in 1..n /\ s.query \in 1..Queries /\ s.filter <= i
    BY <1>1 DEF StreamsOK, HandlerOK
  <2>2. \A s, t \in streams[r] : s.filter = t.filter /\ s.query = t.query => s = t
    BY DEF StreamsOK, HandlerOK
  <2> QED
    BY <1>1, <1>2, <1>3, <2>1, <2>2 DEF StreamsOK
<1>6. CountOK(r)'
  <2>1. Open(r)' = Open(r) /\ Undone(r)' = n - i
    BY <1>1, <1>2, <1>3 DEF Open, Undone
  <2> HIDE DEF n, i
  <2> QED
    BY <1>1, <1>3, <2>1 DEF CountOK
<1>7. AnsweredOK(r)'
  <2>1. \A j \in 1..n : Asked(r, j)' => Asked(r, j)
    BY <1>1, <1>2 DEF Asked
  <2> QED
    BY <1>3, <2>1 DEF AnsweredOK, HandlerOK
<1>8. ASSUME NEW o \in Requests \ {r}
      PROVE  Still(o)
  BY <1>2, <1>3, <1>8 DEF Still
<1> QED
  BY <1>4, <1>5, <1>6, <1>7, <1>8 DEF HandlerOK

LEMMA RejectKeeps ==
  ASSUME Types, NEW r \in Requests, HandlerOK(r), Reject(r)
  PROVE  HandlerOK(r)' /\ \A o \in Requests \ {r} : Still(o)
<1>1. /\ run[r].at = "reject" /\ run'[r].at = "closed" /\ run'[r].i = run[r].i
      /\ \A o \in Requests \ {r} : run'[o] = run[o]
  BY GotoMoves DEF Reject, Moves, Steps
<1>2. /\ streams' = streams /\ before' = before /\ got' = got /\ eose' = eose
      /\ failed' = failed /\ cancelled' = cancelled \cup {r}
  BY DEF Reject, ghosts
<1>3. PlaceOK(r)'
  BY <1>1, <1>2 DEF PlaceOK, HandlerOK
<1>4. StreamsOK(r)'
  BY <1>1, <1>2 DEF StreamsOK, HandlerOK
<1>5. CountOK(r)'
  BY <1>1, <1>2 DEF CountOK, Undone, Open, HandlerOK
<1>6. AnsweredOK(r)'
  BY <1>2 DEF AnsweredOK
<1>7. ASSUME NEW o \in Requests \ {r}
      PROVE  Still(o)
  BY <1>1, <1>2, <1>7 DEF Still
<1> QED
  BY <1>3, <1>4, <1>5, <1>6, <1>7 DEF HandlerOK

LEMMA StreamKeeps ==
  ASSUME Types, GoneOK, NEW r \in Requests, HandlerOK(r), Stream(r)
  PROVE  HandlerOK(r)' /\ \A o \in Requests \ {r} : Still(o)
<1> PICK s \in streams[r] : \E e \in s.left :
      /\ streams' = [streams EXCEPT ![r] = (@ \ {s}) \cup {[s EXCEPT !.left = @ \ {e}]}]
      /\ got' = IF connected THEN [got EXCEPT ![r] = @ \cup {e}] ELSE got
  BY DEF Stream
<1> PICK e \in s.left :
      /\ streams' = [streams EXCEPT ![r] = (@ \ {s}) \cup {[s EXCEPT !.left = @ \ {e}]}]
      /\ got' = IF connected THEN [got EXCEPT ![r] = @ \cup {e}] ELSE got
  OBVIOUS
<1> DEFINE t == [s EXCEPT !.left = @ \ {e}]
<1>1. t.filter = s.filter /\ t.query = s.query /\ t.left = s.left \ {e}
  BY DEF Types, stream
<1>2. /\ streams'[r] = (streams[r] \ {s}) \cup {t}
      /\ \A o \in Requests \ {r} : streams'[o] = streams[o]
  BY DEF Types
<1>3. /\ run' = run /\ eose' = eose /\ before' = before
      /\ failed' = failed /\ cancelled' = cancelled
  BY DEF Stream, ghosts
<1>4. \A o \in Requests : got[o] \subseteq got'[o]
  BY DEF Types
<1>5. \A f, g \in streams[r] : f.filter = g.filter /\ f.query = g.query => f = g
  BY DEF StreamsOK, HandlerOK
<1> HIDE DEF t
<1>6. PlaceOK(r)'
  <2>1. streams[r] # {}
    OBVIOUS
  <2> QED
    BY <1>3, <2>1 DEF PlaceOK, HandlerOK
<1>7. StreamsOK(r)'
  <2>1. \A g \in streams'[r] : \E f \in streams[r] : f.filter = g.filter /\ f.query = g.query
    BY <1>1, <1>2
  <2>2. \A f, g \in streams'[r] : f.filter = g.filter /\ f.query = g.query => f = g
    BY <1>1, <1>2, <1>5
  <2> QED
    BY <1>3, <2>1, <2>2 DEF StreamsOK, HandlerOK
<1>8. CountOK(r)'
  <2>1. Open(r)' = Open(r)
    BY <1>1, <1>2 DEF Open
  <2> QED
    BY <1>3, <2>1 DEF CountOK, Undone, HandlerOK
<1>9. AnsweredOK(r)'
  <2> SUFFICES ASSUME r \notin failed \cup cancelled,
                      NEW j \in 1..Len(Filters[r]), ~Filters[r][j].zero, Asked(r, j),
                      NEW d \in before[r] \cap Filters[r][j].matches
               PROVE  d \in got'[r] \/ \E f \in streams'[r] : f.filter = j /\ d \in f.left
    BY <1>3 DEF AnsweredOK, Asked
  <2>1. d \in got[r] \/ \E f \in streams[r] : f.filter = j /\ d \in f.left
    BY DEF AnsweredOK, HandlerOK
  <2>2. CASE d \in got[r]
    BY <1>4, <2>2
  <2>3. CASE d = e
    <3>1. connected = TRUE
      BY DEF GoneOK, Types
    <3> QED
      BY <2>3, <3>1 DEF Types
  <2>4. ASSUME NEW f \in streams[r], f.filter = j, d \in f.left, d # e
        PROVE  \E g \in streams'[r] : g.filter = j /\ d \in g.left
    BY <1>1, <1>2, <2>4
  <2> QED
    BY <2>1, <2>2, <2>3, <2>4
<1>10. ASSUME NEW o \in Requests \ {r}
       PROVE  Still(o)
  BY <1>2, <1>3, <1>4, <1>10 DEF Still
<1> QED
  BY <1>6, <1>7, <1>8, <1>9, <1>10 DEF HandlerOK

LEMMA StreamEndKeeps ==
  ASSUME Types, NEW r \in Requests, HandlerOK(r), StreamEnd(r)
  PROVE  HandlerOK(r)' /\ \A o \in Requests \ {r} : Still(o)
<1> PICK s \in streams[r] :
      /\ s.left = {} \/ r \in cancelled
      /\ streams' = [streams EXCEPT ![r] = @ \ {s}]
  BY DEF StreamEnd
<1>1. /\ streams'[r] = streams[r] \ {s}
      /\ \A o \in Requests \ {r} : streams'[o] = streams[o]
  BY DEF Types
<1>2. /\ run' = run /\ got' = got /\ before' = before /\ failed' = failed /\ cancelled' = cancelled
      /\ eose'[r] = eose[r] - 1 /\ \A o \in Requests \ {r} : eose'[o] = eose[o]
  BY DoneCounts DEF StreamEnd, ghosts
<1>3. PlaceOK(r)'
  BY <1>1, <1>2 DEF PlaceOK, HandlerOK
<1>4. StreamsOK(r)'
  BY <1>1, <1>2 DEF StreamsOK, HandlerOK
<1>5. CountOK(r)'
  <2>1. /\ Open(r)' = Open(r) \ {<<s.filter, s.query>>} /\ <<s.filter, s.query>> \in Open(r)
    <3>1. \A t \in streams[r] : t.filter = s.filter /\ t.query = s.query => t = s
      BY DEF StreamsOK, HandlerOK
    <3>2. Open(r)' = {<<t.filter, t.query>> : t \in streams[r] \ {s}}
      BY <1>1 DEF Open
    <3> QED
      BY <3>1, <3>2 DEF Open
  <2>2. IsFiniteSet(Open(r)) /\ Cardinality(Open(r)) \in Nat
    BY OpenIsFinite DEF HandlerOK
  <2>3. Cardinality(Open(r)') = Cardinality(Open(r)) - 1
    <3> DEFINE O == Open(r)
               x == <<s.filter, s.query>>
    <3>1. x \in O /\ IsFiniteSet(O)
      BY <2>1, <2>2
    <3> HIDE DEF O, x
    <3>2. Cardinality(O \ {x}) = Cardinality(O) - 1
      BY <3>1, FS_RemoveElement
    <3> QED
      BY <2>1, <3>2 DEF O, x
  <2>4. Undone(r)' = Undone(r) /\ eose[r] = Undone(r) + Cardinality(Open(r))
    BY <1>2 DEF Undone, CountOK, HandlerOK
  <2>5. Undone(r) \in Nat
    BY UndoneIsNat DEF HandlerOK
  <2> QED
    BY <1>2, <2>2, <2>3, <2>4, <2>5 DEF CountOK
<1>6. AnsweredOK(r)'
  BY <1>1, <1>2 DEF AnsweredOK, Asked, HandlerOK
<1>7. ASSUME NEW o \in Requests \ {r}
      PROVE  Still(o)
  BY <1>1, <1>2, <1>7 DEF Still
<1> QED
  BY <1>3, <1>4, <1>5, <1>6, <1>7 DEF HandlerOK

LEMMA EoseKeeps ==
  ASSUME Types, NEW r \in Requests, HandlerOK(r), Eose(r)
  PROVE  HandlerOK(r)' /\ \A o \in Requests \ {r} : Still(o)
<1>1. /\ run[r].at = "wait" /\ run'[r].at = "eose" /\ eose[r] = 0
      /\ \A o \in Requests \ {r} : run'[o] = run[o]
  BY GotoMoves DEF Eose, Moves, Steps
<1>2. /\ streams' = streams /\ before' = before /\ got' = got /\ eose' = eose
      /\ failed' = failed /\ cancelled' = cancelled
  BY DEF Eose, ghosts
<1>3. streams[r] = {}
  <2>1. Cardinality(Open(r)) = 0 /\ IsFiniteSet(Open(r))
    BY <1>1, OpenIsFinite DEF HandlerOK, CountOK, Undone
  <2>2. Open(r) = {}
    BY <2>1, FS_EmptySet
  <2> QED
    BY <2>2 DEF Open
<1>4. PlaceOK(r)'
  BY <1>1, <1>2, <1>3 DEF PlaceOK
<1>5. StreamsOK(r)'
  BY <1>2, <1>3 DEF StreamsOK
<1>6. CountOK(r)'
  BY <1>1, <1>2 DEF CountOK, Undone, Open, HandlerOK
<1>7. AnsweredOK(r)'
  BY <1>1, <1>2 DEF AnsweredOK, Asked, HandlerOK
<1>8. ASSUME NEW o \in Requests \ {r}
      PROVE  Still(o)
  BY <1>1, <1>2, <1>8 DEF Still
<1> QED
  BY <1>4, <1>5, <1>6, <1>7, <1>8 DEF HandlerOK

LEMMA HandlersStay ==
  ASSUME Types, GoneOK, \A r \in Requests : HandlerOK(r), Next
  PROVE  \A r \in Requests : HandlerOK(r)'
<1>1. ASSUME NEW r \in Requests, Req(r) \/ Handle(r)
      PROVE  HandlerOK(r)' /\ \A o \in Requests \ {r} : Still(o)
  BY <1>1, ReqKeeps, HandleFilterKeeps, QueryKeeps, QueriesEndKeeps, AddListenerKeeps, RejectKeeps,
     StreamKeeps, StreamEndKeeps, EoseKeeps DEF Handle
<1>2. ASSUME NEW r \in Requests, Req(r) \/ Handle(r)
      PROVE  \A o \in Requests : HandlerOK(o)'
  BY <1>1, <1>2, StillKeeps
<1>3. ASSUME \A o \in Requests : Still(o)
      PROVE  \A o \in Requests : HandlerOK(o)'
  BY <1>3, StillKeeps
<1>4. ASSUME NEW id \in Ids, SendClose(id) \/ Close(id)
      PROVE  \A o \in Requests : Still(o)
  BY <1>4 DEF SendClose, Close, Still, answer, ghosts
<1>5. ASSUME Disconnect \/ Authenticate
      PROVE  \A o \in Requests : Still(o)
  BY <1>5 DEF Disconnect, Authenticate, Still, answer, ghosts, Types
<1>6. ASSUME Broadcasting \/ \E e \in Events : SaveEvent(e)
      PROVE  \A o \in Requests : Still(o)
  BY <1>6, BroadcastingLeaves DEF SaveEvent, Still, answer, ghosts
<1> QED
  BY <1>2, <1>3, <1>4, <1>5, <1>6 DEF Next, Broadcasting

-----------------------------------------------------------------------------
(* The listeners.                                                          *)

\* What the steps do to the list of listeners.
LEMMA ListenersMove ==
  ASSUME Types, Next
  PROVE  \/ \E r \in Requests : AddListener(r)
         \/ \E id \in Ids : Close(id)
         \/ Disconnect
         \/ connected' = connected /\ listeners' = listeners /\ closed' = closed
<1>1. ASSUME NEW r \in Requests, Req(r) \/ Handle(r), ~AddListener(r)
      PROVE  connected' = connected /\ listeners' = listeners /\ closed' = closed
  BY <1>1 DEF Req, Handle, HandleFilter, Query, QueriesEnd, Reject, Stream, StreamEnd, Eose, ghosts
<1>2. ASSUME NEW id \in Ids, SendClose(id)
      PROVE  connected' = connected /\ listeners' = listeners /\ closed' = closed
  BY <1>2 DEF SendClose, ghosts
<1>3. ASSUME Authenticate
      PROVE  connected' = connected /\ listeners' = listeners /\ closed' = closed
  BY <1>3 DEF Authenticate, ghosts
<1>4. ASSUME Broadcasting \/ \E e \in Events : SaveEvent(e)
      PROVE  connected' = connected /\ listeners' = listeners /\ closed' = closed
  BY <1>4, BroadcastingLeaves DEF SaveEvent, ghosts
<1> QED
  BY <1>1, <1>2, <1>3, <1>4 DEF Next, Handle, Broadcasting

LEMMA GoneStays ==
  ASSUME Types, Types', GoneOK, Next
  PROVE  GoneOK'
<1>1. cancelled \subseteq cancelled'
  <2>1. ASSUME NEW r \in Requests, Req(r) \/ Handle(r)
        PROVE  cancelled \subseteq cancelled'
    BY <2>1 DEF Req, Handle, HandleFilter, Query, QueriesEnd, AddListener, Reject, Stream, StreamEnd, Eose
  <2>2. ASSUME NEW id \in Ids, SendClose(id) \/ Close(id)
        PROVE  cancelled \subseteq cancelled'
    BY <2>2 DEF SendClose, Close
  <2>3. ASSUME Disconnect \/ Authenticate
        PROVE  cancelled \subseteq cancelled'
    BY <2>3 DEF Disconnect, Authenticate, Types
  <2>4. ASSUME Broadcasting \/ \E e \in Events : SaveEvent(e)
        PROVE  cancelled \subseteq cancelled'
    BY <2>4, BroadcastingLeaves DEF SaveEvent
  <2> QED
    BY <2>1, <2>2, <2>3, <2>4 DEF Next, Broadcasting
<1>2. cancelled' \subseteq Requests
  BY DEF Types
<1>3. ASSUME NEW r \in Requests, AddListener(r)
      PROVE  GoneOK'
  BY <1>1, <1>2, <1>3 DEF AddListener, GoneOK, Types
<1>4. ASSUME NEW id \in Ids, Close(id)
      PROVE  GoneOK'
  BY <1>1, <1>2, <1>4 DEF Close, GoneOK
<1>5. CASE Disconnect
  BY <1>5 DEF Disconnect, GoneOK
<1>6. CASE connected' = connected /\ listeners' = listeners
  BY <1>1, <1>2, <1>6 DEF GoneOK
<1> QED
  BY <1>3, <1>4, <1>5, <1>6, ListenersMove

\* Only AddListener goes past a filter.
LEMMA ListenedBefore ==
  ASSUME Types, \A r \in Requests : PlaceOK(r), Next, \A r \in Requests : ~AddListener(r),
         NEW o \in Requests, NEW j \in 1..Len(Filters[o]), Listened(o, j)'
  PROVE  Listened(o, j)
<1>1. ASSUME NEW r \in Requests, Req(r)
      PROVE  Listened(o, j)
  <2>1. run' = [run EXCEPT ![r].at = IF Filters[r] = <<>> THEN "wait" ELSE "filter"]
    BY <1>1 DEF Req, Goto
  <2>2. CASE o = r
    <3>1. Filters[r] # <<>>
      BY <2>2, FilterCounts
    <3>2. Goto(r, "filter") /\ "filter" \in Steps /\ run[r].i = 1
      BY <1>1, <2>1, <3>1 DEF Goto, Steps, Req, PlaceOK
    <3>3. run'[r].at = "filter" /\ run'[r].i = 1
      BY <3>2, GotoMoves DEF Moves
    <3> QED
      BY <2>2, <3>3, FilterCounts DEF Listened
  <2>3. CASE o # r
    BY <2>1, <2>3 DEF Listened, Types
  <2> QED
    BY <2>2, <2>3
<1>2. ASSUME NEW r \in Requests,
             \/ \E step \in {"listen", "reject", "closed"} : Goto(r, step)
             \/ run[r].at = "wait" /\ Goto(r, "eose")
             \/ run' = [run EXCEPT ![r].at = "query", ![r].q = 1]
             \/ run' = [run EXCEPT ![r].q = @ + 1]
             \/ run' = run
      PROVE  Listened(o, j)
  <2>1. CASE o # r
    BY <1>2, <2>1 DEF Listened, Types, Goto
  <2>2. CASE o = r
    <3>1. ASSUME NEW step \in {"listen", "reject", "closed"}, Goto(r, step)
          PROVE  Listened(o, j)
      BY <3>1, <2>2, GotoMoves DEF Moves, Steps, Listened
    <3>2. CASE run[r].at = "wait" /\ Goto(r, "eose")
      BY <3>2, <2>2 DEF Listened
    <3>3. CASE run' = [run EXCEPT ![r].at = "query", ![r].q = 1]
      <4>1. run'[r].at = "query" /\ run'[r].i = run[r].i
        BY <3>3, AsksMoves DEF Moves
      <4> QED
        BY <2>2, <4>1 DEF Listened
    <3>4. CASE run' = [run EXCEPT ![r].q = @ + 1]
      BY <3>4, <2>2, AskedMoves DEF Moves, Listened
    <3>5. CASE run' = run
      BY <3>5 DEF Listened
    <3> QED
      BY <1>2, <3>1, <3>2, <3>3, <3>4, <3>5
  <2> QED
    BY <2>1, <2>2
<1>3. ASSUME NEW r \in Requests, Handle(r)
      PROVE  Listened(o, j)
  BY <1>2, <1>3 DEF Handle, HandleFilter, Query, QueriesEnd, Reject, Stream, StreamEnd, Eose
<1>4. CASE run' = run
  BY <1>4 DEF Listened
<1>5. ASSUME NEW id \in Ids, SendClose(id) \/ Close(id)
      PROVE  run' = run
  BY <1>5 DEF SendClose, Close, answer
<1>6. ASSUME Disconnect \/ Authenticate
      PROVE  run' = run
  BY <1>6 DEF Disconnect, Authenticate, answer
<1>7. ASSUME Broadcasting \/ \E e \in Events : SaveEvent(e)
      PROVE  run' = run
  BY <1>7, BroadcastingLeaves DEF SaveEvent, answer
<1> QED
  BY <1>1, <1>3, <1>4, <1>5, <1>6, <1>7 DEF Next, Broadcasting

LEMMA ListensStay ==
  ASSUME Types, Types', \A r \in Requests : PlaceOK(r) /\ ListenOK(r), Next, NEW o \in Requests
  PROVE  ListenOK(o)'
<1>1. ASSUME NEW r \in Requests, AddListener(r)
      PROVE  ListenOK(o)'
  <2>1. /\ connected' = connected /\ closed' = closed /\ run[r].at = "listen"
        /\ connected = TRUE => listeners' = listeners \cup {<<r, run[r].i>>}
    BY <1>1 DEF AddListener, ghosts
  <2>2. /\ \/ /\ run[r].i < Len(Filters[r])
              /\ run'[r].at = "filter" /\ run'[r].i = run[r].i + 1
           \/ run[r].i = Len(Filters[r]) /\ run'[r].at = "wait" /\ run'[r].i = run[r].i
        /\ \A p \in Requests \ {r} : run'[p] = run[p]
    BY <1>1, AddListenerMoves
  <2>3. CASE o = r
    <3>1. ASSUME NEW j \in 1..Len(Filters[r]), Listened(r, j)'
          PROVE  Listened(r, j) \/ j = run[r].i
      BY <2>1, <2>2, <3>1, PlaceIs, FilterCounts DEF Listened
    <3> QED
      BY <2>1, <2>3, <3>1 DEF ListenOK
  <2>4. CASE o # r
    BY <2>1, <2>2, <2>4 DEF ListenOK, Listened
  <2> QED
    BY <2>3, <2>4
<1>2. ASSUME NEW id \in Ids, Close(id)
      PROVE  ListenOK(o)'
  <2>1. /\ connected' = connected /\ run' = run /\ listeners' = listeners \ Closed(id)
        /\ closed \subseteq closed'
        /\ \A r \in Requests : Sub[r] = id /\ run[r].at # "unsent" => r \in closed'
    BY <1>2 DEF Close, answer
  <2>2. SUFFICES ASSUME connected = TRUE, o \notin closed',
                        NEW j \in 1..Len(Filters[o]), Listened(o, j)
                 PROVE  <<o, j>> \in listeners'
    BY <2>1 DEF ListenOK, Listened
  <2>3. <<o, j>> \in listeners
    BY <2>1, <2>2 DEF ListenOK
  <2>4. run[o].at # "unsent"
    BY <2>2, PlaceIs, FilterCounts DEF Listened, PlaceOK
  <2>5. Sub[o] # id
    BY <2>1, <2>2, <2>4
  <2> QED
    BY <2>1, <2>3, <2>5 DEF Closed
<1>3. CASE Disconnect
  BY <1>3 DEF Disconnect, ListenOK
<1>4. CASE /\ connected' = connected /\ listeners' = listeners /\ closed' = closed
           /\ \A r \in Requests : ~AddListener(r)
  BY <1>4, ListenedBefore DEF ListenOK
<1> QED
  BY <1>1, <1>2, <1>3, <1>4, ListenersMove

LEMMA QuietStays ==
  ASSUME Types, \A r \in Requests : PlaceOK(r) /\ QuietOK(r), Next, NEW o \in Requests
  PROVE  QuietOK(o)'
<1>1. ASSUME NEW r \in Requests, Req(r)
      PROVE  QuietOK(o)'
  <2>1. /\ quiet' = quiet \ {Sub[r]} /\ listeners' = listeners
        /\ o # r => run'[o] = run[o]
    BY <1>1 DEF Req, Goto, Types
  <2> QED
    BY <2>1 DEF QuietOK
<1>2. ASSUME NEW r \in Requests, Handle(r)
      PROVE  QuietOK(o)'
  <2>1. quiet' = quiet
    BY <1>2 DEF Handle, HandleFilter, Query, QueriesEnd, AddListener, Reject, Stream, StreamEnd, Eose, ghosts
  <2>2. CASE run' = run /\ listeners' = listeners
    BY <2>1, <2>2 DEF QuietOK
  <2>3. CASE ~(run' = run /\ listeners' = listeners)
    <3>1. /\ run[r].at \notin {"unsent", "eose"}
          /\ o # r => run'[o] = run[o]
          /\ \A l \in listeners' : l \in listeners \/ l = <<r, run[r].i>>
      BY <1>2, <2>3
         DEF Handle, HandleFilter, Query, QueriesEnd, AddListener, Reject, Stream, StreamEnd, Eose, Goto, Types
    <3>2. Sub[r] \notin quiet
      BY <3>1 DEF QuietOK
    <3> QED
      BY <2>1, <3>1, <3>2 DEF QuietOK
  <2> QED
    BY <2>2, <2>3
<1>3. ASSUME NEW id \in Ids, Close(id)
      PROVE  QuietOK(o)'
  <2> DEFINE sent == {r \in Requests : Sub[r] = id /\ run[r].at # "unsent"}
  <2>1. /\ run' = run /\ listeners' = listeners \ Closed(id)
        /\ quiet' = quiet \/ (quiet' = quiet \cup {id} /\ \A r \in sent : run[r].at = "eose")
    BY <1>3 DEF Close, answer
  <2>2. SUFFICES ASSUME Sub[o] \in quiet', run[o].at # "unsent"
                 PROVE  run[o].at = "eose" /\ \A l \in listeners' : l[1] # o
    BY <2>1 DEF QuietOK
  <2>3. CASE Sub[o] \in quiet
    BY <2>1, <2>2, <2>3 DEF QuietOK
  <2>4. CASE Sub[o] = id /\ \A r \in sent : run[r].at = "eose"
    BY <2>1, <2>2, <2>4 DEF Closed
  <2> QED
    BY <2>1, <2>2, <2>3, <2>4
<1>4. CASE run' = run /\ quiet' = quiet /\ listeners' \subseteq listeners
  BY <1>4 DEF QuietOK
<1>5. ASSUME NEW id \in Ids, SendClose(id)
      PROVE  run' = run /\ quiet' = quiet /\ listeners' \subseteq listeners
  BY <1>5 DEF SendClose, answer, ghosts
<1>6. ASSUME Disconnect \/ Authenticate
      PROVE  run' = run /\ quiet' = quiet /\ listeners' \subseteq listeners
  BY <1>6 DEF Disconnect, Authenticate, answer, ghosts
<1>7. ASSUME Broadcasting \/ \E e \in Events : SaveEvent(e)
      PROVE  run' = run /\ quiet' = quiet /\ listeners' \subseteq listeners
  BY <1>7, BroadcastingLeaves DEF SaveEvent, answer, ghosts
<1> QED
  BY <1>1, <1>2, <1>3, <1>4, <1>5, <1>6, <1>7 DEF Next, Broadcasting

-----------------------------------------------------------------------------
(* The invariant.                                                          *)

LEMMA InitEstablishes == Init => IInv
<1> SUFFICES ASSUME Init
             PROVE  IInv
  OBVIOUS
<1>1. Types
  BY InitTypes
<1>2. GoneOK
  BY DEF Init, GoneOK
<1>3. ASSUME NEW r \in Requests
      PROVE  HandlerOK(r) /\ ListensOK(r)
  <2>1. /\ run[r].at = "unsent" /\ run[r].i = 1 /\ streams[r] = {} /\ eose[r] = 0
        /\ before[r] = {} /\ listeners = {} /\ quiet = {}
    BY DEF Init
  <2>2. PlaceOK(r) /\ StreamsOK(r) /\ QuietOK(r)
    BY <2>1 DEF PlaceOK, StreamsOK, QuietOK
  <2>3. Cardinality(Open(r)) = 0
    BY <2>1, FS_EmptySet DEF Open
  <2>4. CountOK(r)
    BY <2>1, <2>3 DEF CountOK, Undone
  <2>5. AnsweredOK(r)
    BY <2>1 DEF AnsweredOK
  <2>6. ListenOK(r)
    BY <2>1, FilterCounts DEF ListenOK, Listened
  <2> QED
    BY <2>2, <2>4, <2>5, <2>6 DEF HandlerOK, ListensOK
<1> QED
  BY <1>1, <1>2, <1>3 DEF IInv

LEMMA StepKeeps == IInv /\ [Next]_vars => IInv'
<1>1. CASE IInv /\ Next
  <2>1. /\ Types /\ GoneOK /\ Next
        /\ \A r \in Requests : HandlerOK(r) /\ PlaceOK(r) /\ ListenOK(r) /\ QuietOK(r)
    BY <1>1 DEF IInv, HandlerOK, ListensOK
  <2>2. Types'
    BY <2>1, TypesStay
  <2>3. GoneOK' /\ \A r \in Requests : HandlerOK(r)'
    BY <2>1, <2>2, GoneStays, HandlersStay
  <2>4. \A r \in Requests : ListensOK(r)'
    BY <2>1, <2>2, ListensStay, QuietStays DEF ListensOK
  <2> QED
    BY <2>2, <2>3, <2>4 DEF IInv
<1>2. CASE IInv /\ UNCHANGED vars
  <2>1. Types'
    BY <1>2 DEF IInv, Types, vars
  <2>2. GoneOK'
    BY <1>2 DEF IInv, GoneOK, vars
  <2>3. \A r \in Requests : Still(r)
    BY <1>2 DEF Still, vars
  <2>4. \A r \in Requests : HandlerOK(r)'
    BY <1>2, <2>3, StillKeeps DEF IInv
  <2>5. \A r \in Requests : ListensOK(r)'
    BY <1>2 DEF IInv, ListensOK, ListenOK, Listened, QuietOK, vars
  <2> QED
    BY <2>1, <2>2, <2>4, <2>5 DEF IInv
<1> QED
  BY <1>1, <1>2

\* What the handlers of a connection's messages have counted, written and listened to fits together
\* in every state (handlers.go:289-327, responding.go:12-62).
THEOREM AnswersStayCounted == Spec => []IInv
BY InitEstablishes, StepKeeps, PTL DEF Spec

-----------------------------------------------------------------------------
(* What follows from it.                                                   *)

\* For any number of filters and query functions, when the EOSE is out all that matched and was
\* stored when the REQ was read is out, if no query failed and nobody cancelled the REQ
\* (handlers.go:290-324, responding.go:12-62).
THEOREM StoredIsBeforeEose == Spec => []StoredBeforeEose
<1>1. IInv => StoredBeforeEose
  <2> SUFFICES ASSUME IInv,
                      NEW r \in Requests, run[r].at = "eose", r \notin failed \cup cancelled,
                      NEW i \in 1..Len(Filters[r]), ~Filters[r][i].zero,
                      NEW e \in before[r] \cap Filters[r][i].matches
               PROVE  e \in got[r]
    BY DEF StoredBeforeEose
  <2>1. PlaceOK(r) /\ AnsweredOK(r)
    BY DEF IInv, HandlerOK
  <2>2. streams[r] = {} /\ Asked(r, i)
    BY <2>1 DEF PlaceOK, Asked
  <2> QED
    BY <2>1, <2>2 DEF AnsweredOK
<1> QED
  BY <1>1, AnswersStayCounted, PTL

\* An EOSE is held back by answers that are still being written, and by nothing else: no failed
\* query, empty answer or filter with a limit of zero leaves a count behind (responding.go:36-59).
WaitsForAnswers == \A r \in Requests : run[r].at = "wait" => (eose[r] = 0 <=> streams[r] = {})

\* No REQ waits for an answer that nobody writes: its WaitGroup is at zero exactly when the last
\* channel was closed (handlers.go:294-324, responding.go:36-59).
THEOREM NoReqIsStuck == Spec => []WaitsForAnswers
<1>1. IInv => WaitsForAnswers
  <2>. SUFFICES ASSUME IInv, NEW r \in Requests, run[r].at = "wait"
                PROVE  eose[r] = 0 <=> streams[r] = {}
    BY DEF WaitsForAnswers
  <2>1. StreamsOK(r) /\ eose[r] = Cardinality(Open(r))
    <3>1. StreamsOK(r) /\ CountOK(r)
      BY DEF IInv, HandlerOK
    <3>. QED
      BY <3>1, OpenIsFinite DEF CountOK, Undone
  <2>2. eose[r] = 0 <=> Open(r) = {}
    BY <2>1, OpenIsFinite, FS_EmptySet
  <2>. QED
    BY <2>2 DEF Open
<1>. QED
  BY <1>1, AnswersStayCounted, PTL

-----------------------------------------------------------------------------
(***************************************************************************)
(* A connection implements ClientView.  Two things are needed besides: a   *)
(* filter that is for members is behind the handler only if the client has *)
(* its key or was not to be judged, and an answer has what is stored and   *)
(* asked for.  Both last, since keys and stored events are not taken back. *)
(* Then every step is one of the view's, or one that the client cannot see.*)
(***************************************************************************)

\* The filters the handler of r is through with judging, or was not rejected by.
Passed(r, i) ==
  \/ run[r].at \in {"wait", "eose"}
  \/ run[r].at # "unsent" /\ i < run[r].i
  \/ run[r].at \in {"query", "listen"} /\ i = run[r].i

\* Members only were let through, and only who is none was rejected.
JudgedOK(r) ==
  /\ \A i \in 1..Len(Filters[r]) : Passed(r, i) =>
       (Filters[r][i].members => authed = TRUE \/ Filters[r][i].zero)
  /\ run[r].at = "query" => ~Filters[r][run[r].i].zero
  /\ run[r].at = "reject" => Filters[r][run[r].i].members /\ ~Filters[r][run[r].i].zero

\* What is being written is stored, and was asked for by who may have it.
ReadOK(r) ==
  \A s \in streams[r] :
    /\ ~Filters[r][s.filter].zero
    /\ s.left \subseteq stored \cap Filters[r][s.filter].matches
    /\ Filters[r][s.filter].members => authed = TRUE

\* Who listens sent its REQ, and may listen.
HearOK(r) ==
  \A i \in 1..Len(Filters[r]) : <<r, i>> \in listeners =>
    /\ run[r].at # "unsent"
    /\ Filters[r][i].members => authed = TRUE \/ Filters[r][i].zero

MayOK(r) == JudgedOK(r) /\ ReadOK(r) /\ HearOK(r)

ViewInv == IInv /\ \A r \in Requests : MayOK(r)

-----------------------------------------------------------------------------
(* Nobody loses its key while it is connected, and stores lose nothing.    *)
LEMMA KeyAndStoreStay ==
  ASSUME Types, Next
  PROVE  (authed = TRUE => authed' = TRUE) /\ stored \subseteq stored'
<1>1. ASSUME NEW r \in Requests, Req(r) \/ Handle(r)
      PROVE  authed' = authed /\ stored' = stored
  BY <1>1 DEF Req, Handle, HandleFilter, Query, QueriesEnd, AddListener, Reject, Stream, StreamEnd, Eose
<1>2. ASSUME NEW id \in Ids, SendClose(id) \/ Close(id)
      PROVE  authed' = authed /\ stored' = stored
  BY <1>2 DEF SendClose, Close
<1>3. ASSUME Disconnect
      PROVE  authed' = authed /\ stored' = stored
  BY <1>3 DEF Disconnect
<1>4. ASSUME Broadcasting \/ \E e \in Events : SaveEvent(e)
      PROVE  authed' = authed /\ stored \subseteq stored'
  BY <1>4, BroadcastingLeaves DEF SaveEvent
<1>. QED
  BY <1>1, <1>2, <1>3, <1>4 DEF Next, Authenticate, Broadcasting

\* Nothing of r changes but that there are fewer listeners.
Rests(r) ==
  /\ run'[r] = run[r] /\ streams'[r] = streams[r]
  /\ \A i \in 1..Len(Filters[r]) : <<r, i>> \in listeners' => <<r, i>> \in listeners

LEMMA RestsKeeps ==
  ASSUME Types, Next, NEW r \in Requests, MayOK(r), Rests(r)
  PROVE  MayOK(r)'
<1>1. (authed = TRUE => authed' = TRUE) /\ stored \subseteq stored'
  BY KeyAndStoreStay
<1>2. JudgedOK(r)'
  BY <1>1 DEF MayOK, JudgedOK, Passed, Rests
<1>3. ReadOK(r)'
  BY <1>1 DEF MayOK, ReadOK, Rests
<1>4. HearOK(r)'
  BY <1>1 DEF MayOK, HearOK, Rests
<1>. QED
  BY <1>2, <1>3, <1>4 DEF MayOK

(* What the steps of the handler of r leave of the others.                 *)
LEMMA OthersRest ==
  ASSUME Types, NEW r \in Requests, Req(r) \/ Handle(r), NEW o \in Requests \ {r}
  PROVE  Rests(o)
<1>1. run'[o] = run[o]
  BY DEF Req, Handle, HandleFilter, Query, QueriesEnd, AddListener, Reject, Stream, StreamEnd, Eose, Goto, Types
<1>2. streams'[o] = streams[o]
  BY DEF Req, Handle, HandleFilter, Query, QueriesEnd, AddListener, Reject, Stream, StreamEnd, Eose, Types
<1>3. \A i \in 1..Len(Filters[o]) : <<o, i>> \in listeners' => <<o, i>> \in listeners
  BY DEF Req, Handle, HandleFilter, Query, QueriesEnd, AddListener, Reject, Stream, StreamEnd, Eose
<1>. QED
  BY <1>1, <1>2, <1>3 DEF Rests

(* Each step of a handler.                                                 *)
LEMMA HandlerMay ==
  ASSUME Types, NEW r \in Requests, PlaceOK(r), StreamsOK(r), MayOK(r), Req(r) \/ Handle(r)
  PROVE  MayOK(r)'
<1>. DEFINE n == Len(Filters[r])
<1>a. authed \in BOOLEAN /\ n \in Nat /\ Queries \in Nat
  BY FilterCounts, BoundsAssumption DEF Types
<1>b. JudgedOK(r) /\ ReadOK(r) /\ HearOK(r)
  BY DEF MayOK
<1>1. CASE Req(r)
  <2>1. /\ run'[r].i = 1 /\ run'[r].at = (IF Filters[r] = <<>> THEN "wait" ELSE "filter")
        /\ streams'[r] = {} /\ listeners' = listeners /\ authed' = authed /\ run[r].at = "unsent"
    <3>. DEFINE step == IF Filters[r] = <<>> THEN "wait" ELSE "filter"
    <3>1. step \in Steps /\ Goto(r, step) /\ run[r].i = 1
      BY <1>1 DEF Req, Steps, PlaceOK
    <3>2. run'[r].i = 1 /\ run'[r].at = step
      <4>. HIDE DEF step
      <4>. QED
        BY <3>1, GotoMoves DEF Moves
    <3>. QED
      BY <1>1, <3>2 DEF Req, PlaceOK
  <2>2. JudgedOK(r)'
    BY <1>a, <2>1, FilterCounts DEF JudgedOK, Passed
  <2>3. ReadOK(r)' /\ HearOK(r)'
    BY <1>b, <2>1 DEF ReadOK, HearOK
  <2>. QED
    BY <2>2, <2>3 DEF MayOK
<1>2. CASE HandleFilter(r)
  <2>1. /\ run[r].at = "filter" /\ run[r].i \in 1..n
        /\ streams' = streams /\ listeners' = listeners /\ authed' = authed /\ stored' = stored
    BY <1>2 DEF HandleFilter, PlaceOK
  <2>2. /\ run'[r].i = run[r].i
        /\ \/ run'[r].at = "listen" /\ Filter(r).zero
           \/ run'[r].at = "reject" /\ Filter(r).members /\ ~Filter(r).zero
           \/ run'[r].at = "query" /\ ~Filter(r).zero /\ (Filter(r).members => authed)
    <3>1. CASE Filter(r).zero /\ Goto(r, "listen")
      BY <3>1, GotoMoves DEF Moves, Steps
    <3>2. CASE Filter(r).members /\ ~Filter(r).zero /\ Goto(r, "reject")
      BY <3>2, GotoMoves DEF Moves, Steps
    <3>3. CASE ~Filter(r).zero /\ (Filter(r).members => authed) /\ run' = [run EXCEPT ![r].at = "query", ![r].q = 1]
      BY <3>3, AsksMoves DEF Moves
    <3>. QED
      BY <1>2, <3>1, <3>2, <3>3 DEF HandleFilter
  <2>3. JudgedOK(r)'
    <3>1. \A i \in 1..n : Passed(r, i)' =>
            (Filters[r][i].members => authed = TRUE \/ Filters[r][i].zero)
      BY <1>a, <1>b, <2>1, <2>2 DEF JudgedOK, Passed, Filter
    <3>. QED
      BY <2>1, <2>2, <3>1 DEF JudgedOK, Filter
  <2>4. ReadOK(r)'
    BY <1>b, <2>1 DEF ReadOK
  <2>5. HearOK(r)'
    BY <1>b, <2>1, <2>2 DEF HearOK
  <2>. QED
    BY <2>3, <2>4, <2>5 DEF MayOK
<1>3. CASE Query(r)
  <2>1. /\ run[r].at = "query" /\ run[r].i \in 1..n
        /\ listeners' = listeners /\ authed' = authed /\ stored' = stored
        /\ run' = [run EXCEPT ![r].q = @ + 1]
    BY <1>3 DEF Query, PlaceOK
  <2>2. run'[r].at = "query" /\ run'[r].i = run[r].i
    BY <2>1, AskedMoves DEF Moves
  <2>3. JudgedOK(r)'
    BY <1>b, <2>1, <2>2 DEF JudgedOK, Passed
  <2>4. \/ streams'[r] = streams[r]
        \/ streams'[r] = streams[r] \cup
             {[filter |-> run[r].i, query |-> run[r].q, left |-> stored \cap Filter(r).matches]}
    BY <1>3 DEF Query, Types
  <2>5. ReadOK(r)'
    <3>1. ~Filter(r).zero /\ (Filter(r).members => authed = TRUE)
      BY <1>b, <2>1 DEF JudgedOK, Passed, Filter
    <3>2. CASE streams'[r] = streams[r]
      BY <1>b, <2>1, <3>2 DEF ReadOK
    <3>3. CASE streams'[r] = streams[r] \cup
             {[filter |-> run[r].i, query |-> run[r].q, left |-> stored \cap Filter(r).matches]}
      BY <1>b, <2>1, <3>1, <3>3 DEF ReadOK, Filter
    <3>. QED
      BY <2>4, <3>2, <3>3
  <2>6. HearOK(r)'
    BY <1>b, <2>1, <2>2 DEF HearOK
  <2>. QED
    BY <2>3, <2>5, <2>6 DEF MayOK
<1>4. CASE QueriesEnd(r)
  <2>1. /\ run[r].at = "query" /\ Goto(r, "listen")
        /\ streams' = streams /\ listeners' = listeners /\ authed' = authed /\ stored' = stored
    BY <1>4 DEF QueriesEnd
  <2>2. run'[r].at = "listen" /\ run'[r].i = run[r].i
    BY <2>1, GotoMoves DEF Moves, Steps
  <2>. QED
    BY <1>b, <2>1, <2>2 DEF MayOK, JudgedOK, Passed, ReadOK, HearOK
<1>5. CASE AddListener(r)
  <2>1. /\ run[r].at = "listen" /\ run[r].i \in 1..n
        /\ streams' = streams /\ authed' = authed /\ stored' = stored
        /\ listeners' \subseteq listeners \cup {<<r, run[r].i>>}
    BY <1>5 DEF AddListener, PlaceOK
  <2>2. \/ run[r].i < n /\ run'[r].at = "filter" /\ run'[r].i = run[r].i + 1
        \/ run[r].i = n /\ run'[r].at = "wait"
    <3>1. CASE run[r].i < n
      <4>1. run' = [run EXCEPT ![r].at = "filter", ![r].i = @ + 1]
        BY <1>5, <3>1 DEF AddListener
      <4>. QED
        BY <3>1, <4>1, NextMoves DEF Moves
    <3>2. CASE ~(run[r].i < n)
      <4>1. Goto(r, "wait")
        BY <1>5, <3>2 DEF AddListener, Goto
      <4>2. run'[r].at = "wait"
        BY <4>1, GotoMoves DEF Moves, Steps
      <4>. QED
        BY <1>a, <2>1, <3>2, <4>2
    <3>. QED
      BY <3>1, <3>2
  <2>3. \A i \in 1..n : Passed(r, i)' => Passed(r, i)
    BY <1>a, <2>1, <2>2 DEF Passed
  <2>4. JudgedOK(r)'
    BY <1>b, <2>1, <2>2, <2>3 DEF JudgedOK
  <2>5. ReadOK(r)'
    BY <1>b, <2>1 DEF ReadOK
  <2>6. HearOK(r)'
    <3>1. Filter(r).members => authed = TRUE \/ Filter(r).zero
      BY <1>b, <2>1 DEF JudgedOK, Passed, Filter
    <3>. QED
      BY <1>b, <2>1, <2>2, <3>1 DEF HearOK, Filter
  <2>. QED
    BY <2>4, <2>5, <2>6 DEF MayOK
<1>6. CASE Reject(r)
  <2>1. /\ run[r].at = "reject" /\ Goto(r, "closed")
        /\ streams' = streams /\ listeners' = listeners /\ authed' = authed /\ stored' = stored
    BY <1>6 DEF Reject
  <2>2. run'[r].at = "closed" /\ run'[r].i = run[r].i
    BY <2>1, GotoMoves DEF Moves, Steps
  <2>. QED
    BY <1>b, <2>1, <2>2 DEF MayOK, JudgedOK, Passed, ReadOK, HearOK
<1>7. CASE Stream(r)
  <2>1. PICK s \in streams[r] : \E e \in s.left :
          streams' = [streams EXCEPT ![r] = (@ \ {s}) \cup {[s EXCEPT !.left = @ \ {e}]}]
    BY <1>7 DEF Stream
  <2>2. PICK e \in s.left :
          streams' = [streams EXCEPT ![r] = (@ \ {s}) \cup {[s EXCEPT !.left = @ \ {e}]}]
    BY <2>1
  <2>3. run' = run /\ listeners' = listeners /\ authed' = authed /\ stored' = stored
    BY <1>7 DEF Stream
  <2>. DEFINE t == [s EXCEPT !.left = @ \ {e}]
  <2>4. t.filter = s.filter /\ t.left \subseteq s.left
    BY DEF Types, stream
  <2>5. streams'[r] = (streams[r] \ {s}) \cup {t}
    BY <2>2 DEF Types
  <2>. HIDE DEF t
  <2>6. ReadOK(r)'
    BY <1>b, <2>3, <2>4, <2>5 DEF ReadOK
  <2>. QED
    BY <1>b, <2>3, <2>6 DEF MayOK, JudgedOK, Passed, HearOK
<1>8. CASE StreamEnd(r)
  <2>1. run' = run /\ listeners' = listeners /\ authed' = authed /\ stored' = stored /\ streams'[r] \subseteq streams[r]
    BY <1>8 DEF StreamEnd, Types
  <2>. QED
    BY <1>b, <2>1 DEF MayOK, JudgedOK, Passed, ReadOK, HearOK
<1>9. CASE Eose(r)
  <2>1. /\ run[r].at = "wait" /\ Goto(r, "eose")
        /\ streams' = streams /\ listeners' = listeners /\ authed' = authed /\ stored' = stored
    BY <1>9 DEF Eose
  <2>2. run'[r].at = "eose" /\ run'[r].i = run[r].i
    BY <2>1, GotoMoves DEF Moves, Steps
  <2>. QED
    BY <1>b, <2>1, <2>2 DEF MayOK, JudgedOK, Passed, ReadOK, HearOK
<1>. QED
  BY <1>1, <1>2, <1>3, <1>4, <1>5, <1>6, <1>7, <1>8, <1>9 DEF Handle

LEMMA MayStays ==
  ASSUME ViewInv, Next
  PROVE  \A r \in Requests : MayOK(r)'
<1>1. Types /\ \A r \in Requests : PlaceOK(r) /\ StreamsOK(r) /\ MayOK(r)
  BY DEF ViewInv, IInv, HandlerOK
<1>2. ASSUME NEW r \in Requests, Req(r) \/ Handle(r), NEW o \in Requests
      PROVE  MayOK(o)'
  <2>1. CASE o = r
    BY <1>1, <1>2, <2>1, HandlerMay
  <2>2. CASE o # r
    BY <1>1, <1>2, <2>2, OthersRest, RestsKeeps
  <2>. QED
    BY <2>1, <2>2
<1>3. ASSUME NEW id \in Ids, SendClose(id) \/ Close(id), NEW o \in Requests
      PROVE  MayOK(o)'
  <2>1. Rests(o)
    BY <1>3 DEF SendClose, Close, answer, Rests
  <2>. QED
    BY <1>1, <2>1, RestsKeeps
<1>4. ASSUME Disconnect \/ Authenticate, NEW o \in Requests
      PROVE  MayOK(o)'
  <2>1. Rests(o)
    BY <1>4 DEF Disconnect, Authenticate, answer, Rests
  <2>. QED
    BY <1>1, <2>1, RestsKeeps
<1>5. ASSUME Broadcasting \/ \E e \in Events : SaveEvent(e), NEW o \in Requests
      PROVE  MayOK(o)'
  <2>1. Rests(o)
    BY <1>1, <1>5, BroadcastingLeaves DEF SaveEvent, answer, Rests
  <2>. QED
    BY <1>1, <2>1, RestsKeeps
<1>. QED
  BY <1>2, <1>3, <1>4, <1>5 DEF Next, Broadcasting

\* What is written to a client, or heard by it, is stored and asked for by who may have it, and a
\* filter that is for members is let through, or rejected, as the key was when it was judged
\* (responding.go:12-33, handlers.go:289-324).
THEOREM OnlyWhoMayGets == Spec => []ViewInv
<1>1. Init => ViewInv
  <2>. SUFFICES ASSUME Init
                PROVE  ViewInv
    OBVIOUS
  <2>1. IInv
    BY InitEstablishes
  <2>2. ASSUME NEW r \in Requests
        PROVE  MayOK(r)
    BY <2>2 DEF Init, MayOK, JudgedOK, Passed, ReadOK, HearOK
  <2>. QED
    BY <2>1, <2>2 DEF ViewInv
<1>2. ViewInv /\ [Next]_vars => ViewInv'
  <2>. SUFFICES ASSUME ViewInv, [Next]_vars
                PROVE  ViewInv'
    OBVIOUS
  <2>1. IInv'
    BY StepKeeps DEF ViewInv
  <2>2. CASE UNCHANGED vars
    <3>1. \A r \in Requests : MayOK(r)'
      BY <2>2 DEF ViewInv, MayOK, JudgedOK, Passed, ReadOK, HearOK, vars
    <3>. QED
      BY <2>1, <3>1 DEF ViewInv
  <2>. QED
    BY <2>1, <2>2, MayStays DEF ViewInv
<1>. QED
  BY <1>1, <1>2, PTL DEF Spec

-----------------------------------------------------------------------------
(***************************************************************************)
(* Broadcasts under way.  What one may write to was in the list of         *)
(* listeners, so its REQ was sent and may hear it; and none of it is of an *)
(* id that was quiet when it began, since a quiet id has no listeners and  *)
(* gets none before it is used again.  Who is owed the event has all of    *)
(* its listeners among those the walk comes to.                            *)
(***************************************************************************)
Sites == {l \in Requests \X Nat : l[2] \in 1..Len(Filters[l[1]])}

WalkTypes ==
  /\ walking \subseteq told
  /\ reach \in [Events -> SUBSET Sites] /\ there \in [Events -> SUBSET Sites]
  /\ crossed \in [Events -> SUBSET {"added", "removed"}]
  /\ audience \in [Events -> SUBSET Requests] /\ hushed \in [Events -> SUBSET Ids]

\* What is true of every listener in reach of the broadcast of e.
ReachOK(e) ==
  \A l \in reach[e] :
    /\ run[l[1]].at # "unsent" /\ Sub[l[1]] \notin hushed[e]
    /\ Filters[l[1]][l[2]].members => authed = TRUE \/ Filters[l[1]][l[2]].zero

AudienceOK(e) ==
  \A r \in audience[e] :
    /\ run[r].at = "eose"
    /\ \A i \in 1..Len(Filters[r]) : <<r, i>> \in there[e]
    /\ \E i \in 1..Len(Filters[r]) : Wants(<<r, i>>, e)

WalkOK(e) ==
  /\ there[e] \subseteq reach[e] /\ hushed[e] \subseteq quiet
  /\ e \notin walking => crossed[e] = {}
  /\ ReachOK(e) /\ AudienceOK(e)

WalkInv == ViewInv /\ WalkTypes /\ \A e \in Events : WalkOK(e)

\* A REQ that was sent is not unsent, and one with an EOSE keeps it.
LEMMA RunsOn ==
  ASSUME Types, Next, NEW o \in Requests
  PROVE  /\ run[o].at # "unsent" => run'[o].at # "unsent"
         /\ run[o].at = "eose" => run'[o].at = "eose"
<1>1. ASSUME NEW r \in Requests, Req(r)
      PROVE  o # r => run'[o] = run[o]
  BY <1>1 DEF Req, Goto, Types
<1>2. ASSUME NEW r \in Requests, Handle(r)
      PROVE  /\ o # r => run'[o] = run[o]
             /\ run' = run \/ run[r].at # "eose"
             /\ run[r].at # "unsent" => run'[r].at # "unsent"
  <2>1. \/ run' = run
        \/ run[r].at # "eose" /\ \E step \in Steps \ {"unsent"} : Goto(r, step)
        \/ run[r].at # "eose" /\ run' = [run EXCEPT ![r].at = "query", ![r].q = 1]
        \/ run[r].at = "query" /\ run' = [run EXCEPT ![r].q = @ + 1]
        \/ run[r].at # "eose" /\ run' = [run EXCEPT ![r].at = "filter", ![r].i = @ + 1]
    BY <1>2 DEF Handle, HandleFilter, Query, QueriesEnd, AddListener, Reject, Stream, StreamEnd, Eose,
                Goto, Steps
  <2>2. ASSUME NEW step \in Steps \ {"unsent"}, Goto(r, step)
        PROVE  run'[r].at # "unsent" /\ (o # r => run'[o] = run[o])
    <3>1. Moves(r, [at |-> step, i |-> run[r].i, q |-> run[r].q])
      BY <2>2, GotoMoves
    <3> QED
      BY <3>1 DEF Moves
  <2>3. ASSUME run' = [run EXCEPT ![r].at = "query", ![r].q = 1]
        PROVE  run'[r].at # "unsent" /\ (o # r => run'[o] = run[o])
    <3>1. Moves(r, [at |-> "query", i |-> run[r].i, q |-> 1])
      BY <2>3, AsksMoves
    <3> QED
      BY <3>1 DEF Moves
  <2>4. ASSUME run[r].at = "query", run' = [run EXCEPT ![r].q = @ + 1]
        PROVE  run'[r].at # "unsent" /\ (o # r => run'[o] = run[o])
    BY <2>4, AskedMoves DEF Moves
  <2>5. ASSUME run' = [run EXCEPT ![r].at = "filter", ![r].i = @ + 1]
        PROVE  run'[r].at # "unsent" /\ (o # r => run'[o] = run[o])
    <3>1. Moves(r, [at |-> "filter", i |-> run[r].i + 1, q |-> run[r].q])
      BY <2>5, NextMoves
    <3> QED
      BY <3>1 DEF Moves
  <2> QED
    BY <2>1, <2>2, <2>3, <2>4, <2>5
<1>3. ASSUME NEW id \in Ids, SendClose(id) \/ Close(id)
      PROVE  run' = run
  BY <1>3 DEF SendClose, Close, answer
<1>4. ASSUME Disconnect \/ Authenticate \/ Broadcasting \/ \E e \in Events : SaveEvent(e)
      PROVE  run' = run
  BY <1>4, BroadcastingLeaves DEF Disconnect, Authenticate, SaveEvent, answer
<1>5. ASSUME NEW r \in Requests, Req(r)
      PROVE  /\ run[o].at # "unsent" => run'[o].at # "unsent"
             /\ run[o].at = "eose" => run'[o].at = "eose"
  BY <1>1, <1>5 DEF Req
<1> QED
  BY <1>2, <1>3, <1>4, <1>5 DEF Next, Broadcasting

\* The list is written: what that does to the broadcasts is of the right form.
LEMMA CrossesForm ==
  ASSUME WalkTypes, \E kind \in {"added", "removed"} : Crosses(kind)
  PROVE  /\ crossed' \in [Events -> SUBSET {"added", "removed"}]
         /\ \A e \in Events : crossed[e] \subseteq crossed'[e]
         /\ \A e \in Events \ walking : crossed'[e] = crossed[e]
BY DEF WalkTypes, Crosses

\* Steps that begin and end no broadcast, add no listener and make no id less quiet.
LEMMA WalksRest ==
  ASSUME WalkInv, Next,
         UNCHANGED <<walking, reach, there, audience, hushed>>, told \subseteq told', quiet \subseteq quiet',
         crossed' \in [Events -> SUBSET {"added", "removed"}],
         \A e \in Events \ walking : crossed'[e] = crossed[e]
  PROVE  WalkTypes' /\ \A e \in Events : WalkOK(e)'
<1>1. Types /\ WalkTypes
  BY DEF WalkInv, ViewInv, IInv
<1>2. WalkTypes'
  BY <1>1 DEF WalkTypes
<1>3. ASSUME NEW e \in Events
      PROVE  WalkOK(e)'
  <2>1. WalkOK(e) /\ reach[e] \in SUBSET Sites /\ audience[e] \in SUBSET Requests
    BY <1>1 DEF WalkInv, WalkTypes
  <2>2. ReachOK(e)'
    <3> SUFFICES ASSUME NEW l \in reach[e]
                 PROVE  /\ run'[l[1]].at # "unsent" /\ Sub[l[1]] \notin hushed[e]
                        /\ Filters[l[1]][l[2]].members => authed' = TRUE \/ Filters[l[1]][l[2]].zero
      BY DEF ReachOK
    <3>1. l[1] \in Requests
      BY <2>1 DEF Sites
    <3> QED
      BY <1>1, <2>1, <3>1, RunsOn, KeyAndStoreStay DEF WalkOK, ReachOK
  <2>3. AudienceOK(e)'
    BY <1>1, <2>1, RunsOn DEF WalkOK, AudienceOK, Wants
  <2> QED
    BY <1>3, <2>1, <2>2, <2>3 DEF WalkOK
<1> QED
  BY <1>2, <1>3

\* The listeners of the list, as a broadcast that begins finds them.
LEMMA ListenersAre ==
  ASSUME WalkInv
  PROVE  /\ listeners \subseteq Sites
         /\ \A l \in listeners :
              /\ run[l[1]].at # "unsent" /\ Sub[l[1]] \notin quiet
              /\ Filters[l[1]][l[2]].members => authed = TRUE \/ Filters[l[1]][l[2]].zero
<1>1. /\ Types /\ \A r \in Requests : HearOK(r) /\ QuietOK(r)
  BY DEF WalkInv, ViewInv, IInv, ListensOK, MayOK
<1>2. ASSUME NEW l \in listeners
      PROVE  /\ l \in Sites
             /\ run[l[1]].at # "unsent" /\ Sub[l[1]] \notin quiet
             /\ Filters[l[1]][l[2]].members => authed = TRUE \/ Filters[l[1]][l[2]].zero
  <2>1. PICK r \in Requests : l \in {r} \X (1..Len(Filters[r]))
    BY <1>1, <1>2 DEF Types
  <2>2. PICK i \in 1..Len(Filters[r]) : l = <<r, i>>
    BY <2>1
  <2>3. l \in Sites
    BY <2>2, FilterCounts DEF Sites
  <2>4. HearOK(r) /\ QuietOK(r) /\ <<r, i>> \in listeners
    BY <1>1, <1>2, <2>2
  <2> QED
    BY <2>2, <2>3, <2>4 DEF HearOK, QuietOK
<1> QED
  BY <1>2

LEMMA BroadcastEventWalks ==
  ASSUME WalkInv, NEW e \in Events, BroadcastEvent(e)
  PROVE  WalkTypes' /\ \A d \in Events : WalkOK(d)'
<1>1. Types /\ WalkTypes /\ \A r \in Requests : ListenOK(r)
  BY DEF WalkInv, ViewInv, IInv, ListensOK
<1>2. /\ run' = run /\ authed' = authed /\ quiet' = quiet /\ crossed' = crossed
      /\ walking' = walking \cup {e} /\ told' = told \cup {e}
      /\ reach'[e] = listeners /\ there'[e] = listeners /\ hushed'[e] = quiet
      /\ \A d \in Events \ {e} : /\ reach'[d] = reach[d] /\ there'[d] = there[d]
                                /\ audience'[d] = audience[d] /\ hushed'[d] = hushed[d]
  BY <1>1 DEF BroadcastEvent, WalkTypes, answer, ghosts
<1>3. \A r \in audience'[e] : /\ r \in Requests /\ connected = TRUE /\ run[r].at = "eose" /\ r \notin closed
                         /\ \E i \in DOMAIN Filters[r] : Wants(<<r, i>>, e)
  BY <1>1 DEF BroadcastEvent, WalkTypes, Types
<1>4. WalkTypes'
  <2>1. listeners \subseteq Sites /\ quiet \subseteq Ids
    BY <1>1, ListenersAre DEF Types
  <2> QED
    BY <1>1, <2>1 DEF BroadcastEvent, WalkTypes
<1>5. ReachOK(e)'
  BY <1>2, ListenersAre DEF ReachOK
<1>6. AudienceOK(e)'
  <2> SUFFICES ASSUME NEW r \in audience'[e]
               PROVE  /\ run[r].at = "eose"
                      /\ \A i \in 1..Len(Filters[r]) : <<r, i>> \in listeners
                      /\ \E i \in 1..Len(Filters[r]) : Wants(<<r, i>>, e)
    BY <1>2 DEF AudienceOK, Wants
  <2>1. DOMAIN Filters[r] = 1..Len(Filters[r])
    BY <1>3, FiltersAssumption
  <2> QED
    BY <1>1, <1>3, <2>1 DEF ListenOK, Listened
<1>7. WalkOK(e)'
  BY <1>2, <1>5, <1>6 DEF WalkOK
<1>8. ASSUME NEW d \in Events \ {e}
      PROVE  WalkOK(d)'
  <2>1. WalkOK(d)
    BY DEF WalkInv
  <2>2. ReachOK(d)' /\ AudienceOK(d)'
    BY <1>2, <2>1 DEF WalkOK, ReachOK, AudienceOK, Wants
  <2> QED
    BY <1>2, <2>1, <2>2 DEF WalkOK
<1> QED
  BY <1>4, <1>7, <1>8

LEMMA BroadcastEndWalks ==
  ASSUME WalkInv, NEW e \in Events, BroadcastEnd(e)
  PROVE  WalkTypes' /\ \A d \in Events : WalkOK(d)'
<1>1. WalkTypes
  BY DEF WalkInv
<1>2. /\ run' = run /\ authed' = authed /\ quiet' = quiet
      /\ walking' = walking \ {e} /\ told' = told
      /\ reach'[e] = {} /\ there'[e] = {} /\ hushed'[e] = {} /\ audience'[e] = {} /\ crossed'[e] = {}
      /\ \A d \in Events \ {e} : /\ reach'[d] = reach[d] /\ there'[d] = there[d]
                                /\ audience'[d] = audience[d] /\ hushed'[d] = hushed[d] /\ crossed'[d] = crossed[d]
  BY <1>1 DEF BroadcastEnd, WalkTypes, answer, ghosts
<1>3. WalkTypes'
  BY <1>1 DEF BroadcastEnd, WalkTypes
<1>4. WalkOK(e)'
  BY <1>2 DEF WalkOK, ReachOK, AudienceOK
<1>5. ASSUME NEW d \in Events \ {e}
      PROVE  WalkOK(d)'
  <2>1. WalkOK(d)
    BY DEF WalkInv
  <2>2. ReachOK(d)' /\ AudienceOK(d)'
    BY <1>2, <2>1 DEF WalkOK, ReachOK, AudienceOK, Wants
  <2> QED
    BY <1>2, <2>1, <2>2 DEF WalkOK
<1> QED
  BY <1>3, <1>4, <1>5

LEMMA ReqWalks ==
  ASSUME WalkInv, NEW r \in Requests, Req(r)
  PROVE  WalkTypes' /\ \A e \in Events : WalkOK(e)'
<1>1. Types /\ WalkTypes /\ Next
  BY DEF WalkInv, ViewInv, IInv, Next
<1>2. /\ quiet' = quiet \ {Sub[r]} /\ authed' = authed
      /\ \A e \in Events : hushed'[e] = hushed[e] \ {Sub[r]}
      /\ UNCHANGED <<told, walking, reach, there, crossed, audience>>
  BY DEF Req
<1>3. WalkTypes'
  BY <1>1, <1>2 DEF Req, WalkTypes
<1>4. ASSUME NEW e \in Events
      PROVE  WalkOK(e)'
  <2>1. WalkOK(e) /\ reach[e] \in SUBSET Sites /\ audience[e] \in SUBSET Requests
    BY <1>1 DEF WalkInv, WalkTypes
  <2>2. ReachOK(e)'
    <3> SUFFICES ASSUME NEW l \in reach[e]
                 PROVE  run'[l[1]].at # "unsent"
      BY <1>2, <1>4, <2>1 DEF WalkOK, ReachOK
    <3>1. l[1] \in Requests
      BY <2>1 DEF Sites
    <3> QED
      BY <1>1, <2>1, <3>1, RunsOn DEF WalkOK, ReachOK
  <2>3. AudienceOK(e)'
    BY <1>1, <1>2, <2>1, RunsOn DEF WalkOK, AudienceOK, Wants
  <2> QED
    BY <1>2, <1>4, <2>1, <2>2, <2>3 DEF WalkOK
<1> QED
  BY <1>3, <1>4

LEMMA AddListenerWalks ==
  ASSUME WalkInv, NEW r \in Requests, AddListener(r)
  PROVE  WalkTypes' /\ \A e \in Events : WalkOK(e)'
<1>. DEFINE l == <<r, run[r].i>>
<1>1. /\ Types /\ WalkTypes /\ PlaceOK(r) /\ QuietOK(r) /\ JudgedOK(r) /\ Next
  BY DEF WalkInv, ViewInv, IInv, HandlerOK, ListensOK, MayOK, Next, Handle
<1>2. /\ run[r].at = "listen" /\ run[r].i \in 1..Len(Filters[r])
      /\ told' = told /\ walking' = walking /\ there' = there /\ audience' = audience /\ hushed' = hushed
      /\ quiet' = quiet /\ authed' = authed
  BY <1>1 DEF AddListener, PlaceOK, ghosts
<1>3. CASE ~connected
  BY <1>1, <1>2, <1>3, WalksRest DEF AddListener, WalkTypes
<1>4. CASE connected
  <2>1. /\ l \in Sites /\ Sub[r] \notin quiet
        /\ Filters[r][run[r].i].members => authed = TRUE \/ Filters[r][run[r].i].zero
    BY <1>1, <1>2, FilterCounts DEF Sites, QuietOK, JudgedOK, Passed
  <2>2. \A e \in Events : reach'[e] = reach[e] \/ reach'[e] = reach[e] \cup {l}
    BY <1>4 DEF AddListener
  <2>3. /\ crossed' \in [Events -> SUBSET {"added", "removed"}]
        /\ \A e \in Events \ walking : crossed'[e] = crossed[e]
    BY <1>1, <1>4, CrossesForm DEF AddListener
  <2>4. reach' \in [Events -> SUBSET Sites]
    BY <1>1, <1>4, <2>1 DEF AddListener, WalkTypes
  <2>5. WalkTypes'
    BY <1>1, <1>2, <2>3, <2>4 DEF WalkTypes
  <2>6. run'[r].at # "unsent"
    BY <1>1, <1>2, RunsOn
  <2>7. ASSUME NEW e \in Events
        PROVE  WalkOK(e)'
    <3>1. WalkOK(e) /\ reach[e] \in SUBSET Sites /\ audience[e] \in SUBSET Requests
      BY <1>1 DEF WalkInv, WalkTypes
    <3>2. ReachOK(e)'
      <4>1. ASSUME NEW k \in reach[e]
            PROVE  /\ run'[k[1]].at # "unsent" /\ Sub[k[1]] \notin hushed[e]
                   /\ Filters[k[1]][k[2]].members => authed = TRUE \/ Filters[k[1]][k[2]].zero
        <5>1. k[1] \in Requests
          BY <3>1 DEF Sites
        <5> QED
          BY <1>1, <3>1, <5>1, RunsOn DEF WalkOK, ReachOK
      <4>2. Sub[r] \notin hushed[e]
        BY <2>1, <3>1 DEF WalkOK
      <4>3. l[1] = r /\ l[2] = run[r].i
        OBVIOUS
      <4> HIDE DEF l
      <4> QED
        BY <1>2, <2>1, <2>2, <2>6, <4>1, <4>2, <4>3 DEF ReachOK
    <3>3. AudienceOK(e)'
      BY <1>1, <1>2, <3>1, RunsOn DEF WalkOK, AudienceOK, Wants
    <3> QED
      BY <1>2, <2>2, <2>3, <2>7, <3>1, <3>2, <3>3 DEF WalkOK
  <2> QED
    BY <2>5, <2>7
<1> QED
  BY <1>3, <1>4

LEMMA WalksStay ==
  ASSUME WalkInv, Next
  PROVE  WalkTypes' /\ \A e \in Events : WalkOK(e)'
<1>1. Types /\ WalkTypes
  BY DEF WalkInv, ViewInv, IInv
<1>2. ASSUME UNCHANGED <<broadcasts, quiet>>
      PROVE  WalkTypes' /\ \A e \in Events : WalkOK(e)'
  BY <1>1, <1>2, WalksRest DEF WalkTypes, broadcasts
<1>3. ASSUME NEW r \in Requests, Handle(r), ~AddListener(r)
      PROVE  UNCHANGED <<broadcasts, quiet>>
  BY <1>3 DEF Handle, HandleFilter, Query, QueriesEnd, Reject, Stream, StreamEnd, Eose, ghosts
<1>4. ASSUME NEW id \in Ids, SendClose(id)
      PROVE  UNCHANGED <<broadcasts, quiet>>
  BY <1>4 DEF SendClose, ghosts
<1>5. ASSUME NEW id \in Ids, Close(id)
      PROVE  WalkTypes' /\ \A e \in Events : WalkOK(e)'
  <2>1. /\ crossed' \in [Events -> SUBSET {"added", "removed"}]
        /\ \A e \in Events \ walking : crossed'[e] = crossed[e]
    BY <1>1, <1>5, CrossesForm DEF Close, WalkTypes
  <2> QED
    BY <1>5, <2>1, WalksRest DEF Close
<1>6. ASSUME Disconnect \/ Authenticate \/ \E e \in Events : SaveEvent(e) \/ NotifyListener(e)
      PROVE  UNCHANGED <<broadcasts, quiet>>
  BY <1>6 DEF Disconnect, Authenticate, SaveEvent, NotifyListener, ghosts
<1>7. CASE OthersWrite
  <2>1. /\ crossed' \in [Events -> SUBSET {"added", "removed"}]
        /\ \A e \in Events \ walking : crossed'[e] = crossed[e]
    BY <1>1, <1>7, CrossesForm DEF OthersWrite
  <2> QED
    BY <1>7, <2>1, WalksRest DEF OthersWrite, ghosts
<1>8. ASSUME NEW e \in Events, Overrun(e)
      PROVE  WalkTypes' /\ \A d \in Events : WalkOK(d)'
  <2>1. e \in walking
    BY <1>8 DEF WalkInv, WalkOK, Overrun
  <2>2. /\ crossed' \in [Events -> SUBSET {"added", "removed"}]
        /\ \A d \in Events \ walking : crossed'[d] = crossed[d]
    BY <1>1, <1>8, <2>1 DEF Overrun, WalkTypes
  <2> QED
    BY <1>8, <2>2, WalksRest DEF Overrun, ghosts
<1> QED
  BY <1>2, <1>3, <1>4, <1>5, <1>6, <1>7, <1>8, ReqWalks, AddListenerWalks, BroadcastEventWalks,
     BroadcastEndWalks DEF Next, Handle

\* What a broadcast under way can write to was listened to by who may hear it and is of no id that
\* was quiet when it began; and who is owed the event is listened for (listener.go:137-150).
THEOREM WalksGoWell == Spec => []WalkInv
<1>1. Init => WalkTypes /\ \A e \in Events : WalkOK(e)
  BY DEF Init, WalkTypes, WalkOK, ReachOK, AudienceOK
<1>2. WalkInv /\ [Next]_vars => (WalkTypes /\ \A e \in Events : WalkOK(e))'
  <2> SUFFICES ASSUME WalkInv, [Next]_vars
               PROVE  WalkTypes' /\ \A e \in Events : WalkOK(e)'
    OBVIOUS
  <2>1. CASE UNCHANGED vars
    BY <2>1 DEF WalkInv, WalkTypes, WalkOK, ReachOK, AudienceOK, Wants, vars
  <2> QED
    BY <2>1, WalksStay
<1>3. WalkInv <=> ViewInv /\ (WalkTypes /\ \A e \in Events : WalkOK(e))
  BY DEF WalkInv
<1> QED
  BY <1>1, <1>2, <1>3, OnlyWhoMayGets, PTL DEF Spec

\* Handlers, counters, answers and listeners always are what the code can make of them; above all,
\* the WaitGroup of a REQ is never negative, which would be a panic (responding.go:36-59).
THEOREM TypesHold == Spec => []TypeOK
<1>1. WalkInv => TypeOK
  <2> SUFFICES ASSUME WalkInv
               PROVE  TypeOK
    OBVIOUS
  <2>1. Types /\ WalkTypes /\ \A e \in Events : there[e] \subseteq reach[e]
    BY DEF WalkInv, ViewInv, IInv, WalkOK
  <2>2. ASSUME NEW r \in Requests
        PROVE  /\ run[r].at \in Steps
               /\ run[r].at \in {"filter", "query", "listen", "reject"} => run[r].i \in 1..Len(Filters[r])
               /\ eose[r] \in Nat
               /\ streams[r] \subseteq [filter : 1..Len(Filters[r]), query : 1..Queries, left : SUBSET Events]
               /\ got[r] \subseteq Events
    <3>1. HandlerOK(r) /\ PlaceOK(r) /\ StreamsOK(r) /\ CountOK(r)
      BY DEF WalkInv, ViewInv, IInv, HandlerOK
    <3>2. run[r].at \in Steps /\ got[r] \subseteq Events
      BY <2>1, PlaceIs DEF Types
    <3>3. run[r].at \in {"filter", "query", "listen", "reject"} => run[r].i \in 1..Len(Filters[r])
      BY <3>1 DEF PlaceOK
    <3>4. Undone(r) \in Nat
      BY <2>1, <3>1, UndoneIsNat
    <3>5. eose[r] \in Nat
      BY <3>1, <3>4, OpenIsFinite DEF CountOK
    <3>6. \A s \in streams[r] : s \in [filter : 1..Len(Filters[r]), query : 1..Queries, left : SUBSET Events]
      BY <2>1, <3>1 DEF StreamsOK, Types, stream
    <3> QED
      BY <3>2, <3>3, <3>5, <3>6
  <2>3. \A e \in Events :
          /\ \A l \in reach[e] : l[1] \in Requests /\ l[2] \in 1..Len(Filters[l[1]])
          /\ crossed[e] \subseteq {"added", "removed"}
          /\ audience[e] \subseteq Requests /\ hushed[e] \subseteq Ids
    BY <2>1 DEF WalkTypes, Sites
  <2>4. walking \subseteq told
    BY <2>1 DEF WalkTypes
  <2> QED
    BY <2>1, <2>2, <2>3, <2>4 DEF Types, TypeOK, Steps
<1> QED
  BY <1>1, WalksGoWell, PTL

\* A broadcast ends.
LEMMA WalkingEnds ==
  ASSUME Next, NEW e \in walking \ walking'
  PROVE  BroadcastEnd(e)
<1>1. ASSUME NEW r \in Requests, Req(r) \/ Handle(r)
      PROVE  walking' = walking
  BY <1>1 DEF Req, Handle, HandleFilter, Query, QueriesEnd, AddListener, Reject, Stream, StreamEnd, Eose,
              broadcasts
<1>2. ASSUME NEW id \in Ids, SendClose(id) \/ Close(id)
      PROVE  walking' = walking
  BY <1>2 DEF SendClose, Close, broadcasts
<1>3. ASSUME Disconnect \/ Authenticate \/ OthersWrite
      PROVE  walking' = walking
  BY <1>3 DEF Disconnect, Authenticate, OthersWrite, broadcasts
<1>4. ASSUME NEW d \in Events, SaveEvent(d) \/ BroadcastEvent(d) \/ NotifyListener(d) \/ Overrun(d)
      PROVE  walking \subseteq walking'
  BY <1>4 DEF SaveEvent, BroadcastEvent, NotifyListener, Overrun, broadcasts
<1>5. ASSUME NEW d \in Events, BroadcastEnd(d)
      PROVE  d = e
  BY <1>5 DEF BroadcastEnd
<1> QED
  BY <1>1, <1>2, <1>3, <1>4, <1>5 DEF Next

\* What a broadcast has sent to a client when it ends, if no other writes made it miss something.
LEMMA AudienceHasIt ==
  ASSUME WalkInv, NEW e \in Events, BroadcastEnd(e), Exact(e), connected, NEW r \in audience[e] \ closed
  PROVE  e \in got[r]
<1>1. Types /\ WalkTypes /\ AudienceOK(e) /\ r \in Requests /\ ListenOK(r)
  BY DEF WalkInv, ViewInv, IInv, WalkOK, WalkTypes, ListensOK
<1>2. PICK i \in 1..Len(Filters[r]) : Wants(<<r, i>>, e)
  BY <1>1 DEF AudienceOK
<1>3. <<r, i>> \in there[e] \cap listeners
  BY <1>1 DEF AudienceOK, ListenOK, Listened, Types
<1>4. e \in got[<<r, i>>[1]]
  BY <1>2, <1>3 DEF BroadcastEnd
<1> QED
  BY <1>4

\* Closing another subscription, a rejected REQ and a late handler take nothing from a client with an
\* EOSE: it gets what is broadcast from then on, unless additions and removals both meet the
\* broadcast or its list grew under it (handlers.go:305-327, listener.go:137-150).
THEOREM NothingIsMissed == Spec => NothingMissedAfterEose
<1>1. WalkInv /\ [Next]_vars =>
        [\A e \in walking \ walking' :
           Exact(e) /\ connected => \A r \in audience[e] \ closed : e \in got'[r]]_vars
  <2> SUFFICES ASSUME WalkInv, Next, NEW e \in walking \ walking', Exact(e), connected,
                      NEW r \in audience[e] \ closed
               PROVE  e \in got'[r]
    OBVIOUS
  <2>1. e \in Events
    BY DEF WalkInv, WalkTypes, ViewInv, IInv, Types
  <2>2. BroadcastEnd(e)
    BY WalkingEnds
  <2> QED
    BY <2>1, <2>2, AudienceHasIt DEF BroadcastEnd
<1> QED
  BY <1>1, WalksGoWell, PTL DEF Spec, NothingMissedAfterEose

\* A step that gives a client something is of an answer or of a broadcast.
LEMMA GotByStep ==
  ASSUME Next
  PROVE  \/ got' = got
         \/ \E r \in Requests : Stream(r)
         \/ \E e \in Events : NotifyListener(e)
<1>1. ASSUME NEW r \in Requests, Req(r) \/ Handle(r), ~Stream(r)
      PROVE  got' = got
  BY <1>1 DEF Req, Handle, HandleFilter, Query, QueriesEnd, AddListener, Reject, StreamEnd, Eose
<1>2. ASSUME NEW id \in Ids, SendClose(id) \/ Close(id)
      PROVE  got' = got
  BY <1>2 DEF SendClose, Close
<1>3. ASSUME Disconnect \/ Authenticate \/ OthersWrite
      PROVE  got' = got
  BY <1>3 DEF Disconnect, Authenticate, OthersWrite
<1>4. ASSUME NEW e \in Events, SaveEvent(e) \/ BroadcastEvent(e) \/ BroadcastEnd(e) \/ Overrun(e)
      PROVE  got' = got
  BY <1>4 DEF SaveEvent, BroadcastEvent, BroadcastEnd, Overrun
<1> QED
  BY <1>1, <1>2, <1>3, <1>4 DEF Next, Handle

\* A subscription that was closed after its EOSE gets nothing until its id is used again, but what is
\* of a broadcast that began before the CLOSE was handled, or that mixes two listeners' fields
\* (handlers.go:325-327, listener.go:64-99 against 139-146).
THEOREM ClosedIsQuiet == Spec => QuietAfterClose
<1>1. WalkInv /\ [Next]_vars =>
        [\A r \in Requests : Sub[r] \in quiet /\ run[r].at # "unsent" =>
           \A e \in got'[r] \ got[r] : e \in walking /\ (Sub[r] \notin hushed[e] \/ Torn(e))]_vars
  <2> SUFFICES ASSUME WalkInv, Next,
                      NEW r \in Requests, Sub[r] \in quiet, run[r].at # "unsent",
                      NEW e \in got'[r] \ got[r]
               PROVE  e \in walking /\ (Sub[r] \notin hushed[e] \/ Torn(e))
    OBVIOUS
  <2>1. QuietOK(r) /\ PlaceOK(r) /\ Types
    BY DEF WalkInv, ViewInv, IInv, ListensOK, HandlerOK
  <2>2. streams[r] = {}
    BY <2>1 DEF QuietOK, PlaceOK
  <2>3. ASSUME NEW o \in Requests, Stream(o)
        PROVE  FALSE
    <3>1. o # r
      BY <2>2, <2>3 DEF Stream
    <3> QED
      BY <2>1, <2>3, <3>1 DEF Stream, Types
  <2>4. PICK d \in Events : NotifyListener(d)
    BY <2>3, GotByStep
  <2>5. d \in walking /\ ReachOK(d)
    BY <2>4 DEF NotifyListener, WalkInv, WalkOK
  <2>6. PICK o : got' = [got EXCEPT ![o] = @ \cup {d}] /\ (Torn(d) \/ \E l \in reach[d] : o = l[1])
    BY <2>4 DEF NotifyListener
  <2>7. o = r /\ e = d
    BY <2>1, <2>6 DEF Types
  <2> QED
    BY <2>5, <2>6, <2>7 DEF ReachOK
<1> QED
  BY <1>1, WalksGoWell, PTL DEF Spec, QuietAfterClose

-----------------------------------------------------------------------------
(* Every step as the client sees it.                                       *)

LEMMA PhaseIs ==
  ASSUME Types, NEW r \in Requests
  PROVE  /\ Phases[r] = "unsent" <=> run[r].at = "unsent"
         /\ Phases[r] = "live" <=> run[r].at = "eose"
         /\ Phases[r] = "refused" <=> run[r].at = "closed"
         /\ Phases[r] = "asked" <=> run[r].at \in {"filter", "query", "listen", "reject", "wait"}
<1>1. run[r].at \in Steps
  BY PlaceIs
<1>. QED
  BY <1>1 DEF Phases, Phase, Steps

LEMMA PhasesAre ==
  /\ Phases = [r \in Requests |-> Phase(r)]
  /\ Phases' = [r \in Requests |-> Phase(r)']
BY DEF Phases

\* The handler of r moves, and the others stay.
LEMMA PhaseMoves ==
  ASSUME NEW r \in Requests, \A o \in Requests \ {r} : run'[o] = run[o]
  PROVE  /\ Phases' = [Phases EXCEPT ![r] = Phase(r)']
         /\ Phase(r)' = Phase(r) => Phases' = Phases
<1>1. \A o \in Requests \ {r} : Phase(o)' = Phase(o)
  BY DEF Phase
<1>. QED
  BY <1>1, PhasesAre

LEMMA PhasesStay ==
  ASSUME \A o \in Requests : run'[o].at = run[o].at
  PROVE  Phases' = Phases
<1>1. \A o \in Requests : Phase(o)' = Phase(o)
  BY DEF Phase
<1>. QED
  BY <1>1, PhasesAre

LEMMA OwedIs ==
  ASSUME Types, NEW r \in Requests, NEW S \in SUBSET Events
  PROVE  S \cap Recalled(r) = {e \in S : View!Recalls(r, e)}
BY DEF Recalled, View!Recalls

\* The view's account of the broadcasts, when they go on as they did.
LEMMA PublicationsStay ==
  ASSUME UNCHANGED broadcasts
  PROVE  UNCHANGED View!publications
BY DEF broadcasts, View!publications

LEMMA CrossesMaps ==
  ASSUME WalkTypes, crossed' = crossed \/ \E kind \in {"added", "removed"} : Crosses(kind)
  PROVE  View!Crossing
<1>1. CASE crossed' = crossed
  BY <1>1 DEF WalkTypes, View!Crossing
<1>2. CASE \E kind \in {"added", "removed"} : Crosses(kind)
  BY <1>2, CrossesForm DEF View!Crossing
<1>. QED
  BY <1>1, <1>2

LEMMA InitMaps == Init => View!ViewInit
<1>. SUFFICES ASSUME Init
              PROVE  View!ViewInit
  OBVIOUS
<1>1. \A r \in Requests : Phase(r) = "unsent"
  BY DEF Init, Phase
<1>2. Phases = [r \in Requests |-> "unsent"]
  BY <1>1 DEF Phases
<1>. QED
  BY <1>2 DEF Init, Excused, View!ViewInit

LEMMA ReqMaps ==
  ASSUME Types, NEW r \in Requests, PlaceOK(r), Req(r)
  PROVE  View!Ask(r)
<1>1. /\ run[r].at = "unsent" /\ run'[r].at \in {"wait", "filter"}
      /\ \A o \in Requests \ {r} : run'[o] = run[o]
  <2>1. PICK step \in {"wait", "filter"} : Goto(r, step)
    BY DEF Req
  <2>. QED
    BY <2>1, GotoMoves DEF Req, Moves, Steps
<1>2. Phases[r] = "unsent" /\ Phases' = [Phases EXCEPT ![r] = "asked"]
  <2>1. Phase(r)' = "asked"
    BY <1>1 DEF Phase
  <2>. QED
    BY <1>1, <2>1, PhaseIs, PhaseMoves
<1>3. before' = [before EXCEPT ![r] = {e \in stored : View!Recalls(r, e)}]
  BY OwedIs DEF Req, Types
<1>. QED
  BY <1>2, <1>3 DEF Req, Excused, View!Ask

LEMMA StreamMaps ==
  ASSUME ViewInv, NEW r \in Requests, Stream(r)
  PROVE  UNCHANGED View!viewVars \/ \E e \in Events : View!Answer(r, e)
<1>1. Types /\ PlaceOK(r) /\ StreamsOK(r) /\ QuietOK(r) /\ ReadOK(r)
  BY DEF ViewInv, IInv, HandlerOK, ListensOK, MayOK
<1>2. PICK s \in streams[r] : \E e \in s.left : got' = IF connected THEN [got EXCEPT ![r] = @ \cup {e}] ELSE got
  BY DEF Stream
<1>3. PICK e \in s.left : got' = IF connected THEN [got EXCEPT ![r] = @ \cup {e}] ELSE got
  BY <1>2
<1>4. Phases' = Phases /\ before' = before /\ Excused' = Excused
  BY PhasesStay DEF Stream, Excused, ghosts
<1>5. UNCHANGED <<connected, authed, stored, broadcasts, closed, quiet>>
  BY DEF Stream, ghosts
<1>6. CASE ~connected
  BY <1>3, <1>4, <1>5, <1>6 DEF broadcasts, View!viewVars
<1>7. CASE connected
  <2>1. streams[r] # {} /\ run[r].at \notin {"unsent", "eose"} /\ Sub[r] \notin quiet
    BY <1>1 DEF PlaceOK, QuietOK
  <2>2. Phases[r] \in {"asked", "refused"}
    BY <1>1, <2>1, PhaseIs, PlaceIs DEF Steps
  <2>3. e \in Events /\ e \in stored /\ View!MayRecall(r, e)
    <3>1. s.filter \in DOMAIN Filters[r]
      BY <1>1, FiltersAssumption DEF StreamsOK
    <3>2. /\ ~Filters[r][s.filter].zero /\ e \in Filters[r][s.filter].matches /\ e \in stored
          /\ Filters[r][s.filter].members => authed = TRUE
      BY <1>1, <1>3 DEF ReadOK
    <3>. QED
      BY <1>1, <3>1, <3>2 DEF View!MayRecall, Types
  <2>4. View!Answer(r, e)
    BY <1>3, <1>4, <1>5, <1>7, <2>1, <2>2, <2>3, PublicationsStay DEF View!Answer
  <2>. QED
    BY <2>3, <2>4
<1>. QED
  BY <1>6, <1>7

LEMMA EoseMaps ==
  ASSUME ViewInv, NEW r \in Requests, Eose(r)
  PROVE  View!Finish(r)
<1>1. Types /\ HandlerOK(r) /\ JudgedOK(r)
  BY DEF ViewInv, IInv, MayOK
<1>2. /\ run[r].at = "wait" /\ run'[r].at = "eose" /\ eose[r] = 0
      /\ \A o \in Requests \ {r} : run'[o] = run[o]
  BY <1>1, GotoMoves DEF Eose, Moves, Steps
<1>3. streams[r] = {}
  <2>1. Cardinality(Open(r)) = 0 /\ IsFiniteSet(Open(r))
    BY <1>1, <1>2, OpenIsFinite DEF HandlerOK, CountOK, Undone
  <2>2. Open(r) = {}
    BY <2>1, FS_EmptySet
  <2>. QED
    BY <2>2 DEF Open
<1>4. Phases[r] = "asked" /\ Phases' = [Phases EXCEPT ![r] = "live"]
  <2>1. Phase(r)' = "live"
    BY <1>2 DEF Phase
  <2>. QED
    BY <1>1, <1>2, <2>1, PhaseIs, PhaseMoves
<1>5. DOMAIN Filters[r] = 1..Len(Filters[r])
  BY FiltersAssumption
<1>6. r \in Excused \/ before[r] \subseteq got[r]
  <2>1. before[r] \subseteq Recalled(r)
    BY <1>1 DEF Types
  <2>. QED
    BY <1>1, <1>2, <1>3, <1>5, <2>1 DEF HandlerOK, AnsweredOK, Asked, Excused, Recalled
<1>7. View!MayListen(r)
  BY <1>1, <1>2, <1>5 DEF JudgedOK, Passed, View!MayListen
<1>8. before' = before /\ Excused' = Excused
  BY DEF Eose, Excused, ghosts
<1>. QED
  BY <1>4, <1>6, <1>7, <1>8, PublicationsStay DEF Eose, ghosts, View!Finish

LEMMA RejectMaps ==
  ASSUME ViewInv, NEW r \in Requests, Reject(r)
  PROVE  View!Refuse(r)
<1>1. Types /\ PlaceOK(r) /\ JudgedOK(r)
  BY DEF ViewInv, IInv, HandlerOK, MayOK
<1>2. /\ run[r].at = "reject" /\ run'[r].at = "closed"
      /\ \A o \in Requests \ {r} : run'[o] = run[o]
  BY <1>1, GotoMoves DEF Reject, Moves, Steps
<1>3. Phases[r] = "asked" /\ Phases' = [Phases EXCEPT ![r] = "refused"]
  <2>1. Phase(r)' = "refused"
    BY <1>2 DEF Phase
  <2>. QED
    BY <1>1, <1>2, <2>1, PhaseIs, PhaseMoves
<1>4. View!MayRefuse(r)
  <2>1. run[r].i \in DOMAIN Filters[r]
    BY <1>1, <1>2, FiltersAssumption DEF PlaceOK
  <2>. QED
    BY <1>1, <1>2, <2>1 DEF JudgedOK, View!MayRefuse
<1>5. before' = before /\ Excused' = Excused \cup {r}
  BY DEF Reject, Excused, ghosts
<1>. QED
  BY <1>3, <1>4, <1>5, PublicationsStay DEF Reject, ghosts, View!Refuse

LEMMA QueryMaps ==
  ASSUME Types, NEW r \in Requests, Query(r)
  PROVE  UNCHANGED View!viewVars \/ View!Fail(r)
<1>1. run[r].at = "query" /\ \A o \in Requests : run'[o].at = run[o].at
  BY AskedMoves DEF Query, Moves
<1>2. Phases[r] = "asked" /\ Phases' = Phases
  BY <1>1, PhaseIs, PhasesStay
<1>3. before' = before
  BY DEF Query, ghosts
<1>4. failed' = failed \/ failed' = failed \cup {r}
  BY DEF Query
<1>5. cancelled' = cancelled
  BY DEF Query
<1>6. UNCHANGED <<connected, authed, stored, broadcasts, got, closed, quiet>>
  BY DEF Query, ghosts
<1>7. CASE failed' = failed
  BY <1>2, <1>3, <1>5, <1>6, <1>7 DEF Excused, broadcasts, View!viewVars
<1>8. CASE failed' = failed \cup {r}
  BY <1>2, <1>3, <1>5, <1>6, <1>8, PublicationsStay DEF Excused, View!Fail
<1>. QED
  BY <1>4, <1>7, <1>8

\* The steps of a handler that nobody sees.
LEMMA InnerMaps ==
  ASSUME Types, WalkTypes, NEW r \in Requests,
         HandleFilter(r) \/ QueriesEnd(r) \/ AddListener(r) \/ StreamEnd(r)
  PROVE  UNCHANGED View!viewVars \/ View!Cross
<1>1. /\ UNCHANGED <<connected, authed, stored, told, walking, audience, hushed, got, failed, cancelled,
                     before, closed, quiet>>
      /\ \A o \in Requests \ {r} : run'[o] = run[o]
  BY DEF HandleFilter, QueriesEnd, AddListener, StreamEnd, ghosts, broadcasts, Goto, Types
<1>2. Phases' = Phases
  <2>1. CASE StreamEnd(r)
    BY <2>1, PhasesStay DEF StreamEnd
  <2>2. CASE ~StreamEnd(r)
    <3>1. /\ run[r].at \in {"filter", "query", "listen"}
          /\ run'[r].at \in {"filter", "query", "listen", "reject", "wait"}
      <4>1. CASE HandleFilter(r)
        BY <4>1, GotoMoves, AsksMoves DEF HandleFilter, Moves, Steps
      <4>2. CASE QueriesEnd(r)
        BY <4>2, GotoMoves DEF QueriesEnd, Moves, Steps
      <4>3. CASE AddListener(r)
        <5>1. /\ run[r].at = "listen"
              /\ run' = [run EXCEPT ![r].at = "filter", ![r].i = @ + 1] \/ Goto(r, "wait")
          BY <4>3 DEF AddListener, Goto
        <5>2. CASE run' = [run EXCEPT ![r].at = "filter", ![r].i = @ + 1]
          BY <5>1, <5>2, NextMoves DEF Moves
        <5>3. CASE Goto(r, "wait")
          BY <5>1, <5>3, GotoMoves DEF Moves, Steps
        <5>. QED
          BY <5>1, <5>2, <5>3
      <4>. QED
        BY <2>2, <4>1, <4>2, <4>3
    <3>2. Phase(r)' = Phase(r)
      BY <3>1 DEF Phase
    <3>. QED
      BY <1>1, <3>2, PhaseMoves
  <2>. QED
    BY <2>1, <2>2
<1>3. crossed' = crossed \/ Crosses("added")
  BY DEF HandleFilter, QueriesEnd, AddListener, StreamEnd, broadcasts
<1>. QED
  BY <1>1, <1>2, <1>3, CrossesMaps DEF Excused, View!Cross

LEMMA CloseMaps ==
  ASSUME WalkInv, NEW r \in Requests, Close(Sub[r])
  PROVE  View!Unsubscribe(Sub[r])
<1>. DEFINE id == Sub[r]
            lost == {l[1] : l \in Closed(id)}
            sent == {o \in Requests : Sub[o] = id /\ run[o].at # "unsent"}
<1>1. Types /\ WalkTypes /\ \A o \in Requests : HearOK(o)
  BY DEF WalkInv, ViewInv, IInv, MayOK
<1>2. Phases' = Phases /\ before' = before
  BY PhasesStay DEF Close, answer
<1>3. sent = View!Requested(id)
  BY <1>1, PhaseIs DEF View!Requested
<1>4. lost \subseteq View!Requested(id)
  <2>. SUFFICES ASSUME NEW l \in Closed(id)
                PROVE  l[1] \in sent
    BY <1>3
  <2>1. l \in listeners /\ Sub[l[1]] = id
    BY DEF Closed
  <2>2. PICK o \in Requests : l \in {o} \X (1..Len(Filters[o]))
    BY <1>1, <2>1 DEF Types
  <2>3. PICK i \in 1..Len(Filters[o]) : l = <<o, i>>
    BY <2>2
  <2>. QED
    BY <1>1, <2>1, <2>3 DEF HearOK
<1>5. Excused' = Excused \cup lost
  BY DEF Close, Excused, answer
<1>6. /\ closed' = closed \cup sent
      /\ quiet' = IF \A o \in sent : run[o].at = "eose" THEN quiet \cup {id} ELSE quiet
  BY DEF Close
<1>7. (\A o \in sent : run[o].at = "eose") <=> \A o \in View!Requested(id) : Phases[o] = "live"
  BY <1>1, <1>3, PhaseIs
<1>8. UNCHANGED <<connected, authed, stored, told, walking, audience, hushed, got>>
  BY DEF Close, answer
<1>9. View!Crossing
  BY <1>1, CrossesMaps DEF Close
<1>. HIDE DEF lost, sent
<1>. QED
  BY <1>2, <1>3, <1>4, <1>5, <1>6, <1>7, <1>8, <1>9 DEF View!Unsubscribe

LEMMA PublishMaps ==
  ASSUME Types, NEW e \in Events, BroadcastEvent(e)
  PROVE  View!Publish(e)
<1>1. Phases' = Phases /\ before' = before /\ Excused' = Excused
  BY PhasesStay DEF BroadcastEvent, answer, ghosts, Excused
<1>2. \A r \in Requests : Phases[r] = "live" <=> run[r].at = "eose"
  BY PhaseIs
<1>3. {r \in Requests : /\ connected /\ run[r].at = "eose" /\ r \notin closed
                        /\ \E i \in DOMAIN Filters[r] : Wants(<<r, i>>, e)} = View!Audience(e)
  BY <1>2 DEF Wants, View!Audience, View!AsksFor
<1>. QED
  BY <1>1, <1>3 DEF BroadcastEvent, ghosts, View!Publish

LEMMA TellMaps ==
  ASSUME WalkInv, NEW e \in Events, NotifyListener(e)
  PROVE  \E r \in Requests : View!Tell(r, e)
<1>1. /\ Types /\ WalkTypes /\ ReachOK(e)
  BY DEF WalkInv, ViewInv, IInv, WalkOK
<1>2. Phases' = Phases /\ before' = before /\ Excused' = Excused
  BY PhasesStay DEF NotifyListener, answer, ghosts, Excused
<1>3. UNCHANGED <<connected, authed, stored, closed, quiet>> /\ UNCHANGED View!publications
  BY PublicationsStay DEF NotifyListener, ghosts
<1>4. connected /\ e \in walking
  BY DEF NotifyListener
<1>5. ASSUME NEW l \in reach[e], Wants(l, e), got' = [got EXCEPT ![l[1]] = @ \cup {e}]
      PROVE  l[1] \in Requests /\ View!Tell(l[1], e)
  <2>1. l[1] \in Requests /\ l[2] \in DOMAIN Filters[l[1]]
    BY <1>1, FiltersAssumption DEF WalkTypes, Sites
  <2>2. Phases[l[1]] # "unsent" /\ Sub[l[1]] \notin hushed[e]
    BY <1>1, <2>1, PhaseIs DEF ReachOK
  <2>3. View!MayHear(l[1], e)
    BY <1>1, <1>5, <2>1 DEF ReachOK, Wants, View!MayHear
  <2>. QED
    BY <1>2, <1>3, <1>4, <1>5, <2>1, <2>2, <2>3 DEF View!Tell
<1>6. ASSUME Torn(e), NEW r \in Requests, got' = [got EXCEPT ![r] = @ \cup {e}]
      PROVE  View!Tell(r, e)
  BY <1>2, <1>3, <1>4, <1>6 DEF Torn, View!Garbled, View!Tell
<1>. QED
  BY <1>5, <1>6 DEF NotifyListener

LEMMA PublishedMaps ==
  ASSUME WalkInv, NEW e \in Events, BroadcastEnd(e)
  PROVE  View!Published(e)
<1>1. Phases' = Phases /\ before' = before /\ Excused' = Excused
  BY PhasesStay DEF BroadcastEnd, answer, ghosts, Excused
<1>2. View!Missing(e) \/ \A r \in audience[e] \ closed : connected => e \in got[r]
  BY AudienceHasIt DEF Exact, View!Missing
<1>. QED
  BY <1>1, <1>2 DEF BroadcastEnd, ghosts, View!Published

\* The writes of others, and an array that grew.
LEMMA CrossMaps ==
  ASSUME WalkInv, OthersWrite \/ \E e \in Events : Overrun(e)
  PROVE  View!Cross
<1>1. WalkTypes /\ \A e \in Events : WalkOK(e)
  BY DEF WalkInv
<1>2. /\ Phases' = Phases
      /\ UNCHANGED <<connected, authed, stored, told, walking, audience, hushed, before, got, closed, quiet>>
      /\ Excused' = Excused
  BY PhasesStay DEF OthersWrite, Overrun, answer, ghosts, Excused
<1>3. View!Crossing
  <2>1. ASSUME NEW e \in Events, Overrun(e)
        PROVE  View!Crossing
    <3>1. e \in walking /\ crossed' = [crossed EXCEPT ![e] = {"added", "removed"}]
      BY <1>1, <2>1 DEF WalkOK, Overrun
    <3>. QED
      BY <1>1, <3>1 DEF WalkTypes, View!Crossing
  <2>. QED
    BY <1>1, <2>1, CrossesMaps DEF OthersWrite
<1>. QED
  BY <1>2, <1>3 DEF View!Cross

LEMMA StepMaps == WalkInv /\ [Next]_vars => [View!ViewNext]_(View!viewVars)
<1>. SUFFICES ASSUME WalkInv, [Next]_vars
              PROVE  View!ViewNext \/ UNCHANGED View!viewVars
  OBVIOUS
<1>1. Types /\ WalkTypes /\ ViewInv /\ \A r \in Requests : PlaceOK(r)
  BY DEF WalkInv, ViewInv, IInv, HandlerOK
<1>2. CASE UNCHANGED vars
  <2>1. Phases' = Phases /\ before' = before
    BY <1>2, PhasesStay DEF vars
  <2>. QED
    BY <1>2, <2>1 DEF vars, Excused, View!viewVars
<1>3. ASSUME NEW r \in Requests, Req(r)
      PROVE  View!ViewNext
  BY <1>1, <1>3, ReqMaps DEF View!ViewNext
<1>4. ASSUME NEW r \in Requests, Handle(r)
      PROVE  View!ViewNext \/ UNCHANGED View!viewVars
  <2>1. CASE Query(r)
    BY <1>1, <2>1, QueryMaps DEF View!ViewNext
  <2>2. CASE Reject(r)
    BY <1>1, <2>2, RejectMaps DEF View!ViewNext
  <2>3. CASE Stream(r)
    BY <1>1, <2>3, StreamMaps DEF View!ViewNext
  <2>4. CASE Eose(r)
    BY <1>1, <2>4, EoseMaps DEF View!ViewNext
  <2>5. CASE HandleFilter(r) \/ QueriesEnd(r) \/ AddListener(r) \/ StreamEnd(r)
    BY <1>1, <2>5, InnerMaps DEF View!ViewNext
  <2>. QED
    BY <1>4, <2>1, <2>2, <2>3, <2>4, <2>5 DEF Handle
<1>5. ASSUME NEW id \in Ids, SendClose(id)
      PROVE  UNCHANGED View!viewVars
  <2>1. Phases' = Phases /\ before' = before
    BY <1>5, PhasesStay DEF SendClose, answer, ghosts
  <2>. QED
    BY <1>5, <2>1 DEF SendClose, answer, ghosts, broadcasts, Excused, View!viewVars
<1>6. ASSUME NEW id \in Ids, Close(id)
      PROVE  View!ViewNext
  <2>1. PICK r \in Requests : id = Sub[r]
    BY DEF Ids
  <2>. QED
    BY <1>6, <2>1, CloseMaps DEF View!ViewNext
<1>7. CASE Disconnect
  <2>1. Phases' = Phases /\ before' = before
    BY <1>7, PhasesStay DEF Disconnect, answer, ghosts
  <2>2. Excused' = Requests
    BY <1>1, <1>7 DEF Disconnect, answer, Excused, Types
  <2>3. View!Leave
    BY <1>7, <2>1, <2>2, PublicationsStay DEF Disconnect, answer, ghosts, View!Leave
  <2>. QED
    BY <2>3 DEF View!ViewNext
<1>8. CASE Authenticate
  <2>1. Phases' = Phases /\ before' = before
    BY <1>8, PhasesStay DEF Authenticate, answer, ghosts
  <2>2. View!Login
    BY <1>8, <2>1, PublicationsStay DEF Authenticate, answer, ghosts, Excused, View!Login
  <2>. QED
    BY <2>2 DEF View!ViewNext
<1>9. ASSUME NEW e \in Events, SaveEvent(e)
      PROVE  View!ViewNext
  <2>1. Phases' = Phases /\ before' = before
    BY <1>9, PhasesStay DEF SaveEvent, answer, ghosts
  <2>2. View!Save(e)
    BY <1>9, <2>1, PublicationsStay DEF SaveEvent, answer, ghosts, Excused, View!Save
  <2>. QED
    BY <2>2 DEF View!ViewNext
<1>10. ASSUME NEW e \in Events, BroadcastEvent(e) \/ NotifyListener(e) \/ BroadcastEnd(e)
       PROVE  View!ViewNext
  BY <1>1, <1>10, PublishMaps, TellMaps, PublishedMaps DEF View!ViewNext
<1>11. CASE OthersWrite \/ \E e \in Events : Overrun(e)
  BY <1>11, CrossMaps DEF View!ViewNext
<1>. QED
  BY <1>2, <1>3, <1>4, <1>5, <1>6, <1>7, <1>8, <1>9, <1>10, <1>11 DEF Next

\* For any REQs, filters, query functions and failures, and however handlers, answers and broadcasts
\* interleave, a client sees what a relay without goroutines, counters, contexts and listeners would
\* show it, save where ClientView lets a publication go astray (handlers.go:289-331,
\* responding.go:12-62, listener.go:137-150).
THEOREM ConnectionImplementsClientView == Spec => ImplementsClientView
<1>1. Init => View!ViewInit
  BY InitMaps
<1>2. WalkInv /\ [Next]_vars => [View!ViewNext]_(View!viewVars)
  BY StepMaps
<1>3. Spec => []WalkInv
  BY WalksGoWell
<1>. QED
  BY <1>1, <1>2, <1>3, PTL DEF Spec, ImplementsClientView, View!ViewSpec

-----------------------------------------------------------------------------
(***************************************************************************)
(* The websocket under it.  One at a time writes, since the mutex is with  *)
(* whoever is at a write; and when one of the two goroutines of the        *)
(* connection has ended, nothing of the connection is left, and nothing    *)
(* comes back: a listener is added only while the connection is            *)
(* registered, and it is registered before the goroutines start.           *)
(***************************************************************************)
ReaderSteps == {"upgraded", "connect", "read", "kill", "close", "remove", "ended"}
PingerSteps == {"upgraded", "select", "lock", "write", "kill", "close", "remove", "ended"}
WriterSteps == {"idle", "handle", "lock", "write", "answered"}
Goroutines == Keepers \cup Writers

AtOK ==
  /\ at \in [Goroutines -> ReaderSteps \cup PingerSteps \cup WriterSteps]
  /\ at["reader"] \in ReaderSteps /\ at["pinger"] \in PingerSteps
  /\ \A w \in Writers : at[w] \in WriterSteps
  /\ at["reader"] = "upgraded" <=> at["pinger"] = "upgraded"

MutexOK == \A g \in Goroutines : at[g] = "write" <=> mutex = g

\* How often k ran the hooks.
Ran(k) == IF at[k] \in {"close", "remove", "ended"} THEN 1 ELSE 0
HooksOK == hooked = Ran("reader") + Ran("pinger")

\* What a goroutine at the end of kill has left behind.
LeftOK ==
  /\ \A k \in Keepers : at[k] \in {"remove", "ended"} => done = TRUE /\ open = FALSE
  /\ \A k \in Keepers : at[k] = "ended" => registered = FALSE
  /\ at["reader"] = "upgraded" => registered = FALSE
  /\ shutdown = "ran" => registered = FALSE /\ at["reader"] # "upgraded"
  /\ registered = FALSE => listening = {}

WordsOK ==
  /\ open \in BOOLEAN /\ due \in BOOLEAN /\ pinged \in BOOLEAN
  /\ registered \in BOOLEAN /\ done \in BOOLEAN
  /\ peer \in {"reads", "stalls", "pushes", "gone"}
  /\ shutdown \in {"never", "ran", "missed"}
  /\ deadline \in -1..PongWait
  /\ listening \subseteq Writers

SessionInv == AtOK /\ MutexOK /\ HooksOK /\ LeftOK /\ WordsOK

LEMMA GoroutinesDiffer ==
  /\ "reader" \in Goroutines /\ "pinger" \in Goroutines /\ "nobody" \notin Goroutines
  /\ \A w \in Writers : w \in Goroutines /\ w # "reader" /\ w # "pinger"
  /\ \A k \in Keepers : k = "reader" \/ k = "pinger"
BY WritersAssumption DEF Goroutines, Keepers

\* What StepTo does to the others.
LEMMA StepToMoves ==
  ASSUME AtOK, NEW g \in Goroutines, NEW step, StepTo(g, step)
  PROVE  /\ at'[g] = step /\ \A o \in Goroutines \ {g} : at'[o] = at[o]
         /\ at' = [at EXCEPT ![g] = step] /\ DOMAIN at' = Goroutines
BY DEF AtOK, StepTo

\* A goroutine moves among its steps, and away from "upgraded" with the other one.
LEMMA AtStays ==
  ASSUME AtOK, NEW g \in Goroutines, NEW step, StepTo(g, step),
         g = "reader" => step \in ReaderSteps,
         g = "pinger" => step \in PingerSteps,
         g \in Writers => step \in WriterSteps,
         step # "upgraded", at[g] # "upgraded"
  PROVE  AtOK'
<1>1. step \in ReaderSteps \cup PingerSteps \cup WriterSteps
  BY GoroutinesDiffer DEF Goroutines, Keepers
<1>2. at' \in [Goroutines -> ReaderSteps \cup PingerSteps \cup WriterSteps]
  BY <1>1 DEF AtOK, StepTo
<1>3. /\ at'["reader"] \in ReaderSteps /\ at'["pinger"] \in PingerSteps
      /\ at'["reader"] = "upgraded" <=> at'["pinger"] = "upgraded"
  BY StepToMoves, GoroutinesDiffer DEF AtOK
<1>4. \A w \in Writers : at'[w] \in WriterSteps
  BY StepToMoves, GoroutinesDiffer DEF AtOK
<1> QED
  BY <1>2, <1>3, <1>4 DEF AtOK

\* Nobody comes to a write or leaves one.
LEMMA MutexStays ==
  ASSUME AtOK, MutexOK, NEW g \in Goroutines, NEW step, StepTo(g, step),
         step # "write", at[g] # "write", mutex' = mutex
  PROVE  MutexOK'
BY StepToMoves DEF MutexOK

\* Who takes the mutex when nobody has it, and who gives it back (websocket.go:34-46).
LEMMA MutexTaken ==
  ASSUME AtOK, MutexOK, NEW g \in Goroutines, mutex = "nobody", mutex' = g, StepTo(g, "write")
  PROVE  MutexOK'
BY StepToMoves, GoroutinesDiffer DEF MutexOK

LEMMA MutexGiven ==
  ASSUME AtOK, MutexOK, NEW g \in Goroutines, at[g] = "write", mutex' = "nobody",
         NEW step, step # "write", StepTo(g, step)
  PROVE  MutexOK'
BY StepToMoves, GoroutinesDiffer DEF MutexOK

\* A step outside of kill.
LEMMA HooksStay ==
  ASSUME AtOK, HooksOK, NEW g \in Goroutines, NEW step, StepTo(g, step), hooked' = hooked,
         at[g] \in {"close", "remove", "ended"} <=> step \in {"close", "remove", "ended"}
  PROVE  HooksOK'
<1>1. Ran("reader")' = Ran("reader") /\ Ran("pinger")' = Ran("pinger")
  BY StepToMoves, GoroutinesDiffer DEF Ran
<1> QED
  BY <1>1 DEF HooksOK

\* A step that is none of the connection's own, or not to its end.
LEMMA LeftStays ==
  ASSUME AtOK, LeftOK, NEW g \in Goroutines, NEW step, StepTo(g, step),
         step \notin {"upgraded", "remove", "ended"},
         done' = done, open' = open, registered' = registered, shutdown' = shutdown,
         listening' = listening \/ registered = TRUE
  PROVE  LeftOK'
<1>1. \A k \in Keepers : at'[k] \in {"remove", "ended"} => at[k] = at'[k]
  BY StepToMoves, GoroutinesDiffer
<1>2. at'["reader"] = "upgraded" => at["reader"] = "upgraded"
  BY StepToMoves, GoroutinesDiffer
<1>3. at["reader"] # "upgraded" => at'["reader"] # "upgraded"
  BY StepToMoves, GoroutinesDiffer
<1> QED
  BY <1>1, <1>2, <1>3 DEF LeftOK

LEMMA SessionStarts ==
  ASSUME SessionInit
  PROVE  SessionInv
<1>1. AtOK
  BY GoroutinesDiffer DEF SessionInit, AtOK, Goroutines, Keepers, ReaderSteps, PingerSteps, WriterSteps
<1>2. \A g \in Goroutines : at[g] \in {"upgraded", "idle"}
  BY DEF SessionInit, Goroutines
<1>3. MutexOK
  BY <1>2, GoroutinesDiffer DEF SessionInit, MutexOK
<1>4. HooksOK
  BY <1>2, GoroutinesDiffer DEF SessionInit, HooksOK, Ran
<1>5. LeftOK
  BY <1>2, GoroutinesDiffer DEF SessionInit, LeftOK
<1>6. WordsOK
  <2>1. deadline \in -1..PongWait
    BY PongWaitAssumption DEF SessionInit
  <2> QED
    BY <2>1, Zenon DEF SessionInit, WordsOK
<1> QED
  BY <1>1, <1>3, <1>4, <1>5, <1>6 DEF SessionInv

LEMMA RegisterKeeps ==
  ASSUME SessionInv, Register
  PROVE  SessionInv'
<1>1. /\ AtOK /\ MutexOK /\ HooksOK /\ LeftOK /\ WordsOK
      /\ at["reader"] = "upgraded" /\ at["pinger"] = "upgraded"
  BY DEF SessionInv, AtOK, Register
<1>2. /\ at'["reader"] = "connect" /\ at'["pinger"] = "select"
      /\ \A w \in Writers : at'[w] = at[w]
      /\ at' \in [Goroutines -> ReaderSteps \cup PingerSteps \cup WriterSteps]
  BY <1>1, GoroutinesDiffer DEF Register, AtOK, ReaderSteps, PingerSteps
<1>3. AtOK'
  BY <1>1, <1>2 DEF AtOK, ReaderSteps, PingerSteps
<1>4. MutexOK'
  BY <1>1, <1>2, GoroutinesDiffer DEF MutexOK, Register, Goroutines, Keepers
<1>5. HooksOK'
  BY <1>1, <1>2 DEF HooksOK, Ran, Register
<1>6. LeftOK'
  <2>1. shutdown # "ran"
    BY <1>1 DEF LeftOK
  <2> QED
    BY <1>2, <2>1, GoroutinesDiffer DEF LeftOK, Register
<1>7. WordsOK'
  BY <1>1 DEF WordsOK, Register
<1> QED
  BY <1>3, <1>4, <1>5, <1>6, <1>7 DEF SessionInv

\* The steps that open, register and close nothing.
LEMMA MessageKeeps ==
  ASSUME SessionInv, NEW w \in Writers, Message(w) \/ NotifyListeners(w)
  PROVE  SessionInv'
<1>1. AtOK /\ MutexOK /\ HooksOK /\ LeftOK /\ WordsOK /\ w \in Goroutines /\ at[w] = "idle"
  BY GoroutinesDiffer DEF SessionInv, Message, NotifyListeners
<1>2. PICK step \in {"handle", "lock"} : StepTo(w, step)
  BY DEF Message, NotifyListeners
<1>3. UNCHANGED <<open, peer, mutex, deadline, due, pinged, registered, listening, done, hooked, shutdown>>
  BY DEF Message, NotifyListeners
<1>4. AtOK'
  BY <1>1, <1>2, AtStays, GoroutinesDiffer DEF WriterSteps
<1>5. MutexOK' /\ HooksOK'
  BY <1>1, <1>2, <1>3, MutexStays, HooksStay
<1>6. LeftOK'
  BY <1>1, <1>2, <1>3, LeftStays
<1>7. WordsOK'
  BY <1>1, <1>3 DEF WordsOK
<1> QED
  BY <1>4, <1>5, <1>6, <1>7 DEF SessionInv

LEMMA HandleMessageKeeps ==
  ASSUME SessionInv, NEW w \in Writers, HandleMessage(w)
  PROVE  SessionInv'
<1>1. AtOK /\ MutexOK /\ HooksOK /\ LeftOK /\ WordsOK /\ w \in Goroutines /\ at[w] = "handle"
  BY GoroutinesDiffer DEF SessionInv, HandleMessage
<1>2. StepTo(w, "lock")
  BY DEF HandleMessage
<1>3. UNCHANGED <<open, peer, mutex, deadline, due, pinged, registered, done, hooked, shutdown>>
  BY DEF HandleMessage
<1>4. AtOK'
  BY <1>1, <1>2, AtStays, GoroutinesDiffer DEF WriterSteps
<1>5. MutexOK' /\ HooksOK'
  BY <1>1, <1>2, <1>3, MutexStays, HooksStay
<1>6. listening' = listening \/ (registered = TRUE /\ listening' = listening \cup {w})
  BY <1>1 DEF HandleMessage, WordsOK
<1>7. LeftOK'
  BY <1>1, <1>2, <1>3, <1>6, LeftStays
<1>8. WordsOK'
  BY <1>1, <1>3, <1>6 DEF WordsOK
<1> QED
  BY <1>4, <1>5, <1>7, <1>8 DEF SessionInv

LEMMA LockKeeps ==
  ASSUME SessionInv, NEW g \in Writers \cup {"pinger"}, Lock(g)
  PROVE  SessionInv'
<1>1. AtOK /\ MutexOK /\ HooksOK /\ LeftOK /\ WordsOK /\ g \in Goroutines /\ at[g] = "lock"
  BY GoroutinesDiffer DEF SessionInv, Lock
<1>2. StepTo(g, "write") /\ mutex = "nobody" /\ mutex' = g
  BY DEF Lock
<1>3. UNCHANGED <<open, peer, deadline, due, pinged, registered, listening, done, hooked, shutdown>>
  BY DEF Lock
<1>4. AtOK'
  BY <1>1, <1>2, AtStays, GoroutinesDiffer DEF WriterSteps, PingerSteps
<1>5. MutexOK'
  BY <1>1, <1>2, MutexTaken
<1>6. HooksOK' /\ LeftOK'
  BY <1>1, <1>2, <1>3, HooksStay, LeftStays
<1>7. WordsOK'
  BY <1>1, <1>3 DEF WordsOK
<1> QED
  BY <1>4, <1>5, <1>6, <1>7 DEF SessionInv

LEMMA WrittenKeeps ==
  ASSUME SessionInv, NEW w \in Writers, Written(w)
  PROVE  SessionInv'
<1>1. AtOK /\ MutexOK /\ HooksOK /\ LeftOK /\ WordsOK /\ w \in Goroutines /\ at[w] = "write"
  BY GoroutinesDiffer DEF SessionInv, Written
<1>2. StepTo(w, "answered") /\ mutex' = "nobody"
  BY DEF Written
<1>3. UNCHANGED <<open, peer, deadline, due, pinged, registered, listening, done, hooked, shutdown>>
  BY DEF Written
<1>4. AtOK'
  BY <1>1, <1>2, AtStays, GoroutinesDiffer DEF WriterSteps
<1>5. MutexOK'
  BY <1>1, <1>2, MutexGiven
<1>6. HooksOK' /\ LeftOK'
  BY <1>1, <1>2, <1>3, HooksStay, LeftStays
<1>7. WordsOK'
  BY <1>1, <1>3 DEF WordsOK
<1> QED
  BY <1>4, <1>5, <1>6, <1>7 DEF SessionInv

LEMMA PingWrittenKeeps ==
  ASSUME SessionInv, PingWritten
  PROVE  SessionInv'
<1>1. AtOK /\ MutexOK /\ HooksOK /\ LeftOK /\ WordsOK /\ at["pinger"] = "write" /\ "pinger" \in Goroutines
  BY GoroutinesDiffer DEF SessionInv, PingWritten
<1>2. PICK step \in {"select", "kill"} : StepTo("pinger", step)
  BY DEF PingWritten
<1>3. /\ UNCHANGED <<open, peer, deadline, due, registered, listening, done, hooked, shutdown>>
      /\ mutex' = "nobody" /\ (pinged' = pinged \/ pinged' = TRUE)
  BY DEF PingWritten
<1>4. AtOK'
  BY <1>1, <1>2, AtStays, GoroutinesDiffer DEF PingerSteps
<1>5. MutexOK'
  BY <1>1, <1>2, <1>3, MutexGiven
<1>6. HooksOK' /\ LeftOK'
  BY <1>1, <1>2, <1>3, HooksStay, LeftStays
<1>7. WordsOK'
  BY <1>1, <1>3 DEF WordsOK
<1> QED
  BY <1>4, <1>5, <1>6, <1>7 DEF SessionInv

LEMMA SelectKeeps ==
  ASSUME SessionInv, Select
  PROVE  SessionInv'
<1>1. AtOK /\ MutexOK /\ HooksOK /\ LeftOK /\ WordsOK /\ at["pinger"] = "select" /\ "pinger" \in Goroutines
  BY GoroutinesDiffer DEF SessionInv, Select
<1>2. PICK step \in {"kill", "lock"} : StepTo("pinger", step)
  BY DEF Select
<1>3. /\ UNCHANGED <<open, peer, mutex, deadline, pinged, registered, listening, done, hooked, shutdown>>
      /\ due' = due \/ due' = FALSE
  BY DEF Select
<1>4. AtOK'
  BY <1>1, <1>2, AtStays, GoroutinesDiffer DEF PingerSteps
<1>5. MutexOK' /\ HooksOK'
  BY <1>1, <1>2, <1>3, MutexStays, HooksStay
<1>6. LeftOK'
  BY <1>1, <1>2, <1>3, LeftStays
<1>7. WordsOK'
  BY <1>1, <1>3 DEF WordsOK
<1> QED
  BY <1>4, <1>5, <1>6, <1>7 DEF SessionInv

LEMMA ReaderKeeps ==
  ASSUME SessionInv, Connect \/ ReadError
  PROVE  SessionInv'
<1>1. AtOK /\ MutexOK /\ HooksOK /\ LeftOK /\ WordsOK /\ at["reader"] \in {"connect", "read"}
  BY DEF SessionInv, Connect, ReadError
<1>2. PICK step \in {"read", "kill"} : StepTo("reader", step)
  BY DEF Connect, ReadError
<1>3. /\ UNCHANGED <<open, peer, mutex, due, pinged, registered, listening, done, hooked, shutdown>>
      /\ deadline' = deadline \/ deadline' = PongWait
  BY DEF Connect, ReadError
<1>4. AtOK'
  BY <1>1, <1>2, AtStays, GoroutinesDiffer DEF ReaderSteps
<1>5. MutexOK' /\ HooksOK'
  BY <1>1, <1>2, <1>3, MutexStays, HooksStay, GoroutinesDiffer
<1>6. LeftOK'
  BY <1>1, <1>2, <1>3, LeftStays, GoroutinesDiffer
<1>7. WordsOK'
  BY <1>1, <1>3, PongWaitAssumption DEF WordsOK
<1> QED
  BY <1>4, <1>5, <1>6, <1>7 DEF SessionInv

\* kill runs in the reader and in the pinger (handlers.go:94-104).
LEMMA KillKeeps ==
  ASSUME SessionInv, NEW k \in Keepers, Kill(k)
  PROVE  SessionInv'
<1>1. /\ AtOK /\ MutexOK /\ HooksOK /\ LeftOK /\ WordsOK
      /\ k \in Goroutines /\ k \notin Writers /\ at[k] \in {"kill", "close", "remove"}
  BY GoroutinesDiffer DEF SessionInv, Kill, OnDisconnect, CloseConn, Remove
<1>2. PICK step \in {"close", "remove", "ended"} : StepTo(k, step)
  BY DEF Kill, OnDisconnect, CloseConn, Remove
<1>3. mutex' = mutex /\ shutdown' = shutdown
  BY DEF Kill, OnDisconnect, CloseConn, Remove
<1>4. AtOK'
  BY <1>1, <1>2, AtStays DEF ReaderSteps, PingerSteps
<1>5. MutexOK'
  BY <1>1, <1>2, <1>3, MutexStays
<1>6. WordsOK'
  BY <1>1 DEF WordsOK, Kill, OnDisconnect, CloseConn, Remove
<1>7. CASE OnDisconnect(k)
  <2>1. /\ at[k] = "kill" /\ at'[k] = "close" /\ hooked' = hooked + 1
        /\ \A o \in Goroutines \ {k} : at'[o] = at[o]
    BY <1>1, <1>7, StepToMoves DEF OnDisconnect
  <2>2. HooksOK'
    <3>1. CASE k = "reader"
      BY <1>1, <2>1, <3>1, GoroutinesDiffer DEF HooksOK, Ran
    <3>2. CASE k = "pinger"
      BY <1>1, <2>1, <3>2, GoroutinesDiffer DEF HooksOK, Ran
    <3> QED
      BY <3>1, <3>2, GoroutinesDiffer
  <2>3. LeftOK'
    BY <1>1, <1>7, LeftStays DEF OnDisconnect
  <2> QED
    BY <1>4, <1>5, <1>6, <2>2, <2>3 DEF SessionInv
<1>8. CASE CloseConn(k)
  <2>1. /\ at[k] = "close" /\ at'[k] = "remove" /\ done' = TRUE /\ open' = FALSE
        /\ registered' = registered /\ listening' = listening
        /\ \A o \in Goroutines \ {k} : at'[o] = at[o]
    BY <1>1, <1>8, StepToMoves DEF CloseConn
  <2>2. HooksOK'
    BY <1>1, <1>8, HooksStay DEF CloseConn
  <2>3. LeftOK'
    <3>1. \A j \in Keepers : at'[j] = "ended" => at[j] = "ended"
      BY <2>1, GoroutinesDiffer
    <3>2. at'["reader"] = "upgraded" <=> at["reader"] = "upgraded"
      BY <2>1, GoroutinesDiffer
    <3> QED
      BY <1>1, <1>3, <2>1, <3>1, <3>2 DEF LeftOK
  <2> QED
    BY <1>4, <1>5, <1>6, <2>2, <2>3 DEF SessionInv
<1>9. CASE Remove(k)
  <2>1. /\ at[k] = "remove" /\ at'[k] = "ended" /\ done' = done /\ open' = open
        /\ registered' = FALSE
        /\ \A o \in Goroutines \ {k} : at'[o] = at[o]
    BY <1>1, <1>9, StepToMoves DEF Remove
  <2>2. HooksOK'
    BY <1>1, <1>9, HooksStay DEF Remove
  <2>3. listening' = {}
    <3>1. CASE registered = TRUE
      BY <1>9, <3>1 DEF Remove
    <3>2. CASE registered = FALSE
      BY <1>1, <1>9, <3>2 DEF Remove, LeftOK
    <3> QED
      BY <1>1, <3>1, <3>2 DEF WordsOK
  <2>4. LeftOK'
    <3>1. \A j \in Keepers : at'[j] \in {"remove", "ended"} => at[j] \in {"remove", "ended"}
      BY <2>1, GoroutinesDiffer
    <3>2. at["reader"] # "upgraded" => at'["reader"] # "upgraded"
      BY <2>1, GoroutinesDiffer
    <3> QED
      BY <1>1, <1>3, <2>1, <2>3, <3>1, <3>2 DEF LeftOK
  <2> QED
    BY <1>4, <1>5, <1>6, <2>2, <2>4 DEF SessionInv
<1> QED
  BY <1>7, <1>8, <1>9 DEF Kill

LEMMA ShutdownKeeps ==
  ASSUME SessionInv, Shutdown
  PROVE  SessionInv'
<1>1. /\ AtOK /\ MutexOK /\ HooksOK /\ LeftOK /\ WordsOK
      /\ at' = at /\ mutex' = mutex /\ hooked' = hooked /\ done' = done
      /\ registered' = FALSE /\ listening' = {}
  BY DEF SessionInv, Shutdown
<1>2. AtOK' /\ MutexOK' /\ HooksOK'
  BY <1>1 DEF AtOK, MutexOK, HooksOK, Ran
<1>3. /\ open' \in BOOLEAN /\ (open = FALSE => open' = FALSE)
      /\ shutdown' \in {"ran", "missed"} /\ (shutdown' = "ran" => at["reader"] # "upgraded")
  BY <1>1 DEF Shutdown, WordsOK
<1>4. LeftOK'
  BY <1>1, <1>3 DEF LeftOK
<1>5. WordsOK'
  BY <1>1, <1>3 DEF WordsOK, Shutdown
<1> QED
  BY <1>2, <1>4, <1>5 DEF SessionInv

\* What the client does, and time.
LEMMA OutsideKeeps ==
  ASSUME SessionInv, Peer \/ Pong \/ Tick
  PROVE  SessionInv'
<1>1. /\ AtOK /\ MutexOK /\ HooksOK /\ LeftOK /\ WordsOK
      /\ UNCHANGED <<at, open, mutex, registered, listening, done, hooked, shutdown>>
  BY DEF SessionInv, Peer, Pong, Tick
<1>2. AtOK' /\ MutexOK' /\ HooksOK' /\ LeftOK'
  BY <1>1 DEF AtOK, MutexOK, HooksOK, Ran, LeftOK
<1>3. peer' \in {"reads", "stalls", "pushes", "gone"}
  BY <1>1 DEF Peer, Pong, Tick, Stall, Resume, Leave, WordsOK
<1>4. due' \in BOOLEAN /\ pinged' \in BOOLEAN
  BY <1>1 DEF Peer, Pong, Tick, WordsOK
<1>5. deadline' \in -1..PongWait
  BY <1>1, PongWaitAssumption DEF Peer, Pong, Tick, WordsOK
<1>6. WordsOK'
  BY <1>1, <1>3, <1>4, <1>5 DEF WordsOK
<1> QED
  BY <1>2, <1>6 DEF SessionInv

LEMMA SessionStepKeeps ==
  ASSUME SessionInv, [SessionNext]_sessionVars
  PROVE  SessionInv'
<1>1. CASE Reader
  BY <1>1, RegisterKeeps, ReaderKeeps, KillKeeps DEF Reader, Keepers
<1>2. CASE Pinger
  BY <1>2, SelectKeeps, LockKeeps, PingWrittenKeeps, KillKeeps DEF Pinger, Keepers
<1>3. ASSUME NEW w \in Writers, Message(w) \/ NotifyListeners(w) \/ Writer(w)
      PROVE  SessionInv'
  BY <1>3, MessageKeeps, HandleMessageKeeps, LockKeeps, WrittenKeeps DEF Writer
<1>4. CASE UNCHANGED sessionVars
  BY <1>4 DEF sessionVars, SessionInv, AtOK, MutexOK, HooksOK, Ran, LeftOK, WordsOK
<1> QED
  BY <1>1, <1>2, <1>3, <1>4, ShutdownKeeps, OutsideKeeps DEF SessionNext

\* The invariant: who writes has the mutex, the hooks ran once for each goroutine that came so far,
\* and what kill and Shutdown took away stays away, for any number of goroutines and any deadline
\* (handlers.go:94-138, listener.go:34-60).
THEOREM EndsStayClean == SessionSpec => []SessionInv
BY SessionStarts, SessionStepKeeps, PTL DEF SessionSpec

\* For any number of goroutines that write to a connection, one at a time does (websocket.go:33-46).
THEOREM OneAtATimeWrites == SessionSpec => []SessionOK
<1>1. SessionInv => SessionOK
  <2> SUFFICES ASSUME SessionInv
               PROVE  SessionOK
    OBVIOUS
  <2>1. AtOK /\ MutexOK /\ HooksOK /\ WordsOK
    BY DEF SessionInv
  <2>2. hooked \in 0..2
    BY <2>1 DEF HooksOK, Ran
  <2>3. at \in [Keepers \cup Writers ->
                  {"upgraded", "connect", "read", "select", "idle", "handle", "lock", "write", "answered",
                   "kill", "close", "remove", "ended"}]
    BY <2>1 DEF AtOK, Goroutines, ReaderSteps, PingerSteps, WriterSteps
  <2>4. {open, due, pinged, registered, done} \subseteq BOOLEAN
    BY <2>1, Zenon DEF WordsOK
  <2> QED
    BY <2>1, <2>2, <2>3, <2>4 DEF SessionOK, MutexOK, WordsOK, Goroutines
<1> QED
  BY <1>1, EndsStayClean, PTL

\* What GoneIsForgotten says of the end: once a goroutine of the connection has ended the connection
\* is closed, not registered and has no listener, and once both have the hooks ran twice.  A handler
\* that is late adds nothing (handlers.go:94-104, listener.go:40-59).
NothingIsLeft ==
  /\ \A k \in Keepers : at[k] = "ended" => ~open /\ ~registered /\ listening = {}
  /\ (\A k \in Keepers : at[k] = "ended") => hooked = 2

THEOREM NothingStaysBehind == SessionSpec => []NothingIsLeft
<1>1. SessionInv => NothingIsLeft
  BY DEF SessionInv, LeftOK, HooksOK, Ran, NothingIsLeft, Keepers
<1> QED
  BY <1>1, EndsStayClean, PTL
=============================================================================
