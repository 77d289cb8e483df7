--------------------------- MODULE BlossomProofs ---------------------------
(***************************************************************************)
(* Who was told that its blob is stored has it, index and storage agree,   *)
(* and an owner has one claim, with any number of owners, handlers,        *)
(* requests and failing calls.                                             *)
(***************************************************************************)
EXTENDS Blossom, FiniteSetTheorems, TLAPS

Keeps(h) == run[h].at \in Uploading
Deletes(h) == run[h].at \in Deleting

\* What an upload that was answered with 200, without an excuse, leaves its owner.
Safe(o) == o \in acked /\ o \notin unsaved /\ o \notin garbled

\* While no upload has met a deletion...
Apart == \A g, h \in Handlers : Keeps(g) => ~Deletes(h)

\* ...an upload goes on to the storage with a claim in the index, or none that could be saved...
ClaimedFirst ==
  \A h \in Handlers : run[h].at = "storeBlob" => ClaimsOf(run[h].owner) # {} \/ run[h].owner \in unsaved

\* ...who is safe has a blob and a claim that nobody is about to take...
SafeHaveAll ==
  \A o \in Owners : Safe(o) =>
    /\ blob /\ ClaimsOf(o) # {}
    /\ \A h \in Handlers : run[h].at \in {"query", "delete"} => run[h].owner # o

\* ...and the blob is deleted when there are no claims.
DeletedUnclaimed == \A h \in Handlers : run[h].at = "deleteBlob" => claims = {}

Stays == ~overlapped => Apart /\ ClaimedFirst /\ SafeHaveAll /\ DeletedUnclaimed

\* As long as no call fails, a claim has its blob, or an upload that is about to store it, and a
\* blob has a claim, or a deletion that is about to delete it.
Agreeing ==
  spent.faults = 0 =>
    /\ unsaved = {}
    /\ ~overlapped =>
         /\ claims = {} \/ blob \/ \E h \in Handlers : run[h].at = "storeBlob"
         /\ ~blob \/ claims # {} \/ \E h \in Handlers : run[h].at \in {"get", "deleteBlob"}

\* An owner that never had two uploads at the same time saves a claim when it has none.
Single(o) ==
  /\ \A g, h \in Handlers : Keeps(g) /\ Keeps(h) /\ run[g].owner = o /\ run[h].owner = o => g = h
  /\ \A h \in Handlers : run[h].at = "keepSave" /\ run[h].owner = o => ClaimsOf(o) = {}
  /\ \A c, d \in ClaimsOf(o) : c = d

Singles == \A o \in Owners : o \notin doubled => Single(o)

SpentOK == spent \in [requests : Nat, faults : Nat]

IInv == TypeOK /\ SpentOK /\ Stays /\ Agreeing /\ Singles

Runs == {Idle} \cup [at : Uploading, owner : Owners, time : Times]
               \cup [at : {"otherBlob", "query", "get", "deleteBlob"}, owner : Owners]
               \cup [at : {"delete", "get", "deleteBlob"}, owner : Owners,
                     claim : [owner : Owners, time : Times]]

\* What a handler has in hand at each step.
LEMMA InHand ==
  ASSUME NEW r \in Runs
  PROVE  /\ r.at \in Uploading => r \in [at : Uploading, owner : Owners, time : Times]
         /\ r.at = "delete" => r \in [at : {"delete", "get", "deleteBlob"}, owner : Owners,
                                      claim : [owner : Owners, time : Times]]
         /\ r.at \in Deleting \cup {"otherBlob"} => r.owner \in Owners
         /\ r.at \in Uploading \cup Deleting \cup {"idle", "otherBlob"}
  BY DEF Runs, Idle, Uploading, Deleting

\* A handler goes on to its next step with what it has in hand.
LEMMA GoesOn ==
  ASSUME NEW r \in Runs, NEW step,
         \/ r.at \in Uploading /\ step \in Uploading
         \/ r.at \in {"query", "delete", "get"} /\ step \in {"get", "deleteBlob"}
  PROVE  LET q == [r EXCEPT !.at = step] IN q \in Runs /\ q.at = step /\ q.owner = r.owner
  <1>1. CASE r \in [at : Uploading, owner : Owners, time : Times]
    BY <1>1 DEF Runs, Uploading
  <1>2. CASE r \in [at : {"otherBlob", "query", "get", "deleteBlob"}, owner : Owners]
    BY <1>2 DEF Runs, Uploading
  <1>3. CASE r \in [at : {"delete", "get", "deleteBlob"}, owner : Owners,
                    claim : [owner : Owners, time : Times]]
    BY <1>3 DEF Runs, Uploading
  <1> QED
    BY <1>1, <1>2, <1>3 DEF Runs, Idle, Uploading

\* What each action does to the handlers: one goes from a step to another, for its owner.
Moves(h, from, to) ==
  /\ run[h].at = from /\ run'[h].at = to
  /\ to # "idle" => run'[h].owner = run[h].owner
  /\ \A g \in Handlers \ {h} : run'[g] = run[g]

LEMMA Going ==
  ASSUME TypeOK, NEW h \in Handlers, NEW step, Goto(h, step),
         \/ run[h].at \in Uploading /\ step \in Uploading
         \/ run[h].at \in {"query", "delete", "get"} /\ step \in {"get", "deleteBlob"}
  PROVE  Moves(h, run[h].at, step) /\ run' \in [Handlers -> Runs]
  <1>1. run \in [Handlers -> Runs]
    BY DEF TypeOK, Runs
  <1>2. run' = [run EXCEPT ![h] = [run[h] EXCEPT !.at = step]]
    BY DEF Goto
  <1>3. LET q == [run[h] EXCEPT !.at = step] IN q \in Runs /\ q.at = step /\ q.owner = run[h].owner
    BY <1>1, GoesOn
  <1> QED
    BY <1>1, <1>2, <1>3 DEF Moves

LEMMA Returning ==
  ASSUME TypeOK, NEW h \in Handlers, Return(h)
  PROVE  Moves(h, run[h].at, "idle") /\ run' \in [Handlers -> Runs]
  BY DEF TypeOK, Runs, Return, Idle, Moves

-----------------------------------------------------------------------------
(* The types                                                               *)

RunsOK == run \in [Handlers -> Runs] /\ \A h \in Handlers : run[h].at = "delete" => run[h].claim.owner = run[h].owner

LEMMA RunsAreTyped == TypeOK => RunsOK
  BY DEF TypeOK, RunsOK, Runs

LEMMA MovesTyped ==
  ASSUME RunsOK, NEW h \in Handlers, NEW from, NEW to, to # "delete",
         Moves(h, from, to), run' \in [Handlers -> Runs]
  PROVE  RunsOK'
  BY DEF RunsOK, Moves

\* The steps of a request, and where each leads.
LEMMA StartMoves ==
  ASSUME TypeOK, NEW h \in Handlers, NEW r \in Runs, r.at # "delete", Start(h, r)
  PROVE  /\ RunsOK' /\ run[h].at = "idle" /\ run'[h] = r
         /\ \A g \in Handlers \ {h} : run'[g] = run[g]
  <1>1. RunsOK /\ run' = [run EXCEPT ![h] = r]
    BY RunsAreTyped DEF Start
  <1> QED
    BY <1>1 DEF RunsOK, Start, Idle

LEMMA KeepQueryMoves ==
  ASSUME TypeOK, NEW h \in Handlers, KeepQuery(h)
  PROVE  /\ RunsOK'
         /\ \/ Moves(h, "keepQuery", "keepSave") /\ ClaimsOf(run[h].owner) = {} /\ UNCHANGED spent
            \/ Moves(h, "keepQuery", "storeBlob") /\ ClaimsOf(run[h].owner) # {} /\ UNCHANGED spent
            \/ Moves(h, "keepQuery", "idle")
  <1> USE DEF KeepQuery, Uploading
  <1>1. CASE Return(h)
    BY <1>1, Returning, RunsAreTyped, MovesTyped
  <1>2. CASE Goto(h, "keepSave") /\ ClaimsOf(run[h].owner) = {} /\ UNCHANGED spent
    BY <1>2, Going, RunsAreTyped, MovesTyped
  <1>3. CASE Goto(h, "storeBlob") /\ ClaimsOf(run[h].owner) # {} /\ UNCHANGED spent
    BY <1>3, Going, RunsAreTyped, MovesTyped
  <1> QED
    BY <1>1, <1>2, <1>3

LEMMA KeepSaveMoves ==
  ASSUME TypeOK, NEW h \in Handlers, KeepSave(h)
  PROVE  /\ RunsOK' /\ Moves(h, "keepSave", "storeBlob")
         /\ run[h] \in [at : Uploading, owner : Owners, time : Times]
  <1>1. Goto(h, "storeBlob") /\ run[h].at \in Uploading /\ run[h].at = "keepSave"
    BY DEF KeepSave, Uploading
  <1>2. run[h] \in Runs
    BY RunsAreTyped DEF RunsOK
  <1> QED
    BY <1>1, <1>2, InHand, Going, RunsAreTyped, MovesTyped DEF Uploading

LEMMA StoreBlobMoves ==
  ASSUME TypeOK, NEW h \in Handlers, StoreBlob(h)
  PROVE  RunsOK' /\ Moves(h, "storeBlob", "idle") /\ run[h].owner \in Owners
  <1>1. run[h] \in Runs /\ run[h].at = "storeBlob" /\ Return(h)
    BY RunsAreTyped DEF RunsOK, StoreBlob
  <1>2. run[h].owner \in Owners
    BY <1>1, InHand DEF Uploading
  <1> QED
    BY <1>1, <1>2, Returning, RunsAreTyped, MovesTyped

LEMMA StoreOtherMoves ==
  ASSUME TypeOK, NEW h \in Handlers, StoreOther(h)
  PROVE  RunsOK' /\ Moves(h, "otherBlob", "idle") /\ run[h].owner \in Owners
  <1>1. run[h] \in Runs /\ run[h].at = "otherBlob" /\ Return(h)
    BY RunsAreTyped DEF RunsOK, StoreOther
  <1>2. run[h].owner \in Owners
    BY <1>1, InHand
  <1> QED
    BY <1>1, <1>2, Returning, RunsAreTyped, MovesTyped

LEMMA DeleteQueryMoves ==
  ASSUME TypeOK, NEW h \in Handlers, DeleteQuery(h)
  PROVE  /\ RunsOK'
         /\ \/ Moves(h, "query", "delete")
            \/ Moves(h, "query", "get") /\ ClaimsOf(run[h].owner) = {} /\ UNCHANGED spent
            \/ Moves(h, "query", "idle")
  <1> USE DEF DeleteQuery
  <1>1. CASE Return(h)
    BY <1>1, Returning, RunsAreTyped, MovesTyped
  <1>2. CASE Goto(h, "get") /\ ClaimsOf(run[h].owner) = {} /\ UNCHANGED spent
    BY <1>2, Going, RunsAreTyped, MovesTyped
  <1>3. ASSUME NEW c \in ClaimsOf(run[h].owner),
               run' = [run EXCEPT ![h] = [at |-> "delete", owner |-> c.owner, claim |-> c]]
        PROVE  RunsOK' /\ Moves(h, "query", "delete")
    <2>1. c \in [owner : Owners, time : Times] /\ c.owner = run[h].owner
      BY DEF TypeOK, ClaimsOf
    <2>2. [at |-> "delete", owner |-> c.owner, claim |-> c] \in Runs
      BY <2>1 DEF Runs
    <2> QED
      BY <1>3, <2>1, <2>2, RunsAreTyped DEF RunsOK, Moves
  <1> QED
    BY <1>1, <1>2, <1>3

LEMMA DeleteEntryMoves ==
  ASSUME TypeOK, NEW h \in Handlers, DeleteEntry(h)
  PROVE  /\ RunsOK' /\ run[h].claim.owner = run[h].owner
         /\ Moves(h, "delete", "get") \/ (Moves(h, "delete", "idle") /\ UNCHANGED claims)
  <1>1. run[h].claim.owner = run[h].owner
    BY DEF DeleteEntry, TypeOK
  <1>2. CASE Return(h) /\ UNCHANGED claims
    BY <1>1, <1>2, Returning, RunsAreTyped, MovesTyped DEF DeleteEntry
  <1>3. CASE Goto(h, "get")
    BY <1>1, <1>3, Going, RunsAreTyped, MovesTyped DEF DeleteEntry
  <1> QED
    BY <1>2, <1>3 DEF DeleteEntry

LEMMA GetMoves ==
  ASSUME TypeOK, NEW h \in Handlers, Get(h)
  PROVE  /\ RunsOK'
         /\ \/ Moves(h, "get", "deleteBlob") /\ claims = {} /\ UNCHANGED spent
            \/ Moves(h, "get", "idle") /\ claims # {} /\ UNCHANGED spent
            \/ Moves(h, "get", "idle") /\ Fault
  <1> USE DEF Get, Unclaimed
  <1>1. CASE Return(h) /\ (Fault \/ (claims # {} /\ UNCHANGED spent))
    BY <1>1, Returning, RunsAreTyped, MovesTyped
  <1>2. CASE Goto(h, "deleteBlob") /\ claims = {} /\ UNCHANGED spent
    BY <1>2, Going, RunsAreTyped, MovesTyped
  <1> QED
    BY <1>1, <1>2

LEMMA DeleteBlobMoves ==
  ASSUME TypeOK, NEW h \in Handlers, DeleteBlob(h)
  PROVE  RunsOK' /\ Moves(h, "deleteBlob", "idle")
  BY Returning, RunsAreTyped, MovesTyped DEF DeleteBlob

RestOK ==
  /\ claims \subseteq [owner : Owners, time : Times]
  /\ blob \in BOOLEAN /\ overlapped \in BOOLEAN
  /\ acked \subseteq Owners /\ unsaved \subseteq Owners
  /\ doubled \subseteq Owners /\ garbled \subseteq Owners

LEMMA TypeParts == TypeOK <=> RunsOK /\ RestOK
  BY DEF TypeOK, RunsOK, RestOK, Runs

\* What the requests start with.
LEMMA UploadMoves ==
  ASSUME TypeOK, NEW h \in Handlers, NEW o \in Owners, NEW t \in Times, Upload(h, o, t)
  PROVE  /\ RunsOK' /\ run[h].at = "idle" /\ run'[h].at = "keepQuery" /\ run'[h].owner = o
         /\ \A g \in Handlers \ {h} : run'[g] = run[g]
  <1> DEFINE r == [at |-> "keepQuery", owner |-> o, time |-> t]
  <1>1. r \in Runs /\ r.at = "keepQuery" /\ r.owner = o
    BY DEF Runs, Uploading
  <1>2. Start(h, r)
    BY DEF Upload
  <1> HIDE DEF r
  <1> QED
    BY <1>1, <1>2, StartMoves

LEMMA UploadShortMoves ==
  ASSUME TypeOK, NEW h \in Handlers, NEW o \in Owners, UploadShort(h, o)
  PROVE  /\ RunsOK' /\ run[h].at = "idle" /\ run'[h].at = "otherBlob"
         /\ \A g \in Handlers \ {h} : run'[g] = run[g]
  <1> DEFINE r == [at |-> "otherBlob", owner |-> o]
  <1>1. r \in Runs /\ r.at = "otherBlob"
    BY DEF Runs
  <1>2. Start(h, r)
    BY DEF UploadShort
  <1> HIDE DEF r
  <1> QED
    BY <1>1, <1>2, StartMoves

LEMMA DeleteRequestMoves ==
  ASSUME TypeOK, NEW h \in Handlers, NEW o \in Owners, DeleteRequest(h, o)
  PROVE  /\ RunsOK' /\ run[h].at = "idle" /\ run'[h].at = "query" /\ run'[h].owner = o
         /\ \A g \in Handlers \ {h} : run'[g] = run[g]
  <1> DEFINE r == [at |-> "query", owner |-> o]
  <1>1. r \in Runs /\ r.at = "query" /\ r.owner = o
    BY DEF Runs
  <1>2. Start(h, r)
    BY DEF DeleteRequest
  <1> HIDE DEF r
  <1> QED
    BY <1>1, <1>2, StartMoves

LEMMA TypeInit == Init => TypeOK /\ SpentOK
  <1> SUFFICES ASSUME Init PROVE TypeOK /\ SpentOK
    OBVIOUS
  <1>1. blob \in BOOLEAN /\ overlapped \in BOOLEAN
    BY Zenon DEF Init
  <1>2. SpentOK /\ RunsOK
    BY DEF Init, SpentOK, RunsOK, Runs, Idle
  <1>3. RestOK
    BY <1>1 DEF Init, RestOK
  <1> QED
    BY <1>2, <1>3, TypeParts

\* Requests come in and change nothing else.
LEMMA StartRest ==
  ASSUME RestOK, SpentOK, NEW h, NEW r, Start(h, r)
  PROVE  overlapped' \in BOOLEAN /\ SpentOK' /\ UNCHANGED <<claims, blob>>
  <1>1. overlapped' \in BOOLEAN
    BY Zenon DEF Start
  <1> QED
    BY <1>1 DEF Start, SpentOK

LEMMA TypeStep == TypeOK /\ SpentOK /\ [Next]_vars => TypeOK' /\ SpentOK'
  <1> SUFFICES ASSUME TypeOK, SpentOK, [Next]_vars PROVE TypeOK' /\ SpentOK'
    OBVIOUS
  <1> USE DEF SpentOK
  <1>0. RestOK
    BY TypeParts
  <1> SUFFICES RunsOK' /\ RestOK' /\ SpentOK'
    <2>1. (TypeOK <=> RunsOK /\ RestOK)'
      BY TypeParts, PTL
    <2> QED
      BY <2>1
  <1>1. ASSUME NEW h \in Handlers, NEW o \in Owners, NEW t \in Times, Upload(h, o, t)
        PROVE  RunsOK' /\ RestOK' /\ SpentOK'
    BY <1>0, <1>1, UploadMoves, StartRest DEF Upload, RestOK
  <1>2. ASSUME NEW h \in Handlers, NEW o \in Owners, UploadShort(h, o)
        PROVE  RunsOK' /\ RestOK' /\ SpentOK'
    BY <1>0, <1>2, UploadShortMoves, StartRest DEF UploadShort, RestOK
  <1>3. ASSUME NEW h \in Handlers, NEW o \in Owners, DeleteRequest(h, o)
        PROVE  RunsOK' /\ RestOK' /\ SpentOK'
    BY <1>0, <1>3, DeleteRequestMoves, StartRest DEF DeleteRequest, RestOK
  <1>4. ASSUME NEW h \in Handlers, KeepQuery(h) PROVE RunsOK' /\ RestOK' /\ SpentOK'
    <2>1. RunsOK'
      BY <1>4, KeepQueryMoves
    <2>2. SpentOK'
      BY <1>4 DEF KeepQuery, Fault
    <2>3. UNCHANGED <<claims, blob, acked, unsaved, doubled, overlapped, garbled>>
      BY <1>4 DEF KeepQuery
    <2> QED
      BY <1>0, <2>1, <2>2, <2>3 DEF RestOK
  <1>5. ASSUME NEW h \in Handlers, KeepSave(h) PROVE RunsOK' /\ RestOK' /\ SpentOK'
    BY <1>0, <1>5, KeepSaveMoves DEF KeepSave, Fault, RestOK
  <1>6. ASSUME NEW h \in Handlers, StoreBlob(h) PROVE RunsOK' /\ RestOK' /\ SpentOK'
    <2>1. blob' \in BOOLEAN
      BY <1>0, <1>6, Zenon DEF StoreBlob, RestOK
    <2>2. RunsOK' /\ SpentOK' /\ UNCHANGED <<claims, doubled, overlapped>>
      <3>1. UNCHANGED <<claims, doubled, overlapped>> /\ (Fault \/ UNCHANGED spent)
        BY <1>6, Zenon DEF StoreBlob
      <3>2. SpentOK'
        BY <3>1 DEF Fault
      <3> QED
        BY <1>6, <3>1, <3>2, StoreBlobMoves
    <2>3. acked' \subseteq Owners /\ unsaved' \subseteq Owners /\ garbled' \subseteq Owners
      BY <1>0, <1>6, StoreBlobMoves DEF StoreBlob, RestOK
    <2> QED
      BY <1>0, <2>1, <2>2, <2>3, Zenon DEF RestOK
  <1>7. ASSUME NEW h \in Handlers, StoreOther(h) PROVE RunsOK' /\ RestOK' /\ SpentOK'
    BY <1>0, <1>7, StoreOtherMoves DEF StoreOther, Fault, RestOK
  <1>8. ASSUME NEW h \in Handlers, DeleteQuery(h) PROVE RunsOK' /\ RestOK' /\ SpentOK'
    BY <1>0, <1>8, DeleteQueryMoves DEF DeleteQuery, Fault, RestOK
  <1>9. ASSUME NEW h \in Handlers, DeleteEntry(h) PROVE RunsOK' /\ RestOK' /\ SpentOK'
    BY <1>0, <1>9, DeleteEntryMoves DEF DeleteEntry, Fault, RestOK
  <1>10. ASSUME NEW h \in Handlers, Get(h) PROVE RunsOK' /\ RestOK' /\ SpentOK'
    BY <1>0, <1>10, GetMoves DEF Get, Fault, RestOK
  <1>11. ASSUME NEW h \in Handlers, DeleteBlob(h) PROVE RunsOK' /\ RestOK' /\ SpentOK'
    <2>1. blob' \in BOOLEAN
      BY <1>0, <1>11, Zenon DEF DeleteBlob, RestOK
    <2>2. RunsOK' /\ SpentOK' /\ UNCHANGED <<claims, doubled, overlapped>>
      <3>1. UNCHANGED <<claims, doubled, overlapped>> /\ (Fault \/ UNCHANGED spent)
        BY <1>11, Zenon DEF DeleteBlob
      <3>2. SpentOK'
        BY <3>1 DEF Fault
      <3> QED
        BY <1>11, <3>1, <3>2, DeleteBlobMoves
    <2>3. acked' \subseteq Owners /\ unsaved' \subseteq Owners /\ garbled' \subseteq Owners
      BY <1>0, <1>11, DeleteBlobMoves DEF DeleteBlob, RestOK
    <2> QED
      BY <1>0, <2>1, <2>2, <2>3, Zenon DEF RestOK
  <1>12. CASE UNCHANGED vars
    BY <1>0, <1>12, RunsAreTyped DEF vars, RestOK, RunsOK
  <1> QED
    BY <1>1, <1>2, <1>3, <1>4, <1>5, <1>6, <1>7, <1>8, <1>9, <1>10, <1>11, <1>12 DEF Next, Mirror

-----------------------------------------------------------------------------
(* What stays as long as no upload meets a deletion                        *)

\* A request that comes in and does not set overlapped keeps uploads and deletions apart.
LEMMA StartApart ==
  ASSUME NEW h \in Handlers, NEW r, Start(h, r), ~overlapped'
  PROVE  ~overlapped /\ Apart'
  <1> DEFINE Class(g) == IF run'[g].at \in Uploading THEN Uploading ELSE
                         IF run'[g].at \in Deleting THEN Deleting ELSE {}
             Met == {Uploading, Deleting} \subseteq {Class(g) : g \in Handlers}
  <1>1. overlapped' = (overlapped \/ Met)
    BY DEF Start
  <1>2. ~overlapped /\ ~Met
    BY <1>1
  <1>3. ASSUME NEW f \in Handlers, NEW g \in Handlers, run'[f].at \in Uploading, run'[g].at \in Deleting
        PROVE  Met
    <2>1. run'[g].at \notin Uploading
      BY <1>3 DEF Uploading, Deleting
    <2>2. Class(f) = Uploading /\ Class(g) = Deleting
      BY <1>3, <2>1
    <2> QED
      BY <2>2
  <1> QED
    BY <1>2, <1>3 DEF Apart, Keeps, Deletes

\* A handler that goes on stays an upload or a deletion.
LEMMA MovesApart ==
  ASSUME Apart, NEW h \in Handlers, NEW from, NEW to, Moves(h, from, to),
         to \in Uploading => from \in Uploading, to \in Deleting => from \in Deleting
  PROVE  Apart'
  BY DEF Apart, Keeps, Deletes, Moves

Kept == Apart /\ ClaimedFirst /\ SafeHaveAll /\ DeletedUnclaimed

\* For what neither touches the index and the storage nor answers.
LEMMA MovesKept ==
  ASSUME TypeOK, Kept, NEW h \in Handlers, NEW from, NEW to, Moves(h, from, to),
         UNCHANGED <<claims, blob, acked, unsaved, garbled>>,
         to \in Uploading => from \in Uploading, to \in Deleting => from \in Deleting,
         to = "storeBlob" => ClaimsOf(run[h].owner) # {},
         to = "deleteBlob" => claims = {},
         to = "delete" => from = "query",
         to # "query"
  PROVE  Kept'
  <1>1. Apart'
    BY MovesApart DEF Kept
  <1>2. ClaimedFirst'
    BY DEF Kept, ClaimedFirst, Moves, ClaimsOf
  <1>3. SafeHaveAll'
    BY DEF Kept, SafeHaveAll, Safe, Moves, ClaimsOf
  <1>4. DeletedUnclaimed'
    BY DEF Kept, DeletedUnclaimed, Moves
  <1> QED
    BY <1>1, <1>2, <1>3, <1>4 DEF Kept

\* For an upload that comes in.
LEMMA StartKept ==
  ASSUME TypeOK, Kept, Apart', NEW h \in Handlers, run[h].at = "idle",
         run'[h].at \in {"keepQuery", "otherBlob"},
         \A g \in Handlers \ {h} : run'[g] = run[g],
         UNCHANGED <<claims, blob, acked, unsaved, garbled>>
  PROVE  Kept'
  <1>1. ClaimedFirst'
    BY DEF Kept, ClaimedFirst, ClaimsOf
  <1>2. SafeHaveAll'
    BY DEF Kept, SafeHaveAll, Safe, ClaimsOf
  <1>3. DeletedUnclaimed'
    BY DEF Kept, DeletedUnclaimed
  <1> QED
    BY <1>1, <1>2, <1>3 DEF Kept

LEMMA DeleteRequestKept ==
  ASSUME TypeOK, Kept, Apart', NEW h \in Handlers, NEW o \in Owners, DeleteRequest(h, o)
  PROVE  Kept'
  <1>1. /\ run[h].at = "idle" /\ run'[h].at = "query" /\ run'[h].owner = o
        /\ \A g \in Handlers \ {h} : run'[g] = run[g]
    BY DeleteRequestMoves
  <1>2. /\ UNCHANGED <<claims, blob, unsaved>>
        /\ acked' = acked \ {o} /\ garbled' = garbled \ {o}
    BY DEF DeleteRequest, Start
  <1>3. ClaimedFirst'
    BY <1>1, <1>2 DEF Kept, ClaimedFirst, ClaimsOf
  <1>4. \A p \in Owners : Safe(p)' => Safe(p) /\ p # o
    BY <1>2 DEF Safe
  <1>5. SafeHaveAll'
    BY <1>1, <1>2, <1>4 DEF Kept, SafeHaveAll, ClaimsOf
  <1>6. DeletedUnclaimed'
    BY <1>1, <1>2 DEF Kept, DeletedUnclaimed
  <1> QED
    BY <1>3, <1>5, <1>6 DEF Kept

LEMMA KeepSaveKept ==
  ASSUME TypeOK, Kept, NEW h \in Handlers, KeepSave(h)
  PROVE  Kept'
  <1>1. Moves(h, "keepSave", "storeBlob")
    BY KeepSaveMoves
  <1>2. /\ UNCHANGED <<blob, acked, garbled>>
        /\ claims \subseteq claims' /\ unsaved \subseteq unsaved'
        /\ ClaimsOf(run[h].owner)' # {} \/ run[h].owner \in unsaved'
    <2>1. CASE claims' = claims \cup {[owner |-> run[h].owner, time |-> run[h].time]} /\ UNCHANGED unsaved
      <3>1. [owner |-> run[h].owner, time |-> run[h].time] \in ClaimsOf(run[h].owner)'
        BY <1>1, <2>1 DEF ClaimsOf, Moves
      <3> QED
        BY <2>1, <3>1 DEF KeepSave
    <2>2. CASE UNCHANGED claims /\ unsaved' = unsaved \cup {run[h].owner}
      BY <2>2 DEF KeepSave
    <2> QED
      BY <2>1, <2>2 DEF KeepSave
  <1>3. Apart'
    BY <1>1, MovesApart DEF Kept, Uploading, Deleting
  <1>4. ClaimedFirst'
    BY <1>1, <1>2 DEF Kept, ClaimedFirst, Moves, ClaimsOf
  <1>5. SafeHaveAll'
    BY <1>1, <1>2 DEF Kept, SafeHaveAll, Safe, Moves, ClaimsOf
  <1>6. DeletedUnclaimed'
    <2>1. \A g \in Handlers : run[g].at # "deleteBlob"
      BY <1>1 DEF Kept, Apart, Keeps, Deletes, Moves, Uploading, Deleting
    <2> QED
      BY <1>1, <2>1 DEF DeletedUnclaimed, Moves
  <1> QED
    BY <1>3, <1>4, <1>5, <1>6 DEF Kept

LEMMA StoreBlobKept ==
  ASSUME TypeOK, Kept, NEW h \in Handlers, StoreBlob(h)
  PROVE  Kept'
  <1>1. Moves(h, "storeBlob", "idle") /\ run[h].owner \in Owners
    BY StoreBlobMoves
  <1>2. CASE UNCHANGED <<claims, blob, acked, unsaved, garbled>>
    BY <1>1, <1>2, MovesKept DEF Uploading, Deleting
  <1>3. CASE /\ blob' = TRUE /\ UNCHANGED claims
             /\ acked' = acked \cup {run[h].owner}
             /\ unsaved' = {o \in unsaved : ClaimsOf(o) = {}}
             /\ garbled' = garbled \ {run[h].owner}
    <2>1. Apart'
      BY <1>1, MovesApart DEF Kept, Uploading, Deleting
    <2>2. ClaimedFirst'
      BY <1>1, <1>3 DEF Kept, ClaimedFirst, Moves, ClaimsOf
    <2>3. \A g \in Handlers : run[g].at \notin {"query", "delete", "deleteBlob"}
      BY <1>1 DEF Kept, Apart, Keeps, Deletes, Moves, Uploading, Deleting
    <2>4. \A o \in Owners : Safe(o)' => ClaimsOf(o) # {}
      BY <1>1, <1>3 DEF Kept, Safe, SafeHaveAll, ClaimedFirst, Moves
    <2>5. SafeHaveAll'
      BY <1>1, <1>3, <2>3, <2>4 DEF SafeHaveAll, Moves, ClaimsOf
    <2>6. DeletedUnclaimed'
      BY <1>1, <2>3 DEF DeletedUnclaimed, Moves
    <2> QED
      BY <2>1, <2>2, <2>5, <2>6 DEF Kept
  <1> QED
    BY <1>2, <1>3, Zenon DEF StoreBlob

LEMMA StoreOtherKept ==
  ASSUME TypeOK, Kept, NEW h \in Handlers, StoreOther(h)
  PROVE  Kept'
  <1>1. Moves(h, "otherBlob", "idle")
    BY StoreOtherMoves
  <1>2. UNCHANGED <<claims, blob, unsaved>> /\ \A o \in Owners : Safe(o)' => Safe(o)
    BY DEF StoreOther, Safe
  <1>3. Apart'
    BY <1>1, MovesApart DEF Kept, Uploading, Deleting
  <1>4. ClaimedFirst'
    BY <1>1, <1>2 DEF Kept, ClaimedFirst, Moves, ClaimsOf
  <1>5. SafeHaveAll'
    BY <1>1, <1>2 DEF Kept, SafeHaveAll, Moves, ClaimsOf
  <1>6. DeletedUnclaimed'
    BY <1>1, <1>2 DEF Kept, DeletedUnclaimed, Moves
  <1> QED
    BY <1>3, <1>4, <1>5, <1>6 DEF Kept

LEMMA DeleteEntryKept ==
  ASSUME TypeOK, Kept, NEW h \in Handlers, DeleteEntry(h)
  PROVE  Kept'
  <1>1. CASE Moves(h, "delete", "idle") /\ UNCHANGED claims
    <2>1. UNCHANGED <<blob, acked, unsaved, garbled>>
      BY DEF DeleteEntry
    <2> QED
      BY <1>1, <2>1, MovesKept DEF Uploading, Deleting
  <1>2. CASE Moves(h, "delete", "get")
    <2>1. /\ UNCHANGED <<blob, acked, unsaved, garbled>>
          /\ claims' = claims \ {run[h].claim} \/ claims' = claims
      BY DEF DeleteEntry
    <2>2. run[h].claim.owner = run[h].owner
      BY DeleteEntryMoves
    <2>3. \A o \in Owners : o # run[h].owner => ClaimsOf(o)' = ClaimsOf(o)
      BY <2>1, <2>2 DEF ClaimsOf
    <2>4. Apart'
      BY <1>2, MovesApart DEF Kept, Uploading, Deleting
    <2>5. ClaimedFirst'
      BY <1>2 DEF Kept, ClaimedFirst, Apart, Keeps, Deletes, Moves, Uploading, Deleting
    <2>6. SafeHaveAll'
      BY <1>2, <2>1, <2>3 DEF Kept, SafeHaveAll, Safe, Moves
    <2>7. DeletedUnclaimed'
      BY <1>2, <2>1 DEF Kept, DeletedUnclaimed, Moves
    <2> QED
      BY <2>4, <2>5, <2>6, <2>7 DEF Kept
  <1> QED
    BY <1>1, <1>2, DeleteEntryMoves

LEMMA DeleteBlobKept ==
  ASSUME TypeOK, Kept, NEW h \in Handlers, DeleteBlob(h)
  PROVE  Kept'
  <1>1. Moves(h, "deleteBlob", "idle")
    BY DeleteBlobMoves
  <1>2. UNCHANGED <<claims, acked, unsaved, garbled>>
    BY DEF DeleteBlob
  <1>3. claims = {} /\ \A o \in Owners : ~Safe(o)
    BY <1>1 DEF Kept, DeletedUnclaimed, SafeHaveAll, ClaimsOf, Moves
  <1>4. Apart'
    BY <1>1, MovesApart DEF Kept, Uploading, Deleting
  <1>5. ClaimedFirst' /\ DeletedUnclaimed'
    BY <1>1, <1>2 DEF Kept, ClaimedFirst, DeletedUnclaimed, Moves, ClaimsOf
  <1>6. SafeHaveAll'
    BY <1>2, <1>3 DEF SafeHaveAll, Safe
  <1> QED
    BY <1>4, <1>5, <1>6 DEF Kept

LEMMA StaysStep == TypeOK /\ Stays /\ [Next]_vars => Stays'
  <1> SUFFICES ASSUME TypeOK, Stays, [Next]_vars, ~overlapped' PROVE Kept'
    BY Zenon DEF Stays, Kept
  <1>1. ~overlapped => Kept
    BY Zenon DEF Stays, Kept
  <1>2. ASSUME NEW h \in Handlers, NEW o \in Owners, NEW t \in Times, Upload(h, o, t) PROVE Kept'
    <2>1. Start(h, [at |-> "keepQuery", owner |-> o, time |-> t])
      BY <1>2 DEF Upload
    <2>2. ~overlapped /\ Apart'
      BY <2>1, StartApart, Zenon
    <2>3. UNCHANGED <<claims, blob, acked, unsaved, garbled>>
      BY <1>2 DEF Upload, Start
    <2> QED
      BY <1>1, <1>2, <2>2, <2>3, UploadMoves, StartKept
  <1>3. ASSUME NEW h \in Handlers, NEW o \in Owners, UploadShort(h, o) PROVE Kept'
    <2>1. Start(h, [at |-> "otherBlob", owner |-> o])
      BY <1>3 DEF UploadShort
    <2>2. ~overlapped /\ Apart'
      BY <2>1, StartApart, Zenon
    <2>3. UNCHANGED <<claims, blob, acked, unsaved, garbled>>
      BY <1>3 DEF UploadShort, Start
    <2> QED
      BY <1>1, <1>3, <2>2, <2>3, UploadShortMoves, StartKept
  <1>4. ASSUME NEW h \in Handlers, NEW o \in Owners, DeleteRequest(h, o) PROVE Kept'
    <2>1. Start(h, [at |-> "query", owner |-> o])
      BY <1>4 DEF DeleteRequest
    <2>2. ~overlapped /\ Apart'
      BY <2>1, StartApart, Zenon
    <2> QED
      BY <1>1, <1>4, <2>2, DeleteRequestKept
  <1>5. ASSUME NEW h \in Handlers, KeepQuery(h) PROVE Kept'
    <2>1. UNCHANGED <<claims, blob, acked, unsaved, garbled>> /\ UNCHANGED overlapped
      BY <1>5, Zenon DEF KeepQuery
    <2> QED
      BY <1>1, <1>5, <2>1, KeepQueryMoves, MovesKept DEF Uploading, Deleting
  <1>6. ASSUME NEW h \in Handlers, KeepSave(h) PROVE Kept'
    <2>1. UNCHANGED overlapped
      BY <1>6, Zenon DEF KeepSave
    <2> QED
      BY <1>1, <1>6, <2>1, KeepSaveKept
  <1>7. ASSUME NEW h \in Handlers, StoreBlob(h) PROVE Kept'
    <2>1. UNCHANGED overlapped
      BY <1>7, Zenon DEF StoreBlob
    <2> QED
      BY <1>1, <1>7, <2>1, StoreBlobKept
  <1>8. ASSUME NEW h \in Handlers, StoreOther(h) PROVE Kept'
    <2>1. UNCHANGED overlapped
      BY <1>8, Zenon DEF StoreOther
    <2> QED
      BY <1>1, <1>8, <2>1, StoreOtherKept
  <1>9. ASSUME NEW h \in Handlers, DeleteQuery(h) PROVE Kept'
    <2>1. UNCHANGED <<claims, blob, acked, unsaved, garbled>> /\ UNCHANGED overlapped
      BY <1>9, Zenon DEF DeleteQuery
    <2> QED
      BY <1>1, <1>9, <2>1, DeleteQueryMoves, MovesKept DEF Uploading, Deleting
  <1>10. ASSUME NEW h \in Handlers, DeleteEntry(h) PROVE Kept'
    <2>1. UNCHANGED overlapped
      BY <1>10, Zenon DEF DeleteEntry
    <2> QED
      BY <1>1, <1>10, <2>1, DeleteEntryKept
  <1>11. ASSUME NEW h \in Handlers, Get(h) PROVE Kept'
    <2>1. UNCHANGED <<claims, blob, acked, unsaved, garbled>> /\ UNCHANGED overlapped
      BY <1>11, Zenon DEF Get
    <2> QED
      BY <1>1, <1>11, <2>1, GetMoves, MovesKept DEF Uploading, Deleting
  <1>12. ASSUME NEW h \in Handlers, DeleteBlob(h) PROVE Kept'
    <2>1. UNCHANGED overlapped
      BY <1>12, Zenon DEF DeleteBlob
    <2> QED
      BY <1>1, <1>12, <2>1, DeleteBlobKept
  <1>13. CASE UNCHANGED vars
    BY <1>1, <1>13 DEF vars, Kept, Apart, ClaimedFirst, SafeHaveAll, DeletedUnclaimed, Safe, Keeps, Deletes, ClaimsOf
  <1> QED
    BY <1>2, <1>3, <1>4, <1>5, <1>6, <1>7, <1>8, <1>9, <1>10, <1>11, <1>12, <1>13 DEF Next, Mirror

-----------------------------------------------------------------------------
(* One claim an owner                                                      *)

\* For what saves no claim and starts no upload.
LEMMA MovesSingles ==
  ASSUME TypeOK, Singles, NEW h \in Handlers, NEW from, NEW to, Moves(h, from, to),
         claims' \subseteq claims, UNCHANGED doubled,
         to \in Uploading => from \in Uploading,
         to = "keepSave" => ClaimsOf(run[h].owner) = {}
  PROVE  Singles'
  <1> SUFFICES ASSUME NEW o \in Owners, o \notin doubled PROVE Single(o)'
    BY DEF Singles
  <1>1. Single(o)
    BY DEF Singles
  <1>2. ClaimsOf(o)' \subseteq ClaimsOf(o)
    BY DEF ClaimsOf
  <1>3. \A g \in Handlers : Keeps(g)' /\ run'[g].owner = o => Keeps(g) /\ run[g].owner = o
    BY DEF Moves, Keeps, Uploading
  <1>4. \A g \in Handlers : run'[g].at = "keepSave" /\ run'[g].owner = o => ClaimsOf(o)' = {}
    BY <1>1, <1>2 DEF Single, Moves
  <1> QED
    BY <1>1, <1>2, <1>3, <1>4 DEF Single

LEMMA SinglesStep == TypeOK /\ Singles /\ [Next]_vars => Singles'
  <1> SUFFICES ASSUME TypeOK, Singles, [Next]_vars PROVE Singles'
    OBVIOUS
  <1>1. ASSUME NEW h \in Handlers, NEW p \in Owners, NEW t \in Times, Upload(h, p, t) PROVE Singles'
    <2>1. /\ run[h].at = "idle" /\ run'[h].at = "keepQuery" /\ run'[h].owner = p
          /\ \A g \in Handlers \ {h} : run'[g] = run[g]
      BY <1>1, UploadMoves
    <2>2. UNCHANGED claims
      BY <1>1 DEF Upload, Start
    <2> SUFFICES ASSUME NEW o \in Owners, o \notin doubled' PROVE Single(o)'
      BY DEF Singles
    <2>3. o \notin doubled /\ (o = p => ~\E g \in Handlers : run[g].at \in Uploading /\ run[g].owner = o)
      BY <1>1 DEF Upload
    <2>4. Single(o)
      BY <2>3 DEF Singles
    <2>5. \A g \in Handlers : Keeps(g)' /\ run'[g].owner = o =>
            (g = h /\ o = p) \/ (g # h /\ Keeps(g) /\ run[g].owner = o)
      BY <2>1 DEF Keeps
    <2>6. \A f, g \in Handlers : Keeps(f)' /\ Keeps(g)' /\ run'[f].owner = o /\ run'[g].owner = o => f = g
      BY <2>3, <2>4, <2>5 DEF Single, Keeps
    <2> QED
      BY <2>1, <2>2, <2>4, <2>6 DEF Single, ClaimsOf
  <1>2. ASSUME NEW h \in Handlers, NEW p \in Owners, UploadShort(h, p) \/ DeleteRequest(h, p) PROVE Singles'
    <2>1. /\ run'[h].at \notin Uploading
          /\ \A g \in Handlers \ {h} : run'[g] = run[g]
      BY <1>2, UploadShortMoves, DeleteRequestMoves DEF Uploading
    <2>2. UNCHANGED <<claims, doubled>>
      BY <1>2 DEF UploadShort, DeleteRequest, Start
    <2> QED
      BY <2>1, <2>2 DEF Singles, Single, Keeps, ClaimsOf, Uploading
  <1>3. ASSUME NEW h \in Handlers, KeepQuery(h) PROVE Singles'
    <2>1. UNCHANGED <<claims, doubled>>
      BY <1>3 DEF KeepQuery
    <2> QED
      BY <1>3, <2>1, KeepQueryMoves, MovesSingles DEF Uploading
  <1>4. ASSUME NEW h \in Handlers, KeepSave(h) PROVE Singles'
    <2>1. Moves(h, "keepSave", "storeBlob")
      BY <1>4, KeepSaveMoves
    <2>2. UNCHANGED doubled /\
            (claims' = claims \cup {[owner |-> run[h].owner, time |-> run[h].time]} \/ claims' = claims)
      BY <1>4 DEF KeepSave
    <2> SUFFICES ASSUME NEW o \in Owners, o \notin doubled PROVE Single(o)'
      BY <2>2 DEF Singles
    <2>3. Single(o)
      BY DEF Singles
    <2>4. \A g \in Handlers : Keeps(g)' /\ run'[g].owner = o => Keeps(g) /\ run[g].owner = o
      BY <2>1 DEF Moves, Keeps, Uploading
    <2>5. CASE run[h].owner # o
      <3>1. ClaimsOf(o)' = ClaimsOf(o)
        BY <2>2, <2>5 DEF ClaimsOf
      <3> QED
        BY <2>1, <2>3, <2>4, <3>1 DEF Single, Moves
    <2>6. CASE run[h].owner = o
      <3>1. ClaimsOf(o) = {}
        BY <2>1, <2>3, <2>6 DEF Single, Moves
      <3>2. \A c, d \in ClaimsOf(o)' : c = d
        BY <2>2, <3>1 DEF ClaimsOf
      <3>3. \A g \in Handlers : run'[g].owner = o => run'[g].at # "keepSave"
        BY <2>1, <2>3, <2>6 DEF Single, Moves, Keeps, Uploading
      <3> QED
        BY <2>3, <2>4, <3>2, <3>3 DEF Single
    <2> QED
      BY <2>5, <2>6
  <1>5. ASSUME NEW h \in Handlers, StoreBlob(h) PROVE Singles'
    <2>1. UNCHANGED <<claims, doubled>>
      BY <1>5, Zenon DEF StoreBlob
    <2> QED
      BY <1>5, <2>1, StoreBlobMoves, MovesSingles DEF Uploading
  <1>6. ASSUME NEW h \in Handlers, StoreOther(h) PROVE Singles'
    <2>1. UNCHANGED <<claims, doubled>>
      BY <1>6 DEF StoreOther
    <2> QED
      BY <1>6, <2>1, StoreOtherMoves, MovesSingles DEF Uploading
  <1>7. ASSUME NEW h \in Handlers, DeleteQuery(h) PROVE Singles'
    <2>1. UNCHANGED <<claims, doubled>>
      BY <1>7 DEF DeleteQuery
    <2> QED
      BY <1>7, <2>1, DeleteQueryMoves, MovesSingles DEF Uploading
  <1>8. ASSUME NEW h \in Handlers, DeleteEntry(h) PROVE Singles'
    <2>1. claims' \subseteq claims /\ UNCHANGED doubled
      BY <1>8 DEF DeleteEntry
    <2> QED
      BY <1>8, <2>1, DeleteEntryMoves, MovesSingles DEF Uploading
  <1>9. ASSUME NEW h \in Handlers, Get(h) PROVE Singles'
    <2>1. UNCHANGED <<claims, doubled>>
      BY <1>9 DEF Get
    <2> QED
      BY <1>9, <2>1, GetMoves, MovesSingles DEF Uploading
  <1>10. ASSUME NEW h \in Handlers, DeleteBlob(h) PROVE Singles'
    <2>1. UNCHANGED <<claims, doubled>>
      BY <1>10, Zenon DEF DeleteBlob
    <2> QED
      BY <1>10, <2>1, DeleteBlobMoves, MovesSingles DEF Uploading
  <1>11. CASE UNCHANGED vars
    BY <1>11 DEF vars, Singles, Single, Keeps, ClaimsOf
  <1> QED
    BY <1>1, <1>2, <1>3, <1>4, <1>5, <1>6, <1>7, <1>8, <1>9, <1>10, <1>11 DEF Next, Mirror

-----------------------------------------------------------------------------
(* Index and storage                                                       *)

LEMMA NoFault == SpentOK /\ spent'.faults = 0 => ~Fault
  BY DEF SpentOK, Fault

BlobFollows == claims = {} \/ blob \/ \E h \in Handlers : run[h].at = "storeBlob"
ClaimFollows == ~blob \/ claims # {} \/ \E h \in Handlers : run[h].at \in {"get", "deleteBlob"}

\* For what touches neither, and is not the step that was about to.
LEMMA MovesFollow ==
  ASSUME BlobFollows, ClaimFollows, NEW h \in Handlers, UNCHANGED <<claims, blob>>,
         \A g \in Handlers \ {h} : run'[g] = run[g],
         run[h].at \in {"storeBlob", "deleteBlob"} => FALSE,
         run[h].at = "get" => claims # {} \/ run'[h].at = "deleteBlob"
  PROVE  BlobFollows' /\ ClaimFollows'
  <1>1. BlobFollows'
    BY DEF BlobFollows
  <1>2. CASE ~blob \/ claims # {}
    BY <1>1, <1>2 DEF ClaimFollows
  <1>3. ASSUME NEW g \in Handlers, run[g].at \in {"get", "deleteBlob"} PROVE ClaimFollows'
    BY <1>3 DEF ClaimFollows
  <1> QED
    BY <1>1, <1>2, <1>3 DEF ClaimFollows

LEMMA AgreeingStep == TypeOK /\ SpentOK /\ Stays /\ Agreeing /\ [Next]_vars => Agreeing'
  <1> SUFFICES ASSUME TypeOK, SpentOK, Stays, Agreeing, [Next]_vars, spent'.faults = 0
               PROVE  unsaved' = {} /\ (~overlapped' => BlobFollows' /\ ClaimFollows')
    BY DEF Agreeing, BlobFollows, ClaimFollows
  <1>0. ~Fault
    BY NoFault
  <1>1. /\ spent.faults = 0 => unsaved = {} /\ (~overlapped => BlobFollows /\ ClaimFollows)
        /\ ~overlapped => Kept
    BY Zenon DEF Agreeing, BlobFollows, ClaimFollows, Stays, Kept
  <1> DEFINE Goal == unsaved' = {} /\ (~overlapped' => BlobFollows' /\ ClaimFollows')
  <1>2. ASSUME NEW h \in Handlers, NEW o \in Owners,
               (\E t \in Times : Upload(h, o, t)) \/ UploadShort(h, o) \/ DeleteRequest(h, o)
        PROVE  Goal
    <2>1. PICK r : Start(h, r)
      BY <1>2 DEF Upload, UploadShort, DeleteRequest
    <2>2. ~overlapped' => ~overlapped
      BY <2>1, StartApart
    <2>3. run[h].at = "idle" /\ \A g \in Handlers \ {h} : run'[g] = run[g]
      BY <1>2, UploadMoves, UploadShortMoves, DeleteRequestMoves
    <2>4. UNCHANGED <<claims, blob>> /\ spent.faults = 0 /\ UNCHANGED unsaved
      BY <1>2, <2>1 DEF Start, SpentOK, Upload, UploadShort, DeleteRequest
    <2> QED
      BY <1>1, <2>2, <2>3, <2>4, MovesFollow
  <1>3. ASSUME NEW h \in Handlers, KeepQuery(h) \/ DeleteQuery(h) PROVE Goal
    <2>1. UNCHANGED <<claims, blob, unsaved>> /\ UNCHANGED overlapped /\ UNCHANGED spent
      BY <1>0, <1>3, Zenon DEF KeepQuery, DeleteQuery
    <2>2. run[h].at \in {"keepQuery", "query"} /\ \A g \in Handlers \ {h} : run'[g] = run[g]
      BY <1>3, KeepQueryMoves, DeleteQueryMoves DEF Moves
    <2> QED
      BY <1>1, <2>1, <2>2, MovesFollow
  <1>4. ASSUME NEW h \in Handlers, KeepSave(h) PROVE Goal
    <2>1. /\ UNCHANGED unsaved /\ UNCHANGED overlapped /\ UNCHANGED spent
          /\ claims' = claims \cup {[owner |-> run[h].owner, time |-> run[h].time]}
      BY <1>0, <1>4, Zenon DEF KeepSave
    <2>2. Moves(h, "keepSave", "storeBlob")
      BY <1>4, KeepSaveMoves
    <2> QED
      BY <1>1, <2>1, <2>2 DEF BlobFollows, ClaimFollows, Moves
  <1>5. ASSUME NEW h \in Handlers, StoreBlob(h) PROVE Goal
    <2>1. /\ blob' = TRUE /\ UNCHANGED overlapped /\ UNCHANGED <<claims, spent>>
          /\ unsaved' = {o \in unsaved : ClaimsOf(o) = {}}
      BY <1>0, <1>5, Zenon DEF StoreBlob
    <2>2. run[h].at = "storeBlob"
      BY <1>5 DEF StoreBlob
    <2>3. ~overlapped => claims # {}
      BY <1>1, <2>1, <2>2 DEF Kept, ClaimedFirst, ClaimsOf
    <2> QED
      BY <1>1, <2>1, <2>3 DEF BlobFollows, ClaimFollows
  <1>6. ASSUME NEW h \in Handlers, StoreOther(h) PROVE Goal
    <2>1. UNCHANGED <<claims, blob, unsaved>> /\ UNCHANGED overlapped /\ UNCHANGED spent
      BY <1>0, <1>6, Zenon DEF StoreOther
    <2>2. run[h].at = "otherBlob" /\ \A g \in Handlers \ {h} : run'[g] = run[g]
      BY <1>6, StoreOtherMoves DEF Moves
    <2> QED
      BY <1>1, <2>1, <2>2, MovesFollow
  <1>7. ASSUME NEW h \in Handlers, DeleteEntry(h) PROVE Goal
    <2>1. /\ UNCHANGED <<blob, unsaved>> /\ UNCHANGED overlapped /\ UNCHANGED spent
          /\ claims' \subseteq claims /\ Goto(h, "get")
      BY <1>0, <1>7 DEF DeleteEntry
    <2>2. Moves(h, "delete", "get")
      BY <1>7, <2>1, Going DEF DeleteEntry
    <2> QED
      BY <1>1, <2>1, <2>2 DEF BlobFollows, ClaimFollows, Moves
  <1>8. ASSUME NEW h \in Handlers, Get(h) PROVE Goal
    <2>1. UNCHANGED <<claims, blob, unsaved>> /\ UNCHANGED overlapped /\ UNCHANGED spent
      BY <1>0, <1>8, Zenon DEF Get
    <2>2. Moves(h, "get", "deleteBlob") \/ (Moves(h, "get", "idle") /\ claims # {})
      BY <1>0, <1>8, GetMoves
    <2> QED
      BY <1>1, <2>1, <2>2, MovesFollow DEF Moves
  <1>9. ASSUME NEW h \in Handlers, DeleteBlob(h) PROVE Goal
    <2>1. blob' = FALSE /\ UNCHANGED <<claims, unsaved>> /\ UNCHANGED overlapped /\ UNCHANGED spent
      BY <1>0, <1>9, Zenon DEF DeleteBlob
    <2>2. run[h].at = "deleteBlob"
      BY <1>9 DEF DeleteBlob
    <2>3. ~overlapped => claims = {}
      BY <1>1, <2>2 DEF Kept, DeletedUnclaimed
    <2> QED
      BY <1>1, <2>1, <2>3 DEF BlobFollows, ClaimFollows
  <1>10. CASE UNCHANGED vars
    BY <1>1, <1>10 DEF vars, BlobFollows, ClaimFollows
  <1> QED
    BY <1>2, <1>3, <1>4, <1>5, <1>6, <1>7, <1>8, <1>9, <1>10 DEF Next, Mirror

-----------------------------------------------------------------------------
LEMMA InitIInv == Init => IInv
  <1> SUFFICES ASSUME Init PROVE IInv
    OBVIOUS
  <1>1. \A h \in Handlers : run[h].at = "idle"
    BY DEF Init, Idle
  <1>2. Stays
    BY <1>1 DEF Init, Stays, Apart, ClaimedFirst, SafeHaveAll, DeletedUnclaimed, Safe, Keeps, Uploading
  <1>3. Agreeing /\ Singles
    BY <1>1 DEF Init, Agreeing, Singles, Single, Keeps, Uploading, ClaimsOf
  <1> QED
    BY <1>2, <1>3, TypeInit DEF IInv

\* Claims and blobs stay right: without overlaps, who is safe has a blob and a claim that nobody is
\* about to take out; without faults, index and storage agree but for what is under way; without two
\* uploads of one owner at a time, it has one claim.
THEOREM ClaimsStayRight == Spec => []IInv
  <1>1. IInv /\ [Next]_vars => IInv'
    BY TypeStep, StaysStep, AgreeingStep, SinglesStep DEF IInv
  <1> QED
    BY <1>1, InitIInv, PTL DEF Spec

\* The state of the media server is made of what the code stores.
THEOREM TypesHold == Spec => []TypeOK
  <1>1. IInv => TypeOK
    BY DEF IInv
  <1> QED
    BY <1>1, ClaimsStayRight, PTL

\* An owner whose upload was answered with 200 has its blob, but for the three excuses
\* (handlers.go:77, 141-157, 368-382; eventstorewrapper.go:18-41).
THEOREM AckedIsAlwaysStored == Spec => []AckedIsStored
  <1>1. IInv => AckedIsStored
    <2> SUFFICES ASSUME IInv, NEW o \in acked, ~overlapped, o \notin unsaved \cup garbled PROVE blob
      BY Zenon DEF AckedIsStored
    <2>1. SafeHaveAll /\ o \in Owners
      BY DEF IInv, Stays, TypeOK
    <2> QED
      BY <2>1 DEF SafeHaveAll, Safe
  <1> QED
    BY <1>1, ClaimsStayRight, PTL

\* Index and storage agree at rest, and an owner has one claim (handlers.go:141-152, 368-382;
\* eventstorewrapper.go:19-38, 76-88).
THEOREM IndexAlwaysMatches == Spec => []IndexMatchesStorage
  <1>1. IInv => IndexMatchesStorage
    <2> SUFFICES ASSUME IInv PROVE IndexMatchesStorage
      OBVIOUS
    <2>1. ASSUME Quiet, spent.faults = 0, ~overlapped PROVE blob <=> claims # {}
      <3>1. \A h \in Handlers : run[h].at = "idle"
        BY <2>1 DEF Quiet, Idle
      <3> QED
        BY <2>1, <3>1 DEF IInv, Agreeing
    <2>2. ASSUME NEW o \in Owners, o \notin doubled PROVE Cardinality(ClaimsOf(o)) <= 1
      <3>1. \A c, d \in ClaimsOf(o) : c = d
        BY <2>2 DEF IInv, Singles, Single
      <3>2. CASE ClaimsOf(o) = {}
        BY <3>2, FS_EmptySet
      <3>3. ASSUME NEW c \in ClaimsOf(o) PROVE Cardinality(ClaimsOf(o)) <= 1
        <4>1. ClaimsOf(o) = {c}
          BY <3>1, <3>3
        <4>2. Cardinality({c}) = 1
          BY FS_Singleton
        <4> QED
          BY <4>1, <4>2
      <3> QED
        BY <3>2, <3>3
    <2> QED
      BY <2>1, <2>2, Zenon DEF IndexMatchesStorage
  <1> QED
    BY <1>1, ClaimsStayRight, PTL
=============================================================================
