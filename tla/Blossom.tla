------------------------------ MODULE Blossom ------------------------------
(***************************************************************************)
(* The media server (blossom/handlers.go) over the index that keeps who    *)
(* owns a blob as events of kind 24242 (blossom/eventstorewrapper.go), for *)
(* one blob: blobs share nothing.  An upload, and a mirror, first looks    *)
(* for the claim of its owner in the index and makes one, then stores the  *)
(* blob.  A deletion takes the claim of its owner out, then looks for any  *)
(* other and, if there is none, deletes the blob.  Each of these is a call *)
(* to a database or a storage of its own, which may fail, and nothing      *)
(* holds off other requests between them.                                  *)
(***************************************************************************)
EXTENDS Integers, FiniteSets

CONSTANTS
  Owners,
  Handlers,      \* the goroutines of HTTP requests
  Times,         \* the seconds in which blobs are uploaded
  MaxRequests,   \* bound on the requests
  MaxFaults      \* bound on the calls that fail

ASSUME BoundsAssumption == {MaxRequests, MaxFaults} \subseteq Nat

VARIABLES
  claims,        \* the index: the owner of each event, and its second
  blob,          \* the blob is in the storage
  run,           \* what each handler does, for which owner, at which second, about which event
  spent,         \* the requests and the faults so far
  acked,         \* the owners whose last upload was answered with 200, and did not ask to delete since
  unsaved,       \* the owners whose claim the index could not save, until one is there at an upload
  doubled,       \* the owners that had two uploads at the same time
  overlapped,    \* an upload and a deletion were there at the same time
  garbled        \* the owners that were answered with 200 for bytes they did not send

vars == <<claims, blob, run, spent, acked, unsaved, doubled, overlapped, garbled>>

Idle == [at |-> "idle"]
Uploading == {"keepQuery", "keepSave", "storeBlob"}
Deleting == {"query", "delete", "get", "deleteBlob"}
Quiet == \A h \in Handlers : run[h] = Idle

ClaimsOf(o) == {c \in claims : c.owner = o}

Fault == spent.faults < MaxFaults /\ spent' = [spent EXCEPT !.faults = @ + 1]
Goto(h, step) == run' = [run EXCEPT ![h].at = step]
Return(h) == run' = [run EXCEPT ![h] = Idle]

-----------------------------------------------------------------------------
Init ==
  /\ claims = {}
  /\ blob = FALSE
  /\ run = [h \in Handlers |-> Idle]
  /\ spent = [requests |-> 0, faults |-> 0]
  /\ acked = {} /\ unsaved = {} /\ doubled = {} /\ garbled = {}
  /\ overlapped = FALSE

(* A request comes in, and is authorized.                                  *)
Start(h, request) ==
  /\ run[h] = Idle
  /\ spent.requests < MaxRequests
  /\ spent' = [spent EXCEPT !.requests = @ + 1]
  /\ run' = [run EXCEPT ![h] = request]
  /\ overlapped' = (overlapped \/ {Uploading, Deleting} \subseteq
                      {IF run'[g].at \in Uploading THEN Uploading ELSE
                       IF run'[g].at \in Deleting THEN Deleting ELSE {} : g \in Handlers})
  /\ UNCHANGED <<claims, blob>>

Upload(h, o, t) ==
  /\ Start(h, [at |-> "keepQuery", owner |-> o, time |-> t])
  /\ doubled' = IF \E g \in Handlers : run[g].at \in Uploading /\ run[g].owner = o
                THEN doubled \cup {o} ELSE doubled
  /\ UNCHANGED <<acked, unsaved, garbled>>

(* The number of bytes that the first read of the body got is dropped:     *)
(* when it was short, zeros stay between them and the rest.  The upload    *)
(* goes on with another blob.                                              *)
UploadShort(h, o) ==
  /\ Start(h, [at |-> "otherBlob", owner |-> o])
  /\ UNCHANGED <<acked, unsaved, doubled, garbled>>

(* A mirror downloads the blob instead of reading it, then does the same.  *)
Mirror(h, o, t) == Upload(h, o, t)

DeleteRequest(h, o) ==
  /\ Start(h, [at |-> "query", owner |-> o])
  /\ acked' = acked \ {o}
  /\ garbled' = garbled \ {o}
  /\ UNCHANGED <<unsaved, doubled>>

-----------------------------------------------------------------------------
\* Mutant: a claim of anyone will do.
KeepQueryAnyones(h) ==
  /\ run[h].at = "keepQuery"
  /\ \/ Goto(h, IF claims = {} THEN "keepSave" ELSE "storeBlob") /\ UNCHANGED spent
     \/ Fault /\ Return(h)
  /\ UNCHANGED <<claims, blob, acked, unsaved, doubled, overlapped, garbled>>

(* Keep looks for a claim of the owner...                                  *)
KeepQuery(h) ==
  /\ run[h].at = "keepQuery"
  /\ \/ Goto(h, IF ClaimsOf(run[h].owner) = {} THEN "keepSave" ELSE "storeBlob") /\ UNCHANGED spent
     \/ Fault /\ Return(h)
  /\ UNCHANGED <<claims, blob, acked, unsaved, doubled, overlapped, garbled>>

(* ...and makes one.  That it could not is not noticed.                    *)
KeepSave(h) ==
  /\ run[h].at = "keepSave"
  /\ \/ /\ claims' = claims \cup {[owner |-> run[h].owner, time |-> run[h].time]}
        /\ UNCHANGED <<spent, unsaved>>
     \/ /\ Fault
        /\ unsaved' = unsaved \cup {run[h].owner}
        /\ UNCHANGED claims
  /\ Goto(h, "storeBlob")
  /\ UNCHANGED <<blob, acked, doubled, overlapped, garbled>>

(* The blob is stored, and the request answered.                           *)
StoreBlob(h) ==
  /\ run[h].at = "storeBlob"
  /\ \/ /\ blob' = TRUE
        /\ acked' = acked \cup {run[h].owner}
        /\ unsaved' = {o \in unsaved : ClaimsOf(o) = {}}
        /\ garbled' = garbled \ {run[h].owner}
        /\ UNCHANGED spent
     \/ /\ Fault
        /\ UNCHANGED <<blob, acked, unsaved, garbled>>
  /\ Return(h)
  /\ UNCHANGED <<claims, doubled, overlapped>>

(* The other blob is claimed, stored and answered for.                     *)
StoreOther(h) ==
  /\ run[h].at = "otherBlob"
  /\ \/ /\ acked' = acked \cup {run[h].owner}
        /\ garbled' = garbled \cup ({run[h].owner} \ acked)
        /\ UNCHANGED spent
     \/ /\ Fault
        /\ UNCHANGED <<acked, garbled>>
  /\ Return(h)
  /\ UNCHANGED <<claims, blob, unsaved, doubled, overlapped>>

-----------------------------------------------------------------------------
\* Mutant: the claim may be anyone's.
DeleteQueryAnyones(h) ==
  /\ run[h].at = "query"
  /\ \/ /\ \E c \in claims :
             run' = [run EXCEPT ![h] = [at |-> "delete", owner |-> run[h].owner, claim |-> c]]
        /\ UNCHANGED spent
     \/ /\ claims = {}
        /\ Goto(h, "get")
        /\ UNCHANGED spent
     \/ Fault /\ Return(h)
  /\ UNCHANGED <<claims, blob, acked, unsaved, doubled, overlapped, garbled>>

(* Delete looks for a claim of the owner...                                *)
DeleteQuery(h) ==
  /\ run[h].at = "query"
  /\ \/ /\ \E c \in ClaimsOf(run[h].owner) :
             run' = [run EXCEPT ![h] = [at |-> "delete", owner |-> c.owner, claim |-> c]]
        /\ UNCHANGED spent
     \/ /\ ClaimsOf(run[h].owner) = {}
        /\ Goto(h, "get")
        /\ UNCHANGED spent
     \/ Fault /\ Return(h)
  /\ UNCHANGED <<claims, blob, acked, unsaved, doubled, overlapped, garbled>>

(* ...and takes it out of the index.                                       *)
DeleteEntry(h) ==
  /\ run[h].at = "delete"
  /\ \/ /\ claims' = claims \ {run[h].claim}
        /\ Goto(h, "get")
        /\ UNCHANGED spent
     \/ /\ Fault
        /\ Return(h)
        /\ UNCHANGED claims
  /\ UNCHANGED <<blob, acked, unsaved, doubled, overlapped, garbled>>

\* Mutant: only a claim of who deletes keeps the blob.
UnclaimedByOwner(h) == ClaimsOf(run[h].owner) = {}

\* bd == nil
Unclaimed(h) == claims = {}

(* Does anyone else own it?  That it could not be found out is not         *)
(* noticed.                                                                *)
Get(h) ==
  /\ run[h].at = "get"
  /\ \/ /\ IF Unclaimed(h) THEN Goto(h, "deleteBlob") ELSE Return(h)
        /\ UNCHANGED spent
     \/ Fault /\ Return(h)
  /\ UNCHANGED <<claims, blob, acked, unsaved, doubled, overlapped, garbled>>

DeleteBlob(h) ==
  /\ run[h].at = "deleteBlob"
  /\ \/ blob' = FALSE /\ UNCHANGED spent
     \/ Fault /\ UNCHANGED blob
  /\ Return(h)
  /\ UNCHANGED <<claims, acked, unsaved, doubled, overlapped, garbled>>

-----------------------------------------------------------------------------
Next ==
  \E h \in Handlers :
    \/ \E o \in Owners : (\E t \in Times : Upload(h, o, t) \/ Mirror(h, o, t)) \/ UploadShort(h, o) \/ DeleteRequest(h, o)
    \/ KeepQuery(h) \/ KeepSave(h) \/ StoreBlob(h) \/ StoreOther(h)
    \/ DeleteQuery(h) \/ DeleteEntry(h) \/ Get(h) \/ DeleteBlob(h)

Spec == Init /\ [][Next]_vars

-----------------------------------------------------------------------------
(* Properties                                                              *)

\* A handler deletes the claims of the owner it acts for, found or not (eventstorewrapper.go:76-88).
TypeOK ==
  /\ claims \subseteq [owner : Owners, time : Times]
  /\ blob \in BOOLEAN /\ overlapped \in BOOLEAN
  /\ acked \subseteq Owners /\ unsaved \subseteq Owners
  /\ doubled \subseteq Owners /\ garbled \subseteq Owners
  /\ run \in [Handlers -> {Idle}
                           \cup [at : Uploading, owner : Owners, time : Times]
                           \cup [at : {"otherBlob", "query", "get", "deleteBlob"}, owner : Owners]
                           \cup [at : {"delete", "get", "deleteBlob"}, owner : Owners,
                                 claim : [owner : Owners, time : Times]]]
  /\ \A h \in Handlers : run[h].at = "delete" => run[h].claim.owner = run[h].owner

\* An owner whose upload was answered with 200 has its blob until it asks to delete it, whatever
\* other owners upload and delete and whatever calls fail.  Three things can break it: an upload and
\* a deletion at the same time, a claim that could not be saved, and a first read of the body that
\* was short, after which another blob is stored (handlers.go:77, 141-157, 368-382;
\* eventstorewrapper.go:18-41).
AckedIsStored ==
  \A o \in acked : blob \/ overlapped \/ o \in unsaved \cup garbled

\* When no request is being handled the index and the storage agree: the blob is there if someone
\* owns it.  Uploads may meet uploads and deletions deletions: of two owners that delete at the
\* same time the last to take its claim out deletes the blob.  And an owner has one claim, so that
\* one deletion takes it: only uploads at the same time can leave it two (handlers.go:141-152,
\* 368-382; eventstorewrapper.go:19-38, 76-88).
IndexMatchesStorage ==
  /\ Quiet /\ spent.faults = 0 /\ ~overlapped => (blob <=> claims # {})
  /\ \A o \in Owners : Cardinality(ClaimsOf(o)) <= 1 \/ o \in doubled
=============================================================================
