---------------------------- MODULE RateLimiter ----------------------------
(***************************************************************************)
(* startRateLimitSystem (policies/helpers.go), the bucket counters behind  *)
(* every rate limiting policy.  A key (an address, a public key) has a     *)
(* counter in a concurrent map.  A caller finds or makes the counter,      *)
(* reads it and, if the limit is not reached, adds one: three steps, not   *)
(* one.  A goroutine wakes up every interval to take tokens from every     *)
(* counter and to delete from the map those that have nothing left: a      *)
(* caller may then still hold a counter no other caller will find.         *)
(*                                                                         *)
(* Counters are 32 bits wide.  They stay between -TokensPerInterval and    *)
(* MaxTokens plus the callers, so their width is of no consequence.        *)
(***************************************************************************)
EXTENDS Integers, FiniteSets

CONSTANTS
  Keys,
  Callers,            \* the goroutines that ask, one key at a time
  Buckets,            \* the counters in memory, one is taken up again when nobody refers to it
  NoKey, NoBucket,    \* nil
  TokensPerInterval,
  MaxTokens

ASSUME CallersAssumption == IsFiniteSet(Callers)
ASSUME NilAssumption == NoKey \notin Keys /\ NoBucket \notin Buckets
ASSUME TokensAssumption == TokensPerInterval \in Nat \ {0} /\ MaxTokens \in Nat \ {0}

VARIABLES
  negativeBuckets,    \* the counter of each key, or NoBucket
  count,              \* the value of each counter
  call,               \* what each caller does, about which key and with which counter
  drain,              \* the keys the goroutine still has to visit, and the one it has to delete
  burst               \* how many calls about each key passed since it was visited last

vars == <<negativeBuckets, count, call, drain, burst>>

Idle == [at |-> "idle", key |-> NoKey, bucket |-> NoBucket]

-----------------------------------------------------------------------------
Init ==
  /\ negativeBuckets = [k \in Keys |-> NoBucket]
  /\ count = [b \in Buckets |-> 0]
  /\ call = [c \in Callers |-> Idle]
  /\ drain = [todo |-> {}, delete |-> NoKey]
  /\ burst = [k \in Keys |-> 0]

\* New memory: a counter nobody refers to.
Unused(b) ==
  /\ \A k \in Keys : negativeBuckets[k] # b
  /\ \A c \in Callers : call[c].bucket # b

New == CHOOSE b \in Buckets : Unused(b)

\* What the last reference is gone to is forgotten.
Kept(counts) == [b \in Buckets |-> IF Unused(b)' THEN 0 ELSE counts[b]]

(* LoadOrStore: the counter of the key, a new one if it has none.          *)
LoadOrStore(c, k) ==
  /\ call[c].at = "idle"
  /\ \/ /\ negativeBuckets[k] # NoBucket
        /\ call' = [call EXCEPT ![c] = [at |-> "load", key |-> k, bucket |-> negativeBuckets[k]]]
        /\ UNCHANGED <<negativeBuckets, count>>
     \/ /\ negativeBuckets[k] = NoBucket
        /\ \E b \in Buckets : Unused(b)
        /\ LET b == New IN
             /\ negativeBuckets' = [negativeBuckets EXCEPT ![k] = b]
             /\ count' = [count EXCEPT ![b] = 0]
             /\ call' = [call EXCEPT ![c] = [at |-> "load", key |-> k, bucket |-> b]]
  /\ UNCHANGED <<drain, burst>>

(* A policy asks about the key it is for.  It does not ask, and lets pass, *)
(* what has no address or is from nobody that authenticated.               *)
Ask(c) == \E k \in Keys : LoadOrStore(c, k)

\* Mutants: the limit itself is let pass, and everything is.
AtLimit(b) == count[b] <= MaxTokens
AnyCount(b) == TRUE

\* nb.Load() < maxTokensInt32
BelowLimit(b) == count[b] < MaxTokens

(* The counter is read: the caller goes on, or is told it is limited.      *)
Load(c) ==
  /\ call[c].at = "load"
  /\ call' = [call EXCEPT ![c] = IF BelowLimit(call[c].bucket) THEN [@ EXCEPT !.at = "add"] ELSE Idle]
  /\ UNCHANGED <<negativeBuckets, drain, burst>>
  /\ count' = Kept(count)

(* One is added, and the call passes.                                      *)
Add(c) ==
  /\ call[c].at = "add"
  /\ burst' = [burst EXCEPT ![call[c].key] = @ + 1]
  /\ call' = [call EXCEPT ![c] = Idle]
  /\ UNCHANGED <<negativeBuckets, drain>>
  /\ count' = Kept([count EXCEPT ![call[c].bucket] = @ + 1])

-----------------------------------------------------------------------------
(* The interval is over: the goroutine ranges over the map.  Whether it    *)
(* also comes across keys added meanwhile does not matter: it may wake     *)
(* again as soon as it is done.                                            *)
Wake ==
  /\ drain.todo = {} /\ drain.delete = NoKey
  /\ drain' = [drain EXCEPT !.todo = {k \in Keys : negativeBuckets[k] # NoBucket}]
  /\ drain'.todo # {}
  /\ UNCHANGED <<negativeBuckets, count, call, burst>>

\* newv <= 0
Spent(n) == n <= 0

\* Mutant: the key is not taken off the list of those to visit.
DrainForgets(k) ==
  /\ drain.delete = NoKey
  /\ k \in drain.todo
  /\ LET b == negativeBuckets[k]
         newv == count[b] - TokensPerInterval IN
       /\ count' = [count EXCEPT ![b] = newv]
       /\ drain' = [todo |-> drain.todo, delete |-> IF Spent(newv) THEN k ELSE NoKey]
  /\ burst' = [burst EXCEPT ![k] = 0]
  /\ UNCHANGED <<negativeBuckets, call>>

\* Mutant: what is left is compared and not written back.
DrainComparesOnly(k) ==
  /\ drain.delete = NoKey
  /\ k \in drain.todo
  /\ LET b == negativeBuckets[k]
         newv == count[b] - TokensPerInterval IN
       /\ UNCHANGED count
       /\ drain' = [todo |-> drain.todo \ {k}, delete |-> IF Spent(newv) THEN k ELSE NoKey]
  /\ burst' = [burst EXCEPT ![k] = 0]
  /\ UNCHANGED <<negativeBuckets, call>>

(* Tokens are taken from a counter...                                      *)
Drain(k) ==
  /\ drain.delete = NoKey
  /\ k \in drain.todo
  /\ LET b == negativeBuckets[k]
         newv == count[b] - TokensPerInterval IN
       /\ count' = [count EXCEPT ![b] = newv]
       /\ drain' = [todo |-> drain.todo \ {k}, delete |-> IF Spent(newv) THEN k ELSE NoKey]
  /\ burst' = [burst EXCEPT ![k] = 0]
  /\ UNCHANGED <<negativeBuckets, call>>

(* ...and one with nothing left is deleted, whatever it counted meanwhile. *)
Delete ==
  /\ drain.delete # NoKey
  /\ negativeBuckets' = [negativeBuckets EXCEPT ![drain.delete] = NoBucket]
  /\ drain' = [drain EXCEPT !.delete = NoKey]
  /\ UNCHANGED <<call, burst>>
  /\ count' = Kept(count)

Drainer == Wake \/ (\E k \in Keys : Drain(k)) \/ Delete

Next ==
  \/ \E c \in Callers : Ask(c) \/ Load(c) \/ Add(c)
  \/ Drainer

(* The goroutine never stops.                                              *)
Fairness == WF_vars(Drainer)

Spec == Init /\ [][Next]_vars
FairSpec == Spec /\ Fairness

-----------------------------------------------------------------------------
(* Properties                                                              *)

Limit == MaxTokens - 1 + Cardinality(Callers)

\* The goroutine still finds the keys it set out to visit.
TypeOK ==
  /\ negativeBuckets \in [Keys -> Buckets \cup {NoBucket}]
  /\ count \in [Buckets -> Int]
  /\ call \in [Callers -> [at : {"load", "add"}, key : Keys, bucket : Buckets] \cup {Idle}]
  /\ drain \in [todo : SUBSET Keys, delete : Keys \cup {NoKey}]
  /\ \A k \in drain.todo : negativeBuckets[k] # NoBucket /\ k # drain.delete
  /\ burst \in [Keys -> Nat]

\* A counter goes over the limit by no more than the callers that read it at the same time, which
\* is all the check and the addition being two steps can do (policies/helpers.go:33-34).
OvershootBounded == \A b \in Buckets : count[b] <= Limit

\* Between two visits of the goroutine to a key, its calls can use up at most two counters: the
\* one it left below zero, until it is deleted, and the one that takes its place.  A caller that
\* was slow may besides hold one that was deleted before, but not all of them: one made the
\* counter that is visited (policies/helpers.go:21-25, 31-34).
BurstBounded ==
  \A k \in Keys : burst[k] <= 2 * Limit + TokensPerInterval + Cardinality(Callers) - 1

\* Who is limited is not limited for good, whatever it and the others go on asking
\* (policies/helpers.go:19-27).
LimitedIsNotForGood ==
  \A k \in Keys :
    LET limited == negativeBuckets[k] # NoBucket /\ count[negativeBuckets[k]] >= MaxTokens IN
    limited ~> ~limited
=============================================================================
