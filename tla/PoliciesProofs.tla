--------------------------- MODULE PoliciesProofs ---------------------------
(***************************************************************************)
(* The policies, for any keys, callers and limits and for any filters,     *)
(* events, set-ups and routes.  Two parts: the counters of the rate        *)
(* limits, and what policies make of filters.                              *)
(*                                                                         *)
(* A counter goes over the limit by no more than the callers that read it  *)
(* at the same time.                                                       *)
(* OvershootBounded is not inductive: in a state where a counter is at its *)
(* bound and a caller is about to add, the next step breaks it.  What is   *)
(* kept is the counter plus the callers that read it below the limit and   *)
(* did not add yet: reading moves nothing to the counter, and finds it     *)
(* under the limit, so all callers at once make the bound; adding moves    *)
(* one from the callers to the counter.  What passes between two visits of *)
(* the draining goroutine is bounded too, by an account of its own below.  *)
(*                                                                         *)
(* A relay has any number of policies that overwrite filters, each of what *)
(* the one before it left.  By induction over their sequence what is left  *)
(* in the end is narrower than what was asked but for the tags it lost,    *)
(* obeys each policy, not the last one only, and asks for everything only  *)
(* if it was asked for everything.  All that FilterFlow promises rests on  *)
(* that.                                                                   *)
(***************************************************************************)
EXTENDS RateLimiter, FilterFlow, FiniteSetTheorems, WellFoundedInduction, TLAPS

-----------------------------------------------------------------------------
(* The counters of the rate limits                                         *)

\* The callers that will add to the counter.
Adding(b) == {c \in Callers : call[c].at = "add" /\ call[c].bucket = b}

Counted == \A b \in Buckets : count[b] + Cardinality(Adding(b)) <= Limit

IInv == TypeOK /\ Counted

-----------------------------------------------------------------------------
(* There are no more callers that will add to a counter than there are     *)
(* callers (policies/helpers.go:30-41).                                    *)
LEMMA AddingBounded ==
  ASSUME NEW b
  PROVE  /\ IsFiniteSet(Adding(b))
         /\ Cardinality(Adding(b)) \in Nat
         /\ Cardinality(Callers) \in Nat
         /\ Cardinality(Adding(b)) <= Cardinality(Callers)
<1>1. Adding(b) \subseteq Callers
  BY DEF Adding
<1>2. IsFiniteSet(Callers)
  BY CallersAssumption
<1>. QED
  BY <1>1, <1>2, FS_Subset, FS_CardinalityType

(* The bound is a number.                                                  *)
LEMMA LimitType == Limit \in Nat
BY AddingBounded, TokensAssumption DEF Limit

(* A counter nobody refers to has no caller that will add to it.           *)
LEMMA UnusedHasNoAdding ==
  ASSUME NEW b \in Buckets, \A c \in Callers : call[c].bucket # b
  PROVE  Cardinality(Adding(b)) = 0
<1>1. Adding(b) = {}
  BY DEF Adding
<1>. QED
  BY <1>1, FS_EmptySet

-----------------------------------------------------------------------------
(* The types hold at first, and every step keeps them.                     *)
LEMMA TypeInit == Init => TypeOK
BY NilAssumption DEF Init, TypeOK, Idle

LEMMA TypeStep == TypeOK /\ [Next]_vars => TypeOK'
<1>. SUFFICES ASSUME TypeOK, [Next]_vars
              PROVE  TypeOK'
  OBVIOUS
<1>. USE NilAssumption, TokensAssumption
<1>1. ASSUME NEW c \in Callers, NEW k \in Keys, LoadOrStore(c, k)
      PROVE  TypeOK'
  <2>1. CASE negativeBuckets[k] # NoBucket /\ UNCHANGED <<negativeBuckets, count>>
             /\ call' = [call EXCEPT ![c] = [at |-> "load", key |-> k, bucket |-> negativeBuckets[k]]]
    BY <1>1, <2>1 DEF TypeOK, LoadOrStore
  <2>2. CASE /\ negativeBuckets[k] = NoBucket
             /\ \E b \in Buckets : Unused(b)
             /\ negativeBuckets' = [negativeBuckets EXCEPT ![k] = New]
             /\ count' = [count EXCEPT ![New] = 0]
             /\ call' = [call EXCEPT ![c] = [at |-> "load", key |-> k, bucket |-> New]]
    <3>1. New \in Buckets
      BY <2>2 DEF New
    <3>. QED
      BY <1>1, <2>2, <3>1 DEF TypeOK, LoadOrStore
  <2>. QED
    BY <1>1, <2>1, <2>2 DEF LoadOrStore
<1>2. ASSUME NEW c \in Callers, Load(c)
      PROVE  TypeOK'
  <2>1. count' \in [Buckets -> Int]
    BY <1>2 DEF TypeOK, Load, Kept
  <2>2. call[c] \in [at : {"load", "add"}, key : Keys, bucket : Buckets]
    BY <1>2 DEF TypeOK, Load, Idle
  <2>3. call' \in [Callers -> [at : {"load", "add"}, key : Keys, bucket : Buckets] \cup {Idle}]
    BY <1>2, <2>2 DEF TypeOK, Load
  <2>. QED
    BY <1>2, <2>1, <2>3 DEF TypeOK, Load
<1>3. ASSUME NEW c \in Callers, Add(c)
      PROVE  TypeOK'
  <2>1. call[c] \in [at : {"load", "add"}, key : Keys, bucket : Buckets]
    BY <1>3 DEF TypeOK, Add, Idle
  <2>2. count' \in [Buckets -> Int]
    BY <1>3, <2>1 DEF TypeOK, Add, Kept
  <2>3. burst' \in [Keys -> Nat]
    BY <1>3, <2>1 DEF TypeOK, Add
  <2>4. call' \in [Callers -> [at : {"load", "add"}, key : Keys, bucket : Buckets] \cup {Idle}]
    BY <1>3 DEF TypeOK, Add
  <2>. QED
    BY <1>3, <2>2, <2>3, <2>4 DEF TypeOK, Add
<1>4. CASE Wake
  BY <1>4 DEF TypeOK, Wake
<1>5. ASSUME NEW k \in Keys, Drain(k)
      PROVE  TypeOK'
  <2>1. negativeBuckets[k] \in Buckets
    BY <1>5 DEF TypeOK, Drain
  <2>. QED
    BY <1>5, <2>1 DEF TypeOK, Drain
<1>6. CASE Delete
  <2>1. count' \in [Buckets -> Int]
    BY <1>6 DEF TypeOK, Delete, Kept
  <2>. QED
    BY <1>6, <2>1 DEF TypeOK, Delete
<1>7. CASE UNCHANGED vars
  BY <1>7 DEF TypeOK, vars
<1>. QED
  BY <1>1, <1>2, <1>3, <1>4, <1>5, <1>6, <1>7 DEF Next, Ask, Drainer

-----------------------------------------------------------------------------
(* A counter is forgotten, or counts what it counted.                      *)
LEMMA KeptCounts ==
  ASSUME NEW counts, NEW b \in Buckets, count' = Kept(counts),
         counts[b] + Cardinality(Adding(b))' <= Limit
  PROVE  count'[b] + Cardinality(Adding(b))' <= Limit
<1>1. CASE Unused(b)'
  <2>1. Adding(b)' = {}
    BY <1>1 DEF Unused, Adding
  <2>2. Cardinality(Adding(b))' = 0
    BY <2>1, FS_EmptySet
  <2>3. count'[b] = 0
    BY <1>1 DEF Kept
  <2>. QED
    BY <2>2, <2>3, LimitType
<1>2. CASE ~Unused(b)'
  BY <1>2, LimitType DEF Kept
<1>. QED
  BY <1>1, <1>2

(* The sum of a counter and the callers that will add to it stays within   *)
(* the bound, over every step (policies/helpers.go:21-41).                 *)
LEMMA CountedInit == Init => Counted
<1>. SUFFICES ASSUME Init, NEW b \in Buckets
              PROVE  count[b] + Cardinality(Adding(b)) <= Limit
  BY DEF Counted
<1>1. Adding(b) = {}
  BY DEF Init, Adding, Idle
<1>. QED
  BY <1>1, FS_EmptySet, LimitType DEF Init

LEMMA CountedStep == TypeOK /\ Counted /\ [Next]_vars => Counted'
<1>. SUFFICES ASSUME TypeOK, Counted, [Next]_vars, NEW b \in Buckets
              PROVE  count'[b] + Cardinality(Adding(b))' <= Limit
  BY DEF Counted, Limit
<1>. USE LimitType, NilAssumption
<1>0. count[b] \in Int /\ count[b] + Cardinality(Adding(b)) <= Limit
  BY DEF TypeOK, Counted
<1>1. ASSUME NEW c \in Callers, NEW k \in Keys, LoadOrStore(c, k)
      PROVE  count'[b] + Cardinality(Adding(b))' <= Limit
  <2>1. Adding(b)' = Adding(b)
    BY <1>1 DEF LoadOrStore, Adding, TypeOK
  <2>2. CASE count' = count
    BY <1>0, <2>1, <2>2
  <2>3. CASE (\E d \in Buckets : Unused(d)) /\ count' = [count EXCEPT ![New] = 0]
    <3>1. Unused(New)
      BY <2>3 DEF New
    <3>2. CASE b = New
      <4>1. Cardinality(Adding(b)) = 0
        BY <3>1, <3>2, UnusedHasNoAdding DEF Unused
      <4>. QED
        BY <2>1, <2>3, <3>2, <4>1 DEF TypeOK
    <3>3. CASE b # New
      BY <1>0, <2>1, <2>3, <3>3 DEF TypeOK
    <3>. QED
      BY <3>2, <3>3
  <2>. QED
    BY <1>1, <2>2, <2>3 DEF LoadOrStore
<1>2. ASSUME NEW c \in Callers, Load(c)
      PROVE  count'[b] + Cardinality(Adding(b))' <= Limit
  <2>1. count[b] + Cardinality(Adding(b))' <= Limit
    <3>1. CASE BelowLimit(call[c].bucket) /\ call[c].bucket = b
      <4>1. count[b] <= MaxTokens - 1
        BY <1>0, <3>1, TokensAssumption DEF BelowLimit
      <4>2. Adding(b)' \subseteq Callers
        BY DEF Adding
      <4>3. Cardinality(Adding(b)') \in Nat /\ Cardinality(Adding(b)') <= Cardinality(Callers)
        BY <4>2, CallersAssumption, FS_Subset, FS_CardinalityType
      <4>. QED
        BY <1>0, <4>1, <4>3, TokensAssumption, AddingBounded DEF Limit
    <3>2. CASE ~(BelowLimit(call[c].bucket) /\ call[c].bucket = b)
      <4>1. Adding(b)' = Adding(b)
        BY <1>2, <3>2 DEF Load, Adding, Idle, TypeOK
      <4>. QED
        BY <1>0, <4>1, AddingBounded
    <3>. QED
      BY <3>1, <3>2
  <2>. QED
    BY <1>2, <2>1, KeptCounts DEF Load
<1>3. ASSUME NEW c \in Callers, Add(c)
      PROVE  count'[b] + Cardinality(Adding(b))' <= Limit
  <2>. DEFINE counts == [count EXCEPT ![call[c].bucket] = @ + 1]
  <2>1. counts[b] + Cardinality(Adding(b))' <= Limit
    <3>1. CASE call[c].bucket = b
      <4>1. c \in Adding(b) /\ Adding(b)' = Adding(b) \ {c}
        BY <1>3, <3>1 DEF Add, Adding, Idle, TypeOK
      <4>2. Cardinality(Adding(b)') = Cardinality(Adding(b)) - 1
        BY <4>1, AddingBounded, FS_RemoveElement
      <4>3. counts[b] = count[b] + 1
        BY <3>1 DEF TypeOK
      <4>. QED
        BY <1>0, <4>2, <4>3, AddingBounded
    <3>2. CASE call[c].bucket # b
      <4>1. Adding(b)' = Adding(b)
        BY <1>3, <3>2 DEF Add, Adding, Idle, TypeOK
      <4>2. counts[b] = count[b]
        BY <3>2 DEF TypeOK
      <4>. QED
        BY <1>0, <4>1, <4>2, AddingBounded
    <3>. QED
      BY <3>1, <3>2
  <2>2. count' = Kept(counts)
    BY <1>3 DEF Add
  <2>. HIDE DEF counts
  <2>. QED
    BY <2>1, <2>2, KeptCounts
<1>4. CASE Wake
  BY <1>0, <1>4 DEF Wake, Adding
<1>5. ASSUME NEW k \in Keys, Drain(k)
      PROVE  count'[b] + Cardinality(Adding(b))' <= Limit
  <2>1. Adding(b)' = Adding(b)
    BY <1>5 DEF Drain, Adding
  <2>2. count'[b] \in Int /\ count'[b] <= count[b]
    BY <1>0, <1>5, TokensAssumption DEF Drain, TypeOK
  <2>. QED
    BY <1>0, <2>1, <2>2, AddingBounded
<1>6. CASE Delete
  <2>1. Adding(b)' = Adding(b)
    BY <1>6 DEF Delete, Adding
  <2>2. count[b] + Cardinality(Adding(b))' <= Limit
    BY <1>0, <2>1, AddingBounded
  <2>. QED
    BY <1>6, <2>2, KeptCounts DEF Delete
<1>7. CASE UNCHANGED vars
  BY <1>0, <1>7 DEF vars, Adding
<1>. QED
  BY <1>1, <1>2, <1>3, <1>4, <1>5, <1>6, <1>7 DEF Next, Ask, Drainer

-----------------------------------------------------------------------------
(* The inductive invariant of the rate limiter.                            *)
THEOREM CountsStayRight == Spec => []IInv
<1>1. Init => IInv
  BY TypeInit, CountedInit DEF IInv
<1>2. IInv /\ [Next]_vars => IInv'
  BY TypeStep, CountedStep DEF IInv
<1>. QED
  BY <1>1, <1>2, PTL DEF Spec

(* The types, and that the goroutine finds the keys it set out to visit.   *)
THEOREM TypesHold == Spec => []TypeOK
<1>1. IInv => TypeOK
  BY DEF IInv
<1>. QED
  BY <1>1, CountsStayRight, PTL

(* However many callers ask at the same time, a counter ends up no higher  *)
(* than one below the limit and one for each of them                       *)
(* (policies/helpers.go:33-34).                                            *)
THEOREM OvershootIsBounded == Spec => []OvershootBounded
<1>1. IInv => OvershootBounded
  <2>. SUFFICES ASSUME IInv, NEW b \in Buckets
                PROVE  count[b] <= Limit
    BY DEF OvershootBounded
  <2>. QED
    BY AddingBounded, LimitType DEF IInv, TypeOK, Counted
<1>. QED
  BY <1>1, CountsStayRight, PTL

-----------------------------------------------------------------------------
(***************************************************************************)
(* BurstBounded.  What passed about a key since its counter was visited is *)
(* on the counter in the map, on the one that was there at the visit, or   *)
(* came from a caller that held one deleted earlier and that passes once.  *)
(* So the invariant charges a burst to the counter in the map, to one more *)
(* counter that is not in the map any longer but that somebody holds, and  *)
(* counts the callers who hold yet another as if they had passed.  They    *)
(* are not all: whoever made the counter in the map took it up.            *)
(***************************************************************************)

\* The counter of k in the map, the callers that hold one that is neither that nor b, and
\* whether somebody holds b.
Mapped(k) == IF negativeBuckets[k] = NoBucket THEN 0 ELSE count[negativeBuckets[k]]
Slow(k, b) == {c \in Callers : call[c].key = k /\ call[c].bucket \notin {negativeBuckets[k], b}}
Held(k, b) == \E c \in Callers : call[c].key = k /\ call[c].bucket = b

Extra == TokensPerInterval + Cardinality(Callers) - 1

\* A counter is for one key only.
OneKey ==
  /\ \A k, j \in Keys :
       negativeBuckets[k] # NoBucket /\ negativeBuckets[k] = negativeBuckets[j] => k = j
  /\ \A c, d \in Callers :
       call[c].at # "idle" /\ call[c].bucket = call[d].bucket => call[c].key = call[d].key
  /\ \A c \in Callers, k \in Keys :
       call[c].at # "idle" /\ call[c].bucket = negativeBuckets[k] => call[c].key = k

\* Only a counter about to be deleted is below zero.
MappedOK(k) ==
  IF drain.delete = k THEN negativeBuckets[k] # NoBucket /\ Mapped(k) >= -TokensPerInterval
  ELSE Mapped(k) >= 0

OneKnows(k) == negativeBuckets[k] # NoBucket => \E c \in Callers : c \notin Slow(k, NoBucket)

ToDelete(k) ==
  drain.delete = k => burst[k] + Cardinality(Slow(k, NoBucket)) <= Mapped(k) + Extra

Paid(k) ==
  \/ burst[k] + Cardinality(Slow(k, NoBucket)) <= Mapped(k) + Limit + Extra
  \/ \E b \in Buckets \ {negativeBuckets[k]} :
       Held(k, b) /\ burst[k] + Cardinality(Slow(k, b)) <= Mapped(k) + count[b] + Extra

KeyOK(k) == MappedOK(k) /\ ToDelete(k) /\ Paid(k)

BurstsPaid == OneKey /\ \A k \in Keys : OneKnows(k) /\ KeyOK(k)

LEMMA CallIs ==
  ASSUME TypeOK, NEW c \in Callers
  PROVE  /\ call[c].at \in {"idle", "load", "add"}
         /\ call[c].at = "idle" => call[c].key = NoKey /\ call[c].bucket = NoBucket
         /\ call[c].at # "idle" => call[c].key \in Keys /\ call[c].bucket \in Buckets
BY DEF TypeOK, Idle

LEMMA Sizes ==
  ASSUME NEW S, S \subseteq Callers
  PROVE  /\ IsFiniteSet(S) /\ Cardinality(S) \in Nat /\ Cardinality(Callers) \in Nat
         /\ Cardinality(S) <= Cardinality(Callers)
         /\ \A T : T \subseteq S => Cardinality(T) <= Cardinality(S)
         /\ \A c \in Callers \ S : Cardinality(S) <= Cardinality(Callers) - 1
         /\ \A c \in S : Cardinality(S \ {c}) = Cardinality(S) - 1
<1>1. IsFiniteSet(Callers) /\ IsFiniteSet(S)
  BY CallersAssumption, FS_Subset
<1>2. ASSUME NEW c \in Callers \ S
      PROVE  Cardinality(S) <= Cardinality(Callers) - 1
  <2>1. S \subseteq Callers \ {c} /\ IsFiniteSet(Callers \ {c})
    BY <1>1, FS_RemoveElement
  <2>2. Cardinality(Callers \ {c}) = Cardinality(Callers) - 1
    BY <1>1, FS_RemoveElement
  <2> QED
    BY <2>1, <2>2, FS_Subset
<1>3. \A c \in S : Cardinality(S \ {c}) = Cardinality(S) - 1
  BY <1>1, FS_RemoveElement
<1> QED
  BY <1>1, <1>2, <1>3, FS_Subset, FS_CardinalityType

LEMMA SlowSizes ==
  ASSUME NEW k, NEW b
  PROVE  Slow(k, b) \subseteq Callers /\ Cardinality(Slow(k, b)) \in Nat
BY Sizes DEF Slow

LEMMA Amounts ==
  ASSUME TypeOK, Counted
  PROVE  /\ \A b \in Buckets : count[b] \in Int /\ count[b] <= Limit
         /\ \A k \in Keys : Mapped(k) \in Int /\ Mapped(k) <= Limit /\ burst[k] \in Nat
         /\ Limit \in Nat /\ Extra \in Int
<1>1. \A b \in Buckets : count[b] \in Int /\ count[b] <= Limit
  <2> TAKE b \in Buckets
  <2>1. count[b] \in Int /\ count[b] + Cardinality(Adding(b)) <= Limit
    BY DEF TypeOK, Counted
  <2> QED
    BY <2>1, AddingBounded, LimitType
<1>2. \A k \in Keys : Mapped(k) \in Int /\ Mapped(k) <= Limit /\ burst[k] \in Nat
  BY <1>1, LimitType DEF TypeOK, Mapped
<1>3. Extra \in Int
  BY TokensAssumption, CallersAssumption, FS_CardinalityType DEF Extra
<1> QED
  BY <1>1, <1>2, <1>3, LimitType

LEMMA KeptIs ==
  ASSUME NEW counts, count' = Kept(counts), NEW b \in Buckets, ~Unused(b)'
  PROVE  count'[b] = counts[b]
BY DEF Kept

(* A step that takes nothing from the counter in the map and lets nobody   *)
(* pass leaves the account right, also if the last one lets go of the      *)
(* counter outside.                                                        *)
LEMMA KeyStays ==
  ASSUME TypeOK, Counted, NEW k \in Keys, KeyOK(k),
         Mapped(k)' = Mapped(k), burst'[k] = burst[k], drain'.delete = k <=> drain.delete = k,
         negativeBuckets[k] # NoBucket => negativeBuckets'[k] = negativeBuckets[k],
         Slow(k, NoBucket)' \subseteq Slow(k, NoBucket),
         \A b \in Buckets \ {negativeBuckets[k]} : Held(k, b) =>
           \/ /\ Held(k, b)' /\ count'[b] = count[b] /\ b # negativeBuckets'[k]
              /\ Slow(k, b)' \subseteq Slow(k, b)
           \/ Slow(k, NoBucket)' \subseteq Slow(k, b)
  PROVE  KeyOK(k)'
<1>1. /\ Cardinality(Slow(k, NoBucket)) \in Nat
      /\ Cardinality(Slow(k, NoBucket)') \in Nat
      /\ Cardinality(Slow(k, NoBucket)') <= Cardinality(Slow(k, NoBucket))
  BY SlowSizes, Sizes
<1>2. MappedOK(k)'
  BY DEF KeyOK, MappedOK
<1>3. ToDelete(k)'
  BY <1>1, Amounts DEF KeyOK, ToDelete, Extra
<1>4. Paid(k)'
  <2>1. CASE burst[k] + Cardinality(Slow(k, NoBucket)) <= Mapped(k) + Limit + Extra
    BY <1>1, <2>1, Amounts DEF Paid, Limit, Extra
  <2>2. ASSUME NEW b \in Buckets \ {negativeBuckets[k]}, Held(k, b),
               burst[k] + Cardinality(Slow(k, b)) <= Mapped(k) + count[b] + Extra
        PROVE  Paid(k)'
    <3>1. Cardinality(Slow(k, b)) \in Nat
      BY SlowSizes
    <3>2. CASE /\ Held(k, b)' /\ count'[b] = count[b] /\ b # negativeBuckets'[k]
               /\ Slow(k, b)' \subseteq Slow(k, b)
      <4>1. Cardinality(Slow(k, b)') \in Nat /\ Cardinality(Slow(k, b)') <= Cardinality(Slow(k, b))
        BY <3>2, SlowSizes, Sizes
      <4> QED
        BY <2>2, <3>1, <3>2, <4>1, Amounts DEF Paid, Extra
    <3>3. CASE Slow(k, NoBucket)' \subseteq Slow(k, b)
      <4>1. Cardinality(Slow(k, NoBucket)') <= Cardinality(Slow(k, b))
        BY <3>3, SlowSizes, Sizes
      <4>2. burst[k] + Cardinality(Slow(k, NoBucket)') <= Mapped(k) + Limit + Extra
        BY <1>1, <2>2, <3>1, <4>1, Amounts
      <4> QED
        BY <4>2 DEF Paid, Limit, Extra
    <3> QED
      BY <2>2, <3>2, <3>3
  <2> QED
    BY <2>1, <2>2 DEF KeyOK, Paid
<1> QED
  BY <1>2, <1>3, <1>4 DEF KeyOK

LEMMA AskPays ==
  ASSUME TypeOK, Counted, BurstsPaid, NEW c \in Callers, NEW k \in Keys, LoadOrStore(c, k)
  PROVE  BurstsPaid'
<1> USE NilAssumption
<1>1. /\ call[c].at = "idle" /\ call[c].key = NoKey /\ call[c].bucket = NoBucket
      /\ burst' = burst /\ drain' = drain
  BY CallIs DEF LoadOrStore
<1>2. PICK b \in Buckets :
        /\ negativeBuckets'[k] = b /\ \A j \in Keys \ {k} : negativeBuckets'[j] = negativeBuckets[j]
        /\ call'[c].at = "load" /\ call'[c].key = k /\ call'[c].bucket = b
        /\ \A d \in Callers \ {c} : call'[d] = call[d]
        /\ \A x \in Buckets \ {b} : count'[x] = count[x]
        /\ \/ negativeBuckets[k] = b /\ count'[b] = count[b]
           \/ negativeBuckets[k] = NoBucket /\ Unused(b) /\ count'[b] = 0
  <2>1. CASE /\ negativeBuckets[k] # NoBucket
             /\ call' = [call EXCEPT ![c] = [at |-> "load", key |-> k, bucket |-> negativeBuckets[k]]]
             /\ UNCHANGED <<negativeBuckets, count>>
    <3>1. negativeBuckets[k] \in Buckets
      BY <2>1 DEF TypeOK
    <3> QED
      BY <2>1, <3>1 DEF TypeOK
  <2>2. CASE /\ negativeBuckets[k] = NoBucket
             /\ \E x \in Buckets : Unused(x)
             /\ negativeBuckets' = [negativeBuckets EXCEPT ![k] = New]
             /\ count' = [count EXCEPT ![New] = 0]
             /\ call' = [call EXCEPT ![c] = [at |-> "load", key |-> k, bucket |-> New]]
    <3>1. New \in Buckets /\ Unused(New)
      BY <2>2 DEF New
    <3> QED
      BY <2>2, <3>1 DEF TypeOK
  <2> QED
    BY <2>1, <2>2 DEF LoadOrStore
<1>3. Unused(b) \/ negativeBuckets[k] = b
  BY <1>2
<1>4. OneKey'
  <2>1. \A i, j \in Keys :
          negativeBuckets'[i] # NoBucket /\ negativeBuckets'[i] = negativeBuckets'[j] => i = j
    BY <1>2, <1>3 DEF BurstsPaid, OneKey, Unused
  <2>2. \A d, e \in Callers :
          call'[d].at # "idle" /\ call'[d].bucket = call'[e].bucket => call'[d].key = call'[e].key
    BY <1>1, <1>2, <1>3, CallIs DEF BurstsPaid, OneKey, Unused
  <2>3. \A d \in Callers, j \in Keys :
          call'[d].at # "idle" /\ call'[d].bucket = negativeBuckets'[j] => call'[d].key = j
    BY <1>1, <1>2, <1>3, CallIs DEF BurstsPaid, OneKey, Unused
  <2> QED
    BY <2>1, <2>2, <2>3 DEF OneKey
<1>5. ASSUME NEW j \in Keys
      PROVE  OneKnows(j)' /\ KeyOK(j)'
  <2>1. \A x : Slow(j, x)' \subseteq Slow(j, x)
    BY <1>1, <1>2, <1>3, CallIs DEF Slow, Unused
  <2>2. OneKnows(j)'
    BY <1>2, <2>1 DEF BurstsPaid, OneKnows, Slow
  <2>3. Mapped(j)' = Mapped(j)
    BY <1>2, <1>3 DEF Mapped, BurstsPaid, OneKey, Unused, TypeOK
  <2>4. ASSUME NEW x \in Buckets \ {negativeBuckets[j]}, Held(j, x)
        PROVE  Held(j, x)' /\ count'[x] = count[x] /\ x # negativeBuckets'[j]
    BY <1>1, <1>2, <1>3, <2>4 DEF Held, Unused
  <2>5. negativeBuckets[j] # NoBucket => negativeBuckets'[j] = negativeBuckets[j]
    BY <1>2
  <2> QED
    BY <1>1, <2>1, <2>2, <2>3, <2>4, <2>5, KeyStays DEF BurstsPaid
<1> QED
  BY <1>4, <1>5 DEF BurstsPaid

LEMMA LoadPays ==
  ASSUME TypeOK, Counted, BurstsPaid, NEW c \in Callers, Load(c)
  PROVE  BurstsPaid'
<1> USE NilAssumption
<1>1. /\ negativeBuckets' = negativeBuckets /\ burst' = burst /\ drain' = drain
      /\ count' = Kept(count) /\ call[c].at = "load"
      /\ \A d \in Callers \ {c} : call'[d] = call[d]
  BY DEF Load, TypeOK
<1>2. \/ call'[c].at = "idle" /\ call'[c].key = NoKey /\ call'[c].bucket = NoBucket
      \/ call'[c].at = "add" /\ call'[c].key = call[c].key /\ call'[c].bucket = call[c].bucket
  <2>1. call[c] \in [at : {"load", "add"}, key : Keys, bucket : Buckets]
    BY <1>1 DEF TypeOK, Idle
  <2> QED
    BY <2>1 DEF Load, TypeOK, Idle
<1>3. OneKey'
  BY <1>1, <1>2, CallIs DEF BurstsPaid, OneKey
<1>4. ASSUME NEW j \in Keys
      PROVE  OneKnows(j)' /\ KeyOK(j)'
  <2>1. \A x : Slow(j, x)' \subseteq Slow(j, x)
    BY <1>1, <1>2 DEF Slow
  <2>2. OneKnows(j)'
    BY <1>1, <2>1 DEF BurstsPaid, OneKnows, Slow
  <2>3. Mapped(j)' = Mapped(j)
    <3>1. ASSUME NEW x \in Buckets, negativeBuckets[j] = x
          PROVE  count'[x] = count[x]
      <4>1. ~Unused(x)'
        BY <1>1, <3>1 DEF Unused
      <4> QED
        BY <1>1, <4>1, KeptIs
    <3> QED
      BY <1>1, <3>1 DEF Mapped, TypeOK
  <2>4. ASSUME NEW x \in Buckets \ {negativeBuckets[j]}, Held(j, x)
        PROVE  \/ /\ Held(j, x)' /\ count'[x] = count[x] /\ x # negativeBuckets'[j]
                  /\ Slow(j, x)' \subseteq Slow(j, x)
               \/ Slow(j, NoBucket)' \subseteq Slow(j, x)
    <3>1. CASE Held(j, x)'
      <4>1. ~Unused(x)'
        BY <3>1 DEF Held, Unused
      <4>2. count'[x] = count[x]
        BY <1>1, <4>1, KeptIs
      <4> QED
        BY <1>1, <2>1, <2>4, <3>1, <4>2
    <3>2. CASE ~Held(j, x)'
      <4>1. Slow(j, NoBucket)' \subseteq Slow(j, x)'
        BY <3>2 DEF Held, Slow
      <4> QED
        BY <2>1, <4>1
    <3> QED
      BY <3>1, <3>2
  <2> QED
    BY <1>1, <2>1, <2>2, <2>3, <2>4, KeyStays DEF BurstsPaid
<1> QED
  BY <1>3, <1>4 DEF BurstsPaid

LEMMA AddPays ==
  ASSUME TypeOK, Counted, BurstsPaid, NEW c \in Callers, Add(c)
  PROVE  BurstsPaid'
<1> USE NilAssumption
<1>0. call[c].at = "add" /\ call[c].key \in Keys /\ call[c].bucket \in Buckets
  BY CallIs DEF Add
<1> PICK k \in Keys : k = call[c].key
  BY <1>0
<1> PICK b \in Buckets : b = call[c].bucket
  BY <1>0
<1> DEFINE counts == [count EXCEPT ![b] = @ + 1]
<1>1. /\ negativeBuckets' = negativeBuckets /\ drain' = drain /\ count' = Kept(counts)
      /\ call[c].at = "add" /\ k \in Keys /\ b \in Buckets
      /\ burst'[k] = burst[k] + 1 /\ \A j \in Keys \ {k} : burst'[j] = burst[j]
      /\ counts[b] = count[b] + 1 /\ \A x \in Buckets \ {b} : counts[x] = count[x]
      /\ call'[c].at = "idle" /\ call'[c].key = NoKey /\ call'[c].bucket = NoBucket
      /\ \A d \in Callers \ {c} : call'[d] = call[d]
  BY <1>0 DEF Add, TypeOK, Idle
<1> HIDE DEF counts
<1>2. count[b] + 1 <= Limit
  <2>1. c \in Adding(b)
    BY <1>1 DEF Adding
  <2>2. Cardinality(Adding(b)) >= 1
    BY <2>1, AddingBounded, FS_EmptySet
  <2> QED
    BY <1>1, <2>2, AddingBounded, LimitType DEF Counted, TypeOK
<1>3. OneKey'
  BY <1>1, CallIs DEF BurstsPaid, OneKey
<1>4. \A j \in Keys : \A x : Slow(j, x)' = Slow(j, x) \ {c}
  BY <1>1 DEF Slow
<1>5. \A j \in Keys : OneKnows(j)'
  BY <1>1, <1>4 DEF BurstsPaid, OneKnows, Slow
<1>6. ASSUME NEW j \in Keys, NEW x \in Buckets, negativeBuckets[j] = x
      PROVE  count'[x] = counts[x]
  <2>1. ~Unused(x)'
    BY <1>1, <1>6 DEF Unused
  <2> QED
    BY <1>1, <2>1, KeptIs
<1>7. ASSUME NEW j \in Keys \ {k}
      PROVE  KeyOK(j)'
  <2>1. negativeBuckets[j] # b
    BY <1>1 DEF BurstsPaid, OneKey
  <2>2. Mapped(j)' = Mapped(j)
    BY <1>1, <1>6, <2>1 DEF Mapped, TypeOK
  <2>3. ASSUME NEW x \in Buckets \ {negativeBuckets[j]}, Held(j, x)
        PROVE  Held(j, x)' /\ count'[x] = count[x]
    <3>1. PICK d \in Callers : call[d].key = j /\ call[d].bucket = x
      BY <2>3 DEF Held
    <3>2. d # c /\ x # b
      BY <1>1, <3>1 DEF BurstsPaid, OneKey
    <3>3. Held(j, x)' /\ ~Unused(x)'
      BY <1>1, <3>1, <3>2 DEF Held, Unused
    <3> QED
      BY <1>1, <3>2, <3>3, KeptIs
  <2> QED
    BY <1>1, <1>4, <2>2, <2>3, KeyStays DEF BurstsPaid
<1>8. KeyOK(k)'
  <2> DEFINE slow == Cardinality(Slow(k, NoBucket))
  <2>0. KeyOK(k) /\ slow \in Nat
    BY <1>1, SlowSizes DEF BurstsPaid
  <2>1. CASE negativeBuckets[k] = b
    <3>1. Mapped(k)' = Mapped(k) + 1
      BY <1>1, <1>6, <2>1 DEF Mapped
    <3>2. \A x : Slow(k, x)' = Slow(k, x)
      BY <1>1, <1>4, <2>1 DEF Slow
    <3>3. MappedOK(k)'
      BY <1>1, <2>0, <3>1, Amounts, TokensAssumption DEF KeyOK, MappedOK
    <3>4. ToDelete(k)'
      BY <1>1, <2>0, <3>1, <3>2, Amounts DEF KeyOK, ToDelete, Extra
    <3>5. Paid(k)'
      <4>1. CASE burst[k] + slow <= Mapped(k) + Limit + Extra
        BY <1>1, <2>0, <3>1, <3>2, <4>1, Amounts DEF Paid, Limit, Extra
      <4>2. ASSUME NEW x \in Buckets \ {b}, Held(k, x),
                   burst[k] + Cardinality(Slow(k, x)) <= Mapped(k) + count[x] + Extra
            PROVE  Paid(k)'
        <5>1. Held(k, x)' /\ ~Unused(x)'
          BY <1>1, <4>2 DEF Held, Unused
        <5>2. count'[x] = count[x]
          BY <1>1, <5>1, KeptIs
        <5>3. burst'[k] + Cardinality(Slow(k, x)') <= Mapped(k)' + count'[x] + Extra
          BY <1>1, <3>1, <3>2, <4>2, <5>2, SlowSizes, Amounts
        <5> QED
          BY <1>1, <2>1, <4>2, <5>1, <5>3 DEF Paid, Extra
      <4> QED
        BY <2>0, <2>1, <4>1, <4>2 DEF KeyOK, Paid
    <3> QED
      BY <3>3, <3>4, <3>5 DEF KeyOK
  <2>2. CASE negativeBuckets[k] # b
    <3>1. Mapped(k)' = Mapped(k)
      BY <1>1, <1>6, <2>2 DEF Mapped, TypeOK
    <3>2. ASSUME NEW x \in Buckets \cup {NoBucket}, x # b
          PROVE  /\ Cardinality(Slow(k, x)) \in Nat
                 /\ Cardinality(Slow(k, x)') = Cardinality(Slow(k, x)) - 1
      <4>1. c \in Slow(k, x)
        BY <1>1, <2>2, <3>2 DEF Slow
      <4> QED
        BY <1>1, <1>4, <4>1, SlowSizes, Sizes
    <3>3. NoBucket # b
      BY <1>1
    <3>4. MappedOK(k)'
      BY <1>1, <2>0, <3>1 DEF KeyOK, MappedOK
    <3>5. ToDelete(k)'
      BY <1>1, <2>0, <3>1, <3>2, <3>3, Amounts DEF KeyOK, ToDelete, Extra
    <3>6. Paid(k)'
      <4>1. CASE burst[k] + slow <= Mapped(k) + Limit + Extra
        BY <1>1, <2>0, <3>1, <3>2, <3>3, <4>1, Amounts DEF Paid, Limit, Extra
      <4>2. ASSUME NEW x \in Buckets \ {negativeBuckets[k]}, Held(k, x), x # b,
                   burst[k] + Cardinality(Slow(k, x)) <= Mapped(k) + count[x] + Extra
            PROVE  Paid(k)'
        <5>1. Held(k, x)' /\ ~Unused(x)'
          BY <1>1, <4>2 DEF Held, Unused
        <5>2. count'[x] = count[x]
          BY <1>1, <4>2, <5>1, KeptIs
        <5>3. burst'[k] + Cardinality(Slow(k, x)') <= Mapped(k)' + count'[x] + Extra
          BY <1>1, <3>1, <3>2, <4>2, <5>2, Amounts
        <5> QED
          BY <1>1, <4>2, <5>1, <5>3 DEF Paid, Extra
      <4>3. ASSUME burst[k] + Cardinality(Slow(k, b)) <= Mapped(k) + count[b] + Extra
            PROVE  Paid(k)'
        <5>1. Slow(k, b)' = Slow(k, b) /\ Cardinality(Slow(k, b)) \in Nat
          <6>1. c \notin Slow(k, b)
            BY DEF Slow
          <6>2. Slow(k, b)' = Slow(k, b) \ {c}
            BY <1>4
          <6> QED
            BY <6>1, <6>2, SlowSizes
        <5>2. CASE Held(k, b)'
          <6>1. ~Unused(b)'
            BY <5>2 DEF Held, Unused
          <6>2. count'[b] = count[b] + 1
            BY <1>1, <6>1, KeptIs
          <6>3. burst'[k] + Cardinality(Slow(k, b)') <= Mapped(k)' + count'[b] + Extra
            BY <1>1, <3>1, <4>3, <5>1, <6>2, Amounts
          <6> QED
            BY <1>1, <2>2, <5>2, <6>3 DEF Paid, Extra
        <5>3. CASE ~Held(k, b)'
          <6>1. Slow(k, NoBucket)' \subseteq Slow(k, b)'
            BY <5>3 DEF Held, Slow
          <6>2. /\ Cardinality(Slow(k, NoBucket)') <= Cardinality(Slow(k, b))
                /\ Cardinality(Slow(k, NoBucket)') \in Nat
            BY <5>1, <6>1, SlowSizes, Sizes
          <6>3. burst'[k] + Cardinality(Slow(k, NoBucket)') <= Mapped(k)' + Limit + Extra
            BY <1>1, <1>2, <3>1, <4>3, <5>1, <6>2, Amounts
          <6> QED
            BY <6>3 DEF Paid, Limit, Extra
        <5> QED
          BY <5>2, <5>3
      <4> QED
        BY <2>0, <4>1, <4>2, <4>3 DEF KeyOK, Paid
    <3> QED
      BY <3>4, <3>5, <3>6 DEF KeyOK
  <2> QED
    BY <2>1, <2>2
<1> QED
  BY <1>3, <1>5, <1>7, <1>8 DEF BurstsPaid

LEMMA DrainPays ==
  ASSUME TypeOK, Counted, BurstsPaid, NEW k \in Keys, Drain(k)
  PROVE  BurstsPaid'
<1> USE NilAssumption
<1> PICK b \in Buckets : b = negativeBuckets[k]
  BY DEF Drain, TypeOK
<1>1. /\ negativeBuckets' = negativeBuckets /\ call' = call /\ drain.delete = NoKey
      /\ count'[b] = count[b] - TokensPerInterval
      /\ \A x \in Buckets \ {b} : count'[x] = count[x]
      /\ burst'[k] = 0 /\ \A j \in Keys \ {k} : burst'[j] = burst[j]
      /\ drain'.delete \in {k, NoKey} /\ (drain'.delete = NoKey => count'[b] > 0)
  BY TokensAssumption DEF Drain, TypeOK, Spent
<1>2. OneKey' /\ \A j \in Keys : OneKnows(j)'
  BY <1>1 DEF BurstsPaid, OneKey, OneKnows, Slow
<1>3. \A j \in Keys : \A x : Slow(j, x)' = Slow(j, x)
  BY <1>1 DEF Slow
<1>4. ASSUME NEW j \in Keys \ {k}
      PROVE  KeyOK(j)'
  <2>1. Mapped(j)' = Mapped(j)
    BY <1>1 DEF Mapped, BurstsPaid, OneKey, TypeOK
  <2>2. ASSUME NEW x \in Buckets \ {negativeBuckets[j]}, Held(j, x)
        PROVE  Held(j, x)' /\ count'[x] = count[x]
    BY <1>1, <2>2, CallIs DEF Held, BurstsPaid, OneKey
  <2>3. drain'.delete = j <=> drain.delete = j
    BY <1>1
  <2> QED
    BY <1>1, <1>3, <2>1, <2>2, <2>3, KeyStays DEF BurstsPaid
<1>5. KeyOK(k)'
  <2>1. Mapped(k)' = Mapped(k) - TokensPerInterval /\ Mapped(k)' = count'[b] /\ Mapped(k) >= 0
    BY <1>1 DEF Mapped, BurstsPaid, KeyOK, MappedOK
  <2>2. /\ Cardinality(Slow(k, NoBucket)) \in Nat /\ Cardinality(Callers) \in Nat
        /\ Cardinality(Slow(k, NoBucket)) <= Cardinality(Callers) - 1
    <3>1. PICK c \in Callers : c \notin Slow(k, NoBucket)
      BY <1>1 DEF BurstsPaid, OneKnows
    <3> QED
      BY <3>1, SlowSizes, Sizes
  <2>3. burst'[k] + Cardinality(Slow(k, NoBucket)') <= Mapped(k)' + Extra
    BY <1>1, <1>3, <2>1, <2>2, Amounts, TokensAssumption DEF Extra
  <2>4. MappedOK(k)'
    BY <1>1, <2>1, Amounts, TokensAssumption DEF MappedOK
  <2>5. Paid(k)'
    <3>1. Mapped(k)' \in Int
      BY <2>1, Amounts, TokensAssumption
    <3>2. burst'[k] + Cardinality(Slow(k, NoBucket)') <= Mapped(k)' + Limit + Extra
      BY <1>1, <1>3, <2>2, <2>3, <3>1, Amounts
    <3> QED
      BY <3>2 DEF Paid, Limit, Extra
  <2> QED
    BY <2>3, <2>4, <2>5 DEF KeyOK, ToDelete, Extra
<1> QED
  BY <1>2, <1>4, <1>5 DEF BurstsPaid

LEMMA DeletePays ==
  ASSUME TypeOK, Counted, BurstsPaid, Delete
  PROVE  BurstsPaid'
<1> USE NilAssumption
<1> PICK k \in Keys : k = drain.delete
  BY DEF Delete, TypeOK
<1>0. negativeBuckets[k] \in Buckets
  BY DEF BurstsPaid, KeyOK, MappedOK, TypeOK
<1> PICK b \in Buckets : b = negativeBuckets[k]
  BY <1>0
<1>1. /\ call' = call /\ burst' = burst /\ count' = Kept(count) /\ drain'.delete = NoKey
      /\ negativeBuckets'[k] = NoBucket
      /\ \A j \in Keys \ {k} : negativeBuckets'[j] = negativeBuckets[j]
  BY DEF Delete, TypeOK
<1>2. KeyOK(k) /\ Mapped(k) = count[b]
  BY DEF BurstsPaid, Mapped
<1>3. OneKey'
  BY <1>1, CallIs DEF BurstsPaid, OneKey
<1>4. ASSUME NEW j \in Keys \ {k}
      PROVE  OneKnows(j)' /\ KeyOK(j)'
  <2>1. \A x : Slow(j, x)' = Slow(j, x)
    BY <1>1 DEF Slow
  <2>2. Mapped(j)' = Mapped(j)
    <3>1. ASSUME NEW x \in Buckets, negativeBuckets[j] = x
          PROVE  count'[x] = count[x]
      <4>1. ~Unused(x)'
        BY <1>1, <3>1 DEF Unused
      <4> QED
        BY <1>1, <4>1, KeptIs
    <3> QED
      BY <1>1, <3>1 DEF Mapped, TypeOK
  <2>3. ASSUME NEW x \in Buckets \ {negativeBuckets[j]}, Held(j, x)
        PROVE  Held(j, x)' /\ count'[x] = count[x]
    <3>1. Held(j, x)' /\ ~Unused(x)'
      BY <1>1, <2>3 DEF Held, Unused
    <3> QED
      BY <1>1, <3>1, KeptIs
  <2>4. OneKnows(j)'
    BY <1>1, <2>1 DEF BurstsPaid, OneKnows
  <2> QED
    BY <1>1, <2>1, <2>2, <2>3, <2>4, KeyStays DEF BurstsPaid
<1>5. OneKnows(k)' /\ KeyOK(k)'
  <2>1. Mapped(k)' = 0 /\ MappedOK(k)' /\ ToDelete(k)' /\ OneKnows(k)'
    BY <1>1 DEF Mapped, MappedOK, ToDelete, OneKnows
  <2>2. /\ burst[k] + Cardinality(Slow(k, NoBucket)) <= count[b] + Extra
        /\ Cardinality(Slow(k, NoBucket)) \in Nat
    BY <1>2, SlowSizes DEF KeyOK, ToDelete
  <2>3. CASE Held(k, b)
    <3>1. Slow(k, b)' = Slow(k, NoBucket)
      BY <1>1 DEF Slow
    <3>4. Held(k, b)' /\ ~Unused(b)'
      BY <1>1, <2>3 DEF Held, Unused
    <3>2. count'[b] = count[b] /\ Held(k, b)'
      BY <1>1, <3>4, KeptIs
    <3>3. burst'[k] + Cardinality(Slow(k, b)') <= Mapped(k)' + count'[b] + Extra
      BY <1>1, <1>2, <2>1, <2>2, <3>1, <3>2, Amounts
    <3> QED
      BY <1>1, <1>2, <2>1, <3>2, <3>3 DEF KeyOK, Paid, Extra
  <2>4. CASE ~Held(k, b)
    <3>1. Slow(k, NoBucket)' = Slow(k, NoBucket)
      BY <1>1, <2>4 DEF Slow, Held
    <3>2. burst'[k] + Cardinality(Slow(k, NoBucket)') <= Mapped(k)' + Limit + Extra
      BY <1>1, <1>2, <2>1, <2>2, <3>1, Amounts
    <3> QED
      BY <2>1, <3>2 DEF KeyOK, Paid, Limit, Extra
  <2> QED
    BY <2>3, <2>4
<1> QED
  BY <1>3, <1>4, <1>5 DEF BurstsPaid

LEMMA BurstsInit == Init => BurstsPaid
<1> SUFFICES ASSUME Init
             PROVE  BurstsPaid
  OBVIOUS
<1>1. /\ \A c \in Callers : call[c].at = "idle" /\ call[c].key = NoKey /\ call[c].bucket = NoBucket
      /\ \A k \in Keys : negativeBuckets[k] = NoBucket /\ burst[k] = 0 /\ Mapped(k) = 0
      /\ drain.delete = NoKey
  BY DEF Init, Idle, Mapped
<1>2. OneKey
  BY <1>1 DEF OneKey
<1>3. ASSUME NEW k \in Keys
      PROVE  OneKnows(k) /\ KeyOK(k)
  <2>1. Slow(k, NoBucket) = {}
    BY <1>1, NilAssumption DEF Slow
  <2>2. Cardinality(Slow(k, NoBucket)) = 0
    BY <2>1, FS_EmptySet
  <2>3. 0 <= Limit + Extra
    BY TokensAssumption, CallersAssumption, FS_CardinalityType, LimitType DEF Limit, Extra
  <2>4. Limit \in Int /\ Extra \in Int
    BY TokensAssumption, CallersAssumption, FS_CardinalityType, LimitType DEF Extra
  <2>5. Paid(k)
    BY <1>1, <2>2, <2>3, <2>4 DEF Paid
  <2> QED
    BY <1>1, <2>5, NilAssumption DEF OneKnows, KeyOK, MappedOK, ToDelete
<1> QED
  BY <1>2, <1>3 DEF BurstsPaid

LEMMA BurstsStep == IInv /\ BurstsPaid /\ [Next]_vars => BurstsPaid'
<1>1. CASE UNCHANGED vars \/ Wake
  <2> SUFFICES ASSUME TypeOK, Counted, BurstsPaid, UNCHANGED vars \/ Wake
               PROVE  BurstsPaid'
    BY <1>1 DEF IInv
  <2>1. /\ negativeBuckets' = negativeBuckets /\ count' = count /\ call' = call /\ burst' = burst
        /\ drain'.delete = drain.delete
    BY DEF vars, Wake, TypeOK
  <2> QED
    BY <2>1 DEF BurstsPaid, OneKey, OneKnows, KeyOK, MappedOK, ToDelete, Paid, Slow, Held, Mapped, Extra,
       Limit
<1>2. CASE IInv /\ BurstsPaid /\ Next
  BY <1>1, <1>2, AskPays, LoadPays, AddPays, DrainPays, DeletePays DEF IInv, Next, Ask, Drainer
<1> QED
  BY <1>1, <1>2

\* What passed about a key since it was visited is on at most two counters, or came from callers
\* that were slow (policies/helpers.go:19-41).
THEOREM BurstsArePaid == Spec => []BurstsPaid
<1>1. Init => IInv
  BY TypeInit, CountedInit DEF IInv
<1>2. IInv /\ [Next]_vars => IInv'
  BY TypeStep, CountedStep DEF IInv
<1> QED
  BY <1>1, <1>2, BurstsInit, BurstsStep, PTL DEF Spec

\* However the calls about a key interleave with the goroutine that takes its tokens and deletes
\* its counter, no more of them pass between two visits than two counters hold and the callers
\* who held an older one (policies/helpers.go:21-25, 31-34).
THEOREM BurstIsBounded == Spec => []BurstBounded
<1>1. IInv /\ BurstsPaid => BurstBounded
  <2> SUFFICES ASSUME TypeOK, Counted, BurstsPaid, NEW k \in Keys
               PROVE  burst[k] <= 2 * Limit + Extra
    BY CallersAssumption, TokensAssumption, FS_CardinalityType, LimitType
       DEF IInv, BurstBounded, Extra
  <2>1. Paid(k) /\ Mapped(k) \in Int /\ Mapped(k) <= Limit /\ burst[k] \in Nat
    BY Amounts DEF BurstsPaid, KeyOK
  <2>2. CASE burst[k] + Cardinality(Slow(k, NoBucket)) <= Mapped(k) + Limit + Extra
    BY <2>1, <2>2, SlowSizes, Amounts
  <2>3. ASSUME NEW b \in Buckets, burst[k] + Cardinality(Slow(k, b)) <= Mapped(k) + count[b] + Extra
        PROVE  burst[k] <= 2 * Limit + Extra
    <3>1. count[b] \in Int /\ count[b] <= Limit /\ Cardinality(Slow(k, b)) \in Nat
      BY SlowSizes, Amounts
    <3> QED
      BY <2>1, <2>3, <3>1, Amounts
  <2> QED
    BY <2>1, <2>2, <2>3 DEF Paid
<1> QED
  BY <1>1, CountsStayRight, BurstsArePaid, PTL

-----------------------------------------------------------------------------
(* Induction.  The theorems of the library for it take an operator, which  *)
(* the provers cannot instantiate.  That < is well founded takes none, and *)
(* a set of numbers with zero and every successor is as good.              *)

(* There is a least number in every set of numbers that has one.           *)
LEMMA LeastNumber ==
  ASSUME NEW R, R \subseteq Nat, R # {}
  PROVE  \E n \in R : \A m \in R : n <= m
<1>. DEFINE Less == {p \in Nat \X Nat : p[1] < p[2]}
<1>1. IsWellFoundedOn(Less, Nat)
  BY NatLessThanWellFounded DEF OpToRel
<1>. HIDE DEF Less
<1>2. PICK n \in R : \A m \in R : ~(<<m, n>> \in Less)
  BY <1>1, WFMin
<1>3. ASSUME NEW m \in R
      PROVE  n <= m
  <2>1. m \in Nat /\ n \in Nat
    OBVIOUS
  <2>2. ~(m < n)
    BY <1>2, <2>1 DEF Less
  <2>. QED
    BY <2>1, <2>2
<1>. QED
  BY <1>3

(* Induction: a set with zero and the successors of its numbers has all.   *)
LEMMA InductiveSet ==
  ASSUME NEW S, 0 \in S, \A n \in S \cap Nat : n + 1 \in S
  PROVE  Nat \subseteq S
<1>. DEFINE Missing == Nat \ S
<1>. SUFFICES ASSUME Missing # {}
              PROVE  FALSE
  OBVIOUS
<1>1. PICK n \in Missing : \A m \in Missing : n <= m
  <2>1. Missing \subseteq Nat
    OBVIOUS
  <2>. HIDE DEF Missing
  <2>. QED
    BY <2>1, LeastNumber
<1>2. n # 0 /\ n - 1 \in Nat
  OBVIOUS
<1>3. n - 1 \in S
  BY <1>1, <1>2
<1>4. (n - 1) + 1 \in S
  BY <1>2, <1>3
<1>. QED
  BY <1>2, <1>4

-----------------------------------------------------------------------------
(* What overwriting does (policies/filters.go:56-93, responding.go:15-19)  *)

\* What is in OverwriteFilter of a relay.
ArePolicies(policies) ==
  /\ policies \in Seq(Range(policies))
  /\ \A policy \in Range(policies) : policy.name \in OverwriteFilters

(* OverwriteAll is where a chain of filters ends, each of which comes from *)
(* the one before it: the recursion is well defined.                       *)
LEMMA OverwriteChain ==
  ASSUME NEW policies, ArePolicies(policies), NEW f
  PROVE  \E after : /\ after[0] = f
                    /\ \A n \in 1..Len(policies) : after[n] = Overwrite(after[n - 1], policies[n])
                    /\ OverwriteAll(policies, f) = after[Len(policies)]
<1>. DEFINE N == Len(policies)
            Chain(g, m) == [n \in 0..m |-> IF n = 0 THEN f ELSE Overwrite(g[n - 1], policies[n])]
            S == {m \in Nat : m <= N => \E g : g = Chain(g, m)}
<1>1. N \in Nat
  BY DEF ArePolicies
<1>2. 0 \in S
  <2>. DEFINE g == [n \in 0..0 |-> f]
  <2>1. g = Chain(g, 0)
    OBVIOUS
  <2>. QED
    BY <2>1
<1>3. ASSUME NEW m \in S \cap Nat
      PROVE  m + 1 \in S
  <2>. SUFFICES ASSUME m + 1 <= N
                PROVE  \E g : g = Chain(g, m + 1)
    OBVIOUS
  <2>1. m <= N
    BY <1>1
  <2>2. PICK g : g = Chain(g, m)
    BY <2>1
  <2>. DEFINE h == [n \in 0..(m + 1) |-> IF n = m + 1 THEN Overwrite(g[m], policies[m + 1]) ELSE g[n]]
  <2>3. ASSUME NEW n \in 0..(m + 1)
        PROVE  h[n] = IF n = 0 THEN f ELSE Overwrite(h[n - 1], policies[n])
    <3>1. CASE n = m + 1
      BY <3>1
    <3>2. CASE n # m + 1
      <4>1. n \in 0..m /\ (n = 0 \/ n - 1 \in 0..m)
        BY <3>2
      <4>2. g[n] = IF n = 0 THEN f ELSE Overwrite(g[n - 1], policies[n])
        BY <2>2, <4>1
      <4>. QED
        BY <3>2, <4>1, <4>2
    <3>. QED
      BY <3>1, <3>2
  <2>4. h = Chain(h, m + 1)
    BY <2>3
  <2>. QED
    BY <2>4
<1>4. N \in S
  <2>. HIDE DEF S, N
  <2>. QED
    BY <1>1, <1>2, <1>3, InductiveSet
<1>5. \E g : g = Chain(g, N)
  BY <1>1, <1>4
<1>. DEFINE after == CHOOSE g : g = Chain(g, N)
<1>6. after = Chain(after, N)
  BY <1>5
<1>7. OverwriteAll(policies, f) = after[N]
  BY DEF OverwriteAll
<1>. HIDE DEF after
<1>8. after[0] = f
  BY <1>1, <1>6
<1>9. ASSUME NEW n \in 1..N
      PROVE  after[n] = Overwrite(after[n - 1], policies[n])
  BY <1>1, <1>6
<1>. QED
  BY <1>7, <1>8, <1>9

\* g asks for no more than f, but for the tags: it may have lost some.  One that has lost all its
\* kinds or all its tags has a limit of zero.
Narrows(f, g) ==
  /\ IsFilter(g)
  /\ g.kinds \subseteq f.kinds /\ g.authors = f.authors
  /\ DOMAIN g.tags \subseteq DOMAIN f.tags
  /\ \A t \in DOMAIN g.tags : g.tags[t] = f.tags[t]
  /\ g.search => f.search
  /\ ~g.limitZero => /\ ~f.limitZero
                     /\ g.kinds = {} => f.kinds = {}
                     /\ DOMAIN g.tags = {} => DOMAIN f.tags = {}

\* What is left of f is what the policy leaves.
Obeys(policy, g) ==
  /\ policy.name = "RemoveSearchQueries" => ~g.search
  /\ policy.name = "RemoveAllButKinds" => \A k \in g.kinds : uint16(k) \in policy.arg
  /\ policy.name = "RemoveAllButTags" => DOMAIN g.tags \subseteq policy.arg

(* So what narrows what narrows a filter narrows it,                       *)
LEMMA NarrowsTransitive ==
  ASSUME NEW f, NEW g, NEW h, Narrows(f, g), Narrows(g, h)
  PROVE  Narrows(f, h)
BY DEF Narrows

(* a filter narrows itself,                                                *)
LEMMA NarrowsReflexive ==
  ASSUME NEW f, IsFilter(f)
  PROVE  Narrows(f, f)
BY DEF Narrows

(* and what one policy left no other policy can spoil by narrowing it.     *)
LEMMA NarrowedObeys ==
  ASSUME NEW f, NEW g, NEW policy, Narrows(f, g), Obeys(policy, f)
  PROVE  Obeys(policy, g)
BY DEF Narrows, Obeys

(* One policy narrows, and leaves what it leaves.                          *)
LEMMA OverwriteNarrows ==
  ASSUME NEW f, IsFilter(f), NEW policy, policy.name \in OverwriteFilters
  PROVE  LET g == Overwrite(f, policy) IN
         /\ Narrows(f, g)
         /\ Obeys(policy, g)
         /\ policy.name # "RemoveAllButTags" => g.tags = f.tags
<1>. DEFINE g == Overwrite(f, policy)
            Goal == /\ Narrows(f, g)
                    /\ Obeys(policy, g)
                    /\ policy.name # "RemoveAllButTags" => g.tags = f.tags
<1>. SUFFICES Goal
  OBVIOUS
<1>1. /\ f = [kinds |-> f.kinds, authors |-> f.authors, tags |-> f.tags,
              search |-> f.search, limitZero |-> f.limitZero]
      /\ f.tags = [t \in DOMAIN f.tags |-> f.tags[t]]
      /\ IsFiniteSet(f.kinds) /\ IsFiniteSet(DOMAIN f.tags)
      /\ f.search \in BOOLEAN /\ f.limitZero \in BOOLEAN
  BY DEF IsFilter, Restrict
<1>2. CASE policy.name = "RemoveSearchQueries"
  <2>1. g = [kinds |-> f.kinds, authors |-> f.authors, tags |-> f.tags,
             search |-> FALSE, limitZero |-> f.limitZero \/ f.search]
    BY <1>1, <1>2 DEF Overwrite, RemoveSearchQueries
  <2>. HIDE DEF g
  <2>. QED
    BY <1>1, <1>2, <2>1 DEF Narrows, Obeys, IsFilter, Restrict
<1>3. CASE policy.name = "RemoveAllButKinds"
  <2>. DEFINE newKinds == {k \in f.kinds : uint16(k) \in policy.arg}
  <2>1. g = [kinds |-> newKinds, authors |-> f.authors, tags |-> f.tags, search |-> f.search,
             limitZero |-> f.limitZero \/ (f.kinds # {} /\ newKinds = {})]
    BY <1>1, <1>3 DEF Overwrite, RemoveAllButKinds
  <2>2. newKinds \subseteq f.kinds /\ IsFiniteSet(newKinds) /\ \A k \in newKinds : uint16(k) \in policy.arg
    BY <1>1, FS_Subset
  <2>. HIDE DEF g, newKinds
  <2>. QED
    BY <1>1, <1>3, <2>1, <2>2 DEF Narrows, Obeys, IsFilter, Restrict
<1>4. CASE policy.name = "RemoveAllButTags"
  <2>. DEFINE names == DOMAIN f.tags \cap policy.arg
              newTags == [t \in names |-> f.tags[t]]
  <2>1. g = [kinds |-> f.kinds, authors |-> f.authors, tags |-> newTags, search |-> f.search,
             limitZero |-> f.limitZero \/ (DOMAIN f.tags # {} /\ DOMAIN newTags = {})]
    BY <1>1, <1>4 DEF Overwrite, RemoveAllButTags, Restrict
  <2>2. /\ DOMAIN newTags = names /\ IsFiniteSet(names) /\ names \subseteq DOMAIN f.tags
        /\ names \subseteq policy.arg
    BY <1>1, FS_Subset
  <2>3. newTags = [t \in names |-> newTags[t]] /\ \A t \in names : newTags[t] = f.tags[t]
    OBVIOUS
  <2>. HIDE DEF g, newTags, names
  <2>4. IsFilter(g)
    BY <1>1, <2>1, <2>2, <2>3 DEF IsFilter, Restrict
  <2>5. g.search = f.search /\ g.kinds = f.kinds /\ g.authors = f.authors /\ g.tags = newTags
    BY <2>1
  <2>6. ~g.limitZero => ~f.limitZero /\ (names = {} => DOMAIN f.tags = {})
    BY <1>1, <2>1, <2>2
  <2>. QED
    BY <1>4, <2>2, <2>3, <2>4, <2>5, <2>6 DEF Narrows, Obeys
<1>. QED
  BY <1>2, <1>3, <1>4 DEF OverwriteFilters

(* However many policies overwrite a filter, in whatever order: what is    *)
(* left narrows it, every one of them is obeyed, and tags are gone only if *)
(* one was there to remove tags (responding.go:15-24).                     *)
THEOREM OverwritingNarrows ==
  ASSUME NEW policies, ArePolicies(policies), NEW f, IsFilter(f)
  PROVE  LET g == OverwriteAll(policies, f) IN
         /\ Narrows(f, g)
         /\ \A n \in DOMAIN policies : Obeys(policies[n], g)
         /\ (\A n \in DOMAIN policies : policies[n].name # "RemoveAllButTags") => g.tags = f.tags
<1>. DEFINE N == Len(policies)
            NoneTakesTags == \A n \in 1..N : policies[n].name # "RemoveAllButTags"
<1>1. /\ N \in Nat /\ DOMAIN policies = 1..N
      /\ \A n \in 1..N : policies[n].name \in OverwriteFilters
  BY DEF ArePolicies, Range
<1>2. PICK after :
        /\ after[0] = f
        /\ \A n \in 1..N : after[n] = Overwrite(after[n - 1], policies[n])
        /\ OverwriteAll(policies, f) = after[N]
  BY OverwriteChain
<1>. DEFINE Right(m) == /\ Narrows(f, after[m])
                        /\ \A n \in 1..m : Obeys(policies[n], after[m])
                        /\ NoneTakesTags => after[m].tags = f.tags
            S == {m \in Nat : m <= N => Right(m)}
<1>3. 0 \in S
  BY <1>2, NarrowsReflexive
<1>4. ASSUME NEW m \in S \cap Nat
      PROVE  m + 1 \in S
  <2>. SUFFICES ASSUME m + 1 <= N
                PROVE  Right(m + 1)
    OBVIOUS
  <2>1. Right(m)
    BY <1>1
  <2>2. m + 1 \in 1..N /\ (m + 1) - 1 = m
    BY <1>1
  <2>3. after[m + 1] = Overwrite(after[m], policies[m + 1])
    BY <1>2, <2>2
  <2>. DEFINE g == after[m] h == after[m + 1] policy == policies[m + 1]
  <2>4. Narrows(f, g) /\ IsFilter(g) /\ policy.name \in OverwriteFilters
    BY <1>1, <2>1, <2>2 DEF Narrows
  <2>5. /\ Narrows(g, h)
        /\ Obeys(policy, h)
        /\ policy.name # "RemoveAllButTags" => h.tags = g.tags
    BY <2>3, <2>4, OverwriteNarrows
  <2>6. Narrows(f, h)
    BY <2>4, <2>5, NarrowsTransitive
  <2>7. ASSUME NEW n \in 1..(m + 1)
        PROVE  Obeys(policies[n], h)
    <3>1. CASE n = m + 1
      BY <2>5, <3>1
    <3>2. CASE n # m + 1
      <4>1. n \in 1..m
        BY <3>2
      <4>2. Obeys(policies[n], g)
        BY <2>1, <4>1
      <4>. QED
        BY <2>5, <4>2, NarrowedObeys
    <3>. QED
      BY <3>1, <3>2
  <2>8. NoneTakesTags => h.tags = f.tags
    BY <2>1, <2>2, <2>5
  <2>. QED
    BY <2>6, <2>7, <2>8
<1>5. N \in S
  <2>. HIDE DEF S, N
  <2>. QED
    BY <1>1, <1>3, <1>4, InductiveSet
<1>6. Right(N)
  BY <1>1, <1>5
<1>. QED
  BY <1>1, <1>2, <1>6

-----------------------------------------------------------------------------
(* What matches a filter that was narrowed                                 *)

WithoutTags(f) == [f EXCEPT !.tags = <<>>]

(* What matches a narrowed filter that is not to be skipped matches what   *)
(* was asked, but for the tags it lost.                                    *)
LEMMA NarrowedMatchesLess ==
  ASSUME NEW f, IsFilter(f), NEW g, Narrows(f, g), NEW e, Matches(g, e)
  PROVE  /\ ~g.limitZero => Matches(WithoutTags(f), e)
         /\ ~g.limitZero /\ g.tags = f.tags => Matches(f, e)
<1>1. /\ WithoutTags(f).kinds = f.kinds
      /\ WithoutTags(f).authors = f.authors
      /\ DOMAIN WithoutTags(f).tags = {}
  BY DEF WithoutTags, IsFilter
<1>. QED
  BY <1>1 DEF Matches, Narrows

\* f with the tags that are left in g, as a listener has it.
SharesTags(f, g) == [f EXCEPT !.tags = g.tags]

(* A listener hears of all that was asked for, and of more only where its  *)
(* filter lost tags.                                                       *)
LEMMA SharedTagsMatchMore ==
  ASSUME NEW f, IsFilter(f), NEW g, Narrows(f, g), NEW e
  PROVE  /\ Matches(f, e) => Matches(SharesTags(f, g), e)
         /\ Matches(SharesTags(f, g), e) => Matches(WithoutTags(f), e)
         /\ g.tags = f.tags /\ Matches(SharesTags(f, g), e) => Matches(f, e)
<1>1. /\ WithoutTags(f).kinds = f.kinds /\ SharesTags(f, g).kinds = f.kinds
      /\ WithoutTags(f).authors = f.authors /\ SharesTags(f, g).authors = f.authors
      /\ DOMAIN WithoutTags(f).tags = {} /\ SharesTags(f, g).tags = g.tags
  BY DEF WithoutTags, SharesTags, IsFilter
<1>. QED
  BY <1>1 DEF Matches, Narrows

-----------------------------------------------------------------------------
(* Where a filter or an event goes (router.go:24-39)                       *)

(* A set-up is one the constants allow.                                    *)
LEMMA ConfigType ==
  ASSUME config \in Configs
  PROVE  /\ config.routes \in Seq([filters : SUBSET Filters, events : SUBSET Events, relay : Relays])
         /\ \A r \in Relays : ArePolicies(Policy(r).overwrite) /\ Policy(r).reject \subseteq RejectFilters
BY ConfigsAssumption DEF Policy, ArePolicies

(* The first route that matches is the one of the least index.             *)
LEMMA RoutesLeadToRelays ==
  ASSUME config \in Configs
  PROVE  \A x : SubRelayFromFilter(x) \in Relays /\ SubRelayFromEvent(x) \in Relays
<1>1. /\ DOMAIN config.routes \subseteq Nat
      /\ \A n \in DOMAIN config.routes : config.routes[n].relay \in Relays
  <2>. DEFINE Route == [filters : SUBSET Filters, events : SUBSET Events, relay : Relays]
  <2>1. config.routes \in Seq(Route)
    BY ConfigType
  <2>2. \A route \in Route : route.relay \in Relays
    OBVIOUS
  <2>. HIDE DEF Route
  <2>. QED
    BY <2>1, <2>2
<1>2. ASSUME NEW R \in SUBSET DOMAIN config.routes
      PROVE  FirstRoute(R) \in Relays
  <2>1. CASE R = {}
    BY <2>1, TopAssumption DEF FirstRoute
  <2>2. CASE R # {}
    <3>1. \E n \in R : \A m \in R : n <= m
      BY <1>1, <2>2, LeastNumber
    <3>2. (CHOOSE n \in R : \A m \in R : n <= m) \in R
      BY <3>1
    <3>. QED
      BY <1>1, <2>2, <3>2 DEF FirstRoute
  <2>. QED
    BY <2>1, <2>2
<1>. QED
  BY <1>2 DEF SubRelayFromFilter, SubRelayFromEvent

(* The theorem on overwriting, for the policies of a relay.                *)
LEMMA OverwrittenNarrows ==
  ASSUME config \in Configs, NEW r \in Relays, NEW f \in Filters
  PROVE  LET g == Overwritten(r, f) policies == Policy(r).overwrite IN
         /\ IsFilter(f)
         /\ Narrows(f, g)
         /\ \A n \in DOMAIN policies : Obeys(policies[n], g)
         /\ (\A n \in DOMAIN policies : policies[n].name # "RemoveAllButTags") => g.tags = f.tags
BY FiltersAssumption, ConfigType, OverwritingNarrows DEF Overwritten

-----------------------------------------------------------------------------
(* What is kept of listeners and queries                                   *)

\* Each listener, added or still to be, is in the relay its filter goes to, with what that relay made
\* of it.
ListenersOK ==
  \A l \in answered \cup listeners :
    /\ l.asked \in Filters
    /\ l.relay = SubRelayFromFilter(l.asked)
    /\ l.filter = Listened(l.relay, l.asked)

\* Of what the store had when it was asked, all that was asked for was sent.
AnswersOK ==
  \A a \in answered : \A e \in a.searched : Matches(a.asked, e) => <<a.asked, e>> \in sent

\* What was put to a store is what its policies made of a filter, and none of them rejected it.
QueriesOK ==
  \A q \in queries :
    /\ q.filter = Overwritten(q.relay, q.asked)
    /\ ~q.filter.limitZero
    /\ \A policy \in Policy(q.relay).reject : ~Rejects(policy, q.filter, q.authed)

-----------------------------------------------------------------------------
(* No message changes the set-up.                                          *)
LEMMA ConfigStays ==
  ASSUME [FilterNext]_filterVars
  PROVE  /\ config' = config
         /\ \A r : Policy(r)' = Policy(r)
         /\ \A x : SubRelayFromFilter(x)' = SubRelayFromFilter(x)
         /\ \A x : SubRelayFromEvent(x)' = SubRelayFromEvent(x)
         /\ \A r, f : Overwritten(r, f)' = Overwritten(r, f)
         /\ \A r, f : Listened(r, f)' = Listened(r, f)
<1>1. config' = config
  BY DEF FilterNext, filterVars, Req, SkipQuery, Reject, Query, AddListener, NegOpen, Count, Auth, Event
<1>. QED
  BY <1>1 DEF Policy, SubRelayFromFilter, SubRelayFromEvent, FirstRoute, Overwritten, Listened

(* The types hold at first, and every step keeps them.                     *)
LEMMA FiltersInit == FilterInit => FiltersOK
<1>. SUFFICES ASSUME FilterInit
              PROVE  FiltersOK
  OBVIOUS
<1>1. stored \in [Relays -> SUBSET Events] /\ \A r \in Relays : stored[r] = {}
  BY DEF FilterInit
<1>. QED
  BY <1>1, MaxMessagesAssumption DEF FilterInit, FiltersOK

LEMMA FiltersStep ==
  ASSUME FiltersOK, [FilterNext]_filterVars
  PROVE  FiltersOK'
<1>. USE DEF FiltersOK
<1>1. /\ config' = config /\ config \in Configs
      /\ \A r : Policy(r)' = Policy(r)
      /\ \A x : SubRelayFromEvent(x)' = SubRelayFromEvent(x)
      /\ \A x : SubRelayFromFilter(x) \in Relays /\ SubRelayFromEvent(x) \in Relays
  BY ConfigStays, RoutesLeadToRelays
<1>2. pending # <<>> => Head(pending) \in Filters /\ Tail(pending) \in Seq(Filters)
  OBVIOUS
<1>3. Message => messages' \in 0..MaxMessages
  BY MaxMessagesAssumption DEF Message
<1>4. UNCHANGED stored => (\A r \in Relays : \A e \in stored'[r] :
         /\ SubRelayFromEvent(e)' = r
         /\ ~\E policy \in Policy(r)'.rejectEvent : RejectsEvent(policy, e))
  BY <1>1
<1>5. ASSUME NEW fs \in Reqs, Req(fs)
      PROVE  FiltersOK'
  BY <1>1, <1>3, <1>4, <1>5, ReqsAssumption DEF Req
<1>6. ASSUME NEW r \in Relays, NEW f \in Filters, NEW searched, Answered(r, f, searched)
      PROVE  \A a \in answered' : a.asked \in Filters /\ a.relay \in Relays
  BY <1>6 DEF Answered
<1>7. CASE SkipQuery
  <2>1. \A a \in answered' : a.asked \in Filters /\ a.relay \in Relays
    BY <1>6, <1>7 DEF SkipQuery
  <2>. QED
    BY <1>1, <1>2, <1>4, <1>7, <2>1 DEF SkipQuery, Handling
<1>8. CASE Reject
  BY <1>1, <1>4, <1>8 DEF Reject
<1>9. CASE Query
  <2>1. \A a \in answered' : a.asked \in Filters /\ a.relay \in Relays
    BY <1>6, <1>9 DEF Query
  <2>2. sent' \subseteq Filters \X Events
    BY <1>9 DEF Query, Found
  <2>3. \A q \in queries' : q.relay \in Relays /\ q.asked \in Filters /\ q.authed \in {Nobody, Me}
    BY <1>9 DEF Query
  <2>4. pending' \in Seq(Filters) /\ UNCHANGED <<config, authed, stored, listeners, counted, messages>>
    BY <1>2, <1>9 DEF Query, Handling
  <2>. QED
    BY <1>1, <1>4, <2>1, <2>2, <2>3, <2>4
<1>15. CASE AddListener
  <2>1. PICK a \in answered : listeners' = listeners \cup {Listener(a.relay, a)}
    BY <1>15 DEF AddListener, Listen
  <2>2. Listener(a.relay, a).asked \in Filters /\ Listener(a.relay, a).relay \in Relays
    BY DEF Listener
  <2>3. \A l \in listeners' : l.asked \in Filters /\ l.relay \in Relays
    BY <2>1, <2>2
  <2>. QED
    BY <1>1, <1>4, <1>15, <2>3 DEF AddListener
<1>10. ASSUME NEW f \in Filters, NegOpen(f)
       PROVE  FiltersOK'
  <2>1. \A q \in queries' : q.relay \in Relays /\ q.asked \in Filters /\ q.authed \in {Nobody, Me}
    BY <1>1, <1>10 DEF NegOpen
  <2>. QED
    BY <1>1, <1>3, <1>4, <1>10, <2>1 DEF NegOpen
<1>11. ASSUME NEW f \in Filters, Count(f)
       PROVE  FiltersOK'
  <2>1. \A c \in counted' : c.asked \in Filters
    BY <1>11 DEF Count
  <2>. QED
    BY <1>1, <1>3, <1>4, <1>11, <2>1 DEF Count
<1>12. CASE Auth
  BY <1>1, <1>4, <1>12 DEF Auth
<1>13. ASSUME NEW e \in Events, Event(e)
       PROVE  FiltersOK'
  <2>. DEFINE r == SubRelayFromEvent(e)
  <2>1. r \in Relays /\ stored' = [stored EXCEPT ![r] = @ \cup {e}]
    BY <1>1, <1>13 DEF Event, StoreEvent
  <2>2. ~\E policy \in Policy(r).rejectEvent : RejectsEvent(policy, e)
    BY <1>13 DEF Event
  <2>3. stored' \in [Relays -> SUBSET Events]
    BY <2>1
  <2>4. ASSUME NEW s \in Relays, NEW x \in stored'[s]
        PROVE  SubRelayFromEvent(x)' = s /\ ~\E policy \in Policy(s)'.rejectEvent : RejectsEvent(policy, x)
    <3>1. x \in stored[s] \/ (s = r /\ x = e)
      BY <2>1, <2>4
    <3>. QED
      BY <1>1, <2>2, <3>1
  <2>5. sent' \subseteq Filters \X Events
    BY <1>13 DEF Event
  <2>. QED
    BY <1>1, <1>13, <2>3, <2>4, <2>5 DEF Event
<1>14. CASE UNCHANGED filterVars
  BY <1>1, <1>4, <1>14 DEF filterVars
<1>. QED
  BY <1>5, <1>7, <1>8, <1>9, <1>10, <1>11, <1>12, <1>13, <1>14, <1>15 DEF FilterNext

(* What is answered becomes a listener; elsewhere listeners stay.          *)
LEMMA ListenersStep ==
  ASSUME FiltersOK, ListenersOK, [FilterNext]_filterVars
  PROVE  ListenersOK'
<1>1. /\ config \in Configs
      /\ \A x : SubRelayFromFilter(x)' = SubRelayFromFilter(x)
      /\ \A r, f : Listened(r, f)' = Listened(r, f)
  BY ConfigStays DEF FiltersOK
<1>2. ASSUME answered' \subseteq answered, UNCHANGED listeners
      PROVE  ListenersOK'
  BY <1>1, <1>2 DEF ListenersOK
<1>3. ASSUME NEW f \in Filters, NEW searched, Answered(SubRelayFromFilter(f), f, searched), UNCHANGED listeners
      PROVE  ListenersOK'
  BY <1>1, <1>3 DEF ListenersOK, Answered
<1>4. CASE SkipQuery
  BY <1>3, <1>4 DEF SkipQuery, Handling
<1>5. CASE Query
  BY <1>3, <1>5 DEF Query, Handling
<1>6. CASE AddListener
  <2>1. PICK a \in answered : listeners' = listeners \cup {Listener(a.relay, a)}
    BY <1>6 DEF AddListener, Listen
  <2>2. LET new == Listener(a.relay, a) IN
        new.asked = a.asked /\ new.relay = a.relay /\ new.filter = a.filter
    BY DEF Listener
  <2>3. answered' = {}
    BY <1>6 DEF AddListener
  <2>. QED
    BY <1>1, <2>1, <2>2, <2>3 DEF ListenersOK
<1>7. CASE answered' \subseteq answered /\ UNCHANGED listeners
  BY <1>2, <1>7
<1>. QED
  BY <1>4, <1>5, <1>6, <1>7 DEF FilterNext, filterVars, Req, Reject, NegOpen, Count, Auth, Event

(* Only a query searches, and sends what it finds.                         *)
LEMMA AnswersStep ==
  ASSUME FiltersOK, AnswersOK, [FilterNext]_filterVars
  PROVE  AnswersOK'
<1>1. CASE answered' \subseteq answered /\ sent \subseteq sent'
  BY <1>1 DEF AnswersOK
<1>2. CASE SkipQuery
  BY <1>2 DEF SkipQuery, Answered, AnswersOK
<1>3. CASE Query
  <2>1. PICK f \in Filters, r \in Relays :
          /\ sent' = sent \cup {<<f, e>> : e \in Found(r, Overwritten(r, f))}
          /\ Answered(r, f, IF Overwritten(r, f) = f THEN stored[r] ELSE {})
    BY <1>3 DEF Query
  <2>2. SUFFICES ASSUME NEW a \in answered', NEW e \in a.searched, Matches(a.asked, e)
                 PROVE  <<a.asked, e>> \in sent'
    BY DEF AnswersOK
  <2>3. a.asked = f /\ Overwritten(r, f) = f /\ e \in stored[r]
    BY <2>1, <2>2 DEF Answered
  <2>4. e \in Found(r, Overwritten(r, f))
    BY <2>2, <2>3 DEF Found
  <2>. QED
    BY <2>1, <2>3, <2>4
<1>. QED
  BY <1>1, <1>2, <1>3
     DEF FilterNext, filterVars, Req, Reject, AddListener, NegOpen, Count, Auth, Event

(* A query is put by Query and NegOpen, of what was judged just before.    *)
LEMMA QueriesStep ==
  ASSUME FiltersOK, QueriesOK, [FilterNext]_filterVars
  PROVE  QueriesOK'
<1>1. /\ \A r : Policy(r)' = Policy(r)
      /\ \A r, f : Overwritten(r, f)' = Overwritten(r, f)
  BY ConfigStays
<1>2. ASSUME UNCHANGED queries
      PROVE  QueriesOK'
  BY <1>1, <1>2 DEF QueriesOK
<1>3. ASSUME NEW r, NEW f, ~Overwritten(r, f).limitZero, ~Rejected(r, f),
             queries' = queries \cup {[relay |-> r, asked |-> f, filter |-> Overwritten(r, f), authed |-> authed]}
      PROVE  QueriesOK'
  <2>1. \A policy \in Policy(r).reject : ~Rejects(policy, Overwritten(r, f), authed)
    BY <1>3 DEF Rejected, Judged
  <2>2. ASSUME NEW q \in queries'
        PROVE  /\ q.filter = Overwritten(q.relay, q.asked)
               /\ ~q.filter.limitZero
               /\ \A policy \in Policy(q.relay).reject : ~Rejects(policy, q.filter, q.authed)
    <3>1. CASE q \in queries
      BY <3>1 DEF QueriesOK
    <3>2. CASE q = [relay |-> r, asked |-> f, filter |-> Overwritten(r, f), authed |-> authed]
      <4>1. q.relay = r /\ q.asked = f /\ q.filter = Overwritten(r, f) /\ q.authed = authed
        BY <3>2
      <4>. QED
        BY <1>3, <2>1, <4>1
    <3>. QED
      BY <1>3, <3>1, <3>2
  <2>. QED
    BY <1>1, <2>2 DEF QueriesOK
<1>4. CASE Query
  BY <1>3, <1>4 DEF Query
<1>5. ASSUME NEW f \in Filters, NegOpen(f)
      PROVE  QueriesOK'
  BY <1>3, <1>5 DEF NegOpen
<1>6. CASE UNCHANGED queries
  BY <1>2, <1>6
<1>. QED
  BY <1>4, <1>5, <1>6 DEF FilterNext, filterVars, Req, SkipQuery, Reject, AddListener, Count, Auth, Event

(* What no policy rejects is acceptable to each.                           *)
LEMMA NotRejectedIsAcceptable ==
  ASSUME NEW q, IsFilter(q.filter), NEW policy \in RejectFilters,
         ~Rejects(policy, q.filter, q.authed)
  PROVE  IsAcceptable(policy, q)
<1>. DEFINE f == q.filter
<1>1. CASE policy = "NoComplexFilters"
  <2>1. Cardinality(DOMAIN f.tags) \in Nat /\ Cardinality(f.kinds) \in Nat
    BY FS_CardinalityType DEF IsFilter
  <2>2. ~(Cardinality(DOMAIN f.tags) + Cardinality(f.kinds) > 4 /\ Cardinality(DOMAIN f.tags) > 2)
    BY <1>1 DEF Rejects, NoComplexFilters
  <2>3. Cardinality(DOMAIN f.tags) <= 2 \/ Cardinality(DOMAIN f.tags) + Cardinality(f.kinds) <= 4
    BY <2>1, <2>2
  <2>. QED
    BY <1>1, <2>3 DEF IsAcceptable
<1>2. CASE policy = "MustAuth"
  BY <1>2 DEF Rejects, MustAuth, IsAcceptable
<1>3. CASE policy = "NoEmptyFilters"
  BY <1>3 DEF Rejects, NoEmptyFilters, IsAcceptable
<1>4. CASE policy = "AntiSyncBots"
  <2>1. ~((f.kinds = {} \/ 1 \in f.kinds) /\ f.authors = {})
    BY <1>4 DEF Rejects, AntiSyncBots
  <2>2. \A e \in Events : Matches(f, e) /\ e.kind = 1 => f.authors # {}
    BY <2>1 DEF Matches
  <2>. QED
    BY <1>4, <2>2 DEF IsAcceptable
<1>5. CASE policy = "NoSearchQueries"
  BY <1>5 DEF Rejects, NoSearchQueries, IsAcceptable
<1>6. CASE policy = "RejectKind04Snoopers"
  <2>. DEFINE receivers == IF "p" \in DOMAIN f.tags THEN f.tags["p"] ELSE {}
  <2>1. 4 \in f.kinds => q.authed # Nobody /\ (f.authors = {q.authed} \/ receivers = {q.authed})
    BY <1>6 DEF Rejects, RejectKind04Snoopers
  <2>2. ASSUME NEW e \in Events, Matches(f, e), 4 \in f.kinds
        PROVE  q.authed \in {e.author} \cup Receivers(e)
    <3>1. CASE f.authors = {q.authed}
      BY <2>2, <3>1 DEF Matches
    <3>2. CASE receivers = {q.authed}
      <4>1. "p" \in DOMAIN f.tags /\ f.tags["p"] = {q.authed}
        BY <3>2
      <4>2. "p" \in DOMAIN e.tags /\ f.tags["p"] \cap e.tags["p"] # {}
        BY <2>2, <4>1 DEF Matches
      <4>. QED
        BY <4>1, <4>2 DEF Receivers
    <3>. QED
      BY <2>1, <2>2, <3>1, <3>2
  <2>3. \A e \in {x \in Events : Matches(f, x)} :
           e.kind = 4 /\ 4 \in f.kinds => q.authed \in {e.author} \cup Receivers(e)
    BY <2>2
  <2>. QED
    BY <1>6, <2>3 DEF IsAcceptable
<1>. QED
  BY <1>1, <1>2, <1>3, <1>4, <1>5, <1>6 DEF RejectFilters

(* So the queries fit: what was overwritten obeys every policy, and what   *)
(* none rejected is acceptable to all.                                     *)
LEMMA QueriesFit ==
  ASSUME FiltersOK, QueriesOK
  PROVE  QueriesFitPolicies
<1>. SUFFICES ASSUME NEW q \in queries
              PROVE  /\ \A n \in DOMAIN Policy(q.relay).overwrite :
                            IsOverwritten(Policy(q.relay).overwrite[n], q)
                     /\ \A policy \in Policy(q.relay).reject : IsAcceptable(policy, q)
  BY DEF QueriesFitPolicies
<1>. DEFINE r == q.relay f == q.asked g == q.filter policies == Policy(r).overwrite
<1>1. /\ config \in Configs /\ r \in Relays /\ f \in Filters
      /\ g = Overwritten(r, f) /\ ~g.limitZero
      /\ \A policy \in Policy(r).reject : ~Rejects(policy, g, q.authed)
  BY DEF FiltersOK, QueriesOK
<1>2. /\ Narrows(f, g)
      /\ \A n \in DOMAIN policies : Obeys(policies[n], g)
  BY <1>1, OverwrittenNarrows
<1>3. ArePolicies(policies) /\ Policy(r).reject \subseteq RejectFilters
  BY <1>1, ConfigType
<1>4. ASSUME NEW n \in DOMAIN policies
      PROVE  IsOverwritten(policies[n], q)
  <2>. DEFINE policy == policies[n]
  <2>1. policy.name \in OverwriteFilters
    BY <1>3 DEF ArePolicies, Range
  <2>2. Obeys(policy, g)
    BY <1>2
  <2>3. (g.kinds = {} => f.kinds = {}) /\ (DOMAIN g.tags = {} => DOMAIN f.tags = {})
    BY <1>1, <1>2 DEF Narrows
  <2>. HIDE DEF policies
  <2>. QED
    BY <2>1, <2>2, <2>3 DEF IsOverwritten, Obeys, OverwriteFilters
<1>5. \A policy \in Policy(r).reject : IsAcceptable(policy, q)
  BY <1>1, <1>2, <1>3, NotRejectedIsAcceptable DEF Narrows
<1>. QED
  BY <1>4, <1>5

(* What is sent for a filter matches it, or what is left without its tags. *)
SentFor(f, e) ==
  LET overwrite == Policy(SubRelayFromFilter(f)).overwrite
      removesTags == \E n \in DOMAIN overwrite : overwrite[n].name = "RemoveAllButTags"
  IN  Matches(IF removesTags THEN WithoutTags(f) ELSE f, e)

(* What a store finds for what was left of a filter was asked for,         *)
LEMMA QueriedIsAsked ==
  ASSUME config \in Configs, NEW f \in Filters, NEW e,
         ~Overwritten(SubRelayFromFilter(f), f).limitZero,
         Matches(Overwritten(SubRelayFromFilter(f), f), e)
  PROVE  SentFor(f, e)
<1>. DEFINE r == SubRelayFromFilter(f) g == Overwritten(r, f)
<1>1. /\ IsFilter(f) /\ Narrows(f, g)
      /\ (\A n \in DOMAIN Policy(r).overwrite : Policy(r).overwrite[n].name # "RemoveAllButTags")
           => g.tags = f.tags
  BY RoutesLeadToRelays, OverwrittenNarrows
<1>2. /\ Matches(WithoutTags(f), e)
      /\ g.tags = f.tags => Matches(f, e)
  BY <1>1, NarrowedMatchesLess
<1>. QED
  BY <1>1, <1>2 DEF SentFor

(* as was what matches the filter of its listener, which misses nothing.   *)
LEMMA ListenedIsAsked ==
  ASSUME config \in Configs, NEW f \in Filters, NEW e
  PROVE  /\ Matches(f, e) => Matches(Listened(SubRelayFromFilter(f), f), e)
         /\ Matches(Listened(SubRelayFromFilter(f), f), e) => SentFor(f, e)
<1>. DEFINE r == SubRelayFromFilter(f) g == Overwritten(r, f)
<1>1. /\ IsFilter(f) /\ Narrows(f, g)
      /\ (\A n \in DOMAIN Policy(r).overwrite : Policy(r).overwrite[n].name # "RemoveAllButTags")
           => g.tags = f.tags
  BY RoutesLeadToRelays, OverwrittenNarrows
<1>2. Listened(r, f) = SharesTags(f, g)
  BY DEF Listened, SharesTags
<1>3. /\ Matches(f, e) => Matches(Listened(r, f), e)
      /\ Matches(Listened(r, f), e) => Matches(WithoutTags(f), e)
      /\ g.tags = f.tags /\ Matches(Listened(r, f), e) => Matches(f, e)
  BY <1>1, <1>2, SharedTagsMatchMore
<1>. QED
  BY <1>1, <1>3 DEF SentFor

(* Only queries and events send.                                           *)
LEMMA SentStep ==
  ASSUME FiltersOK, ListenersOK, SentIsAsked, [FilterNext]_filterVars
  PROVE  SentIsAsked'
<1>1. /\ config \in Configs
      /\ \A f, e : SentFor(f, e)' <=> SentFor(f, e)
  BY ConfigStays DEF FiltersOK, SentFor
<1>2. SentIsAsked <=> \A pair \in sent : SentFor(pair[1], pair[2])
  BY DEF SentIsAsked, SentFor, WithoutTags
<1>3. SentIsAsked' <=> \A pair \in sent' : SentFor(pair[1], pair[2])'
  BY DEF SentIsAsked, SentFor, WithoutTags
<1>4. SUFFICES ASSUME NEW pair \in sent', pair \notin sent
               PROVE  SentFor(pair[1], pair[2])
  BY <1>1, <1>2, <1>3
<1>5. CASE Query
  <2>1. PICK f \in Filters, r \in Relays :
          /\ r = SubRelayFromFilter(f) /\ ~Overwritten(r, f).limitZero
          /\ sent' = sent \cup {<<f, e>> : e \in Found(r, Overwritten(r, f))}
    BY <1>5 DEF Query, Handling
  <2>2. PICK e \in Found(r, Overwritten(r, f)) : pair = <<f, e>>
    BY <1>4, <2>1
  <2>3. Matches(Overwritten(r, f), e)
    BY <2>2 DEF Found
  <2>4. SentFor(f, e)
    BY <1>1, <2>1, <2>3, QueriedIsAsked
  <2>. QED
    BY <2>2, <2>4
<1>6. ASSUME NEW e \in Events, Event(e)
      PROVE  SentFor(pair[1], pair[2])
  <2>1. PICK l \in listeners : Matches(l.filter, e) /\ pair = <<l.asked, e>>
    BY <1>4, <1>6 DEF Event
  <2>2. l.asked \in Filters /\ l.filter = Listened(SubRelayFromFilter(l.asked), l.asked)
    BY DEF ListenersOK
  <2>3. SentFor(l.asked, e)
    BY <1>1, <2>1, <2>2, ListenedIsAsked
  <2>. QED
    BY <2>1, <2>3
<1>. QED
  BY <1>4, <1>5, <1>6 DEF FilterNext, filterVars, Req, SkipQuery, Reject, AddListener, NegOpen, Count, Auth

-----------------------------------------------------------------------------
(* What is found by each subscription, and what is counted.                *)
SubscriptionsFind ==
  \A l \in listeners : \A e \in UNION {stored[r] : r \in Relays} :
    /\ Matches(l.asked, e)
    /\ SubRelayFromEvent(e) = SubRelayFromFilter(l.asked)
    /\ e \notin l.missed
    => <<l.asked, e>> \in sent

CountsAreRight ==
  \A c \in counted :
    c.able /\ (\A e \in c.there : SubRelayFromEvent(e) = SubRelayFromFilter(c.asked))
      => c.total = Cardinality(c.there)

(* The two parts of AcceptedIsFound.                                       *)
LEMMA AcceptedIsFoundParts == AcceptedIsFound <=> SubscriptionsFind /\ CountsAreRight
BY DEF AcceptedIsFound, SubscriptionsFind, CountsAreRight

(* A new listener was told of what is in its store by then, but for what   *)
(* is missed.                                                              *)
LEMMA NewListenerFinds ==
  ASSUME FiltersOK, ListenersOK, AnswersOK, SubscriptionsFind, AddListener
  PROVE  SubscriptionsFind'
<1>1. PICK a \in answered : listeners' = listeners \cup {Listener(a.relay, a)}
  BY DEF AddListener, Listen
<1>. DEFINE new == Listener(a.relay, a)
<1>2. /\ \A x : SubRelayFromFilter(x)' = SubRelayFromFilter(x)
      /\ \A x : SubRelayFromEvent(x)' = SubRelayFromEvent(x)
      /\ UNCHANGED <<stored, sent>>
  BY ConfigStays DEF AddListener, FilterNext
<1>3. /\ listeners' = listeners \cup {new}
      /\ new.asked = a.asked /\ new.missed = stored[a.relay] \ a.searched
  BY <1>1 DEF Listener
<1>. HIDE DEF new
<1>. SUFFICES ASSUME NEW l \in listeners', NEW s \in Relays, NEW e \in stored[s],
                     Matches(l.asked, e), SubRelayFromEvent(e) = SubRelayFromFilter(l.asked), e \notin l.missed
              PROVE  <<l.asked, e>> \in sent
  BY <1>2 DEF SubscriptionsFind
<1>4. CASE l \in listeners
  BY <1>4 DEF SubscriptionsFind
<1>5. CASE l = new
  <2>1. s = a.relay
    BY <1>3, <1>5 DEF FiltersOK, ListenersOK
  <2>2. e \in a.searched
    BY <1>3, <1>5, <2>1
  <2>. QED
    BY <1>3, <1>5, <2>2 DEF AnswersOK
<1>. QED
  BY <1>3, <1>4, <1>5

(* An event that is stored now is sent to every listener of its relay it   *)
(* matches; stores lose nothing.                                           *)
LEMMA SubscriptionsStep ==
  ASSUME FiltersOK, ListenersOK, AnswersOK, SubscriptionsFind, [FilterNext]_filterVars
  PROVE  SubscriptionsFind'
<1>1. /\ config \in Configs
      /\ \A x : SubRelayFromFilter(x)' = SubRelayFromFilter(x)
      /\ \A x : SubRelayFromEvent(x)' = SubRelayFromEvent(x)
  BY ConfigStays DEF FiltersOK
<1>2. CASE UNCHANGED <<listeners, stored>> /\ sent \subseteq sent'
  BY <1>1, <1>2 DEF SubscriptionsFind
<1>3. CASE AddListener
  BY <1>3, NewListenerFinds
<1>6. ASSUME NEW e \in Events, Event(e)
      PROVE  SubscriptionsFind'
  <2>. DEFINE r == SubRelayFromEvent(e)
  <2>1. /\ stored' = [stored EXCEPT ![r] = @ \cup {e}]
        /\ sent' = sent \cup {<<l.asked, e>> : l \in {m \in listeners : m.relay = r /\ Matches(m.filter, e)}}
        /\ listeners' = listeners
    BY <1>6 DEF Event, StoreEvent
  <2>. SUFFICES ASSUME NEW l \in listeners, NEW s \in Relays, NEW x \in stored'[s],
                       Matches(l.asked, x), SubRelayFromEvent(x) = SubRelayFromFilter(l.asked),
                       x \notin l.missed
                PROVE  <<l.asked, x>> \in sent'
    BY <1>1, <2>1 DEF SubscriptionsFind
  <2>2. x \in stored[s] \/ x = e
    BY <2>1 DEF FiltersOK
  <2>3. CASE x \in stored[s]
    <3>1. <<l.asked, x>> \in sent
      BY <2>3 DEF SubscriptionsFind
    <3>. QED
      BY <2>1, <3>1
  <2>4. CASE x = e
    <3>1. l.asked \in Filters /\ l.relay = r /\ l.filter = Listened(SubRelayFromFilter(l.asked), l.asked)
      BY <2>4 DEF ListenersOK
    <3>2. Matches(l.filter, e)
      BY <1>1, <2>4, <3>1, ListenedIsAsked
    <3>. QED
      BY <2>1, <2>4, <3>1, <3>2
  <2>. QED
    BY <2>2, <2>3, <2>4
<1>. QED
  BY <1>2, <1>3, <1>6 DEF FilterNext, filterVars, Req, SkipQuery, Reject, Query, NegOpen, Count, Auth

(* The counting relay has all that matches, if all of it is routed there.  *)
LEMMA CountsStep ==
  ASSUME FiltersOK, CountsAreRight, [FilterNext]_filterVars
  PROVE  CountsAreRight'
<1>1. /\ config \in Configs
      /\ \A x : SubRelayFromFilter(x)' = SubRelayFromFilter(x)
      /\ \A x : SubRelayFromEvent(x)' = SubRelayFromEvent(x)
      /\ \A x : SubRelayFromFilter(x) \in Relays
  BY ConfigStays, RoutesLeadToRelays DEF FiltersOK
<1>2. CASE UNCHANGED counted
  BY <1>1, <1>2 DEF CountsAreRight
<1>3. ASSUME NEW f \in Filters, Count(f)
      PROVE  CountsAreRight'
  <2>. DEFINE r == SubRelayFromFilter(f)
              everywhere == {e \in UNION {stored[s] : s \in Relays} : Matches(f, e)}
  <2>1. PICK able : counted' = counted \cup
          {[asked |-> f, able |-> able, total |-> IF able THEN Cardinality(Found(r, f)) ELSE 0,
            there |-> everywhere]}
    BY <1>3 DEF Count
  <2>2. (\A e \in everywhere : SubRelayFromEvent(e) = r) => everywhere = Found(r, f)
    BY <1>1 DEF Found, FiltersOK
  <2>3. ASSUME NEW c \in counted', c.able,
               \A e \in c.there : SubRelayFromEvent(e) = SubRelayFromFilter(c.asked)
        PROVE  c.total = Cardinality(c.there)
    <3>1. CASE c \in counted
      BY <2>3, <3>1 DEF CountsAreRight
    <3>2. CASE c \notin counted
      <4>1. /\ c.asked = f /\ c.there = everywhere
            /\ c.total = IF c.able THEN Cardinality(Found(r, f)) ELSE 0
        BY <2>1, <3>2
      <4>2. everywhere = Found(r, f)
        BY <2>2, <2>3, <4>1
      <4>. QED
        BY <2>3, <4>1, <4>2
    <3>. QED
      BY <3>1, <3>2
  <2>. QED
    BY <1>1, <2>3 DEF CountsAreRight
<1>. QED
  BY <1>2, <1>3 DEF FilterNext, filterVars, Req, SkipQuery, Reject, Query, AddListener, NegOpen, Auth, Event

-----------------------------------------------------------------------------
(* What holds always.  The queries and the listeners are the reason: that  *)
(* each is what its relay made of its filter, and was judged as it is.     *)
FilterInv == FiltersOK /\ ListenersOK /\ AnswersOK /\ QueriesOK /\ SentIsAsked /\ AcceptedIsFound

LEMMA FilterInvAlways == FilterSpec => []FilterInv
<1>1. FilterInit => FilterInv
  <2>. SUFFICES ASSUME FilterInit
                PROVE  ListenersOK /\ AnswersOK /\ QueriesOK /\ SentIsAsked /\ AcceptedIsFound
    BY FiltersInit DEF FilterInv
  <2>. QED
    BY DEF FilterInit, ListenersOK, AnswersOK, QueriesOK, SentIsAsked, AcceptedIsFound
<1>2. FilterInv /\ [FilterNext]_filterVars => FilterInv'
  <2>. SUFFICES ASSUME FilterInv, [FilterNext]_filterVars
                PROVE  FilterInv'
    OBVIOUS
  <2>1. SubscriptionsFind' /\ CountsAreRight'
    BY AcceptedIsFoundParts, SubscriptionsStep, CountsStep DEF FilterInv
  <2>2. AcceptedIsFound'
    BY <2>1 DEF AcceptedIsFound, SubscriptionsFind, CountsAreRight
  <2>. QED
    BY <2>2, FiltersStep, ListenersStep, AnswersStep, QueriesStep, SentStep DEF FilterInv
<1>. QED
  BY <1>1, <1>2, PTL DEF FilterSpec

(* A store has only events that are routed to it and that its policies let *)
(* through (router.go:32-39, handlers.go:208-211, adding.go:25-34).        *)
THEOREM StoresHaveWhatIsTheirs == FilterSpec => []FiltersOK
<1>1. FilterInv => FiltersOK
  BY DEF FilterInv
<1>. QED
  BY <1>1, FilterInvAlways, PTL

(* No store is asked what a policy is there to prevent, whichever policies *)
(* there are and in whatever order (responding.go:15-34,                   *)
(* negentropy.go:24-36).                                                   *)
THEOREM QueriesKeepToPolicies == FilterSpec => []QueriesFitPolicies
<1>1. FilterInv => QueriesFitPolicies
  BY QueriesFit DEF FilterInv
<1>. QED
  BY <1>1, FilterInvAlways, PTL

(* What is sent for a filter was asked for by it, but for tags it lost     *)
(* (handlers.go:316, listener.go:139-146).                                 *)
THEOREM NothingElseIsSent == FilterSpec => []SentIsAsked
<1>1. FilterInv => SentIsAsked
  BY DEF FilterInv
<1>. QED
  BY <1>1, FilterInvAlways, PTL

(* What is accepted is sent to who asks for it, or was missed between the  *)
(* query and the listener, and counted, where events are routed as filters *)
(* are (handlers.go:208-211, 302-317, responding.go:40).                   *)
THEOREM AllThatIsAcceptedIsFound == FilterSpec => []AcceptedIsFound
<1>1. FilterInv => AcceptedIsFound
  BY DEF FilterInv
<1>. QED
  BY <1>1, FilterInvAlways, PTL
=============================================================================
