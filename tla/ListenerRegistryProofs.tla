----------------------- MODULE ListenerRegistryProofs -----------------------
(***************************************************************************)
(* For any number of connections, ids, filters and relays, the two-way     *)
(* index of the listener registry stays right through every swap-deletion, *)
(* the registry implements the table of subscriptions, and a broadcast     *)
(* over the slice under it sends what it should.  Broadcast has the names  *)
(* of its definitions to itself, since both are extended here.             *)
(*                                                                         *)
(* The predicates below take the spec table C, the places `live` of each   *)
(* connection's specs that count, and the listeners L as arguments, so     *)
(* that one lemma about Drop serves both removals.                         *)
(***************************************************************************)
EXTENDS ListenerRegistry, Broadcast, SequenceTheorems, TLAPS

LiveMap == [c \in Conns |-> Live(c)]

Home(C, live, L) ==
  \A c \in Conns : \A s \in live[c] :
    LET spec == C[c][s]
    IN  /\ spec.index \in 0..(Len(L[spec.subrelay]) - 1)
        /\ L[spec.subrelay][spec.index + 1].ws = c
        /\ L[spec.subrelay][spec.index + 1].id = spec.id

Apart(C, live) ==
  \A c \in Conns : \A s, t \in live[c] :
    s # t /\ C[c][s].subrelay = C[c][t].subrelay => C[c][s].index # C[c][t].index

OwnedIn(C, live, r, i) ==
  \E c \in Conns : \E s \in live[c] : C[c][s].subrelay = r /\ C[c][s].index = i - 1

\* A spec that does not count any more cannot be mistaken for the one of a moved listener.
DeadAway(C, live, L) ==
  \A c \in Conns : \A s \in DOMAIN C[c] \ live[c] :
    C[c][s].index = -1 \/ C[c][s].index >= Len(L[C[c][s].subrelay])

\* Listeners without a spec, which Shutdown leaves, come before all the others.
OrphansFirst(C, live, L) ==
  \A r \in Relays : \A i, j \in 1..Len(L[r]) :
    i < j /\ OwnedIn(C, live, r, i) => OwnedIn(C, live, r, j)

Covered(C, live, L, dn) ==
  \A r \in Relays : \A i \in 1..Len(L[r]) : OwnedIn(C, live, r, i) \/ (dn /\ r # Top)

Good(C, live, L, dn) ==
  /\ Home(C, live, L)
  /\ Apart(C, live)
  /\ DeadAway(C, live, L)
  /\ OrphansFirst(C, live, L)
  /\ Covered(C, live, L, dn)

OpInBounds ==
  /\ op \in Close => op.s <= Len(clients[op.ws])
  /\ op \in Leave => op.s >= 1

GoneHaveNoSpecs == \A c \in Conns \ registered : clients[c] = <<>>

(* The inductive invariant.                                                *)
IInv ==
  /\ TypeOK
  /\ OpInBounds
  /\ GoneHaveNoSpecs
  /\ Good(clients, LiveMap, listeners, down)

(* What holds between the two halves of a removal: the spec has been taken *)
(* out or does not count any more, and its listener, at place k of r, is   *)
(* still there.                                                            *)
Hole(C, live, L, dn, r, k) ==
  /\ Home(C, live, L)
  /\ Apart(C, live)
  /\ ~OwnedIn(C, live, r, k)
  /\ \A c \in Conns : \A s \in DOMAIN C[c] \ live[c] :
       \/ C[c][s].index = -1
       \/ C[c][s].index >= Len(L[C[c][s].subrelay])
       \/ C[c][s].subrelay = r /\ k = Len(L[r]) /\ C[c][s].index = k - 1
  /\ \A q \in Relays : \A i, j \in 1..Len(L[q]) :
       i < j /\ OwnedIn(C, live, q, i) => OwnedIn(C, live, q, j) \/ (q = r /\ j = k)
  /\ \A j \in (k + 1)..Len(L[r]) : OwnedIn(C, live, r, j)
  /\ \A q \in Relays : \A i \in 1..Len(L[q]) :
       OwnedIn(C, live, q, i) \/ (dn /\ q # Top) \/ (q = r /\ i = k)

-----------------------------------------------------------------------------
(* Swap-deletion of place i of a sequence leaves a sequence that is one    *)
(* shorter, with the last element at place i (listener.go:74-75).          *)
LEMMA SwapDeleteProperties ==
  ASSUME NEW S, NEW q \in Seq(S), NEW i \in 1..Len(q)
  PROVE  /\ SwapDelete(q, i) \in Seq(S)
         /\ Len(SwapDelete(q, i)) = Len(q) - 1
         /\ DOMAIN SwapDelete(q, i) = 1..(Len(q) - 1)
         /\ \A k \in 1..(Len(q) - 1) :
              SwapDelete(q, i)[k] = IF k = i THEN q[Len(q)] ELSE q[k]
<1> DEFINE n == Len(q) - 1
           d == SwapDelete(q, i)
<1>1. n \in Nat /\ Len(q) \in 1..Len(q)
  BY LenProperties
<1>2. \A k \in 1..n : (IF k = i THEN q[Len(q)] ELSE q[k]) \in S
  BY <1>1, ElementOfSeq
<1>3. d = [k \in 1..n |-> IF k = i THEN q[Len(q)] ELSE q[k]]
  BY DEF SwapDelete
<1>4. d \in [1..n -> S] /\ DOMAIN d = 1..n
  BY <1>2, <1>3
<1>5. d \in Seq(S)
  BY <1>1, <1>4, SeqDef
<1>6. Len(d) = n
  BY <1>1, <1>4, <1>5, LenProperties
<1> QED
  BY <1>3, <1>4, <1>5, <1>6

SpecTable == [Conns -> Seq(listenerSpec)]

LEMMA SpecIsTyped ==
  ASSUME NEW C \in SpecTable, NEW c \in Conns, NEW s \in DOMAIN C[c]
  PROVE  /\ C[c][s] \in listenerSpec
         /\ C[c][s].index \in Int
         /\ C[c][s].subrelay \in Relays
         /\ C[c][s].id \in Ids
<1>1. C[c] \in Seq(listenerSpec) /\ s \in 1..Len(C[c])
  BY LenProperties DEF SpecTable
<1>2. C[c][s] \in listenerSpec
  BY <1>1, ElementOfSeq
<1> QED
  BY <1>2 DEF listenerSpec

LEMMA OwnerOwns ==
  ASSUME NEW C, NEW live, NEW c \in Conns, NEW s \in live[c], C[c][s].index \in Int
  PROVE  OwnedIn(C, live, C[c][s].subrelay, C[c][s].index + 1)
<1>1. C[c][s].index = C[c][s].index + 1 - 1
  OBVIOUS
<1> QED
  BY <1>1 DEF OwnedIn

LEMMA NoPlaceNoElement ==
  ASSUME NEW S, NEW q \in Seq(S), DOMAIN q = {}
  PROVE  q = <<>>
<1>1. Len(q) \in Nat /\ 1..Len(q) = {}
  BY LenProperties
<1>2. Len(q) = 0
  BY <1>1
<1> QED
  BY <1>2, EmptySeq

LEMMA SameDomainSameLength ==
  ASSUME NEW S, NEW p \in Seq(S), NEW q \in Seq(S), DOMAIN p = DOMAIN q
  PROVE  Len(p) = Len(q)
<1>1. Len(p) \in Nat /\ Len(q) \in Nat /\ 1..Len(p) = 1..Len(q)
  BY LenProperties
<1> QED
  BY <1>1

(* A change of one field of one spec changes nothing else of the table.    *)
SetIndex(C, m, t, x) == [C EXCEPT ![m][t].index = x]

IndexIsSet(C, D, m, t, x) ==
  \A c \in Conns :
    /\ Len(D[c]) = Len(C[c])
    /\ DOMAIN D[c] = DOMAIN C[c]
    /\ \A s \in DOMAIN C[c] :
         /\ D[c][s].id = C[c][s].id
         /\ D[c][s].subrelay = C[c][s].subrelay
         /\ D[c][s].index = IF c = m /\ s = t THEN x ELSE C[c][s].index

LEMMA SetIndexProperties ==
  ASSUME NEW C \in SpecTable, NEW m \in Conns, NEW t \in DOMAIN C[m], NEW x \in Int
  PROVE  /\ SetIndex(C, m, t, x) \in SpecTable
         /\ IndexIsSet(C, SetIndex(C, m, t, x), m, t, x)
<1> USE DEF SpecTable
<1> DEFINE e == [C[m][t] EXCEPT !.index = x]
           q == [C[m] EXCEPT ![t] = e]
           D == SetIndex(C, m, t, x)
<1>0. D = [C EXCEPT ![m] = q]
  BY DEF SetIndex
<1> HIDE DEF D
<1>1. C[m] \in Seq(listenerSpec) /\ t \in 1..Len(C[m])
  BY LenProperties
<1>2. C[m][t] \in listenerSpec
  BY <1>1, ElementOfSeq
<1>3. /\ e \in listenerSpec
      /\ e.id = C[m][t].id
      /\ e.subrelay = C[m][t].subrelay
      /\ e.index = x
  BY <1>2 DEF listenerSpec
<1>4. /\ q \in Seq(listenerSpec)
      /\ Len(q) = Len(C[m])
      /\ \A j \in 1..Len(C[m]) : q[j] = IF j = t THEN e ELSE C[m][j]
  BY <1>1, <1>3, ExceptSeq
<1>5. D \in [Conns -> Seq(listenerSpec)]
  BY <1>0, <1>4
<1>6. \A c \in Conns : D[c] = IF c = m THEN q ELSE C[c]
  BY <1>0
<1>7. \A c \in Conns : Len(D[c]) = Len(C[c]) /\ DOMAIN D[c] = DOMAIN C[c]
  <2> SUFFICES ASSUME NEW c \in Conns
               PROVE  Len(D[c]) = Len(C[c]) /\ DOMAIN D[c] = DOMAIN C[c]
    OBVIOUS
  <2>1. D[c] \in Seq(listenerSpec) /\ C[c] \in Seq(listenerSpec)
    BY <1>5
  <2>2. DOMAIN D[c] = 1..Len(D[c]) /\ DOMAIN C[c] = 1..Len(C[c])
    BY <2>1, LenProperties
  <2> QED
    BY <1>4, <1>6, <2>2
<1> HIDE DEF q, e
<1>9. ASSUME NEW c \in Conns, NEW s \in DOMAIN C[c]
      PROVE  /\ D[c][s].id = C[c][s].id
             /\ D[c][s].subrelay = C[c][s].subrelay
             /\ D[c][s].index = IF c = m /\ s = t THEN x ELSE C[c][s].index
  <2>1. CASE c = m /\ s = t
    BY <2>1, <1>1, <1>3, <1>4, <1>6
  <2>2. CASE c = m /\ s # t
    <3>1. s \in 1..Len(C[m])
      BY <2>2, <1>1, LenProperties
    <3> QED
      BY <2>2, <3>1, <1>4, <1>6
  <2>3. CASE c # m
    BY <2>3, <1>6
  <2> QED
    BY <2>1, <2>2, <2>3
<1> QED
  BY <1>5, <1>7, <1>9 DEF D, IndexIsSet

(* The search for the spec of the moved listener finds the one there is.   *)
LEMMA SearchFinds ==
  ASSUME NEW specs \in Seq(listenerSpec), NEW r, NEW index,
         NEW t \in 1..Len(specs),
         specs[t].index = index, specs[t].subrelay = r,
         \A s \in 1..Len(specs) :
           specs[s].index = index /\ specs[s].subrelay = r => s = t
  PROVE  SpecPointingAt(specs, r, index) = t
<1> DEFINE hit(s) == specs[s].index = index /\ specs[s].subrelay = r
           first(s) == hit(s) /\ \A u \in 1..(s - 1) : ~hit(u)
<1>1. DOMAIN specs = 1..Len(specs) /\ Len(specs) \in Nat
  BY LenProperties
<1>2. first(t)
  BY <1>1
<1>3. \A s \in DOMAIN specs : first(s) => s = t
  BY <1>1
<1>4. (CHOOSE s \in DOMAIN specs : first(s)) = t
  BY <1>1, <1>2, <1>3
<1>5. \E s \in DOMAIN specs : hit(s)
  BY <1>1
<1> QED
  BY <1>4, <1>5 DEF SpecPointingAt

(* What Drop does to the listeners L and to the specs C, place by place,   *)
(* when it takes away place k of r.                                        *)
ListenersCut(L, L2, r, k) ==
  /\ Len(L2[r]) = Len(L[r]) - 1
  /\ \A q \in Relays \ {r} : L2[q] = L[q]
  /\ \A i \in 1..(Len(L[r]) - 1) : L2[r][i] = IF i = k THEN L[r][Len(L[r])] ELSE L[r][i]

SpecsMoved(C, C2, live, r, n, k) ==
  \A c \in Conns :
    /\ DOMAIN C2[c] = DOMAIN C[c]
    /\ \A s \in DOMAIN C[c] :
         /\ C2[c][s].id = C[c][s].id
         /\ C2[c][s].subrelay = C[c][s].subrelay
         /\ C2[c][s].index =
              IF s \in live[c] /\ C[c][s].subrelay = r /\ C[c][s].index = n - 1 /\ k # n
              THEN k - 1 ELSE C[c][s].index

LEMMA ListenersCutByDrop ==
  ASSUME NEW L \in [Relays -> Seq(listener)], NEW r \in Relays, NEW k \in 1..Len(L[r])
  PROVE  LET L2 == [L EXCEPT ![r] = SwapDelete(@, k)]
         IN  L2 \in [Relays -> Seq(listener)] /\ ListenersCut(L, L2, r, k)
<1>0. L[r] \in Seq(listener)
  OBVIOUS
<1>1. /\ SwapDelete(L[r], k) \in Seq(listener)
      /\ Len(SwapDelete(L[r], k)) = Len(L[r]) - 1
      /\ \A i \in 1..(Len(L[r]) - 1) :
           SwapDelete(L[r], k)[i] = IF i = k THEN L[r][Len(L[r])] ELSE L[r][i]
  BY <1>0, SwapDeleteProperties
<1> QED
  BY <1>1 DEF ListenersCut

LEMMA SpecsMovedByDrop ==
  ASSUME NEW C \in SpecTable,
         NEW L, NEW live, \A c \in Conns : live[c] \subseteq DOMAIN C[c],
         NEW r \in Relays, NEW n \in Nat \ {0}, n = Len(L[r]), NEW k \in 1..n, k # n,
         Home(C, live, L), Apart(C, live), OwnedIn(C, live, r, n),
         \A c \in Conns : \A s \in DOMAIN C[c] \ live[c] :
           ~(C[c][s].subrelay = r /\ C[c][s].index = n - 1)
  PROVE  LET m == L[r][n].ws
             t == SpecPointingAt(C[m], r, n - 1)
             C2 == SetIndex(C, m, t, k - 1)
         IN  /\ m \in Conns /\ t \in DOMAIN C[m]
             /\ C2 \in SpecTable
             /\ SpecsMoved(C, C2, live, r, n, k)
<1> DEFINE m == L[r][n].ws
           C2(t) == SetIndex(C, m, t, k - 1)
<1>1. PICK d \in Conns : \E t \in live[d] : C[d][t].subrelay = r /\ C[d][t].index = n - 1
  BY DEF OwnedIn
<1>2. PICK t \in live[d] : C[d][t].subrelay = r /\ C[d][t].index = n - 1
  BY <1>1
<1>3. \A c \in Conns : \A s \in DOMAIN C[c] :
        C[c][s].subrelay = r /\ C[c][s].index = n - 1 => c = d /\ s = t /\ d = m
  <2> SUFFICES ASSUME NEW c \in Conns, NEW s \in DOMAIN C[c],
                      C[c][s].subrelay = r, C[c][s].index = n - 1
               PROVE  c = d /\ s = t /\ d = m
    OBVIOUS
  <2>1. s \in live[c]
    OBVIOUS
  <2>2. L[C[c][s].subrelay][C[c][s].index + 1].ws = c
    BY <2>1 DEF Home
  <2>3. L[C[d][t].subrelay][C[d][t].index + 1].ws = d
    BY DEF Home
  <2>4. n - 1 + 1 = n
    OBVIOUS
  <2>5. c = d /\ d = m
    BY <2>2, <2>3, <2>4, <1>2
  <2>6. s = t
    BY <2>1, <2>5, <1>2 DEF Apart
  <2> QED
    BY <2>5, <2>6
<1>4. /\ \A c \in Conns : DOMAIN C[c] = 1..Len(C[c])
      /\ C[d] \in Seq(listenerSpec) /\ t \in DOMAIN C[d] /\ t \in 1..Len(C[d])
  BY <1>2, LenProperties DEF SpecTable
<1>5. m = d
  BY <1>2, <1>3, <1>4
<1>6. SpecPointingAt(C[m], r, n - 1) = t
  BY <1>2, <1>3, <1>4, <1>5, SearchFinds
<1>7. /\ C2(t) \in SpecTable
      /\ \A c \in Conns : DOMAIN C2(t)[c] = DOMAIN C[c]
      /\ \A c \in Conns : \A s \in DOMAIN C[c] :
           /\ C2(t)[c][s].id = C[c][s].id
           /\ C2(t)[c][s].subrelay = C[c][s].subrelay
           /\ C2(t)[c][s].index = IF c = m /\ s = t THEN k - 1 ELSE C[c][s].index
  <2>1. m \in Conns /\ t \in DOMAIN C[m] /\ k - 1 \in Int
    BY <1>4, <1>5
  <2> DEFINE D == C2(t)
  <2>2. D = SetIndex(C, m, t, k - 1)
    OBVIOUS
  <2> HIDE DEF m, D, C2
  <2>4. D \in SpecTable /\ IndexIsSet(C, D, m, t, k - 1)
    BY <2>1, <2>2, SetIndexProperties
  <2> QED
    BY <2>4 DEF D, IndexIsSet
<1>8. SpecsMoved(C, C2(t), live, r, n, k)
  <2> DEFINE D == C2(t)
  <2>1. t \in live[m] /\ C[m][t].subrelay = r /\ C[m][t].index = n - 1
    BY <1>2, <1>5
  <2>2. \A c \in Conns : \A s \in DOMAIN C[c] :
          C[c][s].subrelay = r /\ C[c][s].index = n - 1 => c = m /\ s = t
    BY <1>3, <1>5
  <2>3. /\ \A c \in Conns : DOMAIN D[c] = DOMAIN C[c]
        /\ \A c \in Conns : \A s \in DOMAIN C[c] :
             /\ D[c][s].id = C[c][s].id
             /\ D[c][s].subrelay = C[c][s].subrelay
             /\ D[c][s].index = IF c = m /\ s = t THEN k - 1 ELSE C[c][s].index
    BY <1>7
  <2> HIDE DEF D, C2, m
  <2>4. SpecsMoved(C, D, live, r, n, k)
    <3>1. ASSUME NEW c \in Conns, NEW s \in DOMAIN C[c]
          PROVE  D[c][s].index =
                   IF s \in live[c] /\ C[c][s].subrelay = r /\ C[c][s].index = n - 1 /\ k # n
                   THEN k - 1 ELSE C[c][s].index
      <4>1. CASE C[c][s].subrelay = r /\ C[c][s].index = n - 1
        BY <4>1, <2>1, <2>2, <2>3
      <4>2. CASE ~(C[c][s].subrelay = r /\ C[c][s].index = n - 1)
        BY <4>2, <2>1, <2>3
      <4> QED
        BY <4>1, <4>2
    <3> QED
      BY <3>1, <2>3 DEF SpecsMoved
  <2> QED
    BY <2>4 DEF D
<1> QED
  BY <1>4, <1>5, <1>6, <1>7, <1>8

(* No live spec pointed at the place dropped, so each still points home.   *)
LEMMA HomeAfterDrop ==
  ASSUME NEW C, NEW C2, NEW L, NEW L2, NEW live,
         \A c \in Conns : \A s \in live[c] : s \in DOMAIN C[c] /\ C[c][s].subrelay \in Relays,
         \A q \in Relays : Len(L[q]) \in Nat,
         NEW r \in Relays, NEW n \in Nat \ {0}, n = Len(L[r]), NEW k \in 1..n,
         ListenersCut(L, L2, r, k), SpecsMoved(C, C2, live, r, n, k),
         Home(C, live, L), ~OwnedIn(C, live, r, k)
  PROVE  Home(C2, live, L2)
<1> SUFFICES ASSUME NEW c \in Conns, NEW s \in live[c]
             PROVE  /\ C2[c][s].index \in 0..(Len(L2[C2[c][s].subrelay]) - 1)
                    /\ L2[C2[c][s].subrelay][C2[c][s].index + 1].ws = c
                    /\ L2[C2[c][s].subrelay][C2[c][s].index + 1].id = C2[c][s].id
  BY DEF Home
<1>1. PICK q \in Relays : q = C[c][s].subrelay
  OBVIOUS
<1>2. PICK x \in 0..(Len(L[q]) - 1) : x = C[c][s].index
  BY <1>1 DEF Home
<1>3. L[q][x + 1].ws = c /\ L[q][x + 1].id = C[c][s].id
  BY <1>1, <1>2 DEF Home
<1>4. ~(q = r /\ x = k - 1)
  BY <1>1, <1>2 DEF OwnedIn
<1>5. /\ C2[c][s].subrelay = q
      /\ C2[c][s].id = C[c][s].id
      /\ C2[c][s].index = IF q = r /\ x = n - 1 /\ k # n THEN k - 1 ELSE x
  BY <1>1, <1>2 DEF SpecsMoved
<1>6. CASE q # r
  <2>1. C2[c][s].index = x /\ L2[q] = L[q]
    BY <1>6, <1>5 DEF ListenersCut
  <2> QED
    BY <2>1, <1>3, <1>5
<1>7. CASE q = r /\ x # n - 1
  <2>1. C2[c][s].index = x /\ x \in 0..(n - 2) /\ x + 1 \in 1..(n - 1) /\ x + 1 # k
    BY <1>7, <1>4, <1>5
  <2>2. L2[r][x + 1] = L[r][x + 1] /\ Len(L2[r]) = n - 1
    BY <2>1 DEF ListenersCut
  <2> QED
    BY <1>7, <2>1, <2>2, <1>3, <1>5
<1>8. CASE q = r /\ x = n - 1
  <2>1. k # n /\ k \in 1..(n - 1) /\ C2[c][s].index = k - 1
    BY <1>8, <1>4, <1>5
  <2>2. L2[r][k] = L[r][n] /\ Len(L2[r]) = n - 1
    BY <2>1 DEF ListenersCut
  <2>3. k - 1 + 1 = k /\ x + 1 = n /\ k - 1 \in 0..(n - 2)
    BY <1>8, <2>1
  <2> QED
    BY <1>8, <2>1, <2>2, <2>3, <1>3, <1>5
<1> QED
  BY <1>6, <1>7, <1>8

LEMMA ApartAfterDrop ==
  ASSUME NEW C, NEW C2, NEW live, NEW r, NEW n \in Nat \ {0}, NEW k \in 1..n,
         \A c \in Conns : \A s \in live[c] : s \in DOMAIN C[c] /\ C[c][s].index \in Int,
         SpecsMoved(C, C2, live, r, n, k), Apart(C, live), ~OwnedIn(C, live, r, k)
  PROVE  Apart(C2, live)
<1> SUFFICES ASSUME NEW c \in Conns, NEW s \in live[c], NEW t \in live[c],
                    s # t, C2[c][s].subrelay = C2[c][t].subrelay
             PROVE  C2[c][s].index # C2[c][t].index
  BY DEF Apart
<1>1. C[c][s].subrelay = C[c][t].subrelay
  BY DEF SpecsMoved
<1>2. C[c][s].index # C[c][t].index
  BY <1>1 DEF Apart
<1>3. /\ ~(C[c][s].subrelay = r /\ C[c][s].index = k - 1)
      /\ ~(C[c][t].subrelay = r /\ C[c][t].index = k - 1)
  BY DEF OwnedIn
<1>4. \A u \in {s, t} :
        C2[c][u].index = IF C[c][u].subrelay = r /\ C[c][u].index = n - 1 /\ k # n
                         THEN k - 1 ELSE C[c][u].index
  BY DEF SpecsMoved
<1> QED
  BY <1>1, <1>2, <1>3, <1>4

(* The place dropped belongs now to whoever owned the last place; all the  *)
(* others belong to whom they belonged.                                    *)
LEMMA OwnersAfterDrop ==
  ASSUME NEW C, NEW C2, NEW live, NEW r, NEW n \in Nat \ {0}, NEW k \in 1..n,
         \A c \in Conns : \A s \in live[c] : s \in DOMAIN C[c] /\ C[c][s].index \in Int,
         SpecsMoved(C, C2, live, r, n, k), ~OwnedIn(C, live, r, k)
  PROVE  /\ \A q \in Relays \ {r} : \A i \in Int :
              OwnedIn(C2, live, q, i) <=> OwnedIn(C, live, q, i)
         /\ \A i \in 1..(n - 1) :
              OwnedIn(C2, live, r, i) <=> OwnedIn(C, live, r, IF i = k THEN n ELSE i)
<1>1. ASSUME NEW q \in Relays \ {r}, NEW i \in Int
      PROVE  OwnedIn(C2, live, q, i) <=> OwnedIn(C, live, q, i)
  <2>1. ASSUME NEW c \in Conns, NEW s \in live[c]
        PROVE  C2[c][s].subrelay = q /\ C2[c][s].index = i - 1
                 <=> C[c][s].subrelay = q /\ C[c][s].index = i - 1
    BY DEF SpecsMoved
  <2> QED
    BY <2>1 DEF OwnedIn
<1>2. ASSUME NEW c \in Conns, NEW s \in live[c]
      PROVE  /\ C2[c][s].subrelay = C[c][s].subrelay
             /\ ~(C[c][s].subrelay = r /\ C[c][s].index = k - 1)
             /\ C[c][s].index \in Int
             /\ C2[c][s].index = IF C[c][s].subrelay = r /\ C[c][s].index = n - 1 /\ k # n
                                 THEN k - 1 ELSE C[c][s].index
  BY DEF SpecsMoved, OwnedIn
<1>3. ASSUME NEW i \in 1..(n - 1), NEW c \in Conns, NEW s \in live[c]
      PROVE  C2[c][s].subrelay = r /\ C2[c][s].index = i - 1
               <=> C[c][s].subrelay = r /\ C[c][s].index = (IF i = k THEN n ELSE i) - 1
  BY <1>2, <1>3
<1>4. ASSUME NEW i \in 1..(n - 1)
      PROVE  OwnedIn(C2, live, r, i) <=> OwnedIn(C, live, r, IF i = k THEN n ELSE i)
  <2> DEFINE j == IF i = k THEN n ELSE i
  <2>1. \A c \in Conns : \A s \in live[c] :
          C2[c][s].subrelay = r /\ C2[c][s].index = i - 1
            <=> C[c][s].subrelay = r /\ C[c][s].index = j - 1
    BY <1>3
  <2> HIDE DEF j
  <2>2. OwnedIn(C2, live, r, i) <=> OwnedIn(C, live, r, j)
    BY <2>1 DEF OwnedIn
  <2> QED
    BY <2>2 DEF j
<1> QED
  BY <1>1, <1>4

-----------------------------------------------------------------------------
(* The second half of a removal (listener.go:81-95, 111-129).              *)
DropListeners(L, r, index) == [L EXCEPT ![r] = SwapDelete(@, index + 1)]

DropSpecs(C, L, r, index) ==
  IF index = Len(L[r]) - 1
    THEN C
    ELSE SetIndex(C, L[r][Len(L[r])].ws,
                  SpecPointingAt(C[L[r][Len(L[r])].ws], r, Len(L[r]) - 1), index)

LEMMA DropIs ==
  ASSUME NEW STATE specs, NEW STATE r, NEW STATE index,
         Drop(specs, r, index), Len(listeners[r]) \in Nat
  PROVE  /\ listeners' = DropListeners(listeners, r, index)
         /\ clients' = DropSpecs(specs, listeners, r, index)
<1>1. Len(listeners[r]) - 1 + 1 = Len(listeners[r])
  OBVIOUS
<1> QED
  BY <1>1 DEF Drop, DropListeners, DropSpecs, SetIndex, ListenerAt, LastIndex

LEMMA HoleIsCut ==
  ASSUME NEW C \in SpecTable, NEW L \in [Relays -> Seq(listener)],
         NEW live, \A c \in Conns : live[c] \subseteq DOMAIN C[c],
         NEW dn, NEW r \in Relays, NEW k \in 1..Len(L[r]), Hole(C, live, L, dn, r, k)
  PROVE  LET L2 == DropListeners(L, r, k - 1)
             C2 == DropSpecs(C, L, r, k - 1)
         IN  /\ L2 \in [Relays -> Seq(listener)]
             /\ ListenersCut(L, L2, r, k)
             /\ C2 \in SpecTable
             /\ SpecsMoved(C, C2, live, r, Len(L[r]), k)
<1> DEFINE n == Len(L[r])
           L2 == DropListeners(L, r, k - 1)
           C2 == DropSpecs(C, L, r, k - 1)
<1>1. /\ \A q \in Relays : Len(L[q]) \in Nat
      /\ n \in Nat \ {0} /\ k \in 1..n /\ k - 1 + 1 = k
  BY LenProperties
<1>2. L2 \in [Relays -> Seq(listener)] /\ ListenersCut(L, L2, r, k)
  BY <1>1, ListenersCutByDrop DEF DropListeners
<1>3. C2 \in SpecTable /\ SpecsMoved(C, C2, live, r, n, k)
  <2>1. CASE k = n
    BY <2>1 DEF DropSpecs, SpecsMoved
  <2>2. CASE k # n
    <3>1. Home(C, live, L) /\ Apart(C, live) /\ OwnedIn(C, live, r, n)
      <4>1. n \in (k + 1)..n
        BY <2>2, <1>1
      <4> QED
        BY <4>1 DEF Hole
    <3>2. \A c \in Conns : \A s \in DOMAIN C[c] \ live[c] :
            ~(C[c][s].subrelay = r /\ C[c][s].index = n - 1)
      BY <2>2, <1>1 DEF Hole
    <3>3. C2 = SetIndex(C, L[r][n].ws, SpecPointingAt(C[L[r][n].ws], r, n - 1), k - 1)
      BY <2>2, <1>1 DEF DropSpecs
    <3> HIDE DEF C2
    <3> QED
      BY <3>1, <3>2, <3>3, <2>2, <1>1, SpecsMovedByDrop
  <2> QED
    BY <2>1, <2>2
<1> QED
  BY <1>2, <1>3

LEMMA HoleIsFilled ==
  ASSUME NEW C \in SpecTable, NEW L \in [Relays -> Seq(listener)],
         NEW live, \A c \in Conns : live[c] \subseteq DOMAIN C[c],
         NEW dn, NEW r \in Relays, NEW k \in 1..Len(L[r]), Hole(C, live, L, dn, r, k)
  PROVE  LET L2 == DropListeners(L, r, k - 1)
             C2 == DropSpecs(C, L, r, k - 1)
         IN  /\ L2 \in [Relays -> Seq(listener)]
             /\ C2 \in SpecTable
             /\ \A c \in Conns : DOMAIN C2[c] = DOMAIN C[c]
             /\ Good(C2, live, L2, dn)
<1> DEFINE n == Len(L[r])
           L2 == DropListeners(L, r, k - 1)
           C2 == DropSpecs(C, L, r, k - 1)
<1>1. /\ \A q \in Relays : Len(L[q]) \in Nat
      /\ n \in Nat \ {0} /\ k \in 1..n /\ k - 1 + 1 = k
  BY LenProperties
<1>2. L2 \in [Relays -> Seq(listener)] /\ ListenersCut(L, L2, r, k)
  BY HoleIsCut
<1>3. C2 \in SpecTable /\ SpecsMoved(C, C2, live, r, n, k)
  BY HoleIsCut
<1>4. \A c \in Conns : \A s \in live[c] :
        s \in DOMAIN C[c] /\ C[c][s].subrelay \in Relays /\ C[c][s].index \in Int
  <2> SUFFICES ASSUME NEW c \in Conns, NEW s \in live[c]
               PROVE  s \in DOMAIN C[c] /\ C[c][s].subrelay \in Relays /\ C[c][s].index \in Int
    OBVIOUS
  <2> QED
    BY SpecIsTyped
<1>5. Home(C, live, L) /\ Apart(C, live) /\ ~OwnedIn(C, live, r, k)
  BY DEF Hole
<1> HIDE DEF L2, C2
<1>6. Home(C2, live, L2)
  BY <1>1, <1>2, <1>3, <1>4, <1>5, HomeAfterDrop
<1>7. Apart(C2, live)
  BY <1>1, <1>3, <1>4, <1>5, ApartAfterDrop
<1>8. /\ \A q \in Relays \ {r} : \A i \in Int :
           OwnedIn(C2, live, q, i) <=> OwnedIn(C, live, q, i)
      /\ \A i \in 1..(n - 1) :
           OwnedIn(C2, live, r, i) <=> OwnedIn(C, live, r, IF i = k THEN n ELSE i)
  BY <1>1, <1>3, <1>4, <1>5, OwnersAfterDrop
<1>9. DeadAway(C2, live, L2)
  <2> SUFFICES ASSUME NEW c \in Conns, NEW s \in DOMAIN C2[c] \ live[c]
               PROVE  C2[c][s].index = -1 \/ C2[c][s].index >= Len(L2[C2[c][s].subrelay])
    BY DEF DeadAway
  <2>1. /\ s \in DOMAIN C[c] \ live[c]
        /\ C2[c][s].index = C[c][s].index
        /\ C2[c][s].subrelay = C[c][s].subrelay
    BY <1>3 DEF SpecsMoved
  <2>2. PICK q \in Relays : q = C[c][s].subrelay
    BY <2>1, SpecIsTyped
  <2>3. PICK x : x = C[c][s].index
    OBVIOUS
  <2>4. x = -1 \/ x >= Len(L[q]) \/ (q = r /\ k = n /\ x = k - 1)
    BY <2>1, <2>2, <2>3 DEF Hole
  <2>5. Len(L2[q]) = IF q = r THEN n - 1 ELSE Len(L[q])
    BY <1>2 DEF ListenersCut
  <2>6. x \in Int
    BY <2>1, <2>3, SpecIsTyped
  <2>7. x = -1 \/ x >= Len(L2[q])
    BY <2>4, <2>5, <2>6, <1>1
  <2> QED
    BY <2>1, <2>2, <2>3, <2>7
<1>10. OrphansFirst(C2, live, L2)
  <2> SUFFICES ASSUME NEW q \in Relays, NEW i \in 1..Len(L2[q]), NEW j \in 1..Len(L2[q]),
                      i < j, OwnedIn(C2, live, q, i)
               PROVE  OwnedIn(C2, live, q, j)
    BY DEF OrphansFirst
  <2>1. CASE q # r
    <3>1. L2[q] = L[q] /\ OwnedIn(C, live, q, i)
      BY <2>1, <1>2, <1>8 DEF ListenersCut
    <3>2. OwnedIn(C, live, q, j)
      BY <2>1, <3>1 DEF Hole
    <3> QED
      BY <2>1, <3>2, <1>8
  <2>2. CASE q = r
    <3>1. i \in 1..(n - 1) /\ j \in 1..(n - 1) /\ Len(L[q]) = n
      BY <2>2, <1>2 DEF ListenersCut
    <3>2. CASE j = k
      <4>1. n \in (k + 1)..n
        BY <3>1, <3>2, <1>1
      <4>2. OwnedIn(C, live, r, n)
        BY <4>1 DEF Hole
      <4> QED
        BY <3>1, <3>2, <4>2, <2>2, <1>8
    <3>3. CASE j # k /\ j > k
      <4>1. j \in (k + 1)..n
        BY <3>1, <3>3, <1>1
      <4>2. OwnedIn(C, live, r, j)
        BY <4>1 DEF Hole
      <4> QED
        BY <3>1, <3>3, <4>2, <2>2, <1>8
    <3>4. CASE j < k
      <4>1. i # k /\ j # k /\ i \in 1..n /\ j \in 1..n
        BY <3>1, <3>4, <1>1
      <4>2. OwnedIn(C, live, r, i)
        BY <3>1, <4>1, <2>2, <1>8
      <4>3. OwnedIn(C, live, r, j)
        BY <4>1, <4>2 DEF Hole
      <4> QED
        BY <3>1, <4>1, <4>3, <2>2, <1>8
    <3> QED
      BY <3>1, <3>2, <3>3, <3>4, <1>1
  <2> QED
    BY <2>1, <2>2
<1>11. Covered(C2, live, L2, dn)
  <2> SUFFICES ASSUME NEW q \in Relays, NEW i \in 1..Len(L2[q]), ~(dn /\ q # Top)
               PROVE  OwnedIn(C2, live, q, i)
    BY DEF Covered
  <2>1. CASE q # r
    <3>1. L2[q] = L[q]
      BY <2>1, <1>2 DEF ListenersCut
    <3>2. OwnedIn(C, live, q, i)
      BY <2>1, <3>1 DEF Hole
    <3> QED
      BY <2>1, <3>2, <1>8
  <2>2. CASE q = r
    <3> DEFINE j == IF i = k THEN n ELSE i
    <3>1. i \in 1..(n - 1)
      BY <2>2, <1>2 DEF ListenersCut
    <3>2. j \in 1..n /\ j # k
      BY <3>1, <1>1
    <3> HIDE DEF j
    <3>3. OwnedIn(C, live, r, j)
      BY <2>2, <3>2 DEF Hole
    <3> QED
      BY <2>2, <3>1, <3>3, <1>8 DEF j
  <2> QED
    BY <2>1, <2>2
<1> QED
  BY <1>2, <1>3, <1>6, <1>7, <1>9, <1>10, <1>11 DEF Good, SpecsMoved, L2, C2

-----------------------------------------------------------------------------
(* The first half of a removal: the spec at place s of c goes              *)
(* (listener.go:72-76, 106-118).                                           *)
All(C) == [c \in Conns |-> DOMAIN C[c]]

LEMMA CloseMakesHole ==
  ASSUME NEW C \in SpecTable, NEW L \in [Relays -> Seq(listener)], NEW dn,
         Good(C, All(C), L, dn),
         NEW c \in Conns, NEW s \in DOMAIN C[c],
         NEW D, D = [C EXCEPT ![c] = SwapDelete(@, s)]
  PROVE  /\ D \in SpecTable
         /\ C[c][s].index + 1 \in 1..Len(L[C[c][s].subrelay])
         /\ Hole(D, All(D), L, dn, C[c][s].subrelay, C[c][s].index + 1)
<1> DEFINE r == C[c][s].subrelay
           x == C[c][s].index
           from(d, t) == IF d = c /\ t = s THEN Len(C[c]) ELSE t
<1>1. /\ C[c] \in Seq(listenerSpec)
      /\ \A d \in Conns : C[d] \in Seq(listenerSpec) /\ DOMAIN C[d] = 1..Len(C[d]) /\ Len(C[d]) \in Nat
      /\ s \in 1..Len(C[c])
  BY LenProperties DEF SpecTable
<1>2. /\ SwapDelete(C[c], s) \in Seq(listenerSpec)
      /\ DOMAIN SwapDelete(C[c], s) = 1..(Len(C[c]) - 1)
      /\ \A t \in 1..(Len(C[c]) - 1) : SwapDelete(C[c], s)[t] = IF t = s THEN C[c][Len(C[c])] ELSE C[c][t]
  BY <1>1, SwapDeleteProperties
<1>3. D \in SpecTable
  BY <1>2 DEF SpecTable
<1>4. /\ DOMAIN D[c] = 1..(Len(C[c]) - 1)
      /\ \A t \in DOMAIN D[c] : D[c][t] = C[c][from(c, t)]
      /\ \A d \in Conns \ {c} : D[d] = C[d]
  BY <1>2 DEF SpecTable
<1>5. \A d \in Conns : \A t \in DOMAIN D[d] :
        from(d, t) \in DOMAIN C[d] /\ D[d][t] = C[d][from(d, t)] /\ (d = c => from(d, t) # s)
  BY <1>1, <1>4
<1>6. \A d \in Conns : \A t \in DOMAIN C[d] :
        ~(d = c /\ t = s) => \E u \in DOMAIN D[d] : from(d, u) = t
  <2> SUFFICES ASSUME NEW d \in Conns, NEW t \in DOMAIN C[d], ~(d = c /\ t = s)
               PROVE  \E u \in DOMAIN D[d] : from(d, u) = t
    OBVIOUS
  <2>1. CASE d # c
    BY <2>1, <1>4
  <2>2. CASE d = c /\ t = Len(C[c])
    <3>1. s \in DOMAIN D[d] /\ from(d, s) = t
      BY <2>2, <1>1, <1>4
    <3> QED
      BY <3>1
  <2>3. CASE d = c /\ t # Len(C[c])
    <3>1. t \in DOMAIN D[d] /\ from(d, t) = t
      BY <2>3, <1>1, <1>4
    <3> QED
      BY <3>1
  <2> QED
    BY <2>1, <2>2, <2>3
<1>7. \A d \in Conns : \A t, u \in DOMAIN D[d] : t # u => from(d, t) # from(d, u)
  BY <1>1, <1>4
<1> HIDE DEF from
<1>8. /\ Home(C, All(C), L) /\ Apart(C, All(C))
      /\ OrphansFirst(C, All(C), L) /\ Covered(C, All(C), L, dn)
  BY DEF Good
<1>9. r \in Relays /\ x \in 0..(Len(L[r]) - 1) /\ x + 1 \in 1..Len(L[r]) /\ L[r][x + 1].ws = c
  <2>1. s \in All(C)[c]
    BY DEF All
  <2>2. /\ C[c][s].index \in 0..(Len(L[C[c][s].subrelay]) - 1)
        /\ L[C[c][s].subrelay][C[c][s].index + 1].ws = c
    BY <2>1, <1>8 DEF Home
  <2>3. r \in Relays /\ x \in Int
    BY SpecIsTyped
  <2>4. Len(L[r]) \in Nat
    BY <2>3, LenProperties
  <2> QED
    BY <2>2, <2>3, <2>4
<1>10. Home(D, All(D), L)
  <2> SUFFICES ASSUME NEW d \in Conns, NEW t \in DOMAIN D[d]
               PROVE  /\ D[d][t].index \in 0..(Len(L[D[d][t].subrelay]) - 1)
                      /\ L[D[d][t].subrelay][D[d][t].index + 1].ws = d
                      /\ L[D[d][t].subrelay][D[d][t].index + 1].id = D[d][t].id
    BY DEF Home, All
  <2>1. PICK u \in DOMAIN C[d] : D[d][t] = C[d][u]
    BY <1>5
  <2>2. u \in All(C)[d]
    BY DEF All
  <2>3. /\ C[d][u].index \in 0..(Len(L[C[d][u].subrelay]) - 1)
        /\ L[C[d][u].subrelay][C[d][u].index + 1].ws = d
        /\ L[C[d][u].subrelay][C[d][u].index + 1].id = C[d][u].id
    BY <2>2, <1>8 DEF Home
  <2> QED
    BY <2>1, <2>3
<1>11. Apart(D, All(D))
  <2> SUFFICES ASSUME NEW d \in Conns, NEW t \in DOMAIN D[d], NEW u \in DOMAIN D[d],
                      t # u, D[d][t].subrelay = D[d][u].subrelay
               PROVE  D[d][t].index # D[d][u].index
    BY DEF Apart, All
  <2>1. /\ from(d, t) \in All(C)[d] /\ from(d, u) \in All(C)[d] /\ from(d, t) # from(d, u)
        /\ D[d][t] = C[d][from(d, t)] /\ D[d][u] = C[d][from(d, u)]
    BY <1>5, <1>7 DEF All
  <2> QED
    BY <2>1, <1>8 DEF Apart
<1>12. ~OwnedIn(D, All(D), r, x + 1)
  <2> SUFFICES ASSUME NEW d \in Conns, NEW t \in DOMAIN D[d],
                      D[d][t].subrelay = r, D[d][t].index = x
               PROVE  FALSE
    BY <1>9 DEF OwnedIn, All
  <2>1. PICK u : u = from(d, t)
    OBVIOUS
  <2>2. /\ u \in All(C)[d] /\ s \in All(C)[c] /\ (d = c => u # s)
        /\ C[d][u].subrelay = r /\ C[d][u].index = x
    BY <2>1, <1>5 DEF All
  <2>3. L[C[d][u].subrelay][C[d][u].index + 1].ws = d
    BY <2>2, <1>8 DEF Home
  <2>4. d = c
    BY <2>2, <2>3, <1>9
  <2> QED
    BY <2>2, <2>4, <1>8 DEF Apart
<1>13. \A q \in Relays : \A i \in 1..Len(L[q]) :
         ~(q = r /\ i = x + 1) => (OwnedIn(D, All(D), q, i) <=> OwnedIn(C, All(C), q, i))
  <2> SUFFICES ASSUME NEW q \in Relays, NEW i \in 1..Len(L[q]), ~(q = r /\ i = x + 1)
               PROVE  OwnedIn(D, All(D), q, i) <=> OwnedIn(C, All(C), q, i)
    OBVIOUS
  <2>1. ASSUME OwnedIn(D, All(D), q, i)
        PROVE  OwnedIn(C, All(C), q, i)
    <3>1. PICK d \in Conns : \E t \in DOMAIN D[d] : D[d][t].subrelay = q /\ D[d][t].index = i - 1
      BY <2>1 DEF OwnedIn, All
    <3>2. PICK t \in DOMAIN D[d] : D[d][t].subrelay = q /\ D[d][t].index = i - 1
      BY <3>1
    <3>3. from(d, t) \in DOMAIN C[d] /\ C[d][from(d, t)] = D[d][t]
      BY <1>5
    <3> QED
      BY <3>2, <3>3 DEF OwnedIn, All
  <2>2. ASSUME OwnedIn(C, All(C), q, i)
        PROVE  OwnedIn(D, All(D), q, i)
    <3>1. PICK d \in Conns : \E t \in DOMAIN C[d] : C[d][t].subrelay = q /\ C[d][t].index = i - 1
      BY <2>2 DEF OwnedIn, All
    <3>2. PICK t \in DOMAIN C[d] : C[d][t].subrelay = q /\ C[d][t].index = i - 1
      BY <3>1
    <3>3. ~(d = c /\ t = s)
      BY <3>2, <1>9
    <3>4. PICK u \in DOMAIN D[d] : from(d, u) = t
      BY <3>3, <1>6
    <3>5. D[d][u] = C[d][t]
      BY <3>4, <1>5
    <3> QED
      BY <3>2, <3>4, <3>5 DEF OwnedIn, All
  <2> QED
    BY <2>1, <2>2
<1>14. OwnedIn(C, All(C), r, x + 1)
  <2>1. s \in All(C)[c] /\ C[c][s].index \in Int
    BY <1>9 DEF All
  <2> QED
    BY <2>1, OwnerOwns
<1>15. \A d \in Conns : DOMAIN D[d] \ All(D)[d] = {}
  BY DEF All
<1>16. \A q \in Relays : \A i, j \in 1..Len(L[q]) :
         i < j /\ OwnedIn(D, All(D), q, i) => OwnedIn(D, All(D), q, j) \/ (q = r /\ j = x + 1)
  <2> SUFFICES ASSUME NEW q \in Relays, NEW i \in 1..Len(L[q]), NEW j \in 1..Len(L[q]),
                      i < j, OwnedIn(D, All(D), q, i), ~(q = r /\ j = x + 1)
               PROVE  OwnedIn(D, All(D), q, j)
    OBVIOUS
  <2>1. OwnedIn(C, All(C), q, i)
    BY <1>12, <1>13
  <2>2. OwnedIn(C, All(C), q, j)
    BY <2>1, <1>8 DEF OrphansFirst
  <2> QED
    BY <2>2, <1>13
<1>17. \A j \in (x + 1 + 1)..Len(L[r]) : OwnedIn(D, All(D), r, j)
  <2> SUFFICES ASSUME NEW j \in (x + 1 + 1)..Len(L[r])
               PROVE  OwnedIn(D, All(D), r, j)
    OBVIOUS
  <2>1. j \in 1..Len(L[r]) /\ x + 1 < j /\ j # x + 1
    BY <1>9
  <2>2. OwnedIn(C, All(C), r, j)
    BY <2>1, <1>8, <1>9, <1>14 DEF OrphansFirst
  <2> QED
    BY <2>1, <2>2, <1>9, <1>13
<1>18. \A q \in Relays : \A i \in 1..Len(L[q]) :
         OwnedIn(D, All(D), q, i) \/ (dn /\ q # Top) \/ (q = r /\ i = x + 1)
  BY <1>8, <1>13 DEF Covered
<1> QED
  BY <1>3, <1>9, <1>10, <1>11, <1>12, <1>15, <1>16, <1>17, <1>18 DEF Hole

\* What a disconnection's iteration does to the places that count and to the spec it drops.
Within(live, C) == \A d \in Conns : live[d] \subseteq DOMAIN C[d]
Without(live, live2, c, s) == \A d \in Conns : live2[d] = {t \in live[d] : ~(d = c /\ t = s)}
Marked(C, L, c, s) ==
  IF C[c][s].index = Len(L[C[c][s].subrelay]) - 1 THEN C ELSE SetIndex(C, c, s, -1)

LEMMA LeaveMakesHole ==
  ASSUME NEW C \in SpecTable, NEW L \in [Relays -> Seq(listener)], NEW dn,
         NEW live, Within(live, C),
         Good(C, live, L, dn),
         NEW c \in Conns, NEW s \in live[c],
         NEW live2, Without(live, live2, c, s),
         NEW D, D = Marked(C, L, c, s)
  PROVE  /\ D \in SpecTable
         /\ \A d \in Conns : DOMAIN D[d] = DOMAIN C[d]
         /\ C[c][s].index + 1 \in 1..Len(L[C[c][s].subrelay])
         /\ Hole(D, live2, L, dn, C[c][s].subrelay, C[c][s].index + 1)
<1> USE DEF Within, Without, Marked
<1> DEFINE r == C[c][s].subrelay
           x == C[c][s].index
<1>1. /\ Home(C, live, L) /\ Apart(C, live) /\ DeadAway(C, live, L)
      /\ OrphansFirst(C, live, L) /\ Covered(C, live, L, dn)
  BY DEF Good
<1>2. /\ r \in Relays /\ x \in 0..(Len(L[r]) - 1) /\ x + 1 \in 1..Len(L[r])
      /\ L[r][x + 1].ws = c /\ Len(L[r]) \in Nat
  <2>1. x \in 0..(Len(L[r]) - 1) /\ L[r][x + 1].ws = c
    BY <1>1 DEF Home
  <2>2. r \in Relays /\ x \in Int
    BY SpecIsTyped
  <2>3. Len(L[r]) \in Nat
    BY <2>2, LenProperties
  <2> HIDE DEF r, x, Within, Without, Marked
  <2>4. x + 1 \in 1..Len(L[r])
    BY <2>1, <2>2, <2>3
  <2> QED
    BY <2>1, <2>2, <2>3, <2>4
<1>3. /\ D \in SpecTable
      /\ \A d \in Conns : DOMAIN D[d] = DOMAIN C[d]
      /\ \A d \in Conns : \A t \in DOMAIN C[d] :
           /\ D[d][t].subrelay = C[d][t].subrelay
           /\ ~(d = c /\ t = s) => /\ D[d][t].index = C[d][t].index
                                   /\ D[d][t].id = C[d][t].id
      /\ D[c][s].index = IF x = Len(L[r]) - 1 THEN x ELSE -1
  <2>1. CASE x = Len(L[r]) - 1
    BY <2>1
  <2>2. CASE x # Len(L[r]) - 1
    <3>1. D = SetIndex(C, c, s, -1) /\ -1 \in Int /\ s \in DOMAIN C[c]
      BY <2>2
    <3>2. D \in SpecTable /\ IndexIsSet(C, D, c, s, -1)
      BY <3>1, SetIndexProperties
    <3> QED
      BY <2>2, <3>1, <3>2 DEF IndexIsSet
  <2> QED
    BY <2>1, <2>2
<1>4. \A d \in Conns : \A t \in live2[d] :
        /\ t \in live[d] /\ ~(d = c /\ t = s)
        /\ D[d][t].subrelay = C[d][t].subrelay
        /\ D[d][t].index = C[d][t].index
        /\ D[d][t].id = C[d][t].id
  BY <1>3
<1>5. \A d \in Conns : \A t \in live[d] : ~(d = c /\ t = s) => t \in live2[d]
  OBVIOUS
<1>6. Home(D, live2, L)
  <2> SUFFICES ASSUME NEW d \in Conns, NEW t \in live2[d]
               PROVE  /\ D[d][t].index \in 0..(Len(L[D[d][t].subrelay]) - 1)
                      /\ L[D[d][t].subrelay][D[d][t].index + 1].ws = d
                      /\ L[D[d][t].subrelay][D[d][t].index + 1].id = D[d][t].id
    BY DEF Home
  <2>1. /\ C[d][t].index \in 0..(Len(L[C[d][t].subrelay]) - 1)
        /\ L[C[d][t].subrelay][C[d][t].index + 1].ws = d
        /\ L[C[d][t].subrelay][C[d][t].index + 1].id = C[d][t].id
    BY <1>1, <1>4 DEF Home
  <2> QED
    BY <2>1, <1>4
<1>7. Apart(D, live2)
  BY <1>1, <1>4 DEF Apart
<1>8. ~OwnedIn(D, live2, r, x + 1)
  <2> SUFFICES ASSUME NEW d \in Conns, NEW t \in live2[d],
                      D[d][t].subrelay = r, D[d][t].index = x
               PROVE  FALSE
    BY <1>2 DEF OwnedIn
  <2>1. t \in live[d] /\ C[d][t].subrelay = r /\ C[d][t].index = x /\ ~(d = c /\ t = s)
    BY <1>4
  <2>2. L[C[d][t].subrelay][C[d][t].index + 1].ws = d
    BY <2>1, <1>1 DEF Home
  <2>3. d = c
    BY <2>1, <2>2, <1>2
  <2> QED
    BY <2>1, <2>3, <1>1 DEF Apart
<1>9. \A q \in Relays : \A i \in 1..Len(L[q]) :
        ~(q = r /\ i = x + 1) => (OwnedIn(D, live2, q, i) <=> OwnedIn(C, live, q, i))
  <2> SUFFICES ASSUME NEW q \in Relays, NEW i \in 1..Len(L[q]), ~(q = r /\ i = x + 1)
               PROVE  OwnedIn(D, live2, q, i) <=> OwnedIn(C, live, q, i)
    OBVIOUS
  <2>1. OwnedIn(D, live2, q, i) => OwnedIn(C, live, q, i)
    BY <1>4 DEF OwnedIn
  <2>2. ASSUME OwnedIn(C, live, q, i)
        PROVE  OwnedIn(D, live2, q, i)
    <3>1. PICK d \in Conns : \E t \in live[d] : C[d][t].subrelay = q /\ C[d][t].index = i - 1
      BY <2>2 DEF OwnedIn
    <3>2. PICK t \in live[d] : C[d][t].subrelay = q /\ C[d][t].index = i - 1
      BY <3>1
    <3>3. ~(d = c /\ t = s)
      BY <3>2, <1>2
    <3>4. t \in live2[d] /\ D[d][t].subrelay = q /\ D[d][t].index = i - 1
      BY <3>2, <3>3, <1>4, <1>5
    <3> QED
      BY <3>4 DEF OwnedIn
  <2> QED
    BY <2>1, <2>2
<1>10. OwnedIn(C, live, r, x + 1)
  <2>1. C[c][s].index \in Int
    BY <1>2
  <2> QED
    BY <2>1, OwnerOwns
<1>11. \A d \in Conns : \A t \in DOMAIN D[d] \ live2[d] :
         \/ D[d][t].index = -1
         \/ D[d][t].index >= Len(L[D[d][t].subrelay])
         \/ D[d][t].subrelay = r /\ x + 1 = Len(L[r]) /\ D[d][t].index = (x + 1) - 1
  <2> SUFFICES ASSUME NEW d \in Conns, NEW t \in DOMAIN D[d] \ live2[d]
               PROVE  \/ D[d][t].index = -1
                      \/ D[d][t].index >= Len(L[D[d][t].subrelay])
                      \/ D[d][t].subrelay = r /\ x + 1 = Len(L[r]) /\ D[d][t].index = (x + 1) - 1
    OBVIOUS
  <2>1. CASE d = c /\ t = s
    <3>1. D[d][t].subrelay = r /\ D[d][t].index = IF x = Len(L[r]) - 1 THEN x ELSE -1
      BY <2>1, <1>3
    <3> HIDE DEF r, x
    <3> QED
      BY <3>1, <1>2
  <2>2. CASE ~(d = c /\ t = s)
    <3>1. t \in DOMAIN C[d] \ live[d]
      BY <2>2, <1>3
    <3>2. C[d][t].index = -1 \/ C[d][t].index >= Len(L[C[d][t].subrelay])
      BY <3>1, <1>1 DEF DeadAway
    <3> QED
      BY <2>2, <3>1, <3>2, <1>3
  <2> QED
    BY <2>1, <2>2
<1>12. \A q \in Relays : \A i, j \in 1..Len(L[q]) :
         i < j /\ OwnedIn(D, live2, q, i) => OwnedIn(D, live2, q, j) \/ (q = r /\ j = x + 1)
  <2> SUFFICES ASSUME NEW q \in Relays, NEW i \in 1..Len(L[q]), NEW j \in 1..Len(L[q]),
                      i < j, OwnedIn(D, live2, q, i), ~(q = r /\ j = x + 1)
               PROVE  OwnedIn(D, live2, q, j)
    OBVIOUS
  <2>1. OwnedIn(C, live, q, i)
    BY <1>8, <1>9
  <2>2. OwnedIn(C, live, q, j)
    BY <2>1, <1>1 DEF OrphansFirst
  <2> QED
    BY <2>2, <1>9
<1>13. \A j \in (x + 1 + 1)..Len(L[r]) : OwnedIn(D, live2, r, j)
  <2> SUFFICES ASSUME NEW j \in (x + 1 + 1)..Len(L[r])
               PROVE  OwnedIn(D, live2, r, j)
    OBVIOUS
  <2>1. j \in 1..Len(L[r]) /\ x + 1 < j /\ j # x + 1
    BY <1>2
  <2>2. OwnedIn(C, live, r, j)
    BY <2>1, <1>1, <1>2, <1>10 DEF OrphansFirst
  <2> QED
    BY <2>1, <2>2, <1>2, <1>9
<1>14. \A q \in Relays : \A i \in 1..Len(L[q]) :
         OwnedIn(D, live2, q, i) \/ (dn /\ q # Top) \/ (q = r /\ i = x + 1)
  BY <1>1, <1>9 DEF Covered
<1>15. Hole(D, live2, L, dn, r, x + 1)
  <2> DEFINE k == x + 1
  <2>1. \A d \in Conns : \A t \in DOMAIN D[d] \ live2[d] :
          \/ D[d][t].index = -1
          \/ D[d][t].index >= Len(L[D[d][t].subrelay])
          \/ D[d][t].subrelay = r /\ k = Len(L[r]) /\ D[d][t].index = k - 1
    BY <1>11, Zenon
  <2>2. /\ ~OwnedIn(D, live2, r, k)
        /\ \A q \in Relays : \A i, j \in 1..Len(L[q]) :
             i < j /\ OwnedIn(D, live2, q, i) => OwnedIn(D, live2, q, j) \/ (q = r /\ j = k)
        /\ \A j \in (k + 1)..Len(L[r]) : OwnedIn(D, live2, r, j)
        /\ \A q \in Relays : \A i \in 1..Len(L[q]) :
             OwnedIn(D, live2, q, i) \/ (dn /\ q # Top) \/ (q = r /\ i = k)
    BY <1>8, <1>12, <1>13, <1>14
  <2> HIDE DEF r, x, k
  <2>3. Hole(D, live2, L, dn, r, k)
    BY <1>6, <1>7, <2>1, <2>2 DEF Hole
  <2> QED
    BY <2>3 DEF k
<1> QED
  BY <1>2, <1>3, <1>15

-----------------------------------------------------------------------------
(* addListener: the new spec and the new listener point at each other, and *)
(* the others stay where they are (listener.go:46-59).                     *)
LEMMA AppendIs ==
  ASSUME NEW S, NEW q \in Seq(S), NEW e \in S
  PROVE  /\ Append(q, e) \in Seq(S)
         /\ Len(q) \in Nat
         /\ DOMAIN q = 1..Len(q)
         /\ Len(Append(q, e)) = Len(q) + 1
         /\ DOMAIN Append(q, e) = 1..(Len(q) + 1)
         /\ \A i \in 1..Len(q) : Append(q, e)[i] = q[i]
         /\ Append(q, e)[Len(q) + 1] = e
BY AppendProperties, LenProperties

Added(C, C2, L, L2, c, id, r) ==
  /\ DOMAIN C2[c] = 1..(Len(C[c]) + 1)
  /\ \A t \in DOMAIN C[c] : C2[c][t] = C[c][t]
  /\ C2[c][Len(C[c]) + 1].subrelay = r
  /\ C2[c][Len(C[c]) + 1].index = Len(L[r])
  /\ C2[c][Len(C[c]) + 1].id = id
  /\ \A d \in Conns \ {c} : C2[d] = C[d]
  /\ Len(L2[r]) = Len(L[r]) + 1
  /\ \A i \in 1..Len(L[r]) : L2[r][i] = L[r][i]
  /\ L2[r][Len(L[r]) + 1].ws = c
  /\ L2[r][Len(L[r]) + 1].id = id
  /\ \A q \in Relays \ {r} : L2[q] = L[q]

LEMMA AddListenerAdds ==
  ASSUME NEW C \in SpecTable, NEW L \in [Relays -> Seq(listener)],
         NEW c \in Conns, NEW id \in Ids, NEW r \in Relays, NEW f \in Filters,
         NEW e, e = [id |-> id, index |-> Len(L[r]), subrelay |-> r],
         NEW l, l = [id |-> id, filter |-> f, ws |-> c],
         NEW C2, C2 = [C EXCEPT ![c] = Append(@, e)],
         NEW L2, L2 = [L EXCEPT ![r] = Append(@, l)]
  PROVE  /\ C2 \in SpecTable
         /\ L2 \in [Relays -> Seq(listener)]
         /\ Added(C, C2, L, L2, c, id, r)
<1> DEFINE n == Len(L[r])
           m == Len(C[c])
<1>1. /\ C[c] \in Seq(listenerSpec) /\ L[r] \in Seq(listener)
      /\ n \in Nat /\ m \in Nat /\ DOMAIN C[c] = 1..m
  BY LenProperties DEF SpecTable
<1>2. e \in listenerSpec /\ l \in listener
  BY <1>1 DEF listenerSpec, listener
<1>3. /\ Append(C[c], e) \in Seq(listenerSpec)
      /\ DOMAIN Append(C[c], e) = 1..(m + 1)
      /\ \A i \in 1..m : Append(C[c], e)[i] = C[c][i]
      /\ Append(C[c], e)[m + 1] = e
  BY <1>1, <1>2, AppendIs
<1>4. /\ Append(L[r], l) \in Seq(listener)
      /\ Len(Append(L[r], l)) = n + 1
      /\ \A i \in 1..n : Append(L[r], l)[i] = L[r][i]
      /\ Append(L[r], l)[n + 1] = l
  BY <1>1, <1>2, AppendIs
<1>5. C2 \in SpecTable /\ L2 \in [Relays -> Seq(listener)]
  BY <1>3, <1>4 DEF SpecTable
<1>6. /\ DOMAIN C2[c] = 1..(m + 1)
      /\ \A t \in DOMAIN C[c] : C2[c][t] = C[c][t]
      /\ C2[c][m + 1] = e
      /\ \A d \in Conns \ {c} : C2[d] = C[d]
  BY <1>1, <1>3 DEF SpecTable
<1>7. /\ Len(L2[r]) = n + 1
      /\ \A i \in 1..n : L2[r][i] = L[r][i]
      /\ L2[r][n + 1] = l
      /\ \A q \in Relays \ {r} : L2[q] = L[q]
  BY <1>4
<1>8. /\ e.id = id /\ e.index = n /\ e.subrelay = r
      /\ l.id = id /\ l.ws = c
  OBVIOUS
<1> QED
  BY <1>5, <1>6, <1>7, <1>8 DEF Added

LEMMA AddKeeps ==
  ASSUME NEW C \in SpecTable, NEW L \in [Relays -> Seq(listener)], NEW dn,
         Good(C, All(C), L, dn),
         NEW C2, NEW L2, NEW c \in Conns, NEW id, NEW r \in Relays,
         Added(C, C2, L, L2, c, id, r)
  PROVE  Good(C2, All(C2), L2, dn)
<1> DEFINE n == Len(L[r])
           m == Len(C[c])
<1>1. /\ n \in Nat /\ m \in Nat /\ DOMAIN C[c] = 1..m
      /\ \A q \in Relays : Len(L[q]) \in Nat
  BY LenProperties DEF SpecTable
<1>2. /\ DOMAIN C2[c] = 1..(m + 1)
      /\ \A t \in DOMAIN C[c] : C2[c][t] = C[c][t]
      /\ C2[c][m + 1].subrelay = r /\ C2[c][m + 1].index = n /\ C2[c][m + 1].id = id
      /\ \A d \in Conns \ {c} : C2[d] = C[d]
  BY DEF Added
<1>3. /\ Len(L2[r]) = n + 1
      /\ \A i \in 1..n : L2[r][i] = L[r][i]
      /\ L2[r][n + 1].ws = c /\ L2[r][n + 1].id = id
      /\ \A q \in Relays \ {r} : L2[q] = L[q]
  BY DEF Added
<1>4. /\ Home(C, All(C), L) /\ Apart(C, All(C)) /\ OrphansFirst(C, All(C), L)
      /\ Covered(C, All(C), L, dn)
  BY DEF Good
<1>5. \A d \in Conns : \A t \in DOMAIN C[d] :
         /\ C[d][t].subrelay \in Relays
         /\ C[d][t].index \in 0..(Len(L[C[d][t].subrelay]) - 1)
         /\ L[C[d][t].subrelay][C[d][t].index + 1].ws = d
         /\ L[C[d][t].subrelay][C[d][t].index + 1].id = C[d][t].id
         /\ t \in DOMAIN C2[d] /\ C2[d][t] = C[d][t] /\ ~(d = c /\ t = m + 1)
  <2> SUFFICES ASSUME NEW d \in Conns, NEW t \in DOMAIN C[d]
               PROVE  /\ C[d][t].subrelay \in Relays
                      /\ C[d][t].index \in 0..(Len(L[C[d][t].subrelay]) - 1)
                      /\ L[C[d][t].subrelay][C[d][t].index + 1].ws = d
                      /\ L[C[d][t].subrelay][C[d][t].index + 1].id = C[d][t].id
                      /\ t \in DOMAIN C2[d] /\ C2[d][t] = C[d][t] /\ ~(d = c /\ t = m + 1)
    OBVIOUS
  <2>1. t \in All(C)[d]
    BY DEF All
  <2>2. /\ C[d][t].index \in 0..(Len(L[C[d][t].subrelay]) - 1)
        /\ L[C[d][t].subrelay][C[d][t].index + 1].ws = d
        /\ L[C[d][t].subrelay][C[d][t].index + 1].id = C[d][t].id
    BY <2>1, <1>4 DEF Home
  <2>3. C[d][t].subrelay \in Relays
    BY SpecIsTyped
  <2>4. t \in DOMAIN C2[d] /\ C2[d][t] = C[d][t] /\ ~(d = c /\ t = m + 1)
    <3>1. CASE d = c
      <4>1. t \in 1..m
        BY <3>1, <1>1
      <4> HIDE DEF m
      <4>2. t \in 1..(m + 1) /\ t # m + 1
        BY <4>1, <1>1
      <4> QED
        BY <3>1, <4>2, <1>2
    <3>2. CASE d # c
      BY <3>2, <1>2
    <3> QED
      BY <3>1, <3>2
  <2> QED
    BY <2>2, <2>3, <2>4
<1>6. \A d \in Conns : \A t \in DOMAIN C2[d] : t \in DOMAIN C[d] \/ (d = c /\ t = m + 1)
  BY <1>1, <1>2
<1> HIDE DEF n, m
<1>7. Home(C2, All(C2), L2)
  <2> SUFFICES ASSUME NEW d \in Conns, NEW t \in DOMAIN C2[d]
               PROVE  /\ C2[d][t].index \in 0..(Len(L2[C2[d][t].subrelay]) - 1)
                      /\ L2[C2[d][t].subrelay][C2[d][t].index + 1].ws = d
                      /\ L2[C2[d][t].subrelay][C2[d][t].index + 1].id = C2[d][t].id
    BY DEF Home, All
  <2>1. CASE t \in DOMAIN C[d]
    <3>1. PICK q \in Relays : q = C[d][t].subrelay
      BY <2>1, <1>5
    <3>2. PICK x \in 0..(Len(L[q]) - 1) : x = C[d][t].index
      BY <2>1, <3>1, <1>5
    <3>3. L[q][x + 1].ws = d /\ L[q][x + 1].id = C[d][t].id /\ C2[d][t] = C[d][t]
      BY <2>1, <3>1, <3>2, <1>5
    <3>4. L2[q][x + 1] = L[q][x + 1] /\ x \in 0..(Len(L2[q]) - 1)
      BY <1>1, <1>3 DEF n
    <3> QED
      BY <3>1, <3>2, <3>3, <3>4
  <2>2. CASE d = c /\ t = m + 1
    BY <2>2, <1>1, <1>2, <1>3
  <2> QED
    BY <2>1, <2>2, <1>6
<1>8. Apart(C2, All(C2))
  <2> SUFFICES ASSUME NEW d \in Conns, NEW t \in DOMAIN C2[d], NEW u \in DOMAIN C2[d],
                      t # u, C2[d][t].subrelay = C2[d][u].subrelay
               PROVE  C2[d][t].index # C2[d][u].index
    BY DEF Apart, All
  <2>1. CASE t \in DOMAIN C[d] /\ u \in DOMAIN C[d]
    <3>1. t \in All(C)[d] /\ u \in All(C)[d] /\ C2[d][t] = C[d][t] /\ C2[d][u] = C[d][u]
      BY <2>1, <1>5 DEF All
    <3> QED
      BY <3>1, <1>4 DEF Apart
  <2>2. ASSUME NEW v \in DOMAIN C[d], C[d][v].subrelay = r
        PROVE  C[d][v].index # n
    <3>1. C[d][v].index \in 0..(n - 1)
      BY <2>2, <1>5 DEF n
    <3> QED
      BY <3>1, <1>1
  <2>3. CASE t \in DOMAIN C[d] /\ u \notin DOMAIN C[d]
    <3>1. /\ C2[d][u].subrelay = r /\ C2[d][u].index = n
          /\ C2[d][t] = C[d][t]
      BY <2>3, <1>2, <1>5, <1>6
    <3> QED
      BY <3>1, <2>2, <2>3
  <2>4. CASE t \notin DOMAIN C[d] /\ u \in DOMAIN C[d]
    <3>1. /\ C2[d][t].subrelay = r /\ C2[d][t].index = n
          /\ C2[d][u] = C[d][u]
      BY <2>4, <1>2, <1>5, <1>6
    <3> QED
      BY <3>1, <2>2, <2>4
  <2> QED
    BY <2>1, <2>3, <2>4, <1>6
<1>9. DeadAway(C2, All(C2), L2)
  BY DEF DeadAway, All
<1>10. OwnedIn(C2, All(C2), r, n + 1)
  <2>1. c \in Conns /\ m + 1 \in All(C2)[c] /\ C2[c][m + 1].subrelay = r
        /\ C2[c][m + 1].index = n /\ n \in Int
    BY <1>1, <1>2 DEF All
  <2> QED
    BY <2>1, OwnerOwns
<1>11. \A q \in Relays : \A i \in 1..Len(L[q]) :
         OwnedIn(C2, All(C2), q, i) <=> OwnedIn(C, All(C), q, i)
  <2> SUFFICES ASSUME NEW q \in Relays, NEW i \in 1..Len(L[q])
               PROVE  OwnedIn(C2, All(C2), q, i) <=> OwnedIn(C, All(C), q, i)
    OBVIOUS
  <2>1. ASSUME OwnedIn(C, All(C), q, i)
        PROVE  OwnedIn(C2, All(C2), q, i)
    <3>1. PICK d \in Conns : \E t \in DOMAIN C[d] : C[d][t].subrelay = q /\ C[d][t].index = i - 1
      BY <2>1 DEF OwnedIn, All
    <3>2. PICK t \in DOMAIN C[d] : C[d][t].subrelay = q /\ C[d][t].index = i - 1
      BY <3>1
    <3>3. t \in DOMAIN C2[d] /\ C2[d][t].subrelay = q /\ C2[d][t].index = i - 1
      BY <3>2, <1>5
    <3> QED
      BY <3>3 DEF OwnedIn, All
  <2>2. ASSUME OwnedIn(C2, All(C2), q, i)
        PROVE  OwnedIn(C, All(C), q, i)
    <3>1. PICK d \in Conns : \E t \in DOMAIN C2[d] : C2[d][t].subrelay = q /\ C2[d][t].index = i - 1
      BY <2>2 DEF OwnedIn, All
    <3>2. PICK t \in DOMAIN C2[d] : C2[d][t].subrelay = q /\ C2[d][t].index = i - 1
      BY <3>1
    <3>3. t \in DOMAIN C[d]
      <4> SUFFICES ASSUME d = c, t = m + 1
                   PROVE  FALSE
        BY <1>6
      <4>1. q = r /\ i - 1 = n
        BY <3>2, <1>2
      <4> QED
        BY <4>1, <1>1 DEF n
    <3> QED
      BY <3>2, <3>3, <1>5 DEF OwnedIn, All
  <2> QED
    BY <2>1, <2>2
<1>12. \A q \in Relays : \A i \in 1..Len(L2[q]) : i \in 1..Len(L[q]) \/ (q = r /\ i = n + 1)
  BY <1>1, <1>3 DEF n
<1>13. OrphansFirst(C2, All(C2), L2)
  <2> SUFFICES ASSUME NEW q \in Relays, NEW i \in 1..Len(L2[q]), NEW j \in 1..Len(L2[q]),
                      i < j, OwnedIn(C2, All(C2), q, i)
               PROVE  OwnedIn(C2, All(C2), q, j)
    BY DEF OrphansFirst
  <2>1. CASE q = r /\ j = n + 1
    BY <2>1, <1>10
  <2>2. CASE j \in 1..Len(L[q])
    <3>1. i \in 1..Len(L[q])
      BY <2>2, <1>1
    <3>2. OwnedIn(C, All(C), q, i)
      BY <3>1, <1>11
    <3>3. OwnedIn(C, All(C), q, j)
      BY <2>2, <3>1, <3>2, <1>4 DEF OrphansFirst
    <3> QED
      BY <2>2, <3>3, <1>11
  <2> QED
    BY <2>1, <2>2, <1>12
<1>14. Covered(C2, All(C2), L2, dn)
  BY <1>4, <1>10, <1>11, <1>12 DEF Covered
<1> QED
  BY <1>7, <1>8, <1>9, <1>13, <1>14 DEF Good

-----------------------------------------------------------------------------
(* The inductive invariant holds in the first state and every step keeps it. *)
LEMMA LiveMapIs ==
  /\ op \notin Leave => LiveMap = All(clients)
  /\ op \in Leave => LiveMap = [c \in Conns |-> IF op.ws = c THEN op.s..Len(clients[c])
                                                ELSE DOMAIN clients[c]]
BY DEF LiveMap, Live, All

LEMMA OpKinds ==
  /\ Free \notin Close /\ Free \notin Leave
  /\ \A o \in Close : o \notin Leave /\ o.ws \in Conns /\ o.id \in Ids /\ o.s \in Nat
  /\ \A o \in Leave : o \notin Close /\ o.ws \in Conns /\ o.s \in Nat
BY DEF Free, Close, Leave

LEMMA InitEstablishes == Init => IInv
<1> SUFFICES ASSUME Init
             PROVE  IInv
  OBVIOUS
<1>1. op = Free /\ op \notin Close /\ op \notin Leave
  BY OpKinds DEF Init
<1>2. /\ \A c \in Conns : clients[c] = <<>> /\ DOMAIN clients[c] = {}
      /\ \A r \in Relays : listeners[r] = <<>> /\ Len(listeners[r]) = 0
  BY DEF Init
<1>3. TypeOK
  <2>1. <<>> \in Seq(listenerSpec) /\ <<>> \in Seq(listener)
    BY EmptySeq
  <2> QED
    BY <2>1, <1>1 DEF Init, TypeOK
<1>4. LiveMap = All(clients)
  BY <1>1, LiveMapIs
<1>5. Good(clients, All(clients), listeners, down)
  <2>1. \A c \in Conns : All(clients)[c] = {}
    BY <1>2 DEF All
  <2> QED
    BY <1>2, <2>1 DEF Good, Home, Apart, DeadAway, OrphansFirst, Covered
<1> QED
  BY <1>1, <1>2, <1>3, <1>4, <1>5 DEF IInv, OpInBounds, GoneHaveNoSpecs

LEMMA DropFillsHole ==
  ASSUME listeners \in [Relays -> Seq(listener)],
         NEW STATE specs, specs \in SpecTable,
         NEW STATE live, \A c \in Conns : live[c] \subseteq DOMAIN specs[c],
         NEW STATE r, r \in Relays,
         NEW STATE index, index \in Int, index + 1 \in 1..Len(listeners[r]),
         Hole(specs, live, listeners, down, r, index + 1),
         Drop(specs, r, index)
  PROVE  /\ clients' \in SpecTable
         /\ listeners' \in [Relays -> Seq(listener)]
         /\ \A c \in Conns : DOMAIN clients'[c] = DOMAIN specs[c]
         /\ Good(clients', live, listeners', down)
<1>1. Len(listeners[r]) \in Nat
  BY LenProperties
<1>2. /\ listeners' = DropListeners(listeners, r, index)
      /\ clients' = DropSpecs(specs, listeners, r, index)
  BY <1>1, DropIs
<1>3. PICK k \in 1..Len(listeners[r]) : k = index + 1 /\ k - 1 = index
  BY <1>1
<1>4. Hole(specs, live, listeners, down, r, k)
  BY <1>3
<1>5. /\ DropListeners(listeners, r, k - 1) \in [Relays -> Seq(listener)]
      /\ DropSpecs(specs, listeners, r, k - 1) \in SpecTable
      /\ \A c \in Conns : DOMAIN DropSpecs(specs, listeners, r, k - 1)[c] = DOMAIN specs[c]
      /\ Good(DropSpecs(specs, listeners, r, k - 1), live,
              DropListeners(listeners, r, k - 1), down)
  BY <1>4, HoleIsFilled
<1> QED
  BY <1>2, <1>3, <1>5

(* What an iteration of removeListenerId starts from, and leaves.          *)
LEMMA CloseStepKeeps ==
  ASSUME IInv, RemoveListenerIdStep
  PROVE  IInv'
<1>1. /\ op \in Close /\ op \notin Leave /\ op.ws \in Conns /\ op.s \in Nat /\ op.s > 0
      /\ op' = [op EXCEPT !.s = @ - 1] /\ registered' = registered /\ down' = down
      /\ op.s <= Len(clients[op.ws])
  BY OpKinds DEF RemoveListenerIdStep, IInv, OpInBounds
<1>2. op' \in Close /\ op' \notin Leave /\ op'.s = op.s - 1 /\ op'.ws = op.ws
  BY <1>1, OpKinds DEF Close
<1>3. clients \in SpecTable /\ listeners \in [Relays -> Seq(listener)]
  BY DEF IInv, TypeOK, SpecTable
<1>4. Good(clients, All(clients), listeners, down)
  BY <1>1, LiveMapIs DEF IInv
<1>5. LiveMap' = All(clients')
  BY <1>2 DEF LiveMap, Live, All
<1>6. op.s \in DOMAIN clients[op.ws]
  BY <1>1, <1>3, LenProperties DEF SpecTable
<1> DEFINE c == op.ws
           spec == clients[c][op.s]
<1>7. CASE spec.id # op.id
  <2>1. clients' = clients /\ listeners' = listeners
    BY <1>7, <1>1 DEF RemoveListenerIdStep
  <2>2. TypeOK' /\ OpInBounds' /\ GoneHaveNoSpecs'
    BY <2>1, <1>1, <1>2 DEF IInv, TypeOK, OpInBounds, GoneHaveNoSpecs
  <2>3. Good(clients, LiveMap, listeners, down)'
    BY <2>1, <1>1, <1>4, <1>5
  <2> QED
    BY <2>2, <2>3 DEF IInv
<1>8. CASE spec.id = op.id
  <2> DEFINE D == SpecsAfterClose(c, op.s)
  <2>1. Drop(D, spec.subrelay, spec.index)
    BY <1>8, <1>1 DEF RemoveListenerIdStep
  <2>2. D = [clients EXCEPT ![c] = SwapDelete(@, op.s)]
    BY DEF SpecsAfterClose
  <2>3. spec.subrelay \in Relays /\ spec.index \in Int
    BY <1>1, <1>3, <1>6, SpecIsTyped
  <2>4. /\ \A d \in Conns : D[d] = IF d = c THEN SwapDelete(clients[c], op.s) ELSE clients[d]
        /\ clients[c] \in Seq(listenerSpec) /\ op.s \in 1..Len(clients[c])
    BY <2>2, <1>1, <1>3, <1>6, LenProperties DEF SpecTable
  <2>5. DOMAIN D[c] = 1..(Len(clients[c]) - 1)
    BY <2>4, <1>1, SwapDeleteProperties
  <2> HIDE DEF D
  <2>6. /\ D \in SpecTable
        /\ spec.index + 1 \in 1..Len(listeners[spec.subrelay])
        /\ Hole(D, All(D), listeners, down, spec.subrelay, spec.index + 1)
    BY <2>2, <1>1, <1>3, <1>4, <1>6, CloseMakesHole
  <2>7. \A d \in Conns : All(D)[d] \subseteq DOMAIN D[d]
    BY DEF All
  <2> HIDE DEF spec, c
  <2>8. /\ clients' \in SpecTable
        /\ listeners' \in [Relays -> Seq(listener)]
        /\ \A d \in Conns : DOMAIN clients'[d] = DOMAIN D[d]
        /\ Good(clients', All(D), listeners', down)
    BY <2>1, <2>3, <2>6, <2>7, <1>3, DropFillsHole
  <2>9. All(clients') = All(D)
    BY <2>8 DEF All
  <2>10. Good(clients, LiveMap, listeners, down)'
    BY <2>8, <2>9, <1>1, <1>5
  <2>11. TypeOK'
    BY <2>8, <1>1, <1>2 DEF IInv, TypeOK, SpecTable
  <2>12. OpInBounds'
    <3>1. clients'[c] \in Seq(listenerSpec) /\ c \in Conns
      BY <2>8, <1>1 DEF SpecTable, c
    <3>2. Len(clients'[c]) \in Nat /\ 1..Len(clients'[c]) = 1..(Len(clients[c]) - 1)
      BY <3>1, <2>5, <2>8, LenProperties
    <3>3. Len(clients'[c]) = Len(clients[c]) - 1
      BY <3>2, <2>4
    <3>4. Len(clients[c]) \in Nat
      BY <2>4, LenProperties
    <3> QED
      BY <3>3, <3>4, <1>1, <1>2 DEF OpInBounds, c
  <2>13. GoneHaveNoSpecs'
    <3> SUFFICES ASSUME NEW d \in Conns \ registered
                 PROVE  clients'[d] = <<>>
      BY <1>1 DEF GoneHaveNoSpecs
    <3>1. clients[d] = <<>> /\ DOMAIN clients[d] = {}
      BY DEF IInv, GoneHaveNoSpecs
    <3>2. d # c
      BY <3>1, <1>6 DEF c
    <3>3. DOMAIN clients'[d] = {} /\ clients'[d] \in Seq(listenerSpec)
      BY <3>1, <3>2, <2>4, <2>8 DEF SpecTable
    <3> QED
      BY <3>3, NoPlaceNoElement
  <2> QED
    BY <2>10, <2>11, <2>12, <2>13 DEF IInv
<1> QED
  BY <1>7, <1>8

(* The same for an iteration of removeClientAndListeners.                  *)
LEMMA LeaveStepKeeps ==
  ASSUME IInv, RemoveClientStep
  PROVE  IInv'
<1>1. /\ op \in Leave /\ op \notin Close /\ op.ws \in Conns /\ op.s \in Nat /\ op.s >= 1
      /\ op.s <= Len(clients[op.ws])
      /\ op' = [op EXCEPT !.s = @ + 1] /\ registered' = registered /\ down' = down
  BY OpKinds DEF RemoveClientStep, IInv, OpInBounds
<1>2. op' \in Leave /\ op' \notin Close /\ op'.s = op.s + 1 /\ op'.ws = op.ws
  BY <1>1, OpKinds DEF Leave
<1>3. clients \in SpecTable /\ listeners \in [Relays -> Seq(listener)]
  BY DEF IInv, TypeOK, SpecTable
<1>4. \A d \in Conns : Len(clients[d]) \in Nat /\ DOMAIN clients[d] = 1..Len(clients[d])
  BY <1>3, LenProperties DEF SpecTable
<1> DEFINE c == op.ws
           s == op.s
           spec == clients[c][s]
           D == SpecsAfterLeave(c, s)
           live2 == [d \in Conns |-> IF d = c THEN (s + 1)..Len(clients[d]) ELSE DOMAIN clients[d]]
<1>5. /\ LiveMap = [d \in Conns |-> IF op.ws = d THEN op.s..Len(clients[d]) ELSE DOMAIN clients[d]]
      /\ \A d \in Conns : LiveMap[d] \subseteq DOMAIN clients[d]
      /\ s \in LiveMap[c] /\ s \in DOMAIN clients[c]
      /\ \A d \in Conns : live2[d] = {t \in LiveMap[d] : ~(d = c /\ t = s)}
  <2>1. LiveMap = [d \in Conns |-> IF op.ws = d THEN op.s..Len(clients[d]) ELSE DOMAIN clients[d]]
    BY <1>1, LiveMapIs
  <2>2. \A d \in Conns : LiveMap[d] \subseteq DOMAIN clients[d]
    BY <2>1, <1>1, <1>4
  <2>3. s \in LiveMap[c] /\ s \in DOMAIN clients[c]
    BY <2>1, <1>1, <1>4
  <2>4. \A d \in Conns : live2[d] = {t \in LiveMap[d] : ~(d = c /\ t = s)}
    BY <2>1, <1>1, <1>4
  <2> QED
    BY <2>1, <2>2, <2>3, <2>4
<1>6. Good(clients, LiveMap, listeners, down)
  BY DEF IInv
<1>7. Drop(D, spec.subrelay, spec.index)
  BY <1>1 DEF RemoveClientStep
<1>8. D = Marked(clients, listeners, c, s)
  BY DEF SpecsAfterLeave, LastIndex, SetIndex, Marked
<1>9. spec.subrelay \in Relays /\ spec.index \in Int
  BY <1>1, <1>3, <1>5, SpecIsTyped
<1> HIDE DEF D, live2, c, s
<1>a. Within(LiveMap, clients) /\ Without(LiveMap, live2, c, s)
  BY <1>5 DEF Within, Without
<1>b. c \in Conns /\ s \in LiveMap[c]
  BY <1>1, <1>5 DEF c
<1>10. /\ D \in SpecTable
       /\ \A d \in Conns : DOMAIN D[d] = DOMAIN clients[d]
       /\ spec.index + 1 \in 1..Len(listeners[spec.subrelay])
       /\ Hole(D, live2, listeners, down, spec.subrelay, spec.index + 1)
  BY <1>3, <1>6, <1>8, <1>a, <1>b, LeaveMakesHole
<1>11. \A d \in Conns : live2[d] \subseteq DOMAIN D[d]
  <2> SUFFICES ASSUME NEW d \in Conns
               PROVE  live2[d] \subseteq DOMAIN D[d]
    OBVIOUS
  <2>1. live2[d] \subseteq LiveMap[d] /\ LiveMap[d] \subseteq DOMAIN clients[d]
    BY <1>5
  <2>2. DOMAIN D[d] = DOMAIN clients[d]
    BY <1>10
  <2> QED
    BY <2>1, <2>2
<1>12. /\ clients' \in SpecTable
       /\ listeners' \in [Relays -> Seq(listener)]
       /\ \A d \in Conns : DOMAIN clients'[d] = DOMAIN D[d]
       /\ Good(clients', live2, listeners', down)
  <2> HIDE DEF spec
  <2> QED
    BY <1>3, <1>7, <1>9, <1>10, <1>11, DropFillsHole
<1>13. \A d \in Conns : DOMAIN clients'[d] = DOMAIN clients[d] /\ Len(clients'[d]) = Len(clients[d])
  BY <1>3, <1>10, <1>12, SameDomainSameLength DEF SpecTable
<1>14. LiveMap' = live2
  BY <1>2, <1>13 DEF LiveMap, Live, live2, c, s
<1>15. Good(clients, LiveMap, listeners, down)'
  BY <1>1, <1>12, <1>14
<1>16. TypeOK'
  BY <1>1, <1>2, <1>12 DEF IInv, TypeOK, SpecTable
<1>17. OpInBounds'
  BY <1>1, <1>2 DEF OpInBounds
<1>18. GoneHaveNoSpecs'
  <2> SUFFICES ASSUME NEW d \in Conns \ registered
               PROVE  clients'[d] = <<>>
    BY <1>1 DEF GoneHaveNoSpecs
  <2>1. clients[d] = <<>>
    BY DEF IInv, GoneHaveNoSpecs
  <2>2. DOMAIN clients'[d] = {} /\ clients'[d] \in Seq(listenerSpec)
    BY <2>1, <1>12, <1>13 DEF SpecTable
  <2> QED
    BY <2>2, NoPlaceNoElement
<1> QED
  BY <1>15, <1>16, <1>17, <1>18 DEF IInv

LEMMA StepKeeps ==
  ASSUME IInv, [Next]_vars
  PROVE  IInv'
<1> USE OpKinds
<1>0. clients \in SpecTable /\ listeners \in [Relays -> Seq(listener)]
  BY DEF IInv, TypeOK, SpecTable
<1>1. CASE UNCHANGED vars
  <2>1. LiveMap' = LiveMap /\ TypeOK' /\ OpInBounds' /\ GoneHaveNoSpecs'
    BY <1>1 DEF vars, LiveMap, Live, IInv, TypeOK, OpInBounds, GoneHaveNoSpecs
  <2> QED
    BY <1>1, <2>1 DEF vars, IInv
<1>2. ASSUME NEW c \in Conns, Connect(c)
      PROVE  IInv'
  <2>1. clients' = clients
    BY <1>2, <1>0 DEF Connect, IInv, GoneHaveNoSpecs, SpecTable
  <2>2. LiveMap' = LiveMap /\ TypeOK' /\ OpInBounds' /\ GoneHaveNoSpecs'
    BY <1>2, <2>1 DEF Connect, LiveMap, Live, IInv, TypeOK, OpInBounds, GoneHaveNoSpecs
  <2> QED
    BY <1>2, <2>1, <2>2 DEF Connect, IInv
<1>3. ASSUME NEW c \in Conns, NEW id \in Ids, NEW r \in Relays, NEW f \in Filters,
             AddListener(c, id, r, f)
      PROVE  IInv'
  <2> DEFINE e == [id |-> id, index |-> Len(listeners[r]), subrelay |-> r]
             l == [id |-> id, filter |-> f, ws |-> c]
  <2>1. /\ op = Free /\ op' = op /\ registered' = registered /\ down' = down
        /\ c \in registered
        /\ clients' = [clients EXCEPT ![c] = Append(@, e)]
        /\ listeners' = [listeners EXCEPT ![r] = Append(@, l)]
    BY <1>3 DEF AddListener
  <2> HIDE DEF e, l
  <2>2. /\ clients' \in SpecTable
        /\ listeners' \in [Relays -> Seq(listener)]
        /\ Added(clients, clients', listeners, listeners', c, id, r)
    BY <2>1, <1>0, AddListenerAdds DEF e, l
  <2>3. LiveMap = All(clients) /\ LiveMap' = All(clients')
    BY <2>1 DEF LiveMap, Live, All
  <2>4. Good(clients', All(clients'), listeners', down)
    BY <2>2, <2>3, <1>0, AddKeeps DEF IInv
  <2>5. Good(clients, LiveMap, listeners, down)'
    BY <2>1, <2>3, <2>4
  <2>6. TypeOK'
    BY <2>1, <2>2 DEF IInv, TypeOK, SpecTable
  <2>7. OpInBounds' /\ GoneHaveNoSpecs'
    BY <2>1, <2>2 DEF IInv, OpInBounds, GoneHaveNoSpecs, Added
  <2> QED
    BY <2>5, <2>6, <2>7 DEF IInv
<1>4. ASSUME NEW c \in Conns, NEW id \in Ids, RemoveListenerIdBegin(c, id)
      PROVE  IInv'
  <2>1. /\ op = Free /\ registered' = registered /\ down' = down
        /\ clients' = clients /\ listeners' = listeners
        /\ op' = [kind |-> "close", ws |-> c, id |-> id, s |-> Len(clients[c])]
    BY <1>4 DEF RemoveListenerIdBegin
  <2>2. Len(clients[c]) \in Nat
    BY <1>0, LenProperties DEF SpecTable
  <2>3. op' \in Close /\ op'.ws = c /\ op'.s = Len(clients[c])
    BY <2>1, <2>2 DEF Close
  <2>4. LiveMap' = LiveMap
    BY <2>1, <2>3 DEF LiveMap, Live
  <2> QED
    BY <2>1, <2>2, <2>3, <2>4 DEF IInv, TypeOK, OpInBounds, GoneHaveNoSpecs
<1>5. CASE RemoveListenerIdStep
  BY <1>5, CloseStepKeeps
<1>6. CASE RemoveListenerIdEnd
  <2>1. /\ op \in Close /\ op' = Free /\ registered' = registered /\ down' = down
        /\ clients' = clients /\ listeners' = listeners
    BY <1>6 DEF RemoveListenerIdEnd
  <2>2. LiveMap' = LiveMap
    BY <2>1 DEF LiveMap, Live
  <2> QED
    BY <2>1, <2>2 DEF IInv, TypeOK, OpInBounds, GoneHaveNoSpecs
<1>7. ASSUME NEW c \in Conns, RemoveClientBegin(c)
      PROVE  IInv'
  <2>1. /\ op = Free /\ registered' = registered /\ down' = down
        /\ clients' = clients /\ listeners' = listeners
        /\ op' = [kind |-> "leave", ws |-> c, s |-> 1]
    BY <1>7 DEF RemoveClientBegin
  <2>2. op' \in Leave /\ op'.ws = c /\ op'.s = 1
    BY <2>1 DEF Leave
  <2>3. DOMAIN clients[c] = 1..Len(clients[c])
    BY <1>0, LenProperties DEF SpecTable
  <2>4. LiveMap' = LiveMap
    BY <2>1, <2>2, <2>3 DEF LiveMap, Live
  <2> QED
    BY <2>1, <2>2, <2>4 DEF IInv, TypeOK, OpInBounds, GoneHaveNoSpecs
<1>8. CASE RemoveClientStep
  BY <1>8, LeaveStepKeeps
<1>9. CASE RemoveClientEnd
  <2>1. /\ op \in Leave /\ op.ws \in Conns /\ op.s \in Nat /\ op.s > Len(clients[op.ws])
        /\ op' = Free /\ registered' = registered \ {op.ws} /\ down' = down
        /\ clients' = [clients EXCEPT ![op.ws] = <<>>] /\ listeners' = listeners
    BY <1>9 DEF RemoveClientEnd
  <2>2. clients' \in SpecTable
    BY <2>1, <1>0, EmptySeq DEF SpecTable
  <2>3. \A d \in Conns : clients'[d] = IF d = op.ws THEN <<>> ELSE clients[d]
    BY <2>1, <1>0 DEF SpecTable
  <2>4. \A d \in Conns : LiveMap'[d] = DOMAIN clients'[d]
    BY <2>1 DEF LiveMap, Live
  <2>5. LiveMap[op.ws] = {} /\ \A d \in Conns \ {op.ws} : LiveMap[d] = DOMAIN clients[d]
    <3>1. Len(clients[op.ws]) \in Nat
      BY <2>1, <1>0, LenProperties DEF SpecTable
    <3>2. LiveMap[op.ws] = op.s..Len(clients[op.ws])
      BY <2>1, LiveMapIs
    <3>3. \A d \in Conns \ {op.ws} : LiveMap[d] = DOMAIN clients[d]
      BY <2>1, LiveMapIs
    <3> QED
      BY <3>1, <3>2, <3>3, <2>1
  <2>6. \A d \in Conns : LiveMap'[d] = LiveMap[d]
                         /\ \A t \in LiveMap[d] : clients'[d][t] = clients[d][t]
    <3> SUFFICES ASSUME NEW d \in Conns
                 PROVE  /\ LiveMap'[d] = LiveMap[d]
                        /\ \A t \in LiveMap[d] : clients'[d][t] = clients[d][t]
      OBVIOUS
    <3>1. CASE d = op.ws
      <4>1. clients'[d] = <<>> /\ LiveMap[d] = {} /\ LiveMap'[d] = DOMAIN clients'[d]
        BY <3>1, <2>3, <2>4, <2>5
      <4> QED
        BY <4>1
    <3>2. CASE d # op.ws
      <4>1. clients'[d] = clients[d] /\ LiveMap[d] = DOMAIN clients[d] /\ LiveMap'[d] = DOMAIN clients'[d]
        BY <3>2, <2>3, <2>4, <2>5
      <4> QED
        BY <4>1
    <3> QED
      BY <3>1, <3>2
  <2>7. \A r, i : OwnedIn(clients', LiveMap', r, i) <=> OwnedIn(clients, LiveMap, r, i)
    BY <2>6 DEF OwnedIn
  <2>8. Home(clients', LiveMap', listeners) /\ Apart(clients', LiveMap')
    <3>1. Home(clients, LiveMap, listeners) /\ Apart(clients, LiveMap)
      BY DEF IInv, Good
    <3>2. Home(clients', LiveMap', listeners)
      <4> SUFFICES ASSUME NEW d \in Conns, NEW t \in LiveMap'[d]
                   PROVE  /\ clients'[d][t].index \in 0..(Len(listeners[clients'[d][t].subrelay]) - 1)
                          /\ listeners[clients'[d][t].subrelay][clients'[d][t].index + 1].ws = d
                          /\ listeners[clients'[d][t].subrelay][clients'[d][t].index + 1].id = clients'[d][t].id
        BY DEF Home
      <4>1. t \in LiveMap[d] /\ clients'[d][t] = clients[d][t]
        BY <2>6
      <4> QED
        BY <3>1, <4>1 DEF Home
    <3>3. Apart(clients', LiveMap')
      <4> SUFFICES ASSUME NEW d \in Conns, NEW t \in LiveMap'[d], NEW u \in LiveMap'[d],
                          t # u, clients'[d][t].subrelay = clients'[d][u].subrelay
                   PROVE  clients'[d][t].index # clients'[d][u].index
        BY DEF Apart
      <4>1. /\ t \in LiveMap[d] /\ clients'[d][t] = clients[d][t]
            /\ u \in LiveMap[d] /\ clients'[d][u] = clients[d][u]
        BY <2>6
      <4> QED
        BY <3>1, <4>1 DEF Apart
    <3> QED
      BY <3>2, <3>3
  <2>9. DeadAway(clients', LiveMap', listeners)
    BY <2>4 DEF DeadAway
  <2>10. OrphansFirst(clients', LiveMap', listeners) /\ Covered(clients', LiveMap', listeners, down)
    BY <2>7 DEF IInv, Good, OrphansFirst, Covered
  <2>11. Good(clients, LiveMap, listeners, down)'
    BY <2>1, <2>8, <2>9, <2>10 DEF Good
  <2>12. TypeOK' /\ OpInBounds' /\ GoneHaveNoSpecs'
    BY <2>1, <2>2, <2>3 DEF IInv, TypeOK, OpInBounds, GoneHaveNoSpecs, SpecTable
  <2> QED
    BY <2>11, <2>12 DEF IInv
<1>10. CASE Shutdown
  <2>1. /\ op = Free /\ op' = op /\ registered' = {} /\ down' = TRUE
        /\ clients' = [c \in Conns |-> <<>>]
        /\ listeners' = [listeners EXCEPT ![Top] = <<>>]
    BY <1>10 DEF Shutdown
  <2>2. /\ \A c \in Conns : clients'[c] = <<>> /\ DOMAIN clients'[c] = {}
        /\ clients' \in SpecTable /\ listeners' \in [Relays -> Seq(listener)]
        /\ listeners'[Top] = <<>> /\ Len(listeners'[Top]) = 0
    BY <2>1, <1>0, EmptySeq, TopAssumption DEF SpecTable
  <2>3. \A c \in Conns : LiveMap'[c] = {}
    BY <2>1, <2>2 DEF LiveMap, Live
  <2>4. Good(clients', LiveMap', listeners', TRUE)
    BY <2>2, <2>3 DEF Good, Home, Apart, DeadAway, OrphansFirst, Covered, OwnedIn
  <2> QED
    BY <2>1, <2>2, <2>4 DEF IInv, TypeOK, OpInBounds, GoneHaveNoSpecs, SpecTable
<1> QED
  BY <1>1, <1>2, <1>3, <1>4, <1>5, <1>6, <1>7, <1>8, <1>9, <1>10 DEF Next

(* The invariant gives each of the properties.                             *)
LEMMA InvariantMeans ==
  ASSUME IInv
  PROVE  SpecsPointHome /\ NoSharedListener /\ NoOrphanListener
<1>1. /\ Home(clients, LiveMap, listeners) /\ Apart(clients, LiveMap)
      /\ Covered(clients, LiveMap, listeners, down)
  BY DEF IInv, Good
<1>2. \A c \in Conns : LiveMap[c] = Live(c)
  BY DEF LiveMap
<1>3. clients \in SpecTable /\ listeners \in [Relays -> Seq(listener)]
  BY DEF IInv, TypeOK, SpecTable
<1>4. \A r \in Relays : Len(listeners[r]) \in Nat /\ DOMAIN listeners[r] = 1..Len(listeners[r])
  BY <1>3, LenProperties
<1>5. SpecsPointHome
  BY <1>1, <1>2 DEF Home, SpecsPointHome, ListenerAt, LastIndex
<1>6. NoSharedListener
  BY <1>1, <1>2 DEF Apart, NoSharedListener
<1>7. NoOrphanListener
  <2> SUFFICES ASSUME NEW r \in Relays, NEW i \in DOMAIN listeners[r]
               PROVE  Owned(r, i) \/ (down /\ r # Top)
    BY DEF NoOrphanListener
  <2>1. OwnedIn(clients, LiveMap, r, i) \/ (down /\ r # Top)
    BY <1>1, <1>4 DEF Covered
  <2>2. OwnedIn(clients, LiveMap, r, i) => Owned(r, i)
    BY <1>2 DEF OwnedIn, Owned, PointsAt
  <2> QED
    BY <2>1, <2>2
<1> QED
  BY <1>5, <1>6, <1>7

\* The invariant the others follow from: the index is right between the operations and between
\* the iterations of a removal (listener.go:30-133).
THEOREM IndexStaysRight == Spec => []IInv
<1>1. Init => IInv
  BY InitEstablishes
<1>2. IInv /\ [Next]_vars => IInv'
  BY StepKeeps
<1> QED
  BY <1>1, <1>2, PTL DEF Spec

\* The registry never stores anything but specs and listeners (listener.go:13-24).
THEOREM TypesHold == Spec => []TypeOK
<1>1. IInv => TypeOK
  BY DEF IInv
<1> QED
  BY <1>1, IndexStaysRight, PTL

\* Every live spec points at its own listener, whatever was added, closed or disconnected in
\* whatever order (listener.go:47-58, 81-95, 111-129).
THEOREM SpecsAlwaysPointHome == Spec => []SpecsPointHome
<1>1. IInv => SpecsPointHome
  BY InvariantMeans
<1> QED
  BY <1>1, IndexStaysRight, PTL

\* No two live specs of a connection share a listener (listener.go:34-58).
THEOREM ListenersAreNeverShared == Spec => []NoSharedListener
<1>1. IInv => NoSharedListener
  BY InvariantMeans
<1> QED
  BY <1>1, IndexStaysRight, PTL

\* Before Shutdown no listener outlives its spec, and after it none of the top relay does
\* (listener.go:62-133, get-started.go:53-65).
THEOREM ListenersNeverOrphaned == Spec => []NoOrphanListener
<1>1. IInv => NoOrphanListener
  BY InvariantMeans
<1> QED
  BY <1>1, IndexStaysRight, PTL

(* A hole that is not at the end is filled by a listener whose spec is     *)
(* there to be found.                                                      *)
LEMMA HoleFindsMoved ==
  ASSUME NEW C \in SpecTable, NEW L \in [Relays -> Seq(listener)],
         NEW live, Within(live, C),
         NEW dn, NEW r \in Relays, NEW index \in Int, index + 1 \in 1..Len(L[r]),
         Hole(C, live, L, dn, r, index + 1),
         index # Len(L[r]) - 1
  PROVE  SpecPointingAt(C[L[r][Len(L[r])].ws], r, Len(L[r]) - 1) # 0
<1> DEFINE n == Len(L[r])
           k == index + 1
           m == L[r][n].ws
           t == SpecPointingAt(C[m], r, n - 1)
<1>1. /\ n \in Nat \ {0} /\ k \in 1..n /\ k # n /\ n = Len(L[r])
      /\ n \in (k + 1)..n
  BY LenProperties
<1>2. Home(C, live, L) /\ Apart(C, live) /\ OwnedIn(C, live, r, n)
  BY <1>1 DEF Hole
<1>3. \A c \in Conns : \A s \in DOMAIN C[c] \ live[c] :
        ~(C[c][s].subrelay = r /\ C[c][s].index = n - 1)
  <2> SUFFICES ASSUME NEW c \in Conns, NEW s \in DOMAIN C[c] \ live[c],
                      C[c][s].subrelay = r, C[c][s].index = n - 1
               PROVE  FALSE
    OBVIOUS
  <2>1. \/ C[c][s].index = -1
        \/ C[c][s].index >= Len(L[C[c][s].subrelay])
        \/ C[c][s].subrelay = r /\ k = Len(L[r]) /\ C[c][s].index = k - 1
    BY DEF Hole
  <2> QED
    BY <2>1, <1>1
<1>4. \A c \in Conns : live[c] \subseteq DOMAIN C[c]
  BY DEF Within
<1>5. m \in Conns /\ t \in DOMAIN C[m]
  <2> HIDE DEF k
  <2>1. /\ L[r][n].ws \in Conns
        /\ SpecPointingAt(C[L[r][n].ws], r, n - 1) \in DOMAIN C[L[r][n].ws]
    BY <1>1, <1>2, <1>3, <1>4, SpecsMovedByDrop
  <2> QED
    BY <2>1
<1>6. DOMAIN C[m] = 1..Len(C[m])
  BY <1>5, LenProperties DEF SpecTable
<1>7. t # 0
  BY <1>5, <1>6
<1> QED
  BY <1>7 DEF n

LEMMA InvariantFindsMoved ==
  ASSUME IInv
  PROVE  MovedSpecFound
<1>1. clients \in SpecTable /\ listeners \in [Relays -> Seq(listener)]
  BY DEF IInv, TypeOK, SpecTable
<1>2. \A r \in Relays : Len(listeners[r]) \in Nat
  BY <1>1, LenProperties
<1>3. Good(clients, LiveMap, listeners, down)
  BY DEF IInv
<1> SUFFICES ASSUME NEW c \in Conns, NEW s \in DOMAIN clients[c]
             PROVE  /\ op \in Close /\ op.ws = c /\ op.s = s /\ clients[c][s].id = op.id
                         => MoveFinds(SpecsAfterClose(c, s), clients[c][s].subrelay, clients[c][s].index)
                    /\ op \in Leave /\ op.ws = c /\ op.s = s
                         => MoveFinds(SpecsAfterLeave(c, s), clients[c][s].subrelay, clients[c][s].index)
  BY DEF MovedSpecFound
<1> DEFINE r == clients[c][s].subrelay
           x == clients[c][s].index
<1>4. r \in Relays /\ x \in Int
  BY <1>1, SpecIsTyped
<1>5. ASSUME NEW D \in SpecTable, NEW live, Within(live, D),
             x + 1 \in 1..Len(listeners[r]),
             Hole(D, live, listeners, down, r, x + 1)
      PROVE  MoveFinds(D, r, x)
  <2> HIDE DEF r, x
  <2> SUFFICES ASSUME x # Len(listeners[r]) - 1
               PROVE  SpecPointingAt(D[listeners[r][Len(listeners[r])].ws], r, Len(listeners[r]) - 1) # 0
    <3>1. Len(listeners[r]) - 1 + 1 = Len(listeners[r])
      BY <1>2, <1>4
    <3> QED
      BY <3>1 DEF MoveFinds, ListenerAt, LastIndex
  <2> QED
    BY <1>1, <1>4, <1>5, HoleFindsMoved
<1>6. ASSUME op \in Close, op.ws = c, op.s = s
      PROVE  MoveFinds(SpecsAfterClose(c, s), r, x)
  <2> DEFINE D == SpecsAfterClose(c, s)
  <2>1. Good(clients, All(clients), listeners, down)
    BY <1>3, <1>6, OpKinds, LiveMapIs
  <2>2. D = [clients EXCEPT ![c] = SwapDelete(@, s)]
    BY DEF SpecsAfterClose
  <2> HIDE DEF D
  <2>3. /\ D \in SpecTable
        /\ x + 1 \in 1..Len(listeners[r])
        /\ Hole(D, All(D), listeners, down, r, x + 1)
    BY <2>1, <2>2, <1>1, CloseMakesHole
  <2>4. Within(All(D), D)
    BY DEF Within, All
  <2>5. MoveFinds(D, r, x)
    BY <2>3, <2>4, <1>5
  <2> QED
    BY <2>5 DEF D
<1>7. ASSUME op \in Leave, op.ws = c, op.s = s
      PROVE  MoveFinds(SpecsAfterLeave(c, s), r, x)
  <2> DEFINE D == SpecsAfterLeave(c, s)
             live2 == [d \in Conns |-> {t \in LiveMap[d] : ~(d = c /\ t = s)}]
  <2>1. \A d \in Conns : Len(clients[d]) \in Nat /\ DOMAIN clients[d] = 1..Len(clients[d])
    BY <1>1, LenProperties DEF SpecTable
  <2>2. LiveMap = [d \in Conns |-> IF op.ws = d THEN op.s..Len(clients[d]) ELSE DOMAIN clients[d]]
    BY <1>7, LiveMapIs
  <2>3. op.s >= 1 /\ op.s \in Nat
    BY <1>7, OpKinds DEF IInv, OpInBounds
  <2>4. Within(LiveMap, clients) /\ s \in LiveMap[c]
    BY <2>1, <2>2, <2>3, <1>7 DEF Within
  <2>5. Without(LiveMap, live2, c, s)
    BY DEF Without
  <2>6. D = Marked(clients, listeners, c, s)
    BY DEF SpecsAfterLeave, LastIndex, SetIndex, Marked
  <2> HIDE DEF D, live2
  <2>7. /\ D \in SpecTable
        /\ \A d \in Conns : DOMAIN D[d] = DOMAIN clients[d]
        /\ x + 1 \in 1..Len(listeners[r])
        /\ Hole(D, live2, listeners, down, r, x + 1)
    BY <2>4, <2>5, <2>6, <1>1, <1>3, LeaveMakesHole
  <2>8. Within(live2, D)
    <3> SUFFICES ASSUME NEW d \in Conns
                 PROVE  live2[d] \subseteq DOMAIN D[d]
      BY DEF Within
    <3>1. live2[d] \subseteq LiveMap[d]
      BY DEF live2
    <3> QED
      BY <3>1, <2>4, <2>7 DEF Within
  <2>9. MoveFinds(D, r, x)
    BY <2>7, <2>8, <1>5
  <2> QED
    BY <2>9 DEF D
<1> QED
  BY <1>6, <1>7

\* A removal that has to move a listener always finds the spec to repair: the code cannot panic
\* with clientsMutex held (listener.go:88-92, 122-126).
THEOREM MovedSpecAlwaysFound == Spec => []MovedSpecFound
<1>1. IInv => MovedSpecFound
  BY InvariantFindsMoved
<1> QED
  BY <1>1, IndexStaysRight, PTL

\* The index is right in every reachable state, for any number of connections, ids, filters and
\* relays: its four parts together (listener.go:34-133).
THEOREM IndexIsAlwaysRight == Spec => []IndexIsRight
<1>1. SpecsPointHome /\ NoSharedListener /\ NoOrphanListener /\ MovedSpecFound => IndexIsRight
  BY DEF IndexIsRight
<1> QED
  BY <1>1, SpecsAlwaysPointHome, ListenersAreNeverShared, ListenersNeverOrphaned, MovedSpecAlwaysFound, PTL
-----------------------------------------------------------------------------
(***************************************************************************)
(* The registry implements SubscriptionTable: whatever its removals move,  *)
(* the entries a connection has are what it subscribed to and has not      *)
(* closed.                                                                 *)
(***************************************************************************)

\* The entry that the spec at place s of c stands for, and the entries of c from `skip` on.
At(C, L, c, s) ==
  [relay |-> C[c][s].subrelay, to |-> L[C[c][s].subrelay][C[c][s].index + 1]]

Row(C, L, c, skip) == [k \in 1..(Len(C[c]) - skip) |-> At(C, L, c, k + skip)]

Skip(c) == IF op \in Leave /\ op.ws = c THEN op.s - 1 ELSE 0

Entries == [relay: Relays, to: listener]

\* A CLOSE has dealt with the specs after op.s: its end finds none with the id (listener.go:71-97).
ClosedAbove ==
  op \in Close =>
    \A t \in DOMAIN clients[op.ws] : t > op.s => clients[op.ws][t].id # op.id

RInv == IInv /\ ClosedAbove

-----------------------------------------------------------------------------
(* The table of the refinement mapping, without its sub-sequences.         *)
LEMMA TableIs ==
  ASSUME IInv
  PROVE  Table = [c \in Conns |-> Row(clients, listeners, c, Skip(c))]
<1>1. clients \in SpecTable
  BY DEF IInv, TypeOK, SpecTable
<1> SUFFICES ASSUME NEW c \in Conns
             PROVE  [s \in DOMAIN LiveSpecs(c) |-> Resolve(LiveSpecs(c)[s])]
                      = Row(clients, listeners, c, Skip(c))
  BY DEF Table
<1> DEFINE n == Len(clients[c])
<1>2. /\ clients[c] \in Seq(listenerSpec) /\ n \in Nat /\ DOMAIN clients[c] = 1..n
  BY <1>1, LenProperties DEF SpecTable
<1>3. /\ DOMAIN LiveSpecs(c) = 1..(n - Skip(c))
      /\ \A s \in 1..(n - Skip(c)) : LiveSpecs(c)[s] = clients[c][s + Skip(c)]
  <2>1. CASE op \in Leave /\ op.ws = c
    <3>1. op.s \in Nat /\ op.s >= 1
      BY <2>1, OpKinds DEF IInv, OpInBounds
    <3>2. \A i \in op.s..n : clients[c][i] \in listenerSpec
      BY <3>1, <1>2, ElementOfSeq
    <3>3. /\ SubSeq(clients[c], op.s, n) \in Seq(listenerSpec)
          /\ Len(SubSeq(clients[c], op.s, n)) = IF op.s <= n THEN n - op.s + 1 ELSE 0
          /\ \A i \in 1..(n - op.s + 1) : SubSeq(clients[c], op.s, n)[i] = clients[c][op.s + i - 1]
      BY <3>1, <3>2, <1>2, SubSeqProperties
    <3>4. LiveSpecs(c) = SubSeq(clients[c], op.s, n) /\ Skip(c) = op.s - 1
      BY <2>1 DEF LiveSpecs, Skip
    <3>5. DOMAIN LiveSpecs(c) = 1..Len(SubSeq(clients[c], op.s, n))
      BY <3>3, <3>4, LenProperties
    <3>6. 1..Len(SubSeq(clients[c], op.s, n)) = 1..(n - op.s + 1)
      BY <3>1, <3>3, <1>2
    <3>7. n - Skip(c) = n - op.s + 1
      BY <3>1, <3>4, <1>2
    <3>8. \A s \in 1..(n - op.s + 1) : op.s + s - 1 = s + (op.s - 1)
      BY <3>1
    <3> QED
      BY <3>3, <3>4, <3>5, <3>6, <3>7, <3>8
  <2>2. CASE ~(op \in Leave /\ op.ws = c)
    <3>1. LiveSpecs(c) = clients[c] /\ Skip(c) = 0
      BY <2>2 DEF LiveSpecs, Skip
    <3> QED
      BY <3>1, <1>2
  <2> QED
    BY <2>1, <2>2
<1>4. \A s \in 1..(n - Skip(c)) :
        Resolve(LiveSpecs(c)[s]) = At(clients, listeners, c, s + Skip(c))
  BY <1>3 DEF Resolve, ListenerAt, At
<1> QED
  BY <1>3, <1>4 DEF Row

LEMMA RowIsTyped ==
  ASSUME NEW C \in SpecTable, NEW L \in [Relays -> Seq(listener)], NEW c \in Conns,
         NEW live, Home(C, live, L),
         NEW skip \in 0..Len(C[c]), \A s \in (skip + 1)..Len(C[c]) : s \in live[c]
  PROVE  /\ Row(C, L, c, skip) \in Seq(Entries)
         /\ Len(Row(C, L, c, skip)) = Len(C[c]) - skip
         /\ \A k \in 1..(Len(C[c]) - skip) : Row(C, L, c, skip)[k] = At(C, L, c, k + skip)
<1>1. C[c] \in Seq(listenerSpec) /\ Len(C[c]) \in Nat /\ DOMAIN C[c] = 1..Len(C[c])
  BY LenProperties DEF SpecTable
<1> DEFINE m == Len(C[c]) - skip
           row == Row(C, L, c, skip)
<1>2. \A k \in 1..m : At(C, L, c, k + skip) \in Entries
  <2> SUFFICES ASSUME NEW k \in 1..m
               PROVE  At(C, L, c, k + skip) \in Entries
    OBVIOUS
  <2>0. PICK s \in (skip + 1)..Len(C[c]) : s = k + skip
    BY <1>1
  <2>1. s \in live[c] /\ s \in DOMAIN C[c] /\ C[c][s].subrelay \in Relays
    <3>1. s \in DOMAIN C[c]
      BY <1>1
    <3> QED
      BY <3>1, SpecIsTyped
  <2>2. C[c][s].index \in 0..(Len(L[C[c][s].subrelay]) - 1)
    BY <2>1 DEF Home
  <2>3. L[C[c][s].subrelay] \in Seq(listener) /\ Len(L[C[c][s].subrelay]) \in Nat
    BY <2>1, LenProperties
  <2>4. C[c][s].index + 1 \in 1..Len(L[C[c][s].subrelay])
    BY <2>2, <2>3
  <2>5. L[C[c][s].subrelay][C[c][s].index + 1] \in listener
    BY <2>3, <2>4, ElementOfSeq
  <2> QED
    BY <2>0, <2>1, <2>5 DEF At, Entries
<1>3. row = [k \in 1..m |-> At(C, L, c, k + skip)]
  BY DEF Row
<1>4. m \in Nat
  BY <1>1
<1> HIDE DEF row, m
<1>5. row \in [1..m -> Entries]
  BY <1>2, <1>3
<1>6. row \in Seq(Entries)
  BY <1>4, <1>5, SeqDef
<1>7. Len(row) = m
  BY <1>4, <1>5, <1>6, LenProperties
<1> QED
  BY <1>3, <1>6, <1>7 DEF row, m

LEMMA RowIsEmpty ==
  ASSUME NEW C, NEW L, NEW c, NEW skip, Len(C[c]) - skip \in Int, Len(C[c]) - skip <= 0
  PROVE  Row(C, L, c, skip) = <<>>
<1> DEFINE row == Row(C, L, c, skip)
<1>1. 1..(Len(C[c]) - skip) = {}
  OBVIOUS
<1>2. row \in [1..0 -> Entries] /\ DOMAIN row = {}
  BY <1>1 DEF Row
<1> HIDE DEF row
<1>3. row \in Seq(Entries)
  BY <1>2, SeqDef
<1>4. row = <<>>
  BY <1>2, <1>3, NoPlaceNoElement
<1> QED
  BY <1>4 DEF row

(* No live spec pointed at the place dropped, so each stands for what it   *)
(* stood for: the listener that moved is found at its new place.           *)
LEMMA EntriesStay ==
  ASSUME NEW C, NEW C2, NEW L, NEW L2, NEW live,
         \A c \in Conns : \A s \in live[c] : s \in DOMAIN C[c] /\ C[c][s].subrelay \in Relays,
         \A q \in Relays : Len(L[q]) \in Nat,
         NEW r \in Relays, NEW n \in Nat \ {0}, n = Len(L[r]), NEW k \in 1..n,
         ListenersCut(L, L2, r, k), SpecsMoved(C, C2, live, r, n, k),
         Home(C, live, L), ~OwnedIn(C, live, r, k)
  PROVE  \A c \in Conns : \A s \in live[c] : At(C2, L2, c, s) = At(C, L, c, s)
<1> SUFFICES ASSUME NEW c \in Conns, NEW s \in live[c]
             PROVE  At(C2, L2, c, s) = At(C, L, c, s)
  OBVIOUS
<1>1. PICK q \in Relays : q = C[c][s].subrelay
  OBVIOUS
<1>2. PICK x \in 0..(Len(L[q]) - 1) : x = C[c][s].index
  BY <1>1 DEF Home
<1>3. ~(q = r /\ x = k - 1)
  BY <1>1, <1>2 DEF OwnedIn
<1>4. /\ C2[c][s].subrelay = q
      /\ C2[c][s].index = IF q = r /\ x = n - 1 /\ k # n THEN k - 1 ELSE x
  BY <1>1, <1>2 DEF SpecsMoved
<1>5. L2[q][C2[c][s].index + 1] = L[q][x + 1]
  <2>1. CASE q # r
    BY <2>1, <1>4 DEF ListenersCut
  <2>2. CASE q = r /\ x # n - 1
    <3>1. x \in 0..(n - 1) /\ x # n - 1 /\ x # k - 1
      BY <2>2, <1>2, <1>3
    <3>2. x + 1 \in 1..(n - 1) /\ x + 1 # k
      BY <3>1
    <3> QED
      BY <3>1, <3>2, <2>2, <1>4 DEF ListenersCut
  <2>3. CASE q = r /\ x = n - 1
    <3>1. k # n /\ k \in 1..(n - 1) /\ k - 1 + 1 = k /\ x + 1 = n
      BY <2>3, <1>3
    <3>2. L2[r][k] = L[r][n]
      BY <3>1 DEF ListenersCut
    <3> QED
      BY <3>1, <3>2, <2>3, <1>4
  <2> QED
    BY <2>1, <2>2, <2>3
<1> QED
  BY <1>1, <1>2, <1>4, <1>5 DEF At

LEMMA DropMoves ==
  ASSUME listeners \in [Relays -> Seq(listener)],
         NEW STATE specs, specs \in SpecTable,
         NEW STATE live, \A c \in Conns : live[c] \subseteq DOMAIN specs[c],
         NEW STATE r, r \in Relays,
         NEW STATE index, index \in Int, index + 1 \in 1..Len(listeners[r]),
         Hole(specs, live, listeners, down, r, index + 1),
         Drop(specs, r, index)
  PROVE  /\ \A c \in Conns : /\ DOMAIN clients'[c] = DOMAIN specs[c]
                             /\ \A s \in DOMAIN specs[c] : clients'[c][s].id = specs[c][s].id
         /\ \A c \in Conns : \A s \in live[c] :
              At(clients', listeners', c, s) = At(specs, listeners, c, s)
<1>1. /\ \A q \in Relays : Len(listeners[q]) \in Nat
      /\ Len(listeners[r]) \in Nat \ {0}
  BY LenProperties
<1>2. /\ listeners' = DropListeners(listeners, r, index)
      /\ clients' = DropSpecs(specs, listeners, r, index)
  BY <1>1, DropIs
<1>3. PICK k \in 1..Len(listeners[r]) : k = index + 1 /\ k - 1 = index
  BY <1>1
<1>4. Hole(specs, live, listeners, down, r, k)
  BY <1>3
<1>5. /\ ListenersCut(listeners, listeners', r, k)
      /\ SpecsMoved(specs, clients', live, r, Len(listeners[r]), k)
  <2>1. /\ ListenersCut(listeners, DropListeners(listeners, r, k - 1), r, k)
        /\ SpecsMoved(specs, DropSpecs(specs, listeners, r, k - 1), live, r, Len(listeners[r]), k)
    BY <1>4, HoleIsCut
  <2> QED
    BY <2>1, <1>2, <1>3
<1>6. /\ \A c \in Conns : DOMAIN clients'[c] = DOMAIN specs[c]
      /\ \A c \in Conns : \A s \in DOMAIN specs[c] : clients'[c][s].id = specs[c][s].id
  BY <1>5 DEF SpecsMoved
<1>7. Home(specs, live, listeners) /\ ~OwnedIn(specs, live, r, k)
  BY <1>4 DEF Hole
<1>8. \A c \in Conns : \A s \in live[c] : s \in DOMAIN specs[c] /\ specs[c][s].subrelay \in Relays
  <2> SUFFICES ASSUME NEW c \in Conns, NEW s \in live[c]
               PROVE  s \in DOMAIN specs[c] /\ specs[c][s].subrelay \in Relays
    OBVIOUS
  <2>1. s \in DOMAIN specs[c]
    OBVIOUS
  <2> QED
    BY <2>1, SpecIsTyped
<1>9. \A c \in Conns : \A s \in live[c] :
        At(clients', listeners', c, s) = At(specs, listeners, c, s)
  BY <1>1, <1>5, <1>7, <1>8, EntriesStay
<1> QED
  BY <1>6, <1>9

-----------------------------------------------------------------------------
(* ClosedAbove is kept: an iteration of a CLOSE moves the last spec, which *)
(* does not have the id, into the place it is at.                          *)
LEMMA CloseStepIs ==
  ASSUME IInv, RemoveListenerIdStep, clients[op.ws][op.s].id = op.id
  PROVE  /\ op.ws \in Conns /\ op.s \in DOMAIN clients[op.ws]
         /\ \A d \in Conns \ {op.ws} :
              /\ Len(clients'[d]) = Len(clients[d])
              /\ \A t \in DOMAIN clients[d] :
                   At(clients', listeners', d, t) = At(clients, listeners, d, t)
         /\ Len(clients'[op.ws]) = Len(clients[op.ws]) - 1
         /\ \A t \in 1..(Len(clients[op.ws]) - 1) :
              LET u == IF t = op.s THEN Len(clients[op.ws]) ELSE t
              IN  /\ clients'[op.ws][t].id = clients[op.ws][u].id
                  /\ At(clients', listeners', op.ws, t) = At(clients, listeners, op.ws, u)
<1>1. /\ op \in Close /\ op.ws \in Conns /\ op.s \in Nat /\ op.s > 0
      /\ op.s <= Len(clients[op.ws])
  BY OpKinds DEF RemoveListenerIdStep, IInv, OpInBounds
<1>2. clients \in SpecTable /\ listeners \in [Relays -> Seq(listener)]
  BY DEF IInv, TypeOK, SpecTable
<1>3. Good(clients, All(clients), listeners, down)
  BY <1>1, OpKinds, LiveMapIs DEF IInv
<1>4. op.s \in DOMAIN clients[op.ws]
  BY <1>1, <1>2, LenProperties DEF SpecTable
<1> DEFINE c == op.ws
           spec == clients[c][op.s]
           D == SpecsAfterClose(c, op.s)
           n == Len(clients[c])
<1>5. Drop(D, spec.subrelay, spec.index)
  BY DEF RemoveListenerIdStep
<1>6. D = [clients EXCEPT ![c] = SwapDelete(@, op.s)]
  BY DEF SpecsAfterClose
<1>7. spec.subrelay \in Relays /\ spec.index \in Int
  BY <1>1, <1>2, <1>4, SpecIsTyped
<1>8. /\ \A d \in Conns : D[d] = IF d = c THEN SwapDelete(clients[c], op.s) ELSE clients[d]
      /\ clients[c] \in Seq(listenerSpec) /\ op.s \in 1..n
  BY <1>6, <1>1, <1>2, <1>4, LenProperties DEF SpecTable
<1> HIDE DEF D
<1>9. /\ DOMAIN D[c] = 1..(n - 1)
      /\ \A t \in 1..(n - 1) : D[c][t] = IF t = op.s THEN clients[c][n] ELSE clients[c][t]
  <2>1. D[c] = SwapDelete(clients[c], op.s)
    BY <1>1, <1>8
  <2> HIDE DEF c
  <2>2. /\ DOMAIN SwapDelete(clients[c], op.s) = 1..(n - 1)
        /\ \A t \in 1..(n - 1) :
             SwapDelete(clients[c], op.s)[t] = IF t = op.s THEN clients[c][n] ELSE clients[c][t]
    BY <1>8, SwapDeleteProperties
  <2> QED
    BY <2>1, <2>2
<1>10. /\ D \in SpecTable
       /\ spec.index + 1 \in 1..Len(listeners[spec.subrelay])
       /\ Hole(D, All(D), listeners, down, spec.subrelay, spec.index + 1)
  BY <1>1, <1>2, <1>3, <1>4, <1>6, CloseMakesHole
<1>11. \A d \in Conns : All(D)[d] \subseteq DOMAIN D[d]
  BY DEF All
<1> HIDE DEF spec, c
<1>12. /\ \A d \in Conns : /\ DOMAIN clients'[d] = DOMAIN D[d]
                           /\ \A t \in DOMAIN D[d] : clients'[d][t].id = D[d][t].id
       /\ \A d \in Conns : \A t \in All(D)[d] :
            At(clients', listeners', d, t) = At(D, listeners, d, t)
  BY <1>2, <1>5, <1>7, <1>10, <1>11, DropMoves
<1>13. \A d \in Conns : \A t \in DOMAIN D[d] :
         At(clients', listeners', d, t) = At(D, listeners, d, t)
  BY <1>12 DEF All
<1>14. clients' \in SpecTable
  BY <1>2, <1>5, <1>7, <1>10, <1>11, DropFillsHole
<1> USE DEF c
<1>15. ASSUME NEW d \in Conns \ {c}
       PROVE  /\ Len(clients'[d]) = Len(clients[d])
              /\ \A t \in DOMAIN clients[d] :
                   At(clients', listeners', d, t) = At(clients, listeners, d, t)
  <2>1. D[d] = clients[d]
    BY <1>8
  <2>2. Len(clients'[d]) = Len(clients[d])
    BY <2>1, <1>2, <1>12, <1>14, SameDomainSameLength DEF SpecTable
  <2>3. \A t \in DOMAIN D[d] : At(D, listeners, d, t) = At(clients, listeners, d, t)
    BY <2>1 DEF At
  <2> QED
    BY <2>1, <2>2, <2>3, <1>13
<1>16. Len(clients'[c]) = n - 1
  <2>1. clients'[c] \in Seq(listenerSpec)
    BY <1>1, <1>14 DEF SpecTable
  <2>2. Len(clients'[c]) \in Nat /\ 1..Len(clients'[c]) = 1..(n - 1)
    BY <2>1, <1>1, <1>9, <1>12, LenProperties
  <2>3. n \in Nat
    BY <1>8, LenProperties
  <2> QED
    BY <2>2, <2>3, <1>8
<1>17. \A t \in 1..(n - 1) :
         LET u == IF t = op.s THEN n ELSE t
         IN  /\ clients'[c][t].id = clients[c][u].id
             /\ At(clients', listeners', c, t) = At(clients, listeners, c, u)
  <2> SUFFICES ASSUME NEW t \in 1..(n - 1), NEW u, u = IF t = op.s THEN n ELSE t
               PROVE  /\ clients'[c][t].id = clients[c][u].id
                      /\ At(clients', listeners', c, t) = At(clients, listeners, c, u)
    OBVIOUS
  <2>1. D[c][t] = clients[c][u] /\ t \in DOMAIN D[c]
    BY <1>9
  <2>2. At(D, listeners, c, t) = At(clients, listeners, c, u)
    BY <2>1 DEF At
  <2> QED
    BY <2>1, <2>2, <1>1, <1>12, <1>13
<1> QED
  BY <1>1, <1>4, <1>15, <1>16, <1>17

LEMMA ClosedAboveKept ==
  ASSUME IInv, ClosedAbove, [Next]_vars
  PROVE  ClosedAbove'
<1> USE OpKinds
<1>0. clients \in SpecTable
  BY DEF IInv, TypeOK, SpecTable
<1>1. CASE UNCHANGED vars
  BY <1>1 DEF vars, ClosedAbove
<1>2. CASE op' = Free \/ op' \in Leave
  BY <1>2 DEF ClosedAbove
<1>3. ASSUME NEW c \in Conns, NEW id \in Ids, RemoveListenerIdBegin(c, id)
      PROVE  ClosedAbove'
  <2>1. /\ clients' = clients
        /\ op' = [kind |-> "close", ws |-> c, id |-> id, s |-> Len(clients[c])]
    BY <1>3 DEF RemoveListenerIdBegin
  <2>2. Len(clients[c]) \in Nat /\ DOMAIN clients[c] = 1..Len(clients[c])
    BY <1>0, LenProperties DEF SpecTable
  <2>3. \A t \in DOMAIN clients[c] : ~(t > Len(clients[c]))
    BY <2>2
  <2> QED
    BY <2>1, <2>3 DEF ClosedAbove
<1>4. CASE RemoveListenerIdStep
  <2>1. /\ op \in Close /\ op.ws \in Conns /\ op.s \in Nat /\ op.s > 0
        /\ op.s <= Len(clients[op.ws])
        /\ op' = [op EXCEPT !.s = @ - 1]
    BY <1>4 DEF RemoveListenerIdStep, IInv, OpInBounds
  <2>2. op'.s = op.s - 1 /\ op'.ws = op.ws /\ op'.id = op.id
    BY <2>1 DEF Close
  <2>3. DOMAIN clients[op.ws] = 1..Len(clients[op.ws]) /\ Len(clients[op.ws]) \in Nat
    BY <2>1, <1>0, LenProperties DEF SpecTable
  <2>4. \A t \in DOMAIN clients[op.ws] : t > op.s => clients[op.ws][t].id # op.id
    BY <2>1 DEF ClosedAbove
  <2> SUFFICES ASSUME NEW t \in DOMAIN clients'[op.ws], t > op.s - 1
               PROVE  clients'[op.ws][t].id # op.id
    BY <2>2 DEF ClosedAbove
  <2>5. CASE clients[op.ws][op.s].id # op.id
    <3>1. clients' = clients
      BY <2>5, <1>4 DEF RemoveListenerIdStep
    <3>2. t = op.s \/ t > op.s
      BY <3>1, <2>1, <2>3
    <3> QED
      BY <3>1, <3>2, <2>4, <2>5
  <2>6. CASE clients[op.ws][op.s].id = op.id
    <3>1. /\ Len(clients'[op.ws]) = Len(clients[op.ws]) - 1
          /\ \A u \in 1..(Len(clients[op.ws]) - 1) :
               clients'[op.ws][u].id
                 = clients[op.ws][IF u = op.s THEN Len(clients[op.ws]) ELSE u].id
      BY <2>6, <1>4, CloseStepIs
    <3>2. clients'[op.ws] \in Seq(listenerSpec)
      <4>1. clients' \in SpecTable
        BY <1>4, CloseStepKeeps DEF IInv, TypeOK, SpecTable
      <4> QED
        BY <4>1, <2>1 DEF SpecTable
    <3>3. t \in 1..(Len(clients[op.ws]) - 1)
      BY <3>1, <3>2, LenProperties
    <3>4. PICK u : u = IF t = op.s THEN Len(clients[op.ws]) ELSE t
      OBVIOUS
    <3>5. u \in DOMAIN clients[op.ws] /\ u > op.s
      BY <3>3, <3>4, <2>1, <2>3
    <3> QED
      BY <3>1, <3>3, <3>4, <3>5, <2>4
  <2> QED
    BY <2>5, <2>6
<1>5. ASSUME \/ \E c \in Conns : Connect(c)
             \/ \E c \in Conns, id \in Ids, r \in Relays, f \in Filters : AddListener(c, id, r, f)
             \/ RemoveListenerIdEnd
             \/ \E c \in Conns : RemoveClientBegin(c)
             \/ RemoveClientStep
             \/ RemoveClientEnd
             \/ Shutdown
      PROVE  op' = Free \/ op' \in Leave
  <2>1. ASSUME NEW c \in Conns, RemoveClientBegin(c)
        PROVE  op' \in Leave
    BY <2>1 DEF RemoveClientBegin, Leave
  <2>2. CASE RemoveClientStep
    BY <2>2 DEF RemoveClientStep, Leave
  <2> QED
    BY <1>5, <2>1, <2>2 DEF Connect, AddListener, RemoveListenerIdEnd, RemoveClientEnd, Shutdown
<1> QED
  BY <1>1, <1>2, <1>3, <1>4, <1>5 DEF Next

LEMMA LeaveStepIs ==
  ASSUME IInv, RemoveClientStep
  PROVE  /\ \A d \in Conns : Len(clients'[d]) = Len(clients[d])
         /\ \A d \in Conns : \A t \in DOMAIN clients[d] :
              (d = op.ws => t > op.s) =>
                At(clients', listeners', d, t) = At(clients, listeners, d, t)
<1>1. /\ op \in Leave /\ op.ws \in Conns /\ op.s \in Nat /\ op.s >= 1
      /\ op.s <= Len(clients[op.ws])
  BY OpKinds DEF RemoveClientStep, IInv, OpInBounds
<1>2. clients \in SpecTable /\ listeners \in [Relays -> Seq(listener)]
  BY DEF IInv, TypeOK, SpecTable
<1>3. \A d \in Conns : Len(clients[d]) \in Nat /\ DOMAIN clients[d] = 1..Len(clients[d])
  BY <1>2, LenProperties DEF SpecTable
<1> DEFINE c == op.ws
           s == op.s
           spec == clients[c][s]
           D == SpecsAfterLeave(c, s)
           live2 == [d \in Conns |-> {t \in LiveMap[d] : ~(d = c /\ t = s)}]
<1>4. LiveMap = [d \in Conns |-> IF op.ws = d THEN op.s..Len(clients[d]) ELSE DOMAIN clients[d]]
  BY <1>1, LiveMapIs
<1>5. Within(LiveMap, clients) /\ s \in LiveMap[c] /\ s \in DOMAIN clients[c]
  BY <1>1, <1>3, <1>4 DEF Within
<1>6. \A d \in Conns : \A t \in DOMAIN clients[d] : (d = c => t > s) => t \in live2[d]
  BY <1>1, <1>3, <1>4
<1>7. Good(clients, LiveMap, listeners, down)
  BY DEF IInv
<1>8. Drop(D, spec.subrelay, spec.index)
  BY DEF RemoveClientStep
<1>9. D = Marked(clients, listeners, c, s)
  BY DEF SpecsAfterLeave, LastIndex, SetIndex, Marked
<1>10. spec.subrelay \in Relays /\ spec.index \in Int
  BY <1>1, <1>2, <1>5, SpecIsTyped
<1>11. Without(LiveMap, live2, c, s)
  BY DEF Without
<1>12. \A d \in Conns : live2[d] \subseteq DOMAIN clients[d]
  BY <1>5 DEF Within
<1> HIDE DEF D, live2, c, s
<1>a. c \in Conns /\ s \in LiveMap[c] /\ s \in DOMAIN clients[c]
  BY <1>1, <1>5 DEF c
<1>13. /\ D \in SpecTable
       /\ \A d \in Conns : DOMAIN D[d] = DOMAIN clients[d]
       /\ spec.index + 1 \in 1..Len(listeners[spec.subrelay])
       /\ Hole(D, live2, listeners, down, spec.subrelay, spec.index + 1)
  BY <1>2, <1>5, <1>7, <1>9, <1>11, <1>a, LeaveMakesHole
<1>14. \A d \in Conns : \A t \in DOMAIN clients[d] :
         ~(d = c /\ t = s) => At(D, listeners, d, t) = At(clients, listeners, d, t)
  <2>1. CASE D = clients
    BY <2>1
  <2>2. CASE D = SetIndex(clients, c, s, -1)
    <3>1. IndexIsSet(clients, D, c, s, -1)
      BY <2>2, <1>2, <1>a, SetIndexProperties
    <3> QED
      BY <3>1 DEF IndexIsSet, At
  <2> QED
    BY <2>1, <2>2, <1>9 DEF Marked
<1>15. \A d \in Conns : live2[d] \subseteq DOMAIN D[d]
  BY <1>12, <1>13
<1> HIDE DEF spec
<1>16. /\ \A d \in Conns : DOMAIN clients'[d] = DOMAIN D[d]
       /\ \A d \in Conns : \A t \in live2[d] :
            At(clients', listeners', d, t) = At(D, listeners, d, t)
  BY <1>2, <1>8, <1>10, <1>13, <1>15, DropMoves
<1>17. clients' \in SpecTable
  BY <1>2, <1>8, <1>10, <1>13, <1>15, DropFillsHole
<1>18. \A d \in Conns : Len(clients'[d]) = Len(clients[d])
  BY <1>2, <1>13, <1>16, <1>17, SameDomainSameLength DEF SpecTable
<1>19. ASSUME NEW d \in Conns, NEW t \in DOMAIN clients[d], d = op.ws => t > op.s
       PROVE  At(clients', listeners', d, t) = At(clients, listeners, d, t)
  <2>1. t \in live2[d]
    BY <1>19, <1>6 DEF c, s
  <2>2. ~(d = c /\ t = s)
    BY <1>19, <1>1 DEF c, s
  <2> QED
    BY <2>1, <2>2, <1>14, <1>16
<1> QED
  BY <1>18, <1>19

-----------------------------------------------------------------------------
(* The mapping: what the state is to SubscriptionTable, now and next.      *)
LEMMA TableIsNext == IInv' => (Table = [c \in Conns |-> Row(clients, listeners, c, Skip(c))])'
<1>1. IInv => Table = [c \in Conns |-> Row(clients, listeners, c, Skip(c))]
  BY TableIs
<1> QED
  BY <1>1, PTL

LEMMA AddListenerSubscribes ==
  ASSUME IInv, IInv', NEW c \in Conns, NEW id \in Ids, NEW r \in Relays, NEW f \in Filters,
         AddListener(c, id, r, f)
  PROVE  Abstract!Subscribe(c, id, r, f)
<1> DEFINE e == [id |-> id, index |-> Len(listeners[r]), subrelay |-> r]
           l == [id |-> id, filter |-> f, ws |-> c]
           n == Len(clients[c])
           entry == [relay |-> r, to |-> l]
<1>1. /\ op = Free /\ op' = op /\ registered' = registered /\ c \in registered
      /\ clients' = [clients EXCEPT ![c] = Append(@, e)]
      /\ listeners' = [listeners EXCEPT ![r] = Append(@, l)]
  BY DEF AddListener
<1>2. clients \in SpecTable /\ listeners \in [Relays -> Seq(listener)]
  BY DEF IInv, TypeOK, SpecTable
<1>3. /\ \A d \in Conns : /\ Len(clients[d]) \in Nat /\ DOMAIN clients[d] = 1..Len(clients[d])
                          /\ clients[d] \in Seq(listenerSpec)
      /\ \A q \in Relays : Len(listeners[q]) \in Nat /\ listeners[q] \in Seq(listener)
  BY <1>2, LenProperties DEF SpecTable
<1>4. l \in listener /\ entry \in Entries
  BY DEF listener, Entries
<1>5. /\ \A q \in Relays \ {r} : listeners'[q] = listeners[q]
      /\ \A i \in 1..Len(listeners[r]) : listeners'[r][i] = listeners[r][i]
      /\ listeners'[r][Len(listeners[r]) + 1] = l
  <2>1. /\ \A i \in 1..Len(listeners[r]) : Append(listeners[r], l)[i] = listeners[r][i]
        /\ Append(listeners[r], l)[Len(listeners[r]) + 1] = l
    BY <1>3, <1>4, AppendIs
  <2> HIDE DEF l
  <2> QED
    BY <2>1, <1>1, <1>2
<1>6. /\ \A d \in Conns \ {c} : clients'[d] = clients[d]
      /\ Len(clients'[c]) = n + 1
      /\ \A k \in 1..n : clients'[c][k] = clients[c][k]
      /\ clients'[c][n + 1] = e
  <2>1. e \in listenerSpec
    BY <1>3 DEF listenerSpec
  <2>2. /\ Len(Append(clients[c], e)) = n + 1
        /\ \A k \in 1..n : Append(clients[c], e)[k] = clients[c][k]
        /\ Append(clients[c], e)[n + 1] = e
    BY <2>1, <1>3, AppendIs
  <2> HIDE DEF e
  <2> QED
    BY <2>2, <1>1, <1>2 DEF SpecTable
<1>7. \A d \in Conns : Skip(d) = 0 /\ Skip(d)' = 0
  BY <1>1, OpKinds DEF Skip
<1>8. Home(clients, All(clients), listeners) /\ Home(clients', All(clients'), listeners')
  <2>1. LiveMap = All(clients) /\ LiveMap' = All(clients')
    BY <1>1, OpKinds DEF LiveMap, Live, All
  <2> QED
    BY <2>1 DEF IInv, Good
<1>9. \A d \in Conns : \A k \in 1..Len(clients[d]) :
        At(clients', listeners', d, k) = At(clients, listeners, d, k)
  <2> SUFFICES ASSUME NEW d \in Conns, NEW k \in 1..Len(clients[d])
               PROVE  At(clients', listeners', d, k) = At(clients, listeners, d, k)
    OBVIOUS
  <2>1. clients'[d][k] = clients[d][k]
    BY <1>6
  <2>2. PICK q \in Relays : q = clients[d][k].subrelay
    BY <1>2, <1>3, SpecIsTyped
  <2>3. PICK x \in 0..(Len(listeners[q]) - 1) : x = clients[d][k].index
    BY <2>2, <1>3, <1>8 DEF Home, All
  <2>4. x + 1 \in 1..Len(listeners[q])
    BY <1>3
  <2>5. listeners'[q][x + 1] = listeners[q][x + 1]
    BY <2>4, <1>5
  <2> QED
    BY <2>1, <2>2, <2>3, <2>5 DEF At
<1>10. At(clients', listeners', c, n + 1) = entry
  BY <1>5, <1>6 DEF At
<1> DEFINE row == Row(clients, listeners, c, 0)
           row2 == Row(clients', listeners', c, 0)
<1>11. /\ row \in Seq(Entries) /\ Len(row) = n
       /\ \A k \in 1..n : row[k] = At(clients, listeners, c, k)
  <2>1. \A k \in (0 + 1)..n : k \in All(clients)[c]
    BY <1>3 DEF All
  <2>2. 0 \in 0..n /\ n - 0 = n /\ \A k \in 1..n : k + 0 = k
    BY <1>3
  <2>3. /\ row \in Seq(Entries) /\ Len(row) = n - 0
        /\ \A k \in 1..(n - 0) : row[k] = At(clients, listeners, c, k + 0)
    BY <2>1, <2>2, <1>2, <1>8, RowIsTyped
  <2> QED
    BY <2>2, <2>3
<1>12. /\ row2 \in Seq(Entries) /\ Len(row2) = n + 1
       /\ \A k \in 1..(n + 1) : row2[k] = At(clients', listeners', c, k)
  <2>1. clients' \in SpecTable /\ listeners' \in [Relays -> Seq(listener)]
    BY DEF IInv, TypeOK, SpecTable
  <2>2. \A k \in (0 + 1)..Len(clients'[c]) : k \in All(clients')[c]
    BY <2>1, LenProperties DEF All, SpecTable
  <2>3. 0 \in 0..Len(clients'[c]) /\ Len(clients'[c]) - 0 = n + 1 /\ \A k \in 1..(n + 1) : k + 0 = k
    BY <1>3, <1>6
  <2>4. /\ row2 \in Seq(Entries) /\ Len(row2) = Len(clients'[c]) - 0
        /\ \A k \in 1..(Len(clients'[c]) - 0) : row2[k] = At(clients', listeners', c, k + 0)
    BY <2>1, <2>2, <2>3, <1>8, RowIsTyped
  <2> QED
    BY <2>3, <2>4
<1> HIDE DEF row, row2, entry
<1>13. row2 = Append(row, entry)
  <2>1. /\ Append(row, entry) \in Seq(Entries) /\ Len(Append(row, entry)) = n + 1
        /\ \A k \in 1..n : Append(row, entry)[k] = row[k]
        /\ Append(row, entry)[n + 1] = entry
    BY <1>4, <1>11, AppendIs
  <2>2. \A k \in 1..(n + 1) : row2[k] = Append(row, entry)[k]
    <3> SUFFICES ASSUME NEW k \in 1..(n + 1)
                 PROVE  row2[k] = Append(row, entry)[k]
      OBVIOUS
    <3>1. CASE k = n + 1
      BY <3>1, <2>1, <1>10, <1>12
    <3>2. CASE k # n + 1
      <4>1. k \in 1..n
        BY <3>2, <1>3
      <4> QED
        BY <4>1, <2>1, <1>9, <1>11, <1>12
    <3> QED
      BY <3>1, <3>2
  <2> QED
    BY <2>1, <2>2, <1>12, SeqEqual
<1>14. ASSUME NEW d \in Conns \ {c}
       PROVE  Row(clients', listeners', d, 0) = Row(clients, listeners, d, 0)
  <2>1. Len(clients'[d]) = Len(clients[d]) /\ Len(clients[d]) - 0 = Len(clients[d])
    BY <1>3, <1>6
  <2>2. \A k \in 1..Len(clients[d]) : k + 0 = k
    BY <1>3
  <2> QED
    BY <2>1, <2>2, <1>9 DEF Row
<1>15. Table' = [Table EXCEPT ![c] = Append(@, entry)]
  <2>1. Table = [d \in Conns |-> Row(clients, listeners, d, 0)]
    BY <1>7, TableIs
  <2>2. Table' = [d \in Conns |-> Row(clients', listeners', d, 0)]
    BY <1>7, TableIsNext
  <2> QED
    BY <2>1, <2>2, <1>13, <1>14 DEF row, row2
<1>16. Busy = Free /\ Busy' = Free
  BY <1>1, OpKinds DEF Busy
<1> QED
  BY <1>1, <1>15, <1>16 DEF Abstract!Subscribe, Abstract!Idle, Abstract!Entry, Free, entry

\* The id of an entry is that of its spec.
LEMMA EntryHasId ==
  ASSUME IInv, op \notin Leave, NEW c \in Conns, NEW k \in DOMAIN clients[c]
  PROVE  At(clients, listeners, c, k).to.id = clients[c][k].id
<1>1. Home(clients, All(clients), listeners)
  BY LiveMapIs DEF IInv, Good
<1>2. k \in All(clients)[c]
  BY DEF All
<1> QED
  BY <1>1, <1>2 DEF Home, At

\* Outside a disconnection the table has an entry for each spec.
LEMMA WholeTable ==
  ASSUME IInv, op \notin Leave
  PROVE  /\ Table = [d \in Conns |-> Row(clients, listeners, d, 0)]
         /\ \A c \in Conns :
              /\ Len(clients[c]) \in Nat /\ DOMAIN clients[c] = 1..Len(clients[c])
              /\ Row(clients, listeners, c, 0) \in Seq(Entries)
              /\ Len(Row(clients, listeners, c, 0)) = Len(clients[c])
              /\ DOMAIN Row(clients, listeners, c, 0) = 1..Len(clients[c])
              /\ \A k \in 1..Len(clients[c]) :
                   Row(clients, listeners, c, 0)[k] = At(clients, listeners, c, k)
<1>1. clients \in SpecTable /\ listeners \in [Relays -> Seq(listener)]
  BY DEF IInv, TypeOK, SpecTable
<1>2. Home(clients, All(clients), listeners)
  BY LiveMapIs DEF IInv, Good
<1>3. Table = [d \in Conns |-> Row(clients, listeners, d, 0)]
  <2>1. \A d \in Conns : Skip(d) = 0
    BY DEF Skip
  <2> QED
    BY <2>1, TableIs
<1>4. ASSUME NEW c \in Conns
      PROVE  /\ Len(clients[c]) \in Nat /\ DOMAIN clients[c] = 1..Len(clients[c])
             /\ Row(clients, listeners, c, 0) \in Seq(Entries)
             /\ Len(Row(clients, listeners, c, 0)) = Len(clients[c])
             /\ DOMAIN Row(clients, listeners, c, 0) = 1..Len(clients[c])
             /\ \A k \in 1..Len(clients[c]) :
                  Row(clients, listeners, c, 0)[k] = At(clients, listeners, c, k)
  <2> DEFINE n == Len(clients[c])
  <2>1. n \in Nat /\ DOMAIN clients[c] = 1..n
    BY <1>1, LenProperties DEF SpecTable
  <2>2. 0 \in 0..n /\ n - 0 = n /\ \A k \in 1..n : k + 0 = k
    BY <2>1
  <2>3. \A k \in (0 + 1)..n : k \in All(clients)[c]
    BY <2>1 DEF All
  <2>4. /\ Row(clients, listeners, c, 0) \in Seq(Entries)
        /\ Len(Row(clients, listeners, c, 0)) = n - 0
        /\ \A k \in 1..(n - 0) : Row(clients, listeners, c, 0)[k] = At(clients, listeners, c, k + 0)
    BY <2>2, <2>3, <1>1, <1>2, RowIsTyped
  <2>5. DOMAIN Row(clients, listeners, c, 0) = 1..n
    BY <2>2, <2>4, LenProperties
  <2> QED
    BY <2>1, <2>2, <2>4, <2>5
<1> QED
  BY <1>3, <1>4

LEMMA CloseStepCuts ==
  ASSUME IInv, IInv', RemoveListenerIdStep, clients[op.ws][op.s].id = op.id
  PROVE  Abstract!Cut(op.ws, op.id, op.s)
<1> USE OpKinds
<1>1. /\ op \in Close /\ op \notin Leave /\ op.ws \in Conns /\ op.s \in Nat /\ op.s > 0
      /\ op.s <= Len(clients[op.ws]) /\ registered' = registered
      /\ op' = [op EXCEPT !.s = @ - 1]
  BY DEF RemoveListenerIdStep, IInv, OpInBounds
<1>2. op' \in Close /\ op' \notin Leave /\ op'.ws = op.ws /\ op'.id = op.id
  BY <1>1 DEF Close
<1> DEFINE c == op.ws
           i == op.s
           n == Len(clients[c])
           row == Row(clients, listeners, c, 0)
           row2 == Row(clients', listeners', c, 0)
<1>3. /\ Table = [d \in Conns |-> Row(clients, listeners, d, 0)]
      /\ n \in Nat /\ DOMAIN clients[c] = 1..n /\ i \in 1..n
      /\ Len(row) = n /\ DOMAIN row = 1..n
      /\ \A k \in 1..n : row[k] = At(clients, listeners, c, k)
  BY <1>1, WholeTable
<1>4. Table' = [d \in Conns |-> Row(clients', listeners', d, 0)]
  <2>1. \A d \in Conns : Skip(d)' = 0
    BY <1>2 DEF Skip
  <2> QED
    BY <2>1, TableIsNext
<1>5. /\ \A d \in Conns \ {c} :
           /\ Len(clients'[d]) = Len(clients[d])
           /\ \A t \in DOMAIN clients[d] :
                At(clients', listeners', d, t) = At(clients, listeners, d, t)
      /\ Len(clients'[c]) = n - 1
      /\ \A t \in 1..(n - 1) :
           At(clients', listeners', c, t) = At(clients, listeners, c, IF t = i THEN n ELSE t)
  BY CloseStepIs
<1>6. ASSUME NEW d \in Conns \ {c}
      PROVE  Row(clients', listeners', d, 0) = Row(clients, listeners, d, 0)
  <2>1. Len(clients[d]) \in Nat /\ DOMAIN clients[d] = 1..Len(clients[d])
    BY <1>1, WholeTable
  <2>2. Len(clients[d]) - 0 = Len(clients[d]) /\ \A k \in 1..Len(clients[d]) : k + 0 = k
    BY <2>1
  <2> QED
    BY <2>1, <2>2, <1>5 DEF Row
<1>7. row2 = Abstract!SwapDelete(row, i)
  <2>1. row2 = [k \in 1..(n - 1) |-> At(clients', listeners', c, k)]
    <3>1. n - 1 - 0 = n - 1 /\ \A k \in 1..(n - 1) : k + 0 = k
      BY <1>3
    <3> QED
      BY <3>1, <1>5 DEF Row
  <2>2. Abstract!SwapDelete(row, i) = [k \in 1..(n - 1) |-> IF k = i THEN row[n] ELSE row[k]]
    BY <1>3 DEF Abstract!SwapDelete
  <2> HIDE DEF row, row2
  <2>3. \A k \in 1..(n - 1) :
          At(clients', listeners', c, k) = IF k = i THEN row[n] ELSE row[k]
    <3> SUFFICES ASSUME NEW k \in 1..(n - 1)
                 PROVE  At(clients', listeners', c, k) = IF k = i THEN row[n] ELSE row[k]
      OBVIOUS
    <3>1. k \in 1..n /\ n \in 1..n
      BY <1>3
    <3>2. CASE k = i
      BY <3>1, <3>2, <1>3, <1>5
    <3>3. CASE k # i
      BY <3>1, <3>3, <1>3, <1>5
    <3> QED
      BY <3>2, <3>3
  <2> QED
    BY <2>1, <2>2, <2>3
<1>8. Table' = [Table EXCEPT ![c] = Abstract!SwapDelete(@, i)]
  BY <1>1, <1>3, <1>4, <1>6, <1>7
<1>9. i \in DOMAIN Table[c] /\ Table[c][i].to.id = op.id
  <2>1. Table[c] = row
    BY <1>1, <1>3
  <2>2. At(clients, listeners, c, i).to.id = op.id
    BY <1>1, <1>3, EntryHasId
  <2> QED
    BY <2>1, <2>2, <1>3
<1>10. /\ Busy = [kind |-> "close", ws |-> op.ws, id |-> op.id]
       /\ Busy' = [kind |-> "close", ws |-> op.ws, id |-> op.id]
  BY <1>1, <1>2 DEF Busy
<1> QED
  BY <1>1, <1>8, <1>9, <1>10 DEF Abstract!Cut, Abstract!Closing

LEMMA LeaveStepForgets ==
  ASSUME IInv, IInv', RemoveClientStep
  PROVE  Abstract!Forget(op.ws)
<1> USE OpKinds
<1>1. /\ op \in Leave /\ op \notin Close /\ op.ws \in Conns /\ op.s \in Nat /\ op.s >= 1
      /\ op.s <= Len(clients[op.ws]) /\ registered' = registered
      /\ op' = [op EXCEPT !.s = @ + 1]
  BY DEF RemoveClientStep, IInv, OpInBounds
<1>2. op' \in Leave /\ op' \notin Close /\ op'.ws = op.ws /\ op'.s = op.s + 1
  BY <1>1 DEF Leave
<1>3. /\ clients \in SpecTable /\ listeners \in [Relays -> Seq(listener)]
      /\ clients' \in SpecTable /\ listeners' \in [Relays -> Seq(listener)]
  BY DEF IInv, TypeOK, SpecTable
<1>4. \A d \in Conns : Len(clients[d]) \in Nat /\ DOMAIN clients[d] = 1..Len(clients[d])
  BY <1>3, LenProperties DEF SpecTable
<1> DEFINE c == op.ws
           j == op.s - 1
           n == Len(clients[c])
           row == Row(clients, listeners, c, j)
           row2 == Row(clients', listeners', c, j + 1)
<1>5. /\ \A d \in Conns : Len(clients'[d]) = Len(clients[d])
      /\ \A d \in Conns : \A t \in DOMAIN clients[d] :
           (d = c => t > op.s) =>
             At(clients', listeners', d, t) = At(clients, listeners, d, t)
  BY LeaveStepIs
<1>6. /\ Table = [d \in Conns |-> Row(clients, listeners, d, IF d = c THEN j ELSE 0)]
      /\ Table' = [d \in Conns |-> Row(clients', listeners', d, IF d = c THEN j + 1 ELSE 0)]
  <2>1. \A d \in Conns : Skip(d) = IF d = c THEN j ELSE 0
    BY <1>1 DEF Skip
  <2>2. \A d \in Conns : Skip(d)' = IF d = c THEN j + 1 ELSE 0
    BY <1>1, <1>2 DEF Skip
  <2>3. Table = [d \in Conns |-> Row(clients, listeners, d, IF d = c THEN j ELSE 0)]
    BY <2>1, TableIs
  <2>4. Table' = [d \in Conns |-> Row(clients', listeners', d, IF d = c THEN j + 1 ELSE 0)]
    BY <2>2, TableIsNext
  <2> QED
    BY <2>3, <2>4
<1>7. ASSUME NEW d \in Conns \ {c}
      PROVE  Row(clients', listeners', d, 0) = Row(clients, listeners, d, 0)
  <2>1. Len(clients[d]) - 0 = Len(clients[d]) /\ \A k \in 1..Len(clients[d]) : k + 0 = k
    BY <1>4
  <2> QED
    BY <2>1, <1>4, <1>5 DEF Row
<1>8. n \in Nat /\ j \in Nat /\ j + 1 \in 0..n /\ j \in 0..n
  BY <1>1, <1>4
<1>9. /\ row \in Seq(Entries) /\ Len(row) = n - j
      /\ \A k \in 1..(n - j) : row[k] = At(clients, listeners, c, k + j)
  <2>1. Home(clients, LiveMap, listeners)
    BY DEF IInv, Good
  <2>2. LiveMap[c] = op.s..n
    BY <1>1, LiveMapIs
  <2>3. \A s \in (j + 1)..n : s \in LiveMap[c]
    BY <2>2, <1>1
  <2>4. c \in Conns
    BY <1>1
  <2> HIDE DEF j, c
  <2> QED
    BY <2>1, <2>3, <2>4, <1>3, <1>8, RowIsTyped
<1>10. /\ row2 \in Seq(Entries) /\ Len(row2) = n - (j + 1)
       /\ \A k \in 1..(n - (j + 1)) : row2[k] = At(clients', listeners', c, k + (j + 1))
  <2>1. Home(clients', LiveMap', listeners')
    BY DEF IInv, Good
  <2>2. LiveMap'[c] = (op.s + 1)..n
    BY <1>1, <1>2, <1>5 DEF LiveMap, Live
  <2>3. \A s \in (j + 1 + 1)..Len(clients'[c]) : s \in LiveMap'[c]
    BY <2>2, <1>1, <1>5
  <2>4. j + 1 \in 0..Len(clients'[c]) /\ Len(clients'[c]) = n
    BY <1>1, <1>5, <1>8
  <2>5. PICK skip \in 0..Len(clients'[c]) : skip = j + 1
    BY <2>4
  <2>6. \A s \in (skip + 1)..Len(clients'[c]) : s \in LiveMap'[c]
    BY <2>3, <2>5
  <2>7. c \in Conns
    BY <1>1
  <2>8. /\ Row(clients', listeners', c, skip) \in Seq(Entries)
        /\ Len(Row(clients', listeners', c, skip)) = Len(clients'[c]) - skip
        /\ \A k \in 1..(Len(clients'[c]) - skip) :
             Row(clients', listeners', c, skip)[k] = At(clients', listeners', c, k + skip)
    <3> HIDE DEF c, j
    <3> QED
      BY <2>1, <2>5, <2>6, <2>7, <1>3, RowIsTyped
  <2> HIDE DEF j
  <2> QED
    BY <2>4, <2>5, <2>8
<1>11. \A k \in 1..(n - (j + 1)) :
         At(clients', listeners', c, k + (j + 1)) = At(clients, listeners, c, (k + 1) + j)
  <2> SUFFICES ASSUME NEW k \in 1..(n - (j + 1))
               PROVE  At(clients', listeners', c, k + (j + 1)) = At(clients, listeners, c, (k + 1) + j)
    OBVIOUS
  <2>1. PICK t : t = k + (j + 1) /\ t = (k + 1) + j /\ t \in 1..n /\ t > op.s
    BY <1>1, <1>8
  <2>2. t \in DOMAIN clients[c]
    BY <2>1, <1>1, <1>4
  <2> QED
    BY <2>1, <2>2, <1>1, <1>5
<1> HIDE DEF row, row2, j
<1>12. row # <<>> /\ row2 = Tail(row)
  <2>1. row # <<>>
    <3>1. Len(row) >= 1
      BY <1>8, <1>9
    <3> QED
      BY <3>1
  <2>2. /\ Tail(row) \in Seq(Entries) /\ Len(Tail(row)) = Len(row) - 1
        /\ \A k \in 1..Len(Tail(row)) : Tail(row)[k] = row[k + 1]
    BY <2>1, <1>9, HeadTailProperties
  <2>3. Len(row2) = Len(Tail(row)) /\ Len(row2) = n - (j + 1)
    BY <2>2, <1>8, <1>9, <1>10
  <2>4. \A k \in 1..Len(row2) : row2[k] = Tail(row)[k]
    <3> SUFFICES ASSUME NEW k \in 1..(n - (j + 1))
                 PROVE  row2[k] = Tail(row)[k]
      BY <2>3
    <3>1. k + 1 \in 1..(n - j)
      BY <1>8
    <3> QED
      BY <3>1, <2>2, <2>3, <1>9, <1>10, <1>11
  <2>5. row2 = Tail(row)
    BY <2>2, <2>3, <2>4, <1>10, SeqEqual
  <2> QED
    BY <2>1, <2>5
<1>13. Table[c] = row /\ Table' = [Table EXCEPT ![c] = Tail(@)]
  BY <1>1, <1>6, <1>7, <1>12 DEF row, row2
<1>14. /\ Busy = [kind |-> "leave", ws |-> op.ws]
       /\ Busy' = [kind |-> "leave", ws |-> op.ws]
  BY <1>1, <1>2 DEF Busy
<1> QED
  BY <1>1, <1>12, <1>13, <1>14 DEF Abstract!Forget, Abstract!Leaving

-----------------------------------------------------------------------------
(* Every step of the registry is one of the table, or none.                *)
LEMMA InitMaps == Init => Abstract!TInit
<1> SUFFICES ASSUME Init
             PROVE  Abstract!TInit
  OBVIOUS
<1>1. /\ registered = {} /\ op = Free /\ op \notin Close /\ op \notin Leave
      /\ clients = [c \in Conns |-> <<>>]
  BY OpKinds DEF Init
<1>2. ASSUME NEW c \in Conns
      PROVE  [s \in DOMAIN LiveSpecs(c) |-> Resolve(LiveSpecs(c)[s])] = <<>>
  <2>1. LiveSpecs(c) = <<>> /\ DOMAIN LiveSpecs(c) = {}
    BY <1>1 DEF LiveSpecs
  <2> DEFINE row == [s \in DOMAIN LiveSpecs(c) |-> Resolve(LiveSpecs(c)[s])]
  <2>2. row \in [1..0 -> Entries] /\ DOMAIN row = {}
    BY <2>1
  <2> HIDE DEF row
  <2>3. row \in Seq(Entries)
    BY <2>2, SeqDef
  <2>4. row = <<>>
    BY <2>2, <2>3, NoPlaceNoElement
  <2> QED
    BY <2>4 DEF row
<1>3. Table = [c \in Conns |-> <<>>]
  BY <1>2 DEF Table
<1>4. Busy = Free
  BY <1>1 DEF Busy
<1> QED
  BY <1>1, <1>3, <1>4 DEF Abstract!TInit, Abstract!Idle, Free

LEMMA StepMaps ==
  ASSUME IInv, ClosedAbove, [Next]_vars
  PROVE  [Abstract!TNext]_(Abstract!tableVars)
<1> USE OpKinds
<1>0. IInv'
  BY StepKeeps
<1>a. /\ clients \in SpecTable /\ clients' \in SpecTable
      /\ \A c \in Conns : Len(clients[c]) \in Nat /\ DOMAIN clients[c] = 1..Len(clients[c])
  <2>1. clients \in SpecTable /\ clients' \in SpecTable
    BY <1>0 DEF IInv, TypeOK, SpecTable
  <2> QED
    BY <2>1, LenProperties DEF SpecTable
<1>b. ASSUME UNCHANGED <<clients, listeners, op>>
      PROVE  Table' = Table /\ Busy' = Busy
  BY <1>b DEF Table, LiveSpecs, Resolve, ListenerAt, Busy
<1>1. CASE UNCHANGED vars
  BY <1>1, <1>b DEF vars, Abstract!tableVars
<1>2. ASSUME NEW c \in Conns, Connect(c)
      PROVE  Abstract!TNext
  <2>1. clients' = clients
    BY <1>2, <1>a DEF Connect, IInv, GoneHaveNoSpecs, SpecTable
  <2>2. Table' = Table /\ Busy' = Busy /\ Busy = Free
    BY <2>1, <1>2, <1>b DEF Connect, Busy
  <2>3. Abstract!Join(c)
    BY <2>2, <1>2 DEF Connect, Abstract!Join, Abstract!Idle, Free
  <2> QED
    BY <2>3 DEF Abstract!TNext
<1>3. ASSUME NEW c \in Conns, NEW id \in Ids, NEW r \in Relays, NEW f \in Filters,
             AddListener(c, id, r, f)
      PROVE  Abstract!TNext
  <2>1. Abstract!Subscribe(c, id, r, f)
    BY <1>0, <1>3, AddListenerSubscribes
  <2> QED
    BY <2>1 DEF Abstract!TNext
<1>4. ASSUME NEW c \in Conns, NEW id \in Ids, RemoveListenerIdBegin(c, id)
      PROVE  Abstract!TNext
  <2>1. /\ op = Free /\ registered' = registered /\ c \in registered
        /\ clients' = clients /\ listeners' = listeners
        /\ op' = [kind |-> "close", ws |-> c, id |-> id, s |-> Len(clients[c])]
    BY <1>4 DEF RemoveListenerIdBegin
  <2>2. op' \in Close /\ op' \notin Leave /\ op'.ws = c /\ op'.id = id
    BY <2>1, <1>a DEF Close
  <2>3. Table' = Table
    BY <2>1, <2>2 DEF Table, LiveSpecs, Resolve, ListenerAt
  <2>4. Busy = Free /\ Busy' = [kind |-> "close", ws |-> c, id |-> id]
    BY <2>1, <2>2 DEF Busy
  <2>5. Abstract!BeginClose(c, id)
    BY <2>1, <2>3, <2>4 DEF Abstract!BeginClose, Abstract!Idle, Abstract!Closing, Free
  <2> QED
    BY <2>5 DEF Abstract!TNext
<1>5. CASE RemoveListenerIdStep
  <2>1. /\ op \in Close /\ op \notin Leave /\ op.ws \in Conns /\ op.id \in Ids
        /\ op.s \in Nat /\ op.s > 0 /\ op.s <= Len(clients[op.ws])
        /\ registered' = registered /\ op' = [op EXCEPT !.s = @ - 1]
    BY <1>5 DEF RemoveListenerIdStep, IInv, OpInBounds
  <2>2. CASE clients[op.ws][op.s].id = op.id
    <3>1. Abstract!Cut(op.ws, op.id, op.s)
      BY <2>2, <1>0, <1>5, CloseStepCuts
    <3>2. op.s \in DOMAIN Table[op.ws]
      BY <3>1 DEF Abstract!Cut
    <3> QED
      BY <3>1, <3>2, <2>1 DEF Abstract!TNext
  <2>3. CASE clients[op.ws][op.s].id # op.id
    <3>1. clients' = clients /\ listeners' = listeners
      BY <2>3, <1>5 DEF RemoveListenerIdStep
    <3>2. op' \in Close /\ op' \notin Leave /\ op'.ws = op.ws /\ op'.id = op.id
      BY <2>1 DEF Close
    <3>3. Table' = Table
      BY <3>1, <3>2, <2>1 DEF Table, LiveSpecs, Resolve, ListenerAt
    <3>4. Busy' = Busy
      BY <3>2, <2>1 DEF Busy
    <3> QED
      BY <3>3, <3>4, <2>1 DEF Abstract!tableVars
  <2> QED
    BY <2>2, <2>3
<1>6. CASE RemoveListenerIdEnd
  <2>1. /\ op \in Close /\ op \notin Leave /\ op.ws \in Conns /\ op.id \in Ids /\ op.s = 0
        /\ op' = Free /\ op' \notin Close /\ op' \notin Leave
        /\ registered' = registered /\ clients' = clients /\ listeners' = listeners
    BY <1>6 DEF RemoveListenerIdEnd
  <2>2. Table' = Table
    BY <2>1 DEF Table, LiveSpecs, Resolve, ListenerAt
  <2>3. Busy = [kind |-> "close", ws |-> op.ws, id |-> op.id] /\ Busy' = Free
    BY <2>1 DEF Busy
  <2>4. ASSUME NEW i \in DOMAIN Table[op.ws]
        PROVE  Table[op.ws][i].to.id # op.id
    <3>1. /\ Table[op.ws] = Row(clients, listeners, op.ws, 0)
          /\ DOMAIN Row(clients, listeners, op.ws, 0) = 1..Len(clients[op.ws])
          /\ \A k \in 1..Len(clients[op.ws]) :
               Row(clients, listeners, op.ws, 0)[k] = At(clients, listeners, op.ws, k)
      BY <2>1, WholeTable
    <3>2. i \in DOMAIN clients[op.ws] /\ Table[op.ws][i] = At(clients, listeners, op.ws, i)
      BY <3>1, <2>1, <1>a
    <3>3. At(clients, listeners, op.ws, i).to.id = clients[op.ws][i].id
      BY <3>2, <2>1, EntryHasId
    <3>4. i > op.s
      BY <3>2, <2>1, <1>a
    <3>5. clients[op.ws][i].id # op.id
      BY <3>2, <3>4, <2>1 DEF ClosedAbove
    <3> QED
      BY <3>2, <3>3, <3>5
  <2>5. Abstract!EndClose(op.ws, op.id)
    BY <2>1, <2>2, <2>3, <2>4 DEF Abstract!EndClose, Abstract!Closing, Abstract!Idle, Free
  <2> QED
    BY <2>1, <2>5 DEF Abstract!TNext
<1>7. ASSUME NEW c \in Conns, RemoveClientBegin(c)
      PROVE  Abstract!TNext
  <2>1. /\ op = Free /\ registered' = registered /\ c \in registered
        /\ clients' = clients /\ listeners' = listeners
        /\ op' = [kind |-> "leave", ws |-> c, s |-> 1]
    BY <1>7 DEF RemoveClientBegin
  <2>2. op' \in Leave /\ op' \notin Close /\ op'.ws = c /\ op'.s = 1
    BY <2>1 DEF Leave
  <2>3. Table' = Table
    <3>1. \A d \in Conns : Skip(d) = 0 /\ Skip(d)' = 0
      BY <2>1, <2>2 DEF Skip
    <3>2. Table = [d \in Conns |-> Row(clients, listeners, d, 0)]
      BY <3>1, TableIs
    <3>3. Table' = [d \in Conns |-> Row(clients', listeners', d, 0)]
      BY <3>1, <1>0, TableIsNext
    <3> QED
      BY <3>2, <3>3, <2>1
  <2>4. Busy = Free /\ Busy' = [kind |-> "leave", ws |-> c]
    BY <2>1, <2>2 DEF Busy
  <2>5. Abstract!BeginLeave(c)
    BY <2>1, <2>3, <2>4 DEF Abstract!BeginLeave, Abstract!Idle, Abstract!Leaving, Free
  <2> QED
    BY <2>5 DEF Abstract!TNext
<1>8. CASE RemoveClientStep
  <2>1. Abstract!Forget(op.ws)
    BY <1>0, <1>8, LeaveStepForgets
  <2>2. op.ws \in Conns
    BY <1>8 DEF RemoveClientStep
  <2> QED
    BY <2>1, <2>2 DEF Abstract!TNext
<1>9. CASE RemoveClientEnd
  <2>1. /\ op \in Leave /\ op \notin Close /\ op.ws \in Conns /\ op.s \in Nat
        /\ op.s > Len(clients[op.ws])
        /\ op' = Free /\ op' \notin Close /\ op' \notin Leave
        /\ registered' = registered \ {op.ws}
        /\ clients' = [clients EXCEPT ![op.ws] = <<>>] /\ listeners' = listeners
    BY <1>9 DEF RemoveClientEnd
  <2>2. /\ \A d \in Conns : Skip(d) = IF d = op.ws THEN op.s - 1 ELSE 0
        /\ \A d \in Conns : Skip(d)' = 0
    BY <2>1 DEF Skip
  <2>3. /\ Table = [d \in Conns |-> Row(clients, listeners, d, IF d = op.ws THEN op.s - 1 ELSE 0)]
        /\ Table' = [d \in Conns |-> Row(clients', listeners', d, 0)]
    <3>1. Table = [d \in Conns |-> Row(clients, listeners, d, IF d = op.ws THEN op.s - 1 ELSE 0)]
      BY <2>2, TableIs
    <3>2. Table' = [d \in Conns |-> Row(clients', listeners', d, 0)]
      BY <2>2, <1>0, TableIsNext
    <3> QED
      BY <3>1, <3>2
  <2>4. /\ clients'[op.ws] = <<>>
        /\ \A d \in Conns \ {op.ws} : clients'[d] = clients[d]
    BY <2>1, <1>a DEF SpecTable
  <2>5. Row(clients, listeners, op.ws, op.s - 1) = <<>>
    <3>1. Len(clients[op.ws]) - (op.s - 1) \in Int /\ Len(clients[op.ws]) - (op.s - 1) <= 0
      BY <2>1, <1>a
    <3> QED
      BY <3>1, RowIsEmpty
  <2>6. Row(clients', listeners', op.ws, 0) = <<>>
    <3>1. Len(clients'[op.ws]) - 0 \in Int /\ Len(clients'[op.ws]) - 0 <= 0
      BY <2>4
    <3> QED
      BY <3>1, RowIsEmpty
  <2>7. \A d \in Conns \ {op.ws} :
          Row(clients', listeners', d, 0) = Row(clients, listeners, d, 0)
    BY <2>1, <2>4 DEF Row, At
  <2>8. Table[op.ws] = <<>> /\ Table' = Table
    BY <2>1, <2>3, <2>5, <2>6, <2>7
  <2>9. Busy = [kind |-> "leave", ws |-> op.ws] /\ Busy' = Free
    BY <2>1 DEF Busy
  <2>10. Abstract!EndLeave(op.ws)
    BY <2>1, <2>8, <2>9 DEF Abstract!EndLeave, Abstract!Leaving, Abstract!Idle, Free
  <2> QED
    BY <2>1, <2>10 DEF Abstract!TNext
<1>10. CASE Shutdown
  <2>1. /\ op = Free /\ op' = op /\ registered' = {}
        /\ clients' = [c \in Conns |-> <<>>]
    BY <1>10 DEF Shutdown
  <2>2. \A d \in Conns : Skip(d)' = 0
    BY <2>1 DEF Skip
  <2>3. Table' = [d \in Conns |-> Row(clients', listeners', d, 0)]
    BY <2>2, <1>0, TableIsNext
  <2>4. ASSUME NEW d \in Conns
        PROVE  Row(clients', listeners', d, 0) = <<>>
    <3>1. Len(clients'[d]) - 0 \in Int /\ Len(clients'[d]) - 0 <= 0
      BY <2>1
    <3> QED
      BY <3>1, RowIsEmpty
  <2>5. Busy = Free /\ Busy' = Free
    BY <2>1 DEF Busy
  <2>6. Abstract!ForgetAll
    BY <2>1, <2>3, <2>4, <2>5 DEF Abstract!ForgetAll, Abstract!Idle, Free
  <2> QED
    BY <2>6 DEF Abstract!TNext
<1> QED
  BY <1>1, <1>2, <1>3, <1>4, <1>5, <1>6, <1>7, <1>8, <1>9, <1>10 DEF Next

\* An iteration of a CLOSE leaves no spec with the id behind it (listener.go:71-97).
THEOREM ClosedStayClosed == Spec => []RInv
<1>1. Init => RInv
  <2>1. Init => IInv
    BY InitEstablishes
  <2>2. Init => ClosedAbove
    BY OpKinds DEF Init, ClosedAbove
  <2> QED
    BY <2>1, <2>2 DEF RInv
<1>2. RInv /\ [Next]_vars => RInv'
  BY StepKeeps, ClosedAboveKept DEF RInv
<1> QED
  BY <1>1, <1>2, PTL DEF Spec

\* The registry implements the table of subscriptions, for any number of connections, ids,
\* filters and relays: a removal takes away the entries it is for, and what it moves nobody sees
\* (listener.go:62-133).
THEOREM RegistryImplementsTable == Spec => ImplementsTable
<1>1. Init => Abstract!TInit
  BY InitMaps
<1>2. RInv /\ [Next]_vars => [Abstract!TNext]_(Abstract!tableVars)
  BY StepMaps DEF RInv
<1>3. Spec => []RInv
  BY ClosedStayClosed
<1> QED
  BY <1>1, <1>2, <1>3, PTL DEF Spec, ImplementsTable, Abstract!TableSpec

-----------------------------------------------------------------------------
(***************************************************************************)
(* What a broadcast reads of the slice while others write it.  The walk    *)
(* goes by the array and the length it loaded.  It reads nothing but what  *)
(* was registered since it was called, since the slots below its length    *)
(* were live when the length was loaded, or filled the array before it was *)
(* replaced, and only live listeners are ever stored into a slot.  While   *)
(* writers do one kind of thing, whoever stays is copied or is ahead: with *)
(* additions alone his slot does not change, in whichever array, and with  *)
(* removals alone the slot he is moved from keeps him.                     *)
(***************************************************************************)

\* The length once the removal under way, if there is one, has ended.
LiveLen == IF removing = None THEN len ELSE len - 1

\* The header is that of the newest array, and every older one is full.
ArraysOK ==
  /\ arr \in Nat \ {0} /\ mem \in Seq(Seq(Listeners \cup {None})) /\ Len(mem) = arr
  /\ \A a \in 1..arr : Cap(a) >= 1
  /\ len \in 0..Cap(arr)
  /\ \A a \in 1..(arr - 1) :
       /\ \A k \in 1..Cap(a) : mem[a][k] \in Listeners
       /\ \A j, k \in 1..Cap(a) : mem[a][j] = mem[a][k] => j = k

\* The live slots hold everybody who is present, once.
SlotsOK ==
  /\ present \subseteq Listeners
  /\ removing # None => removing \in present /\ len >= 1
  /\ \A k \in 1..len : mem[arr][k] \in present
  /\ \A j, k \in 1..LiveLen : mem[arr][j] = mem[arr][k] => j = k
  /\ \A l \in present \ {removing} : \E k \in 1..LiveLen : mem[arr][k] = l
  /\ \A k \in 1..LiveLen : mem[arr][k] # removing

\* What the walk has loaded is the header there is, or an array that was full since.
WalkOK ==
  /\ walk \in [at: {"idle", "load", "next", "copy", "done", "lost"}, arr: 0..arr, len: Nat \cup {-1},
               i: Nat, slot: Listeners \cup {None}]
  /\ walk.at = "idle" => walk = Idle /\ delivered = <<>>
  /\ walk.at = "load" => walk.i = 0 /\ delivered = <<>>
  /\ walk.at \in {"next", "copy", "done", "lost"} => walk.arr # 0 /\ walk.len # -1
  /\ walk.at = "copy" => walk.i < walk.len /\ walk.i < Cap(walk.arr)
  /\ walk.i > 0 => walk.i <= walk.len /\ walk.i <= Cap(walk.arr)
  /\ walk.at = "done" => walk.i >= walk.len
  /\ walk.arr \in {0, arr} /\ walk.len # -1 => walk.len <= Cap(arr)

\* All it can read was registered since it was called.
SeenOK ==
  /\ delivered \in Seq(Copies)
  /\ seen \subseteq Listeners
  /\ walk.at # "idle" => present \subseteq seen
  /\ walk.arr \notin {0, arr} => \A k \in 1..Cap(walk.arr) : mem[walk.arr][k] \in seen
  /\ walk.arr \in {0, arr} => \A k \in 1..walk.len : mem[arr][k] \in seen
  /\ walk.at = "copy" => walk.slot \in seen
  /\ NothingForTheGone

\* Until something is removed the slots in its reach stay as they are.
WholeOK ==
  walk.at # "idle" /\ ~removed =>
    /\ removing = None
    /\ walk.len <= len
    /\ walk.at = "copy" => walk.slot = mem[walk.arr][walk.i + 1]
    /\ \A n \in DOMAIN delivered :
         /\ delivered[n].ws = delivered[n].id /\ delivered[n].ws = delivered[n].filter
         /\ delivered[n].ws \in Wanted(seen)
         /\ \E j \in 1..walk.i : mem[walk.arr][j] = delivered[n].ws
    /\ \A m, n \in DOMAIN delivered : m # n => delivered[m] # delivered[n]

\* The array and the length the walk goes by, as long as it has not loaded them the current ones.
WalkArr == IF walk.arr = 0 THEN arr ELSE walk.arr
WalkLen == IF walk.len = -1 THEN len ELSE walk.len

\* The walk will copy l, all of it.
Ahead(l) ==
  \E j \in (walk.i + 1)..WalkLen :
    /\ j <= Cap(WalkArr)
    /\ mem[WalkArr][j] = l
    /\ walk.at = "copy" /\ j = walk.i + 1 => walk.slot = l

\* Who stays got the event or is ahead.
StayedOK ==
  walk.at # "idle" =>
    /\ stayed \subseteq present \ {removing}
    /\ removing # None => removed
    /\ ~added => walk.arr \in {0, arr}
    /\ walk.at # "lost" /\ ~(added /\ removed) =>
         \A l \in Wanted(stayed) : l \in Got \/ Ahead(l)

BroadcastInv == ArraysOK /\ SlotsOK /\ WalkOK /\ SeenOK /\ WholeOK /\ StayedOK

-----------------------------------------------------------------------------
(* What the writers do to the arrays.                                      *)

LEMMA NoneIsNobody == None \notin Listeners
BY NoneAssumption

LEMMA Appended ==
  ASSUME ArraysOK, NEW l \in Listeners, AppendSlot(l)
  PROVE  /\ mem' \in Seq(Seq(Listeners \cup {None})) /\ Len(mem') = arr'
         /\ (arr' = arr \/ arr' = arr + 1) /\ arr' \in Nat \ {0}
         /\ arr' # arr => len = Len(mem[arr])
         /\ \A a \in 1..arr : Len(mem'[a]) = Len(mem[a])
         /\ \A a \in 1..arr : \A k \in 1..Len(mem[a]) :
              ~(a = arr /\ k = len + 1) => mem'[a][k] = mem[a][k]
         /\ \A k \in 1..len : mem'[arr'][k] = mem[arr][k]
         /\ mem'[arr'][len + 1] = l
         /\ Len(mem'[arr']) \in Nat /\ Len(mem'[arr']) >= len + 1
<1> USE DEF Cap
<1>1. CASE len < Len(mem[arr])
  <2>1. arr' = arr /\ mem' = [mem EXCEPT ![arr][len + 1] = l]
    BY <1>1 DEF AppendSlot
  <2>2. arr \in DOMAIN mem /\ len + 1 \in 1..Len(mem[arr]) /\ mem[arr] \in Seq(Listeners \cup {None})
    BY <1>1 DEF ArraysOK
  <2>3. [mem[arr] EXCEPT ![len + 1] = l] \in Seq(Listeners \cup {None})
    BY <2>2, ExceptSeq
  <2>4. mem' = [mem EXCEPT ![arr] = [mem[arr] EXCEPT ![len + 1] = l]]
    BY <2>1, <2>2
  <2>5. mem' \in Seq(Seq(Listeners \cup {None})) /\ Len(mem') = Len(mem)
    BY <2>2, <2>3, <2>4, ExceptSeq DEF ArraysOK
  <2>6. mem'[arr] = [mem[arr] EXCEPT ![len + 1] = l] /\ \A a \in 1..arr : a # arr => mem'[a] = mem[a]
    BY <2>2, <2>4 DEF ArraysOK
  <2>7. Len(mem'[arr]) = Len(mem[arr]) /\ mem'[arr][len + 1] = l
        /\ \A k \in 1..Len(mem[arr]) : k # len + 1 => mem'[arr][k] = mem[arr][k]
    BY <2>2, <2>6, ExceptSeq
  <2> QED
    BY <1>1, <2>1, <2>5, <2>6, <2>7 DEF ArraysOK
<1>2. CASE ~(len < Len(mem[arr]))
  <2> DEFINE new == [k \in 1..(2 * Len(mem[arr])) |-> CASE k <= len -> mem[arr][k]
                                                  [] k = len + 1 -> l
                                                  [] OTHER -> None]
  <2>1. arr' = Len(mem) + 1 /\ mem' = Append(mem, new)
    BY <1>2 DEF AppendSlot
  <2>2. len = Len(mem[arr]) /\ Len(mem[arr]) \in Nat /\ Len(mem[arr]) >= 1 /\ 2 * Len(mem[arr]) \in Nat
        /\ mem[arr] \in Seq(Listeners \cup {None})
    BY <1>2 DEF ArraysOK
  <2>3. \A k \in 1..(2 * Len(mem[arr])) : new[k] \in Listeners \cup {None}
    BY <2>2
  <2>4. /\ new \in Seq(Listeners \cup {None}) /\ Len(new) = 2 * Len(mem[arr])
        /\ new[len + 1] = l /\ \A k \in 1..len : new[k] = mem[arr][k]
    BY <2>2, <2>3, IsASeq
  <2> HIDE DEF new
  <2>5. /\ mem' \in Seq(Seq(Listeners \cup {None})) /\ Len(mem') = arr + 1
        /\ mem'[arr + 1] = new /\ \A a \in 1..arr : mem'[a] = mem[a]
    BY <2>1, <2>4, AppendProperties DEF ArraysOK
  <2> QED
    BY <2>1, <2>2, <2>4, <2>5 DEF ArraysOK
<1> QED
  BY <1>1, <1>2

LEMMA Overwritten ==
  ASSUME ArraysOK, NEW k \in 1..Len(mem[arr]), NEW v \in Listeners,
         mem' = [mem EXCEPT ![arr][k] = v], arr' = arr
  PROVE  /\ mem' \in Seq(Seq(Listeners \cup {None})) /\ Len(mem') = arr
         /\ \A a \in 1..arr : Len(mem'[a]) = Len(mem[a])
         /\ \A a \in 1..arr : \A j \in 1..Len(mem[a]) :
              ~(a = arr /\ j = k) => mem'[a][j] = mem[a][j]
         /\ mem'[arr][k] = v
<1> USE DEF Cap
<1>1. arr \in DOMAIN mem /\ k \in 1..Len(mem[arr]) /\ mem[arr] \in Seq(Listeners \cup {None})
  BY DEF ArraysOK
<1>2. [mem[arr] EXCEPT ![k] = v] \in Seq(Listeners \cup {None})
  BY <1>1, ExceptSeq
<1>3. mem' = [mem EXCEPT ![arr] = [mem[arr] EXCEPT ![k] = v]]
  BY <1>1
<1>4. mem' \in Seq(Seq(Listeners \cup {None})) /\ Len(mem') = Len(mem)
  BY <1>1, <1>2, <1>3, ExceptSeq DEF ArraysOK
<1>5. mem'[arr] = [mem[arr] EXCEPT ![k] = v] /\ \A a \in 1..arr : a # arr => mem'[a] = mem[a]
  BY <1>1, <1>3 DEF ArraysOK
<1>6. Len(mem'[arr]) = Len(mem[arr]) /\ mem'[arr][k] = v
      /\ \A j \in 1..Len(mem[arr]) : j # k => mem'[arr][j] = mem[arr][j]
  BY <1>1, <1>5, ExceptSeq
<1> QED
  BY <1>4, <1>5, <1>6 DEF ArraysOK

-----------------------------------------------------------------------------
LEMMA BroadcastInitEstablishes == BroadcastInit => BroadcastInv
<1> USE DEF Cap
<1> SUFFICES ASSUME BroadcastInit PROVE BroadcastInv
  OBVIOUS
<1>1. /\ EmptyArray(InitialCap) \in Seq(Listeners \cup {None})
      /\ Len(EmptyArray(InitialCap)) = InitialCap
  BY CapAssumption, IsASeq DEF EmptyArray
<1>2. /\ mem \in Seq(Seq(Listeners \cup {None})) /\ Len(mem) = 1
      /\ mem[1] = EmptyArray(InitialCap)
  BY <1>1 DEF BroadcastInit
<1>3. ArraysOK
  BY <1>1, <1>2, CapAssumption DEF BroadcastInit, ArraysOK
<1>4. SlotsOK
  BY DEF BroadcastInit, SlotsOK, LiveLen
<1>5. WalkOK
  BY DEF BroadcastInit, WalkOK, Idle
<1>6. SeenOK
  BY DEF BroadcastInit, SeenOK, Idle, NothingForTheGone
<1>7. WholeOK /\ StayedOK
  BY DEF BroadcastInit, WholeOK, StayedOK, Idle
<1> QED
  BY <1>3, <1>4, <1>5, <1>6, <1>7 DEF BroadcastInv

LEMMA AddToSliceKeeps ==
  ASSUME BroadcastInv, NEW l \in Listeners, AddToSlice(l)
  PROVE  BroadcastInv'
<1> USE NoneIsNobody DEF Cap
<1>0. ArraysOK /\ SlotsOK /\ WalkOK /\ SeenOK /\ WholeOK /\ StayedOK /\ AppendSlot(l)
      /\ l \in Listeners
  BY DEF BroadcastInv, AddToSlice
<1>1. /\ removing = None /\ removing' = None /\ len' = len + 1 /\ l \notin present
      /\ present' = present \cup {l} /\ seen' = seen \cup {l} /\ added'
      /\ walk' = walk /\ delivered' = delivered /\ stayed' = stayed /\ removed' = removed
  BY DEF AddToSlice, Write
<1>2. /\ mem' \in Seq(Seq(Listeners \cup {None})) /\ Len(mem') = arr'
      /\ (arr' = arr \/ arr' = arr + 1) /\ arr' \in Nat \ {0}
      /\ arr' # arr => len = Len(mem[arr])
      /\ \A a \in 1..arr : Len(mem'[a]) = Len(mem[a])
      /\ \A a \in 1..arr : \A k \in 1..Len(mem[a]) :
           ~(a = arr /\ k = len + 1) => mem'[a][k] = mem[a][k]
      /\ \A k \in 1..len : mem'[arr'][k] = mem[arr][k]
      /\ mem'[arr'][len + 1] = l
      /\ Len(mem'[arr']) \in Nat /\ Len(mem'[arr']) >= len + 1
  BY <1>0, Appended
<1>3. /\ arr \in Nat \ {0} /\ len \in Nat /\ len <= Len(mem[arr]) /\ LiveLen = len /\ LiveLen' = len + 1
      /\ \A a \in 1..arr : Len(mem[a]) \in Nat
      /\ \A k \in 1..len : mem[arr][k] \in present /\ mem[arr][k] \in Listeners
      /\ \A j, k \in 1..len : mem[arr][j] = mem[arr][k] => j = k
  BY <1>0, <1>1 DEF ArraysOK, SlotsOK, LiveLen
<1>4. ArraysOK'
  <2>0. /\ \A a \in 1..arr' : a \in 1..arr \/ a = arr'
        /\ \A a \in 1..(arr' - 1) : a \in 1..arr
    <3>1. arr' = arr \/ arr' = arr + 1
      BY <1>2
    <3>2. arr \in Nat
      BY <1>3
    <3> QED
      BY <3>1, <3>2
  <2>1. ASSUME NEW a \in 1..arr'
        PROVE  Len(mem'[a]) >= 1
    <3>1. CASE a \in 1..arr
      <4>1. Len(mem'[a]) = Len(mem[a])
        BY <1>2, <3>1
      <4> QED
        BY <1>0, <3>1, <4>1 DEF ArraysOK
    <3>2. CASE a = arr'
      BY <1>2, <1>3, <3>2
    <3> QED
      BY <2>0, <3>1, <3>2
  <2>2. ASSUME NEW a \in 1..(arr' - 1)
        PROVE  /\ \A k \in 1..Len(mem'[a]) : mem'[a][k] \in Listeners
               /\ \A j, k \in 1..Len(mem'[a]) : mem'[a][j] = mem'[a][k] => j = k
    <3>0. a \in 1..arr /\ (a = arr => arr' # arr)
      <4>1. arr' = arr \/ arr' = arr + 1
        BY <1>2
      <4>2. arr \in Nat
        BY <1>3
      <4> QED
        BY <2>0, <4>1, <4>2
    <3>1. a \in 1..arr /\ Len(mem'[a]) = Len(mem[a]) /\ \A k \in 1..Len(mem[a]) : mem'[a][k] = mem[a][k]
      <4>1. /\ Len(mem'[a]) = Len(mem[a]) /\ (a = arr => len = Len(mem[arr]))
            /\ \A k \in 1..Len(mem[a]) : ~(a = arr /\ k = len + 1) => mem'[a][k] = mem[a][k]
        BY <1>2, <3>0
      <4> QED
        BY <1>3, <3>0, <4>1
    <3>2. CASE a = arr
      <4>1. len = Len(mem[arr])
        BY <1>2, <3>0, <3>2
      <4>2. \A k \in 1..len : mem'[a][k] = mem[arr][k]
        BY <3>1, <3>2, <4>1
      <4> QED
        BY <1>3, <3>1, <3>2, <4>1, <4>2
    <3>3. CASE a # arr
      BY <1>0, <1>2, <1>3, <3>1, <3>3 DEF ArraysOK
    <3> QED
      BY <3>2, <3>3
  <2>3. len' \in 0..Len(mem'[arr'])
    BY <1>1, <1>2, <1>3
  <2> QED
    BY <1>2, <2>1, <2>2, <2>3 DEF ArraysOK
<1>5. SlotsOK'
  <2>0. ASSUME NEW k \in 1..(len + 1)
        PROVE  k \in 1..len \/ k = len + 1
    BY <1>3
  <2>1. \A k \in 1..(len + 1) : mem'[arr'][k] \in present'
    BY <1>1, <1>2, <1>3, <2>0
  <2>2. \A j, k \in 1..(len + 1) : mem'[arr'][j] = mem'[arr'][k] => j = k
    BY <1>1, <1>2, <1>3
  <2>3. \A h \in present' \ {removing'} : \E k \in 1..(len + 1) : mem'[arr'][k] = h
    BY <1>0, <1>1, <1>2, <1>3 DEF SlotsOK
  <2>4. \A k \in 1..(len + 1) : mem'[arr'][k] # removing'
    BY <1>1, <1>2, <1>3
  <2> QED
    BY <1>0, <1>1, <1>3, <2>1, <2>2, <2>3, <2>4 DEF SlotsOK
<1>6. /\ walk \in [at: {"idle", "load", "next", "copy", "done", "lost"}, arr: 0..arr,
                   len: Nat \cup {-1}, i: Nat, slot: Listeners \cup {None}]
      /\ walk.arr \in 0..arr
      /\ walk.arr # 0 => walk.at # "idle" /\ Len(mem[walk.arr]) \in Nat /\ Len(mem'[walk.arr]) = Len(mem[walk.arr])
      /\ walk.len # -1 => walk.at # "idle"
      /\ walk.len \in Nat \cup {-1} /\ walk.i \in Nat
  <2>1. walk \in [at: {"idle", "load", "next", "copy", "done", "lost"}, arr: 0..arr,
                   len: Nat \cup {-1}, i: Nat, slot: Listeners \cup {None}]
    BY <1>0 DEF WalkOK
  <2>2. walk.arr \in 0..arr /\ walk.len \in Nat \cup {-1} /\ walk.i \in Nat
    BY <2>1
  <2>3. walk.arr # 0 \/ walk.len # -1 => walk.at # "idle"
    BY <1>0 DEF WalkOK, Idle
  <2>4. walk.arr # 0 => Len(mem[walk.arr]) \in Nat /\ Len(mem'[walk.arr]) = Len(mem[walk.arr])
    BY <1>1, <1>2, <1>3, <2>2
  <2> QED
    BY <2>1, <2>2, <2>3, <2>4
<1>7. WalkOK'
  <2>1. walk.arr \in {0, arr'} /\ walk.len # -1 => walk.len <= Len(mem'[arr'])
    BY <1>0, <1>2, <1>3, <1>6 DEF WalkOK
  <2>2. walk \in [at: {"idle", "load", "next", "copy", "done", "lost"}, arr: 0..arr',
                  len: Nat \cup {-1}, i: Nat, slot: Listeners \cup {None}]
    BY <1>2, <1>3, <1>6
  <2> QED
    BY <1>0, <1>1, <1>6, <2>1, <2>2 DEF WalkOK
\* An array in use, as far as the walk has read its header, keeps its slots.
<1>8. /\ walk.at # "idle" => present' \subseteq seen'
      /\ seen' \subseteq Listeners
      /\ walk.arr \notin {0, arr'} => \A k \in 1..Len(mem[walk.arr]) : mem'[walk.arr][k] \in seen'
      /\ walk.arr \in {0, arr'} => \A k \in 1..walk.len : mem'[arr'][k] \in seen'
  <2>1. /\ walk.at # "idle" => present \subseteq seen
        /\ walk.arr \notin {0, arr} => \A k \in 1..Len(mem[walk.arr]) : mem[walk.arr][k] \in seen
        /\ walk.arr \in {0, arr} => \A k \in 1..walk.len : mem[arr][k] \in seen
        /\ seen \subseteq Listeners
    BY <1>0 DEF SeenOK
  <2>2. ASSUME walk.arr \notin {0, arr'}, NEW k \in 1..Len(mem[walk.arr])
        PROVE  mem'[walk.arr][k] \in seen'
    <3>1. mem'[walk.arr][k] = mem[walk.arr][k]
      <4>1. walk.arr \in 1..arr /\ (walk.arr = arr => len = Len(mem[arr]))
        BY <1>2, <1>3, <1>6, <2>2
      <4>2. ~(walk.arr = arr /\ k = len + 1)
        BY <1>3, <2>2, <4>1
      <4> QED
        BY <1>2, <2>2, <4>1, <4>2
    <3>2. CASE walk.arr = arr
      BY <1>1, <1>2, <1>3, <1>6, <2>1, <2>2, <3>1, <3>2
    <3>3. CASE walk.arr # arr
      BY <1>1, <2>1, <2>2, <3>1, <3>3
    <3> QED
      BY <3>2, <3>3
  <2>3. ASSUME walk.arr \in {0, arr'}, NEW k \in 1..walk.len
        PROVE  mem'[arr'][k] \in seen'
    <3>1. walk.len <= Len(mem[arr]) /\ walk.arr \in {0, arr} /\ mem[arr][k] \in seen
      BY <1>0, <1>2, <1>3, <1>6, <2>1, <2>3 DEF WalkOK
    <3>2. CASE k <= len
      <4>1. k \in 1..len
        BY <1>6, <2>3, <3>2
      <4> QED
        BY <1>1, <1>2, <3>1, <4>1
    <3>3. CASE k = len + 1
      BY <1>1, <1>2, <3>3
    <3>4. CASE k > len + 1
      BY <1>1, <1>2, <1>3, <1>6, <3>1, <3>4
    <3> QED
      BY <1>3, <1>6, <3>2, <3>3, <3>4
  <2> QED
    BY <1>0, <1>1, <2>1, <2>2, <2>3
<1>9. SeenOK'
  <2>1. NothingForTheGone'
    BY <1>0, <1>1 DEF SeenOK, NothingForTheGone
  <2>2. Len(mem'[walk.arr]) = Len(mem[walk.arr]) \/ walk.arr = 0
    BY <1>6
  <2> QED
    BY <1>0, <1>1, <1>8, <2>1, <2>2 DEF SeenOK
<1>10. ASSUME walk.arr # 0, NEW k \in 1..Len(mem[walk.arr]), walk.arr # arr \/ k # len + 1
       PROVE  mem'[walk.arr][k] = mem[walk.arr][k]
  <2>1. walk.arr \in 1..arr
    BY <1>3, <1>6, <1>10
  <2>2. \A a \in 1..arr : \A j \in 1..Len(mem[a]) :
          ~(a = arr /\ j = len + 1) => mem'[a][j] = mem[a][j]
    BY <1>2
  <2> QED
    BY <1>10, <2>1, <2>2
<1>11. WholeOK'
  <2> SUFFICES ASSUME walk.at # "idle", ~removed
               PROVE  WholeOK'
    BY <1>1 DEF WholeOK
  <2>1. /\ walk.len <= len
        /\ walk.at = "copy" => walk.slot = mem[walk.arr][walk.i + 1]
        /\ \A n \in DOMAIN delivered :
             /\ delivered[n].ws = delivered[n].id /\ delivered[n].ws = delivered[n].filter
             /\ delivered[n].ws \in Wanted(seen)
             /\ \E j \in 1..walk.i : mem[walk.arr][j] = delivered[n].ws
        /\ \A m, n \in DOMAIN delivered : m # n => delivered[m] # delivered[n]
    BY <1>0 DEF WholeOK
  <2>2. walk.at = "copy" => mem'[walk.arr][walk.i + 1] = mem[walk.arr][walk.i + 1]
    <3>1. walk.at = "copy" => walk.arr # 0 /\ walk.i < walk.len /\ walk.i < Len(mem[walk.arr])
      BY <1>0 DEF WalkOK
    <3>2. walk.at = "copy" => walk.i + 1 \in 1..Len(mem[walk.arr]) /\ walk.i + 1 <= len
      BY <1>3, <1>6, <2>1, <3>1
    <3> QED
      BY <1>3, <1>10, <3>1, <3>2
  <2>3. ASSUME NEW j \in 1..walk.i
        PROVE  mem'[walk.arr][j] = mem[walk.arr][j]
    <3>1. walk.i <= walk.len /\ walk.i <= Len(mem[walk.arr]) /\ walk.arr # 0
      BY <1>0, <1>6, <2>3 DEF WalkOK, Idle
    <3>2. j \in 1..Len(mem[walk.arr]) /\ j <= len
      BY <1>3, <1>6, <2>1, <2>3, <3>1
    <3> QED
      BY <1>3, <1>10, <3>1, <3>2
  <2>4. Wanted(seen) \subseteq Wanted(seen)'
    BY <1>1 DEF Wanted
  <2>5. walk.len <= len + 1
    BY <1>3, <1>6, <2>1
  <2>6. \A n \in DOMAIN delivered : \E j \in 1..walk.i : mem'[walk.arr][j] = delivered[n].ws
    BY <2>1, <2>3
  <2> QED
    BY <1>1, <2>1, <2>2, <2>4, <2>5, <2>6 DEF WholeOK
<1>12. StayedOK'
  <2> SUFFICES ASSUME walk.at # "idle"
               PROVE  StayedOK'
    BY <1>1 DEF StayedOK
  <2>1. stayed \subseteq present \ {removing} /\ \A h \in stayed : h \in Listeners
    BY <1>0 DEF StayedOK, SlotsOK
  <2>2. ASSUME walk.at # "lost", ~removed, NEW h \in Wanted(stayed)
        PROVE  h \in Got \/ Ahead(h)'
    <3>1. h \in Got \/ Ahead(h)
      BY <1>0, <2>2 DEF StayedOK
    <3>2. ASSUME NEW j \in (walk.i + 1)..WalkLen, j <= Len(mem[WalkArr]), mem[WalkArr][j] = h,
                 walk.at = "copy" /\ j = walk.i + 1 => walk.slot = h
          PROVE  Ahead(h)'
      <4>1. walk.len <= len
        BY <1>0, <2>2 DEF WholeOK
      <4>2. WalkLen \in Nat \cup {-1} /\ WalkLen <= len /\ j \in Nat /\ j >= 1 /\ j <= len
        BY <1>3, <1>6, <3>2, <4>1 DEF WalkLen
      <4>3. j \in (walk.i + 1)..(WalkLen')
        BY <1>1, <1>3, <1>6, <3>2, <4>1 DEF WalkLen
      <4>4. CASE walk.arr = 0
        <5>1. WalkArr = arr /\ WalkArr' = arr'
          BY <1>1, <4>4 DEF WalkArr
        <5>2. j <= Len(mem'[WalkArr']) /\ mem'[WalkArr'][j] = h
          BY <1>2, <1>3, <3>2, <4>2, <5>1
        <5> QED
          BY <1>1, <3>2, <4>3, <5>2 DEF Ahead
      <4>5. CASE walk.arr # 0
        <5>1. WalkArr = walk.arr /\ WalkArr' = walk.arr
          BY <1>1, <4>5 DEF WalkArr
        <5>2. j <= Len(mem'[WalkArr']) /\ mem'[WalkArr'][j] = h
          BY <1>3, <1>6, <1>10, <3>2, <4>2, <4>5, <5>1
        <5> QED
          BY <1>1, <3>2, <4>3, <5>2 DEF Ahead
      <4> QED
        BY <4>4, <4>5
    <3> QED
      BY <3>1, <3>2 DEF Ahead
  <2> QED
    BY <1>1, <2>1, <2>2 DEF StayedOK, Wanted, Got
<1> QED
  BY <1>4, <1>5, <1>7, <1>9, <1>11, <1>12 DEF BroadcastInv

LEMMA OverwriteKeeps ==
  ASSUME BroadcastInv, NEW k \in 1..len, RemoveOverwrite(k)
  PROVE  BroadcastInv'
<1> USE NoneIsNobody DEF Cap
<1>0. ArraysOK /\ SlotsOK /\ WalkOK /\ SeenOK /\ StayedOK
  BY DEF BroadcastInv
<1> PICK r \in Listeners : r = mem[arr][k]
  BY <1>0 DEF SlotsOK
<1> PICK v \in Listeners : v = mem[arr][len]
  BY <1>0 DEF SlotsOK, ArraysOK
<1>1. /\ removing = None /\ removing' = r /\ r # None /\ len' = len /\ arr' = arr
      /\ present' = present /\ seen' = seen /\ added' = added /\ removed'
      /\ walk' = walk /\ delivered' = delivered /\ stayed' = stayed \ {r}
      /\ mem' = [mem EXCEPT ![arr][k] = v]
  BY DEF RemoveOverwrite, Write
<1>2. /\ arr \in Nat \ {0} /\ len \in Nat /\ len >= 1 /\ len <= Len(mem[arr]) /\ k \in 1..len
      /\ LiveLen = len /\ LiveLen' = len - 1 /\ v \in present /\ r \in present
      /\ \A j \in 1..len : mem[arr][j] \in present /\ mem[arr][j] \in Listeners
      /\ \A i, j \in 1..len : mem[arr][i] = mem[arr][j] => i = j
      /\ \A l \in present : \E j \in 1..len : mem[arr][j] = l
      /\ present \subseteq Listeners
  <2>1. LiveLen = len /\ LiveLen' = len - 1
    BY <1>1 DEF LiveLen
  <2>2. arr \in Nat \ {0} /\ len \in Nat /\ len >= 1 /\ len <= Len(mem[arr]) /\ k \in 1..len
    BY <1>0 DEF ArraysOK
  <2>3. \A j \in 1..len : mem[arr][j] \in present /\ mem[arr][j] \in Listeners
    BY <1>0 DEF SlotsOK
  <2>4. v \in present /\ r \in present
    BY <2>2, <2>3
  <2>5. \A i, j \in 1..len : mem[arr][i] = mem[arr][j] => i = j
    BY <1>0, <2>1 DEF SlotsOK
  <2>6. \A l \in present : \E j \in 1..len : mem[arr][j] = l
    BY <1>0, <1>1, <2>1 DEF SlotsOK
  <2> QED
    BY <1>0, <2>1, <2>2, <2>3, <2>4, <2>5, <2>6 DEF SlotsOK
<1>3. k \in 1..Len(mem[arr]) /\ Len(mem[arr]) \in Nat
  BY <1>0, <1>2 DEF ArraysOK
<1>4. /\ mem' \in Seq(Seq(Listeners \cup {None})) /\ Len(mem') = arr
      /\ \A a \in 1..arr : Len(mem'[a]) = Len(mem[a])
      /\ \A a \in 1..arr : \A j \in 1..Len(mem[a]) :
           ~(a = arr /\ j = k) => mem'[a][j] = mem[a][j]
      /\ mem'[arr][k] = v
  BY <1>0, <1>1, <1>3, Overwritten
<1>5. \A j \in 1..Len(mem[arr]) : j # k => mem'[arr][j] = mem[arr][j]
  BY <1>2, <1>4
<1>6. ArraysOK'
  <2>1. ASSUME NEW a \in 1..(arr - 1)
        PROVE  /\ Len(mem'[a]) = Len(mem[a])
               /\ \A j \in 1..Len(mem[a]) : mem'[a][j] = mem[a][j]
    BY <1>2, <1>4
  <2>2. \A a \in 1..arr : Len(mem'[a]) >= 1
    BY <1>0, <1>4 DEF ArraysOK
  <2>3. len' \in 0..Len(mem'[arr'])
    BY <1>1, <1>2, <1>4
  <2> QED
    BY <1>0, <1>1, <1>4, <2>1, <2>2, <2>3 DEF ArraysOK
<1>7. SlotsOK'
  <2>1. ASSUME NEW j \in 1..len
        PROVE  mem'[arr][j] \in present
    <3>1. j \in 1..Len(mem[arr])
      BY <1>2, <1>3
    <3>2. mem'[arr][j] = v \/ mem'[arr][j] = mem[arr][j]
      BY <1>4, <1>5, <3>1
    <3> QED
      BY <1>2, <3>2
  <2>2. ASSUME NEW i \in 1..(len - 1), NEW j \in 1..(len - 1), mem'[arr][i] = mem'[arr][j]
        PROVE  i = j
    <3>1. /\ i \in 1..len /\ j \in 1..len /\ i # len /\ j # len /\ len \in 1..len
          /\ i \in 1..Len(mem[arr]) /\ j \in 1..Len(mem[arr])
      BY <1>2, <1>3
    <3>2. /\ mem'[arr][i] = IF i = k THEN mem[arr][len] ELSE mem[arr][i]
          /\ mem'[arr][j] = IF j = k THEN mem[arr][len] ELSE mem[arr][j]
      BY <1>4, <1>5, <3>1
    <3> QED
      BY <1>2, <2>2, <3>1, <3>2
  <2>3. ASSUME NEW l \in present \ {r}
        PROVE  \E j \in 1..(len - 1) : mem'[arr][j] = l
    <3>1. PICK j \in 1..len : mem[arr][j] = l
      BY <1>2
    <3>2. j # k
      BY <3>1
    <3>3. CASE j = len
      BY <1>2, <1>4, <3>1, <3>2, <3>3
    <3>4. CASE j # len
      <4>1. j \in 1..(len - 1) /\ j \in 1..Len(mem[arr])
        BY <1>2, <1>3, <3>4
      <4> QED
        BY <1>5, <3>1, <3>2, <4>1
    <3> QED
      BY <3>3, <3>4
  <2>4. ASSUME NEW j \in 1..(len - 1)
        PROVE  mem'[arr][j] # r
    <3>1. j \in 1..len /\ j # len /\ len \in 1..len
      BY <1>2
    <3>2. CASE j = k
      BY <1>2, <1>4, <3>1, <3>2
    <3>3. CASE j # k
      BY <1>2, <1>5, <3>1, <3>3
    <3> QED
      BY <3>2, <3>3
  <2> QED
    BY <1>1, <1>2, <2>1, <2>2, <2>3, <2>4 DEF SlotsOK
<1>8. walk.arr \in 0..arr /\ walk.len \in Nat \cup {-1} /\ walk.i \in Nat
      /\ (walk.arr # 0 => Len(mem'[walk.arr]) = Len(mem[walk.arr]))
      /\ (walk.arr # 0 \/ walk.len # -1 => walk.at # "idle")
  <2>1. walk.arr \in 0..arr /\ walk.len \in Nat \cup {-1} /\ walk.i \in Nat
    BY <1>0 DEF WalkOK
  <2>2. walk.arr # 0 \/ walk.len # -1 => walk.at # "idle"
    BY <1>0 DEF WalkOK, Idle
  <2> QED
    BY <1>2, <1>4, <2>1, <2>2
<1>9. WalkOK'
  <2>1. Len(mem'[arr']) = Len(mem[arr])
    BY <1>1, <1>2, <1>4
  <2> QED
    BY <1>0, <1>1, <1>8, <2>1 DEF WalkOK
<1>10. SeenOK'
  <2>1. walk.at # "idle" => present \subseteq seen
    BY <1>0 DEF SeenOK
  <2>2. ASSUME walk.arr \notin {0, arr}, NEW j \in 1..Len(mem[walk.arr])
        PROVE  mem'[walk.arr][j] \in seen
    <3>1. mem'[walk.arr][j] = mem[walk.arr][j]
      <4>1. walk.arr \in 1..arr
        BY <1>2, <1>8, <2>2
      <4> QED
        BY <1>4, <2>2, <4>1
    <3> QED
      BY <1>0, <2>2, <3>1 DEF SeenOK
  <2>3. ASSUME walk.arr \in {0, arr}, NEW j \in 1..walk.len
        PROVE  mem'[arr][j] \in seen
    <3>1. walk.at # "idle" /\ mem[arr][j] \in seen /\ v \in seen
      BY <1>0, <1>2, <1>8, <2>1, <2>3 DEF SeenOK
    <3>2. j \in 1..Len(mem[arr])
      BY <1>0, <1>3, <1>8, <2>3 DEF WalkOK
    <3> QED
      BY <1>4, <1>5, <3>1, <3>2
  <2>4. NothingForTheGone'
    BY <1>0, <1>1 DEF SeenOK, NothingForTheGone
  <2> QED
    BY <1>0, <1>1, <1>8, <2>1, <2>2, <2>3, <2>4 DEF SeenOK
<1>11. WholeOK'
  BY <1>1 DEF WholeOK
<1>12. StayedOK'
  <2> SUFFICES ASSUME walk.at # "idle"
               PROVE  StayedOK'
    BY <1>1 DEF StayedOK
  <2>1. stayed' \subseteq present' \ {removing'}
    BY <1>0, <1>1 DEF StayedOK
  <2>2. ASSUME walk.at # "lost", ~added, NEW h \in Wanted(stayed \ {r})
        PROVE  h \in Got \/ Ahead(h)'
    <3>1. /\ h \in Got \/ Ahead(h)
          /\ walk.arr \in {0, arr} /\ h # r
      BY <1>0, <2>2 DEF StayedOK, Wanted
    <3>2. WalkArr = arr /\ WalkArr' = arr /\ WalkLen' = WalkLen
      BY <1>1, <3>1 DEF WalkArr, WalkLen
    <3>3. ASSUME NEW j \in (walk.i + 1)..WalkLen, j <= Len(mem[WalkArr]), mem[WalkArr][j] = h,
                 walk.at = "copy" /\ j = walk.i + 1 => walk.slot = h
          PROVE  Ahead(h)'
      <4>1. j # k
        BY <3>1, <3>2, <3>3
      <4>2. j \in 1..Len(mem[arr])
        BY <1>2, <1>3, <1>8, <3>2, <3>3 DEF WalkLen
      <4>3. j <= Len(mem'[WalkArr']) /\ mem'[WalkArr'][j] = h
        BY <1>2, <1>4, <1>5, <3>2, <3>3, <4>1, <4>2
      <4> QED
        BY <1>1, <3>2, <3>3, <4>3 DEF Ahead
    <3> QED
      BY <3>1, <3>3 DEF Ahead
  <2> QED
    BY <1>0, <1>1, <2>1, <2>2 DEF StayedOK, Wanted, Got
<1> QED
  BY <1>6, <1>7, <1>9, <1>10, <1>11, <1>12 DEF BroadcastInv

LEMMA ShrinkKeeps ==
  ASSUME BroadcastInv, RemoveShrink
  PROVE  BroadcastInv'
<1> USE NoneIsNobody DEF Cap
<1>0. ArraysOK /\ SlotsOK /\ WalkOK /\ SeenOK /\ WholeOK /\ StayedOK
  BY DEF BroadcastInv
<1>1. /\ removing # None /\ removing' = None /\ len' = len - 1 /\ present' = present \ {removing}
      /\ UNCHANGED <<mem, arr, walk, delivered, stayed, seen, added, removed>>
  BY DEF RemoveShrink
<1>2. /\ len \in Nat /\ len >= 1 /\ len <= Len(mem[arr]) /\ Len(mem[arr]) \in Nat
      /\ LiveLen = len - 1 /\ LiveLen' = len - 1 /\ removing \in present /\ present \subseteq Listeners
  BY <1>0, <1>1 DEF ArraysOK, SlotsOK, LiveLen
<1>3. ArraysOK'
  BY <1>0, <1>1, <1>2 DEF ArraysOK
<1>4. SlotsOK'
  <2>1. \A k \in 1..(len - 1) : mem[arr][k] \in present' /\ mem[arr][k] # None
    BY <1>0, <1>1, <1>2 DEF SlotsOK
  <2>2. \A l \in present' \ {None} : \E k \in 1..(len - 1) : mem[arr][k] = l
    BY <1>0, <1>1, <1>2 DEF SlotsOK
  <2> QED
    BY <1>0, <1>1, <1>2, <2>1, <2>2 DEF SlotsOK
<1>5. WalkOK'
  BY <1>0, <1>1 DEF WalkOK
<1>6. SeenOK'
  BY <1>0, <1>1 DEF SeenOK, NothingForTheGone
<1>7. WholeOK'
  BY <1>0, <1>1 DEF WholeOK
<1>8. StayedOK'
  <2> SUFFICES ASSUME walk.at # "idle"
               PROVE  StayedOK'
    BY <1>1 DEF StayedOK
  <2>1. stayed \subseteq present \ {removing} /\ removed
    BY <1>0, <1>1 DEF StayedOK
  <2>2. ASSUME walk.at # "lost", ~added, NEW h \in Wanted(stayed)
        PROVE  h \in Got \/ Ahead(h)'
    <3>1. (h \in Got \/ Ahead(h)) /\ walk.arr \in {0, arr}
      BY <1>0, <2>2 DEF StayedOK
    <3>2. WalkArr = arr /\ WalkArr' = arr
      BY <1>1, <3>1 DEF WalkArr
    <3>3. CASE walk.len = -1
      <4>1. walk.at = "load" /\ walk.i = 0
        BY <1>0, <2>2, <3>3 DEF WalkOK
      <4>2. PICK k \in 1..(len - 1) : mem[arr][k] = h
        BY <1>0, <1>2, <2>1, <2>2 DEF SlotsOK, Wanted
      <4>3. k \in (walk.i + 1)..WalkLen' /\ k <= Len(mem[arr])
        BY <1>1, <1>2, <3>3, <4>1, <4>2 DEF WalkLen
      <4> QED
        BY <1>1, <3>2, <4>1, <4>2, <4>3 DEF Ahead
    <3>4. CASE walk.len # -1
      <4>1. WalkLen' = WalkLen
        BY <1>1, <3>4 DEF WalkLen
      <4> QED
        BY <1>1, <3>1, <3>2, <4>1 DEF Ahead
    <3> QED
      BY <3>3, <3>4
  <2>3. ~added => walk.arr \in {0, arr}
    BY <1>0 DEF StayedOK
  <2>4. Got' = Got /\ Wanted(stayed)' = Wanted(stayed)
    BY <1>1 DEF Wanted, Got
  <2>5. stayed \subseteq present' \ {None}
    BY <1>1, <1>2, <2>1
  <2> QED
    BY <1>1, <2>1, <2>2, <2>3, <2>4, <2>5 DEF StayedOK
<1> QED
  BY <1>3, <1>4, <1>5, <1>6, <1>7, <1>8 DEF BroadcastInv

LEMMA ClearKeeps ==
  ASSUME BroadcastInv, Clear
  PROVE  BroadcastInv'
<1> USE NoneIsNobody DEF Cap
<1>0. ArraysOK /\ SlotsOK /\ WalkOK /\ SeenOK /\ WholeOK /\ StayedOK
  BY DEF BroadcastInv
<1>1. /\ removing = None /\ len' = 0 /\ present' = {} /\ stayed' = {} /\ removed'
      /\ UNCHANGED <<mem, arr, removing, walk, delivered, seen, added>>
  BY DEF Clear, Write
<1>2. ArraysOK'
  <2>1. Len(mem[arr]) \in Nat
    BY <1>0 DEF ArraysOK
  <2> QED
    BY <1>0, <1>1, <2>1 DEF ArraysOK
<1>3. SlotsOK'
  BY <1>1 DEF SlotsOK, LiveLen
<1>4. WalkOK'
  BY <1>0, <1>1 DEF WalkOK
<1>5. SeenOK'
  BY <1>0, <1>1 DEF SeenOK, NothingForTheGone
<1>6. WholeOK' /\ StayedOK'
  BY <1>0, <1>1 DEF WholeOK, StayedOK, Wanted
<1> QED
  BY <1>2, <1>3, <1>4, <1>5, <1>6 DEF BroadcastInv

-----------------------------------------------------------------------------
(* The walk leaves the slice alone.                                        *)

LEMMA SliceStays ==
  ASSUME ArraysOK, SlotsOK, UNCHANGED writers
  PROVE  ArraysOK' /\ SlotsOK'
<1>1. UNCHANGED mem /\ UNCHANGED arr /\ UNCHANGED len /\ UNCHANGED removing /\ UNCHANGED present
  BY DEF writers
<1>2. ArraysOK'
  BY <1>1 DEF ArraysOK, Cap
<1>3. SlotsOK'
  BY <1>1 DEF SlotsOK, LiveLen
<1> QED
  BY <1>2, <1>3

LEMMA BeginKeeps ==
  ASSUME BroadcastInv, Begin
  PROVE  BroadcastInv'
<1> USE NoneIsNobody DEF Cap
<1>0. ArraysOK /\ SlotsOK /\ WalkOK /\ SeenOK /\ UNCHANGED writers
  BY DEF BroadcastInv, Begin
<1>1. /\ walk' = [at |-> "load", arr |-> 0, len |-> -1, i |-> 0, slot |-> None]
      /\ stayed' = present \ {removing} /\ seen' = present /\ ~added' /\ (removed' <=> removing # None)
      /\ UNCHANGED <<mem, arr, len, removing, present, delivered>> /\ delivered = <<>>
  BY <1>0 DEF Begin, Idle, WalkOK, writers
<1>2. ArraysOK' /\ SlotsOK'
  BY <1>0, SliceStays
<1>3. WalkOK'
  <2>1. arr \in Nat
    BY <1>0 DEF ArraysOK
  <2>2. walk' \in [at: {"idle", "load", "next", "copy", "done", "lost"}, arr: 0..arr',
                   len: Nat \cup {-1}, i: Nat, slot: Listeners \cup {None}]
    BY <1>1, <2>1
  <2> QED
    BY <1>1, <2>2 DEF WalkOK
<1>4. SeenOK'
  BY <1>0, <1>1 DEF SeenOK, SlotsOK, NothingForTheGone
<1>5. WholeOK'
  <2>1. -1 <= len
    BY <1>0 DEF ArraysOK
  <2> QED
    BY <1>1, <2>1 DEF WholeOK
<1>6. StayedOK'
  <2>1. ASSUME NEW h \in Wanted(stayed')
        PROVE  Ahead(h)'
    <3>1. PICK k \in 1..LiveLen : mem[arr][k] = h
      BY <1>0, <1>1, <2>1 DEF SlotsOK, Wanted
    <3>2. len \in Nat /\ Len(mem[arr]) \in Nat /\ len <= Len(mem[arr])
      BY <1>0 DEF ArraysOK
    <3>3. k \in 1..len
      BY <3>1, <3>2 DEF LiveLen
    <3>4. WalkArr' = arr /\ WalkLen' = len
      BY <1>1 DEF WalkArr, WalkLen
    <3> QED
      BY <1>1, <3>1, <3>2, <3>3, <3>4 DEF Ahead
  <2> QED
    BY <1>1, <2>1 DEF StayedOK, Wanted
<1> QED
  BY <1>2, <1>3, <1>4, <1>5, <1>6 DEF BroadcastInv

\* The header's words are loaded: nothing is delivered yet, and nobody is less ahead for it.
LEMMA LoadKeeps ==
  ASSUME BroadcastInv, LoadArray \/ LoadLength
  PROVE  BroadcastInv'
<1> USE NoneIsNobody DEF Cap
<1>0. ArraysOK /\ SlotsOK /\ WalkOK /\ SeenOK /\ WholeOK /\ StayedOK /\ UNCHANGED writers
  BY DEF BroadcastInv, LoadArray, LoadLength
<1>1. /\ UNCHANGED <<mem, arr, len, removing, present, delivered, stayed, seen, added, removed>>
      /\ walk.at = "load" /\ walk.i = 0 /\ delivered = <<>>
  BY <1>0 DEF LoadArray, LoadLength, WalkOK, writers, history
<1>2. /\ arr \in Nat \ {0} /\ len \in Nat /\ len <= Len(mem[arr])
      /\ walk.arr \in 0..arr /\ walk.len \in Nat \cup {-1} /\ walk.slot \in Listeners \cup {None}
      /\ walk \in [at: {"idle", "load", "next", "copy", "done", "lost"}, arr: 0..arr,
                   len: Nat \cup {-1}, i: Nat, slot: Listeners \cup {None}]
  BY <1>0 DEF ArraysOK, WalkOK
<1>3. /\ walk' = [at |-> walk'.at, arr |-> walk'.arr, len |-> walk'.len, i |-> 0, slot |-> walk.slot]
      /\ \/ walk'.arr = arr /\ walk.arr = 0 /\ walk'.len = walk.len
         \/ walk'.arr = walk.arr /\ walk'.len = len /\ walk.len = -1
      /\ walk'.at \in {"load", "next"}
      /\ walk'.at = "next" => walk'.arr # 0 /\ walk'.len # -1
  <2>1. CASE LoadArray
    <3> DEFINE step == IF walk.len = -1 THEN "load" ELSE "next"
    <3>1. walk.arr = 0 /\ walk' = [walk EXCEPT !.arr = arr, !.at = step]
      BY <2>1 DEF LoadArray
    <3>2. step \in {"load", "next"} /\ (step = "next" => walk.len # -1)
      OBVIOUS
    <3> HIDE DEF step
    <3>3. walk' = [at |-> step, arr |-> arr, len |-> walk.len, i |-> 0, slot |-> walk.slot]
      BY <1>1, <1>2, <3>1
    <3> QED
      BY <1>2, <3>1, <3>2, <3>3
  <2>2. CASE LoadLength
    <3> DEFINE step == IF walk.arr = 0 THEN "load" ELSE "next"
    <3>1. walk.len = -1 /\ walk' = [walk EXCEPT !.len = len, !.at = step]
      BY <2>2 DEF LoadLength
    <3>2. step \in {"load", "next"} /\ (step = "next" => walk.arr # 0)
      OBVIOUS
    <3> HIDE DEF step
    <3>3. walk' = [at |-> step, arr |-> walk.arr, len |-> len, i |-> 0, slot |-> walk.slot]
      BY <1>1, <1>2, <3>1
    <3>4. len # -1
      BY <1>2
    <3> QED
      BY <3>1, <3>2, <3>3, <3>4
  <2> QED
    BY <2>1, <2>2
<1>4. ArraysOK' /\ SlotsOK'
  BY <1>0, SliceStays
<1>5. WalkOK'
  <2>1. walk'.arr \in 0..arr /\ walk'.len \in Nat \cup {-1}
    BY <1>2, <1>3
  <2>2. walk' \in [at: {"idle", "load", "next", "copy", "done", "lost"}, arr: 0..arr',
                   len: Nat \cup {-1}, i: Nat, slot: Listeners \cup {None}]
    BY <1>1, <1>2, <1>3, <2>1
  <2>3. walk'.i = 0 /\ walk'.at # "idle" /\ walk'.at # "copy" /\ walk'.at # "done"
    BY <1>3
  <2>4. walk'.arr \in {0, arr} /\ walk'.len # -1 => walk'.len <= Len(mem[arr])
    BY <1>0, <1>2, <1>3 DEF WalkOK
  <2> QED
    BY <1>1, <1>3, <2>2, <2>3, <2>4 DEF WalkOK
<1>6. SeenOK'
  <2>1. present \subseteq seen /\ \A k \in 1..len : mem[arr][k] \in present
    BY <1>0, <1>1 DEF SeenOK, SlotsOK
  <2>2. walk'.arr \notin {0, arr} => \A k \in 1..Len(mem[walk'.arr]) : mem[walk'.arr][k] \in seen
    BY <1>0, <1>3 DEF SeenOK
  <2>3. walk'.arr \in {0, arr} => \A k \in 1..walk'.len : mem[arr][k] \in seen
    BY <1>0, <1>3, <2>1 DEF SeenOK
  <2> QED
    BY <1>0, <1>1, <1>3, <2>1, <2>2, <2>3 DEF SeenOK, NothingForTheGone
<1>7. WholeOK'
  <2>1. walk'.len <= len \/ removed
    BY <1>0, <1>1, <1>2, <1>3 DEF WholeOK
  <2> QED
    BY <1>0, <1>1, <1>3, <2>1 DEF WholeOK
<1>8. StayedOK'
  <2>1. WalkArr' = WalkArr /\ WalkLen' = WalkLen
    BY <1>1, <1>2, <1>3 DEF WalkArr, WalkLen
  <2>2. \A h : Ahead(h) => Ahead(h)'
    BY <1>1, <1>3, <2>1 DEF Ahead
  <2>3. walk'.arr \in {0, arr} \/ added
    BY <1>0, <1>1, <1>3 DEF StayedOK
  <2> QED
    BY <1>0, <1>1, <1>3, <2>2, <2>3 DEF StayedOK, Wanted, Got
<1> QED
  BY <1>4, <1>5, <1>6, <1>7, <1>8 DEF BroadcastInv

LEMMA CopyBeginsKeeps ==
  ASSUME BroadcastInv, CopyBegins
  PROVE  BroadcastInv'
<1> USE NoneIsNobody DEF Cap
<1>0. ArraysOK /\ SlotsOK /\ WalkOK /\ SeenOK /\ WholeOK /\ StayedOK /\ UNCHANGED writers
  BY DEF BroadcastInv, CopyBegins
<1>1. /\ UNCHANGED <<mem, arr, len, removing, present, delivered, stayed, seen, added, removed>>
      /\ walk.at = "next" /\ walk.arr # 0 /\ walk.len # -1 /\ walk.i < walk.len
      /\ walk.i < Len(mem[walk.arr])
  BY <1>0 DEF CopyBegins, WalkOK, writers, history
<1>2. /\ arr \in Nat \ {0} /\ len \in Nat
      /\ walk.arr \in 1..arr /\ walk.len \in Nat /\ walk.i \in Nat /\ Len(mem[walk.arr]) \in Nat
      /\ walk \in [at: {"idle", "load", "next", "copy", "done", "lost"}, arr: 0..arr,
                   len: Nat \cup {-1}, i: Nat, slot: Listeners \cup {None}]
  BY <1>0, <1>1 DEF ArraysOK, WalkOK
<1>3. walk' = [at |-> "copy", arr |-> walk.arr, len |-> walk.len, i |-> walk.i,
               slot |-> mem[walk.arr][walk.i + 1]]
  BY <1>2 DEF CopyBegins
<1>4. mem[walk.arr][walk.i + 1] \in seen /\ seen \subseteq Listeners
  BY <1>0, <1>1, <1>2 DEF SeenOK
<1>5. ArraysOK' /\ SlotsOK'
  BY <1>0, SliceStays
<1>6. WalkOK'
  <2>1. walk' \in [at: {"idle", "load", "next", "copy", "done", "lost"}, arr: 0..arr',
                   len: Nat \cup {-1}, i: Nat, slot: Listeners \cup {None}]
    BY <1>1, <1>2, <1>3, <1>4
  <2> QED
    BY <1>0, <1>1, <1>3, <2>1 DEF WalkOK
<1>7. SeenOK'
  BY <1>0, <1>1, <1>3, <1>4 DEF SeenOK, NothingForTheGone
<1>8. WholeOK'
  BY <1>0, <1>1, <1>3 DEF WholeOK
<1>9. StayedOK'
  <2>1. WalkArr = walk.arr /\ WalkArr' = walk.arr /\ WalkLen' = WalkLen
    BY <1>1, <1>3 DEF WalkArr, WalkLen
  <2>2. \A h : Ahead(h) => Ahead(h)'
    BY <1>1, <1>3, <2>1 DEF Ahead
  <2> QED
    BY <1>0, <1>1, <1>3, <2>2 DEF StayedOK, Wanted, Got
<1> QED
  BY <1>5, <1>6, <1>7, <1>8, <1>9 DEF BroadcastInv

LEMMA OverrunKeeps ==
  ASSUME BroadcastInv, Overrun
  PROVE  BroadcastInv'
<1> USE NoneIsNobody DEF Cap
<1>0. ArraysOK /\ SlotsOK /\ WalkOK /\ SeenOK /\ WholeOK /\ StayedOK /\ UNCHANGED writers
  BY DEF BroadcastInv, Overrun
<1>1. /\ UNCHANGED <<mem, arr, len, removing, present, delivered, stayed, seen, added, removed>>
      /\ walk.at = "next"
  BY <1>0 DEF Overrun, writers, history
<1>2. walk' = [at |-> "lost", arr |-> walk.arr, len |-> walk.len, i |-> walk.i, slot |-> walk.slot]
      /\ walk \in [at: {"idle", "load", "next", "copy", "done", "lost"}, arr: 0..arr,
                   len: Nat \cup {-1}, i: Nat, slot: Listeners \cup {None}]
  BY <1>0 DEF Overrun, WalkOK
<1>3. ArraysOK' /\ SlotsOK'
  BY <1>0, SliceStays
<1>4. WalkOK'
  BY <1>0, <1>1, <1>2 DEF WalkOK
<1>5. SeenOK'
  BY <1>0, <1>1, <1>2 DEF SeenOK, NothingForTheGone
<1>6. WholeOK' /\ StayedOK'
  BY <1>0, <1>1, <1>2 DEF WholeOK, StayedOK
<1> QED
  BY <1>3, <1>4, <1>5, <1>6 DEF BroadcastInv

LEMMA ReturnKeeps ==
  ASSUME BroadcastInv, Return
  PROVE  BroadcastInv'
<1> USE NoneIsNobody DEF Cap
<1>0. ArraysOK /\ SlotsOK /\ WalkOK /\ SeenOK /\ WholeOK /\ StayedOK /\ UNCHANGED writers
  BY DEF BroadcastInv, Return
<1>1. /\ UNCHANGED <<mem, arr, len, removing, present, delivered, stayed, seen, added, removed>>
      /\ walk.at = "next" /\ walk.i >= walk.len
  BY <1>0 DEF Return, writers, history
<1>2. walk' = [at |-> "done", arr |-> walk.arr, len |-> walk.len, i |-> walk.i, slot |-> walk.slot]
      /\ walk \in [at: {"idle", "load", "next", "copy", "done", "lost"}, arr: 0..arr,
                   len: Nat \cup {-1}, i: Nat, slot: Listeners \cup {None}]
  BY <1>0 DEF Return, WalkOK
<1>3. ArraysOK' /\ SlotsOK'
  BY <1>0, SliceStays
<1>4. WalkOK'
  BY <1>0, <1>1, <1>2 DEF WalkOK
<1>5. SeenOK'
  BY <1>0, <1>1, <1>2 DEF SeenOK, NothingForTheGone
<1>6. WholeOK'
  BY <1>0, <1>1, <1>2 DEF WholeOK
<1>7. StayedOK'
  <2>1. WalkArr' = WalkArr /\ WalkLen' = WalkLen
    BY <1>1, <1>2 DEF WalkArr, WalkLen
  <2>2. \A h : Ahead(h) => Ahead(h)'
    BY <1>1, <1>2, <2>1 DEF Ahead
  <2> QED
    BY <1>0, <1>1, <1>2, <2>2 DEF StayedOK, Wanted, Got
<1> QED
  BY <1>3, <1>4, <1>5, <1>6, <1>7 DEF BroadcastInv

\* What is copied, whatever happens to the slot meanwhile, is of listeners that were seen; the event
\* goes out on it if the filter and the hooks let it.
LEMMA CopyEndsKeeps ==
  ASSUME BroadcastInv, CopyEnds
  PROVE  BroadcastInv'
<1> USE NoneIsNobody DEF Cap
<1>0. ArraysOK /\ SlotsOK /\ WalkOK /\ SeenOK /\ WholeOK /\ StayedOK /\ UNCHANGED writers
  BY DEF BroadcastInv, CopyEnds
<1> PICK held : held = {walk.slot, mem[walk.arr][walk.i + 1]}
  OBVIOUS
<1> PICK w \in held, d \in held, f \in held : Sent([ws |-> w, id |-> d, filter |-> f])
  BY DEF CopyEnds
<1> PICK copy : copy = [ws |-> w, id |-> d, filter |-> f]
  OBVIOUS
<1>1. /\ UNCHANGED <<mem, arr, len, removing, present, stayed, seen, added, removed>>
      /\ walk.at = "copy" /\ walk.arr # 0 /\ walk.len # -1 /\ walk.i < walk.len
      /\ walk.i < Len(mem[walk.arr])
  BY <1>0 DEF CopyEnds, WalkOK, writers, history
<1>2. /\ arr \in Nat \ {0} /\ len \in Nat /\ Len(mem[arr]) \in Nat
      /\ walk.arr \in 1..arr /\ walk.len \in Nat /\ walk.i \in Nat /\ Len(mem[walk.arr]) \in Nat
      /\ walk \in [at: {"idle", "load", "next", "copy", "done", "lost"}, arr: 0..arr,
                   len: Nat \cup {-1}, i: Nat, slot: Listeners \cup {None}]
  BY <1>0, <1>1 DEF ArraysOK, WalkOK
<1>3. /\ walk' = [at |-> "next", arr |-> walk.arr, len |-> walk.len, i |-> walk.i + 1,
                  slot |-> walk.slot]
      /\ delivered' = IF f \in Matching /\ w \notin Prevented THEN Append(delivered, copy)
                      ELSE delivered
  BY <1>2 DEF Sent
<1>4. held \subseteq seen /\ seen \subseteq Listeners /\ present \subseteq seen
  <2>1. mem[walk.arr][walk.i + 1] \in seen
    BY <1>0, <1>1, <1>2 DEF SeenOK
  <2> QED
    BY <1>0, <1>1, <2>1 DEF SeenOK
<1>5. delivered \in Seq(Copies) /\ copy \in Copies
  BY <1>0, <1>4 DEF SeenOK, Copies
<1>6. delivered' \in Seq(Copies)
  BY <1>3, <1>5, AppendProperties
\* What is delivered afterwards was before, or is the copy.
<1>7. /\ \A n \in DOMAIN delivered' :
           \/ n \in DOMAIN delivered /\ delivered'[n] = delivered[n]
           \/ n \notin DOMAIN delivered /\ delivered'[n] = copy /\ f \in Matching /\ w \notin Prevented
              /\ n = Len(delivered) + 1
      /\ \A n \in DOMAIN delivered : n \in DOMAIN delivered' /\ delivered'[n] = delivered[n]
      /\ f \in Matching /\ w \notin Prevented =>
           Len(delivered) + 1 \in DOMAIN delivered' /\ delivered'[Len(delivered) + 1] = copy
  <2>1. CASE f \in Matching /\ w \notin Prevented
    <3>1. delivered' = Append(delivered, copy)
      BY <1>3, <2>1
    <3> QED
      BY <1>5, <2>1, <3>1, AppendProperties, LenProperties
  <2>2. CASE ~(f \in Matching /\ w \notin Prevented)
    BY <1>3, <2>2
  <2> QED
    BY <2>1, <2>2
<1>8. ArraysOK' /\ SlotsOK'
  BY <1>0, SliceStays
<1>9. WalkOK'
  <2>1. walk' \in [at: {"idle", "load", "next", "copy", "done", "lost"}, arr: 0..arr',
                   len: Nat \cup {-1}, i: Nat, slot: Listeners \cup {None}]
    BY <1>1, <1>2, <1>3
  <2>2. walk'.i <= walk.len /\ walk'.i <= Len(mem[walk.arr])
    BY <1>1, <1>2, <1>3
  <2> QED
    BY <1>0, <1>1, <1>3, <2>1, <2>2 DEF WalkOK
<1>10. SeenOK'
  <2>1. \A n \in DOMAIN delivered' :
          {delivered'[n].ws, delivered'[n].id, delivered'[n].filter} \subseteq seen
    <3>1. {copy.ws, copy.id, copy.filter} \subseteq seen
      BY <1>4
    <3> QED
      BY <1>0, <1>7, <3>1 DEF SeenOK, NothingForTheGone
  <2> QED
    BY <1>0, <1>1, <1>3, <1>6, <2>1 DEF SeenOK, NothingForTheGone
<1>11. WholeOK'
  <2> SUFFICES ASSUME ~removed
               PROVE  WholeOK'
    BY <1>1 DEF WholeOK
  <2> PICK s : s = walk.slot
    OBVIOUS
  <2>1. /\ removing = None /\ walk.len <= len
        /\ s = mem[walk.arr][walk.i + 1] /\ w = s /\ d = s /\ f = s
        /\ \A n \in DOMAIN delivered :
             /\ delivered[n].ws = delivered[n].id /\ delivered[n].ws = delivered[n].filter
             /\ delivered[n].ws \in Wanted(seen)
             /\ \E j \in 1..walk.i : mem[walk.arr][j] = delivered[n].ws
        /\ \A m, n \in DOMAIN delivered : m # n => delivered[m] # delivered[n]
    BY <1>0, <1>1 DEF WholeOK
  <2>2. \A j \in 1..walk.i : mem[walk.arr][j] # s
    <3>1. CASE walk.arr = arr
      BY <1>0, <1>1, <1>2, <2>1, <3>1 DEF SlotsOK, LiveLen
    <3>2. CASE walk.arr # arr
      <4>1. walk.arr \in 1..(arr - 1)
        BY <1>2, <3>2
      <4> QED
        <5>1. \A j, k \in 1..Len(mem[walk.arr]) : mem[walk.arr][j] = mem[walk.arr][k] => j = k
          BY <1>0, <4>1 DEF ArraysOK
        <5>2. ASSUME NEW j \in 1..walk.i
              PROVE  /\ j \in 1..Len(mem[walk.arr]) /\ walk.i + 1 \in 1..Len(mem[walk.arr])
                     /\ j # walk.i + 1
          BY <1>1, <1>2
        <5> QED
          BY <2>1, <5>1, <5>2
    <3> QED
      BY <3>1, <3>2
  <2>3. copy.ws = s /\ copy.id = s /\ copy.filter = s
    BY <2>1
  <2>4. ASSUME NEW n \in DOMAIN delivered'
        PROVE  /\ delivered'[n].ws = delivered'[n].id /\ delivered'[n].ws = delivered'[n].filter
               /\ delivered'[n].ws \in Wanted(seen)
               /\ \E j \in 1..(walk.i + 1) : mem[walk.arr][j] = delivered'[n].ws
    <3>1. CASE n \in DOMAIN delivered /\ delivered'[n] = delivered[n]
      BY <1>2, <2>1, <3>1
    <3>2. CASE delivered'[n] = copy /\ f \in Matching /\ w \notin Prevented
      <4>1. s \in Wanted(seen)
        BY <1>4, <2>1, <3>2 DEF Wanted
      <4>2. walk.i + 1 \in 1..(walk.i + 1)
        BY <1>2
      <4> QED
        BY <2>1, <2>3, <3>2, <4>1, <4>2
    <3> QED
      BY <1>7, <3>1, <3>2
  <2>5. ASSUME NEW m \in DOMAIN delivered', NEW n \in DOMAIN delivered', m # n
        PROVE  delivered'[m] # delivered'[n]
    <3>1. \A p \in DOMAIN delivered : delivered[p].ws # copy.ws
      BY <2>1, <2>2, <2>3
    <3> QED
      BY <1>7, <2>1, <2>5, <3>1
  <2> QED
    <3>1. /\ walk'.at = "next" /\ walk'.arr = walk.arr /\ walk'.len = walk.len
          /\ walk'.i = walk.i + 1 /\ Wanted(seen)' = Wanted(seen)
      BY <1>1, <1>3 DEF Wanted
    <3> QED
      BY <1>1, <2>1, <2>4, <2>5, <3>1 DEF WholeOK
<1>12. StayedOK'
  <2>1. WalkArr = walk.arr /\ WalkLen = walk.len /\ WalkArr' = walk.arr /\ WalkLen' = walk.len
    BY <1>1, <1>3 DEF WalkArr, WalkLen
  <2>2. \A h : h \in Got => h \in Got'
    BY <1>7 DEF Got
  <2>3. ASSUME NEW h \in Wanted(stayed), Ahead(h)
        PROVE  h \in Got' \/ Ahead(h)'
    <3>1. PICK j \in (walk.i + 1)..walk.len :
            /\ j <= Len(mem[walk.arr]) /\ mem[walk.arr][j] = h
            /\ j = walk.i + 1 => walk.slot = h
      BY <1>1, <2>1, <2>3 DEF Ahead
    <3>2. CASE j = walk.i + 1
      <4>1. w = h /\ f = h /\ copy = [ws |-> h, id |-> h, filter |-> h]
        BY <3>1, <3>2
      <4>2. h \in Matching /\ h \notin Prevented /\ h \in Listeners
        BY <2>3, SubsetsAssumption DEF Wanted
      <4>3. \E n \in DOMAIN delivered' : delivered'[n] = [ws |-> h, id |-> h, filter |-> h]
        BY <1>7, <4>1, <4>2
      <4> QED
        BY <4>2, <4>3 DEF Got
    <3>3. CASE j # walk.i + 1
      <4>1. j \in (walk'.i + 1)..walk.len /\ walk'.at = "next"
        BY <1>2, <1>3, <3>1, <3>3
      <4> QED
        BY <1>1, <2>1, <3>1, <4>1 DEF Ahead
    <3> QED
      BY <3>2, <3>3
  <2>4. Wanted(stayed)' = Wanted(stayed)
    BY <1>1 DEF Wanted
  <2> QED
    BY <1>0, <1>1, <1>3, <2>2, <2>3, <2>4 DEF StayedOK
<1> QED
  BY <1>8, <1>9, <1>10, <1>11, <1>12 DEF BroadcastInv

LEMMA BroadcastStepKeeps == BroadcastInv /\ [BroadcastNext]_broadcastVars => BroadcastInv'
<1> SUFFICES ASSUME BroadcastInv, [BroadcastNext]_broadcastVars PROVE BroadcastInv'
  OBVIOUS
<1>1. CASE \E l \in Listeners : AddToSlice(l)
  BY <1>1, AddToSliceKeeps
<1>2. CASE \E k \in 1..Len(mem[arr]) : RemoveOverwrite(k)
  <2>1. PICK k \in 1..Len(mem[arr]) : RemoveOverwrite(k)
    BY <1>2
  <2>2. k \in 1..len
    BY <2>1 DEF RemoveOverwrite
  <2> QED
    BY <2>1, <2>2, OverwriteKeeps
<1>3. CASE RemoveShrink
  BY <1>3, ShrinkKeeps
<1>4. CASE Clear
  BY <1>4, ClearKeeps
<1>5. CASE Begin
  BY <1>5, BeginKeeps
<1>6. CASE LoadArray \/ LoadLength
  BY <1>6, LoadKeeps
<1>7. CASE CopyBegins
  BY <1>7, CopyBeginsKeeps
<1>8. CASE Overrun
  BY <1>8, OverrunKeeps
<1>9. CASE CopyEnds
  BY <1>9, CopyEndsKeeps
<1>10. CASE Return
  BY <1>10, ReturnKeeps
<1>11. CASE UNCHANGED broadcastVars
  <2>1. ArraysOK' /\ SlotsOK'
    BY <1>11, SliceStays DEF BroadcastInv, broadcastVars, writers
  <2>2. WalkOK'
    BY <1>11 DEF BroadcastInv, broadcastVars, WalkOK, Cap
  <2>3. SeenOK'
    BY <1>11 DEF BroadcastInv, broadcastVars, SeenOK, NothingForTheGone, Cap
  <2>4. WholeOK'
    BY <1>11 DEF BroadcastInv, broadcastVars, WholeOK, Wanted
  <2>5. StayedOK'
    BY <1>11 DEF BroadcastInv, broadcastVars, StayedOK, Wanted, Got, Ahead, WalkArr, WalkLen, Cap
  <2> QED
    BY <2>1, <2>2, <2>3, <2>4, <2>5 DEF BroadcastInv
<1> QED
  BY <1>1, <1>2, <1>3, <1>4, <1>5, <1>6, <1>7, <1>8, <1>9, <1>10, <1>11 DEF BroadcastNext

-----------------------------------------------------------------------------
(* What holds of every broadcast, with any number of listeners and an      *)
(* array of any capacity (listener.go:53-57, 81-97, 135-151).              *)
THEOREM BroadcastKeepsItsReach == BroadcastSpec => []BroadcastInv
BY BroadcastInitEstablishes, BroadcastStepKeeps, PTL DEF BroadcastSpec

(* The header is within its array, and what is below its length is a       *)
(* listener (relay.go:38, listener.go:53-57).                              *)
THEOREM SliceStaysWellFormed == BroadcastSpec => []SliceOK
<1>1. BroadcastInv => SliceOK
  <2> SUFFICES ASSUME BroadcastInv PROVE SliceOK
    OBVIOUS
  <2>1. ArraysOK /\ SlotsOK /\ SeenOK
    BY DEF BroadcastInv
  <2>2. arr \in DOMAIN mem /\ len \in 0..Cap(arr)
    BY <2>1 DEF ArraysOK
  <2> QED
    BY <2>1, <2>2 DEF SliceOK, SlotsOK, SeenOK
<1> QED
  BY <1>1, BroadcastKeepsItsReach, PTL

(* Nothing is sent to a connection, for a subscription or by a filter that *)
(* was gone when the broadcast was called (listener.go:139-148, 53-97).    *)
THEOREM NothingIsForTheGone == BroadcastSpec => []NothingForTheGone
<1>1. BroadcastInv => NothingForTheGone
  BY DEF BroadcastInv, SeenOK
<1> QED
  BY <1>1, BroadcastKeepsItsReach, PTL

(* Additions alone leave a broadcast exact, and removals alone miss nobody *)
(* who stays (listener.go:81-97, 139-148).                                 *)
THEOREM OneSidedStaysExact == BroadcastSpec => []OneSidedIsExact
<1>1. BroadcastInv => OneSidedIsExact
  <2> SUFFICES ASSUME BroadcastInv PROVE OneSidedIsExact
    OBVIOUS
  <2>1. WalkOK /\ WholeOK /\ StayedOK
    BY DEF BroadcastInv
  <2>2. walk.at = "idle" => DOMAIN delivered = {}
    BY <2>1 DEF WalkOK
  <2>3. ~removed => /\ \A n \in DOMAIN delivered : delivered[n].ws = delivered[n].id
                                                    /\ delivered[n].ws = delivered[n].filter
                    /\ \A m, n \in DOMAIN delivered : m # n => delivered[m] # delivered[n]
                    /\ Got \subseteq Wanted(seen)
    BY <2>1, <2>2 DEF WholeOK, Got
  <2>4. ASSUME walk.at = "done", ~(added /\ removed), NEW h \in Wanted(stayed)
        PROVE  h \in Got
    <3>1. ~Ahead(h)
      <4>1. walk.i \in Nat /\ walk.len \in Nat /\ walk.i >= walk.len
        BY <2>1, <2>4 DEF WalkOK
      <4> QED
        BY <4>1 DEF Ahead, WalkLen
    <3> QED
      BY <2>1, <2>4, <3>1 DEF StayedOK
  <2> QED
    BY <2>3, <2>4 DEF OneSidedIsExact
<1> QED
  BY <1>1, BroadcastKeepsItsReach, PTL
=============================================================================
