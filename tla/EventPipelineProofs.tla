------------------------ MODULE EventPipelineProofs ------------------------
(***************************************************************************)
(* The event pipeline loses no event, deletes what it was asked to and     *)
(* keeps one version of an address, for any number of events, handlers,    *)
(* moderators, tags and failing calls.                                     *)
(***************************************************************************)
EXTENDS EventPipeline, FiniteSetTheorems, TLAPS

Runs ==
  [at : Steps, evt : Events \cup {None}, byMessage : BOOLEAN, k : Nat, target : Events \cup {None},
   blind : BOOLEAN, since : SUBSET Events]

Aiming == {"deleteTarget", "deletePrevious"}
Deleting == {"delete", "deleteTarget"}
ForVersions == {"byAddress", "replace", "previous", "deletePrevious", "storeNew"}
Replacing == {"deletePrevious", "storeNew"}

Types ==
  /\ stored \subseteq once /\ once \subseteq Events
  /\ faults \in Nat
  /\ run \in [Handlers -> Runs]

-----------------------------------------------------------------------------
(* What holds of one handler.                                              *)

StepOK(h) ==
  /\ run[h].evt = None <=> run[h].at = "rest"
  /\ run[h].evt \in seen \cup {None}
  /\ run[h].at \in Aiming <=> run[h].target # None
  /\ run[h].at \in Deleting => run[h].byMessage /\ Class[run[h].evt] = "deletion" /\ run[h].k >= 1
  /\ run[h].at = "deleteTarget" => run[h].k <= Len(Tags[run[h].evt])
  /\ run[h].at = "store" => Regular(run[h].evt)
  /\ run[h].at \in ForVersions => Versioned(run[h].evt)

Asked(target, d, k) ==
  /\ AcceptDeletion(target, d)
  /\ \/ Tags[d][k] = <<"e", target>>
     \/ /\ Class[target] = "addressable" /\ Tags[d][k] = <<"a", Address(target)>>
        /\ Date[target] <= Date[d]

\* A handler deletes what its request asked for, or an older version of its event.
AimOK(h) ==
  /\ run[h].at = "deleteTarget" => Asked(run[h].target, run[h].evt, run[h].k)
  /\ run[h].at = "deletePrevious" =>
       SameAddress(run[h].target, run[h].evt) /\ IsOlder(run[h].target, run[h].evt)

\* An event that went through was stored, now or before, or there is a newer one.
ThroughOK(h) == run[h].at \in {"saved", "skip"} => run[h].evt \in once \/ Displaced(run[h].evt)

\* The tags a deletion request is done with.
Done(h) ==
  {j \in 1..Len(Tags[run[h].evt]) : run[h].at \in Deleting => j < run[h].k}

Sweeping(h) ==
  /\ run[h].at \notin {"rest", "hang"} /\ run[h].byMessage /\ ~run[h].blind
  /\ Class[run[h].evt] = "deletion"

SweptOK(h) ==
  Sweeping(h) =>
    \A j \in Done(h), x \in stored : Tags[run[h].evt][j] = <<"e", x>> => x \in run[h].since

HandlerOK(h) == StepOK(h) /\ AimOK(h) /\ ThroughOK(h) /\ SweptOK(h)

-----------------------------------------------------------------------------
Excused(e) == DeletionWanted(e) \/ Displaced(e)

Kept == \A e \in once : e \in stored \/ Excused(e)

AcksKept == \A e \in acked : Ephemeral(e) \/ e \in once \/ Displaced(e)

(* One version of an address, and one handler for it.                      *)
Apart ==
  \A g, h \in Handlers :
    g # h /\ run[g].evt # None /\ run[h].evt # None => ~SameAddress(run[g].evt, run[h].evt)

Lone == \A e, f \in stored : SameAddress(e, f) => e = f

\* A handler about to store a version knows of none, or of the one it deletes first.
Cleared(h) ==
  /\ run[h].at = "storeNew" => \A x \in stored : ~SameAddress(x, run[h].evt)
  /\ run[h].at = "deletePrevious" => \A x \in stored : SameAddress(x, run[h].evt) => x = run[h].target

Single ==
  ~raced => Apart /\ (faults = 0 => Lone /\ \A h \in Handlers : Cleared(h))

IInv ==
  /\ Types
  /\ \A h \in Handlers : HandlerOK(h)
  /\ Kept /\ AcksKept
  /\ Single

-----------------------------------------------------------------------------
LEMMA InitEstablishes == Init => IInv
<1> SUFFICES ASSUME Init
             PROVE  IInv
  OBVIOUS
<1>1. \A h \in Handlers : run[h] = Rest
  BY DEF Init
<1>2. Types
  BY DEF Init, Types, Rest, Runs, Steps
<1>3. \A h \in Handlers : HandlerOK(h)
  BY <1>1 DEF Rest, HandlerOK, StepOK, AimOK, ThroughOK, SweptOK, Sweeping, Aiming, Deleting, ForVersions
<1>4. Kept /\ AcksKept
  BY DEF Init, Kept, AcksKept
<1>5. Single
  BY <1>1 DEF Init, Single, Apart, Lone, Cleared, Rest
<1> QED
  BY <1>2, <1>3, <1>4, <1>5 DEF IInv

-----------------------------------------------------------------------------
(* What a step of one handler leaves to the others.                        *)

Same(g) ==
  /\ run'[g].at = run[g].at /\ run'[g].evt = run[g].evt /\ run'[g].byMessage = run[g].byMessage
  /\ run'[g].k = run[g].k /\ run'[g].target = run[g].target /\ run'[g].blind = run[g].blind
  /\ run[g].since \cup (stored' \ stored) \subseteq run'[g].since

\* A version to come stays one to come until it is stored or refused.
Replaces(h) ==
  run[h].at \in Replacing =>
    \/ run'[h].at \in Replacing /\ run'[h].evt = run[h].evt
    \/ run[h].evt \in once' \cup refused'

Grows ==
  once \subseteq once' /\ refused \subseteq refused' /\ seen \subseteq seen'

LEMMA ExcusesStay ==
  ASSUME NEW h \in Handlers, Grows, Replaces(h), \A g \in Handlers \ {h} : Same(g), NEW e
  PROVE  /\ DeletionWanted(e) => DeletionWanted(e)'
         /\ Displaced(e) => Displaced(e)'
<1>1. DeletionWanted(e) => DeletionWanted(e)'
  BY DEF Grows, DeletionWanted
<1>2. ASSUME Displaced(e)
      PROVE  Displaced(e)'
  <2>1. PICK n \in Events :
          /\ SameAddress(e, n) /\ IsOlder(e, n)
          /\ \/ n \in once \cup refused
             \/ \E g \in Handlers : run[g].evt = n /\ run[g].at \in Replacing
    BY <1>2 DEF Displaced, Replacing
  <2>2. CASE n \in once \cup refused
    BY <2>1, <2>2 DEF Displaced, Grows
  <2>3. ASSUME NEW g \in Handlers, run[g].evt = n, run[g].at \in Replacing
        PROVE  Displaced(e)'
    <3>1. CASE g = h
      <4>1. n \in once' \cup refused' \/ (run'[h].evt = n /\ run'[h].at \in Replacing)
        BY <2>3, <3>1 DEF Replaces
      <4> QED
        BY <2>1, <4>1 DEF Displaced, Replacing
    <3>2. CASE g # h
      <4>1. run'[g].evt = n /\ run'[g].at \in Replacing
        BY <2>3, <3>2 DEF Same
      <4> QED
        BY <2>1, <4>1 DEF Displaced, Replacing
    <3> QED
      BY <3>1, <3>2
  <2> QED
    BY <2>1, <2>2, <2>3
<1> QED
  BY <1>1, <1>2

LEMMA OthersStayOK ==
  ASSUME IInv, NEW h \in Handlers, Grows, Replaces(h), \A f \in Handlers \ {h} : Same(f),
         NEW g \in Handlers \ {h}
  PROVE  HandlerOK(g)'
<1>1. Types /\ StepOK(g) /\ AimOK(g) /\ ThroughOK(g) /\ SweptOK(g) /\ Same(g)
  BY DEF IInv, HandlerOK
<1>2. StepOK(g)'
  BY <1>1 DEF StepOK, Same, Grows
<1>3. AimOK(g)'
  BY <1>1 DEF AimOK, Same
<1>4. ThroughOK(g)'
  <2>1. \A e : Displaced(e) => Displaced(e)'
    BY ExcusesStay
  <2> QED
    BY <1>1, <2>1 DEF ThroughOK, Same, Grows, Displaced
<1>5. SweptOK(g)'
  BY <1>1 DEF SweptOK, Sweeping, Done, Same
<1> QED
  BY <1>2, <1>3, <1>4, <1>5 DEF HandlerOK

LEMMA Symmetric == \A e, f : SameAddress(e, f) => SameAddress(f, e)
BY DEF SameAddress, Versioned

\* What a step of h has to see to for there to be one version still.
Alone(h) ==
  /\ raced' = raced /\ (faults' = 0 => faults = 0)
  /\ run'[h].evt \in {run[h].evt, None}
  /\ stored' \subseteq stored \cup {run[h].evt}
  /\ \/ stored' \subseteq stored
     \/ /\ run[h].evt # None
        /\ ~raced /\ faults = 0 => \A x \in stored' : SameAddress(x, run[h].evt) => x = run[h].evt

LEMMA StaysSingle ==
  ASSUME IInv, NEW h \in Handlers, \A g \in Handlers \ {h} : Same(g), Alone(h),
         ~raced /\ faults' = 0 => Cleared(h)'
  PROVE  Single'
<1> SUFFICES ASSUME ~raced
             PROVE  Apart' /\ (faults' = 0 => Lone' /\ \A g \in Handlers : Cleared(g)')
  BY DEF Single, Alone
<1>1. Apart
  BY DEF IInv, Single
<1>2. Apart'
  BY <1>1 DEF Apart, Same, Alone
<1>3. ASSUME faults = 0, faults' = 0
      PROVE  Lone' /\ \A g \in Handlers : Cleared(g)'
  <2>1. Lone /\ \A g \in Handlers : Cleared(g)
    BY <1>3 DEF IInv, Single
  <2>2. Lone'
    BY <1>3, <2>1, Symmetric DEF Lone, Alone
  <2>3. ASSUME NEW g \in Handlers \ {h}
        PROVE  Cleared(g)'
    <3>1. Cleared(g) /\ Same(g) /\ StepOK(g)
      BY <2>1 DEF IInv, HandlerOK
    <3>2. run[g].at \in Replacing => \A x \in stored' \ stored : ~SameAddress(x, run[g].evt)
      BY <1>1, <3>1 DEF Apart, Alone, StepOK, Replacing
    <3> QED
      BY <3>1, <3>2 DEF Cleared, Same, Replacing
  <2> QED
    BY <1>3, <2>2, <2>3
<1> QED
  BY <1>2, <1>3 DEF Alone

(* The invariant follows from what a step of h does to its own part.       *)
LEMMA OneMoves ==
  ASSUME IInv, NEW h \in Handlers, Grows, Replaces(h), \A f \in Handlers \ {h} : Same(f),
         Types', HandlerOK(h)', Single',
         once' \subseteq once \cup stored',
         \A e \in stored \ stored' : Excused(e)',
         \A e \in acked' \ acked : Ephemeral(e) \/ e \in once' \/ Displaced(e)'
  PROVE  IInv'
<1>1. \A g \in Handlers : HandlerOK(g)'
  BY OthersStayOK
<1>2. \A e : (Excused(e) => Excused(e)') /\ (Displaced(e) => Displaced(e)')
  BY ExcusesStay DEF Excused
<1>3. Kept'
  BY <1>2 DEF Kept, IInv
<1>4. AcksKept'
  BY <1>2 DEF AcksKept, IInv, Grows
<1> QED
  BY <1>1, <1>3, <1>4 DEF IInv

-----------------------------------------------------------------------------
(* Steps that touch nothing but where the handler is.                      *)

Quiet ==
  /\ stored' = stored /\ once' = once /\ refused' = refused /\ seen' = seen /\ acked' = acked
  /\ raced' = raced

FaultsCount == faults' \in Nat /\ (faults' = 0 => faults = 0)

LEMMA QuietSteps ==
  ASSUME IInv, NEW h \in Handlers, Quiet, FaultsCount,
         NEW r \in Runs, run' = [run EXCEPT ![h] = r],
         Replaces(h), HandlerOK(h)', r.evt \in {run[h].evt, None},
         ~raced /\ faults' = 0 => Cleared(h)'
  PROVE  IInv'
<1>1. Types
  BY DEF IInv
<1>2. Types'
  BY <1>1 DEF Types, Quiet, FaultsCount
<1>3. \A f \in Handlers \ {h} : Same(f)
  BY <1>1 DEF Types, Same, Quiet
<1>4. run'[h] = r
  BY <1>1 DEF Types
<1>5. Alone(h)
  BY <1>4 DEF Alone, Quiet, FaultsCount
<1>6. Single'
  BY <1>3, <1>5, StaysSingle
<1>7. Grows
  BY DEF Grows, Quiet
<1> QED
  BY <1>2, <1>3, <1>6, <1>7, OneMoves DEF Quiet

LEMMA RestIsARun == Rest \in Runs
BY DEF Rest, Runs, Steps

\* A handler at rest has nothing to answer for.
LEMMA RestIsOK ==
  ASSUME NEW h \in Handlers, run'[h] = Rest
  PROVE  HandlerOK(h)' /\ Cleared(h)'
BY DEF HandlerOK, StepOK, AimOK, ThroughOK, SweptOK, Sweeping, Cleared, Rest, Aiming, Deleting, ForVersions

LEMMA RefuseKeeps ==
  ASSUME IInv, NEW h \in Handlers, Quiet, FaultsCount, run' = [run EXCEPT ![h] = Rest],
         run[h].at \notin Replacing
  PROVE  IInv'
<1>1. run'[h] = Rest /\ Rest.evt = None
  BY DEF IInv, Types, Rest
<1>2. HandlerOK(h)' /\ Cleared(h)'
  BY <1>1, RestIsOK
<1> QED
  BY <1>1, <1>2, QuietSteps, RestIsARun DEF Replaces

\* A step from one stage to another, neither of which aims at a target or is past the store.
Plain == {"delete", "admit", "store", "byAddress", "replace", "previous", "hang"}

LEMMA GotoKeeps ==
  ASSUME IInv, NEW h \in Handlers, Quiet, FaultsCount, NEW s \in Plain, Goto(h, s),
         run[h].at \in Plain \ {"hang"},
         s = "delete" => run[h].at = "delete",
         run[h].at = "delete" => s = "hang" \/ (s = "admit" /\ run[h].k > Len(Tags[run[h].evt])),
         s = "store" => Regular(run[h].evt),
         s \in ForVersions => Versioned(run[h].evt)
  PROVE  IInv'
<1>1. Types /\ StepOK(h) /\ SweptOK(h)
  BY DEF IInv, HandlerOK
<1> DEFINE r == [run[h] EXCEPT !.at = s]
<1>2. r \in Runs /\ run' = [run EXCEPT ![h] = r] /\ r.evt = run[h].evt
  BY <1>1 DEF Goto, Types, Runs, Plain, Steps
<1>3. /\ run'[h].at = s /\ run'[h].evt = run[h].evt /\ run'[h].byMessage = run[h].byMessage
      /\ run'[h].k = run[h].k /\ run'[h].target = run[h].target /\ run'[h].blind = run[h].blind
      /\ run'[h].since = run[h].since
  BY <1>1 DEF Goto, Types, Runs
<1>4. StepOK(h)'
  BY <1>1, <1>3 DEF StepOK, Plain, Aiming, Deleting, ForVersions, Quiet
<1>5. AimOK(h)' /\ ThroughOK(h)' /\ Cleared(h)' /\ Replaces(h)
  BY <1>3 DEF AimOK, ThroughOK, Cleared, Plain, Replaces, Replacing
<1>6. SweptOK(h)'
  <2>1. SUFFICES ASSUME Sweeping(h)'
                 PROVE  \A j \in Done(h)', x \in stored : Tags[run[h].evt][j] = <<"e", x>> => x \in run[h].since
    BY <1>3 DEF SweptOK, Quiet
  <2>2. Sweeping(h)
    BY <2>1, <1>1, <1>3 DEF Sweeping, StepOK, Plain
  <2>3. Done(h)' \subseteq Done(h)
    <3>1. run[h].evt \in Events
      BY <1>1, <2>2 DEF Types, Runs, StepOK, Sweeping
    <3>2. Len(Tags[run[h].evt]) \in Nat /\ run[h].k \in Nat
      BY <1>1, <3>1, TagsAssumption DEF Types, Runs
    <3>3. s # "hang"
      BY <1>3, <2>1 DEF Sweeping
    <3> QED
      BY <1>3, <3>2, <3>3 DEF Done, Plain, Deleting
  <2> QED
    BY <1>1, <2>2, <2>3 DEF SweptOK
<1>7. HandlerOK(h)'
  BY <1>4, <1>5, <1>6 DEF HandlerOK
<1> QED
  BY <1>2, <1>5, <1>7, QuietSteps

-----------------------------------------------------------------------------
(* The steps.                                                              *)

LEMMA ReceiveKeeps ==
  ASSUME IInv, NEW h \in Handlers, NEW e \in Events, Receive(h, e) \/ AddEvent(h, e)
  PROVE  IInv'
<1>1. /\ run[h].at = "rest" /\ seen' = seen \cup {e} /\ raced' = (raced \/ Race(h, e))
      /\ stored' = stored /\ faults' = faults /\ once' = once /\ refused' = refused /\ acked' = acked
  BY DEF Receive, AddEvent
<1>2. PICK r \in Runs :
        /\ run' = [run EXCEPT ![h] = r]
        /\ r.evt = e /\ r.target = None /\ ~r.blind
        /\ \/ r.at = "delete" /\ r.byMessage /\ r.k = 1 /\ Class[e] = "deletion"
           \/ r.at = "admit" /\ (Class[e] = "deletion" => ~r.byMessage)
  <2> DEFINE m == [Rest EXCEPT !.evt = e, !.byMessage = TRUE, !.k = 1,
                               !.at = IF Class[e] = "deletion" THEN "delete" ELSE "admit"]
             c == [Rest EXCEPT !.evt = e, !.at = "admit"]
  <2>1. /\ m \in Runs /\ m.evt = e /\ m.target = None /\ m.blind = FALSE /\ m.byMessage /\ m.k = 1
        /\ m.at = IF Class[e] = "deletion" THEN "delete" ELSE "admit"
    BY DEF Rest, Runs, Steps
  <2>2. /\ c \in Runs /\ c.evt = e /\ c.target = None /\ c.blind = FALSE /\ c.byMessage = FALSE
        /\ c.at = "admit"
    BY DEF Rest, Runs, Steps
  <2>3. run' = [run EXCEPT ![h] = m] \/ run' = [run EXCEPT ![h] = c]
    BY DEF Receive, AddEvent
  <2> HIDE DEF m, c
  <2>4. (run' = [run EXCEPT ![h] = m] /\ m.blind = FALSE) \/ (run' = [run EXCEPT ![h] = c] /\ c.blind = FALSE)
    BY <2>1, <2>2, <2>3
  <2> QED
    BY <2>1, <2>2, <2>4
<1>3. Types /\ Types'
  BY <1>1, <1>2 DEF IInv, Types
<1>4. run'[h] = r /\ \A g \in Handlers \ {h} : run'[g] = run[g]
  BY <1>2, <1>3 DEF Types
<1>5. \A g \in Handlers \ {h} : Same(g)
  BY <1>1, <1>3, <1>4 DEF Same
<1>6. Grows /\ Replaces(h)
  BY <1>1 DEF Grows, Replaces, Replacing
<1>7. HandlerOK(h)'
  <2>1. StepOK(h)'
    BY <1>1, <1>2, <1>4, NoneAssumption DEF StepOK, Aiming, Deleting, ForVersions
  <2>2. AimOK(h)' /\ ThroughOK(h)'
    BY <1>2, <1>4 DEF AimOK, ThroughOK
  <2>3. SweptOK(h)'
    BY <1>2, <1>4 DEF SweptOK, Sweeping, Done, Deleting
  <2> QED
    BY <2>1, <2>2, <2>3 DEF HandlerOK
<1>8. Single'
  <2>1. SUFFICES ASSUME ~raced, ~Race(h, e)
                 PROVE  Apart' /\ (faults = 0 => Lone' /\ \A g \in Handlers : Cleared(g)')
    BY <1>1 DEF Single
  <2>2. Apart'
    BY <1>2, <1>4, <2>1, Symmetric DEF IInv, Single, Apart, Race
  <2>3. ASSUME faults = 0
        PROVE  Lone' /\ \A g \in Handlers : Cleared(g)'
    <3>1. Lone /\ \A g \in Handlers : Cleared(g)
      BY <2>1, <2>3 DEF IInv, Single
    <3>2. Lone' /\ \A g \in Handlers \ {h} : Cleared(g)'
      BY <1>1, <1>4, <3>1 DEF Lone, Cleared
    <3>3. Cleared(h)'
      BY <1>2, <1>4 DEF Cleared
    <3> QED
      BY <3>2, <3>3
  <2> QED
    BY <2>2, <2>3
<1> QED
  BY <1>1, <1>3, <1>5, <1>6, <1>7, <1>8, OneMoves

LEMMA DeleteQueryKeeps ==
  ASSUME IInv, NEW h \in Handlers, DeleteQuery(h)
  PROVE  IInv'
<1> DEFINE d == run[h].evt
           k == run[h].k
<1>1. Types /\ StepOK(h) /\ SweptOK(h)
  BY DEF IInv, HandlerOK
<1>2. /\ run[h].at = "delete" /\ Quiet /\ k <= Len(Tags[d])
  BY DEF DeleteQuery, Quiet, history
<1>3. /\ d \in Events /\ Len(Tags[d]) \in Nat /\ k \in 1..Len(Tags[d]) /\ run[h].target = None
      /\ run[h].byMessage /\ Class[d] = "deletion" /\ d \in seen /\ d # None
  BY <1>1, <1>2, NoneAssumption, TagsAssumption DEF Types, Runs, StepOK, Aiming, Deleting
<1>4. Replaces(h)
  BY <1>2 DEF Replaces, Replacing
<1>5. ASSUME NEW x \in Targets(d, k), AcceptDeletion(x, d), FaultsCount,
             run' = [run EXCEPT ![h] = [@ EXCEPT !.at = "deleteTarget", !.target = x]]
      PROVE  IInv'
  <2> DEFINE r == [run[h] EXCEPT !.at = "deleteTarget", !.target = x]
  <2>1. x \in Events /\ x # None
    BY <1>1, NoneAssumption DEF Targets, Types
  <2>2. r \in Runs /\ run' = [run EXCEPT ![h] = r] /\ r.evt = d
    BY <1>1, <1>5, <2>1 DEF Types, Runs, Steps
  <2>3. /\ run'[h].at = "deleteTarget" /\ run'[h].evt = d /\ run'[h].byMessage = run[h].byMessage
        /\ run'[h].k = k /\ run'[h].target = x /\ run'[h].blind = run[h].blind
        /\ run'[h].since = run[h].since
    BY <1>1, <1>5 DEF Types, Runs
  <2>4. StepOK(h)'
    BY <1>2, <1>3, <2>1, <2>3 DEF StepOK, Aiming, Deleting, ForVersions, Quiet
  <2>5. AimOK(h)' /\ ThroughOK(h)' /\ Cleared(h)'
    BY <1>5, <2>3 DEF AimOK, ThroughOK, Cleared, Asked, Targets, AcceptDeletion, Address
  <2>6. SweptOK(h)'
    BY <1>1, <1>2, <2>3 DEF SweptOK, Sweeping, Done, Deleting, Quiet
  <2> QED
    BY <1>2, <1>4, <1>5, <2>2, <2>4, <2>5, <2>6, QuietSteps DEF HandlerOK
<1>6. ASSUME run' = [run EXCEPT ![h] = Rest], FaultsCount
      PROVE  IInv'
  BY <1>2, <1>6, RefuseKeeps DEF Replacing
<1>7. ASSUME NEW r \in Runs, run' = [run EXCEPT ![h] = r], FaultsCount,
             r.at = "delete", r.evt = d, r.byMessage = run[h].byMessage, r.k = k + 1,
             r.target = run[h].target, r.since = run[h].since,
             r.blind \/ (r.blind = run[h].blind /\ Targets(d, k) = {})
      PROVE  IInv'
  <2>1. run'[h] = r
    BY <1>1, <1>7 DEF Types
  <2>2. StepOK(h)'
    <3>1. k + 1 >= 1 /\ r.target = None
      BY <1>3, <1>7
    <3>2. run'[h].byMessage
      BY <1>3, <1>7, <2>1, Zenon
    <3> QED
      BY <1>2, <1>3, <1>7, <2>1, <3>1, <3>2 DEF StepOK, Aiming, Deleting, ForVersions, Quiet
  <2>3. AimOK(h)' /\ ThroughOK(h)' /\ Cleared(h)'
    BY <1>7, <2>1 DEF AimOK, ThroughOK, Cleared
  <2>4. SweptOK(h)'
    <3>1. SUFFICES ASSUME Sweeping(h)', NEW j \in Done(h)', NEW x \in stored, Tags[d][j] = <<"e", x>>
                   PROVE  x \in run[h].since
      BY <1>2, <1>7, <2>1 DEF SweptOK, Quiet
    <3>2. Targets(d, k) = {} /\ ~run[h].blind
      BY <1>7, <2>1, <3>1 DEF Sweeping
    <3>3. j # k
      BY <3>1, <3>2 DEF Targets
    <3>4. j \in Done(h)
      BY <1>2, <1>3, <1>7, <2>1, <3>1, <3>3 DEF Done, Deleting
    <3>5. Sweeping(h)
      BY <1>2, <1>3, <3>2 DEF Sweeping
    <3> QED
      BY <1>1, <3>1, <3>4, <3>5 DEF SweptOK
  <2> QED
    BY <1>2, <1>4, <1>7, <2>2, <2>3, <2>4, QuietSteps DEF HandlerOK
<1>8. ASSUME FaultsCount, Targets(d, k) = {}, run' = [run EXCEPT ![h].k = @ + 1]
      PROVE  IInv'
  <2> DEFINE r == [run[h] EXCEPT !.k = @ + 1]
  <2>0. run[h] \in Runs
    BY <1>1 DEF Types
  <2>1. /\ r \in Runs /\ r.at = "delete" /\ r.evt = d
        /\ r.byMessage = run[h].byMessage /\ r.k = k + 1 /\ r.target = run[h].target
        /\ r.since = run[h].since /\ r.blind = run[h].blind
    BY <1>2, <2>0 DEF Runs
  <2>2. run' = [run EXCEPT ![h] = r]
    BY <1>1, <1>8 DEF Types
  <2> QED
    BY <1>7, <1>8, <2>1, <2>2
<1>9. ASSUME FaultsCount, run' = [run EXCEPT ![h].k = @ + 1, ![h].blind = TRUE]
      PROVE  IInv'
  <2> DEFINE q == [run[h] EXCEPT !.k = @ + 1]
             r == [q EXCEPT !.blind = TRUE]
  <2>0. run[h] \in Runs
    BY <1>1 DEF Types
  <2>1. /\ q \in Runs /\ q.at = "delete" /\ q.evt = d /\ q.byMessage = run[h].byMessage
        /\ q.k = k + 1 /\ q.target = run[h].target /\ q.since = run[h].since
    BY <1>2, <2>0 DEF Runs
  <2>2. run' = [run EXCEPT ![h] = r]
    BY <1>1, <1>9 DEF Types
  <2> HIDE DEF q
  <2>3. /\ r \in Runs /\ r.blind = TRUE /\ r.at = q.at /\ r.evt = q.evt
        /\ r.byMessage = q.byMessage /\ r.k = q.k /\ r.target = q.target /\ r.since = q.since
    BY <2>1 DEF Runs
  <2> QED
    BY <1>7, <1>9, <2>1, <2>2, <2>3
<1>10. (UNCHANGED faults \/ Fault) => FaultsCount
  BY <1>1 DEF Types, Fault, FaultsCount
<1> QED
  BY <1>5, <1>6, <1>8, <1>9, <1>10 DEF DeleteQuery

LEMMA DeleteTargetKeeps ==
  ASSUME IInv, NEW h \in Handlers, DeleteTarget(h)
  PROVE  IInv'
<1> DEFINE d == run[h].evt
           k == run[h].k
           x == run[h].target
<1>1. Types /\ StepOK(h) /\ AimOK(h) /\ SweptOK(h)
  BY DEF IInv, HandlerOK
<1>2. /\ run[h].at = "deleteTarget" /\ once' = once /\ refused' = refused /\ seen' = seen
      /\ acked' = acked /\ raced' = raced
  BY DEF DeleteTarget, history
<1>3. /\ d \in Events /\ d # None /\ Len(Tags[d]) \in Nat /\ k \in 1..Len(Tags[d]) /\ x \in Events
      /\ run[h].byMessage /\ Class[d] = "deletion" /\ d \in seen
  BY <1>1, <1>2, NoneAssumption, TagsAssumption DEF Types, Runs, StepOK, Aiming, Deleting
<1>4. CASE stored' = stored /\ Fault /\ run' = [run EXCEPT ![h] = Rest]
  <2>1. Quiet /\ FaultsCount
    BY <1>1, <1>2, <1>4 DEF Quiet, Fault, FaultsCount, Types
  <2> QED
    BY <1>2, <1>4, <2>1, RefuseKeeps DEF Replacing
<1>5. CASE /\ stored' = stored \ {x} /\ faults' = faults
           /\ run' = [run EXCEPT ![h].at = "delete", ![h].target = None, ![h].k = @ + 1]
  <2>1. run'[h] \in Runs /\ run' \in [Handlers -> Runs]
    <3> DEFINE q == [run[h] EXCEPT !.at = "delete"]
               p == [q EXCEPT !.target = None]
               r == [p EXCEPT !.k = @ + 1]
    <3>1. q \in Runs
      BY <1>1 DEF Types, Runs, Steps
    <3>2. run' = [run EXCEPT ![h] = r]
      BY <1>1, <1>5 DEF Types
    <3> HIDE DEF q
    <3>3. p \in Runs
      BY <3>1 DEF Runs
    <3> HIDE DEF p
    <3>4. r \in Runs
      BY <3>3 DEF Runs
    <3> HIDE DEF r
    <3> QED
      BY <1>1, <3>2, <3>4 DEF Types
  <2>2. /\ run'[h].at = "delete" /\ run'[h].evt = d /\ run'[h].byMessage = run[h].byMessage
        /\ run'[h].k = k + 1 /\ run'[h].target = None /\ run'[h].blind = run[h].blind
        /\ run'[h].since = run[h].since
    BY <1>1, <1>5 DEF Types, Runs
  <2>3. \A g \in Handlers \ {h} : Same(g)
    BY <1>1, <1>5 DEF Types, Same
  <2>4. Types'
    BY <1>1, <1>2, <1>5, <2>1 DEF Types
  <2>5. Grows /\ Replaces(h) /\ Alone(h)
    BY <1>2, <1>5, <2>2 DEF Grows, Replaces, Replacing, Alone
  <2>6. Single'
    BY <2>2, <2>3, <2>5, StaysSingle DEF Cleared
  <2>7. HandlerOK(h)'
    <3>1. StepOK(h)'
      <4>1. k + 1 >= 1
        BY <1>3
      <4>2. run'[h].byMessage
        BY <1>3, <2>2, Zenon
      <4> QED
        BY <1>2, <1>3, <2>2, <4>1, <4>2 DEF StepOK, Aiming, Deleting, ForVersions
    <3>2. AimOK(h)' /\ ThroughOK(h)'
      BY <2>2 DEF AimOK, ThroughOK
    <3>3. SweptOK(h)'
      <4>1. SUFFICES ASSUME Sweeping(h)', NEW j \in Done(h)', NEW y \in stored', Tags[d][j] = <<"e", y>>
                     PROVE  y \in run[h].since
        BY <2>2 DEF SweptOK
      <4>2. ~run[h].blind
        BY <2>2, <4>1, Zenon DEF Sweeping
      <4>3. Sweeping(h)
        BY <1>2, <1>3, <4>2 DEF Sweeping
      <4>4. j # k
        <5>1. Asked(x, d, k)
          BY <1>1, <1>2 DEF AimOK
        <5>2. Tags[d][k] # <<"e", y>>
          <6>1. y # x
            BY <1>5, <4>1
          <6>2. Tags[d][k] = <<"e", x>> \/ Tags[d][k] = <<"a", Address(x)>>
            BY <5>1 DEF Asked
          <6> HIDE DEF d, k, x
          <6> QED
            BY <6>1, <6>2
        <5> QED
          BY <4>1, <5>2
      <4>5. j \in Done(h)
        BY <1>2, <1>3, <2>2, <4>1, <4>4 DEF Done, Deleting
      <4> QED
        BY <1>1, <1>5, <4>1, <4>3, <4>5 DEF SweptOK
    <3> QED
      BY <3>1, <3>2, <3>3 DEF HandlerOK
  <2>8. ASSUME NEW e, e = x
        PROVE  DeletionWanted(e)'
    <3>1. Asked(e, d, k)
      BY <1>1, <1>2, <2>8 DEF AimOK
    <3>2. k \in DOMAIN Tags[d]
      BY <1>3, TagsAssumption
    <3> QED
      BY <1>2, <1>3, <3>1, <3>2 DEF DeletionWanted, Asked, Tagged, AcceptDeletion
  <2>9. \A e \in stored \ stored' : Excused(e)'
    BY <1>5, <2>8 DEF Excused
  <2> QED
    BY <1>2, <2>3, <2>4, <2>5, <2>6, <2>7, <2>9, OneMoves
<1> QED
  BY <1>2, <1>4, <1>5 DEF DeleteTarget

(* Past the store: the event is there, was, or there is a newer one.       *)
LEMMA PassKeeps ==
  ASSUME IInv, NEW h \in Handlers, Quiet, faults' = faults,
         NEW s \in {"saved", "skip"}, Goto(h, s),
         run[h].at \in {"store", "replace", "previous", "storeNew"},
         run[h].evt \in once \/ (run[h].at # "storeNew" /\ Displaced(run[h].evt))
  PROVE  IInv'
<1>1. Types /\ StepOK(h) /\ SweptOK(h)
  BY DEF IInv, HandlerOK
<1> DEFINE r == [run[h] EXCEPT !.at = s]
<1>2. r \in Runs /\ run' = [run EXCEPT ![h] = r] /\ r.evt = run[h].evt
  BY <1>1 DEF Goto, Types, Runs, Steps
<1>3. /\ run'[h].at = s /\ run'[h].evt = run[h].evt /\ run'[h].byMessage = run[h].byMessage
      /\ run'[h].k = run[h].k /\ run'[h].target = run[h].target /\ run'[h].blind = run[h].blind
      /\ run'[h].since = run[h].since
  BY <1>1 DEF Goto, Types, Runs
<1>4. StepOK(h)' /\ AimOK(h)' /\ Cleared(h)'
  BY <1>1, <1>3 DEF StepOK, AimOK, Cleared, Aiming, Deleting, ForVersions, Quiet
<1>5. Replaces(h)
  BY DEF Replaces, Replacing, Quiet
<1>6. ThroughOK(h)'
  <2>1. \A f \in Handlers \ {h} : Same(f)
    BY <1>1, <1>2 DEF Types, Same, Quiet
  <2>2. \A e : Displaced(e) => Displaced(e)'
    BY <1>5, <2>1, ExcusesStay DEF Grows, Quiet
  <2> QED
    BY <1>3, <2>2 DEF ThroughOK, Displaced, Quiet
<1>7. SweptOK(h)'
  BY <1>1, <1>3 DEF SweptOK, Sweeping, Done, Deleting, Quiet
<1> QED
  BY <1>1, <1>2, <1>4, <1>5, <1>6, <1>7, QuietSteps DEF HandlerOK, FaultsCount, Types

LEMMA NewerIsThere ==
  ASSUME Types, NEW e \in Events, NEW x \in stored, SameAddress(x, e), ~IsOlder(x, e)
  PROVE  e \in once \/ Displaced(e)
<1>1. x \in Events /\ x \in once
  BY DEF Types
<1>2. x # e => IsOlder(e, x)
  BY <1>1, IdAssumption, DateAssumption DEF IsOlder
<1> QED
  BY <1>1, <1>2, Symmetric DEF Displaced

Storing == {"store", "replace", "storeNew"}

LEMMA AlreadyThereKeeps ==
  ASSUME IInv, NEW h \in Handlers, AlreadyThere(h), run[h].at \in Storing
  PROVE  IInv'
<1>1. run[h].evt \in once
  BY DEF AlreadyThere, IInv, Types
<1> QED
  BY <1>1, PassKeeps DEF AlreadyThere, IfDuplicate, Quiet, history, Storing

LEMMA FailsKeeps ==
  ASSUME IInv, NEW h \in Handlers, Fails(h), run[h].at \in Storing
  PROVE  IInv'
<1>1. /\ stored' = stored /\ once' = once /\ seen' = seen /\ acked' = acked /\ raced' = raced
      /\ refused' = refused \cup {run[h].evt} /\ faults' = faults + 1
      /\ run' = [run EXCEPT ![h] = Rest]
  BY DEF Fails, Fault
<1>2. Types
  BY DEF IInv
<1>3. Types' /\ run'[h] = Rest /\ \A g \in Handlers \ {h} : Same(g)
  BY <1>1, <1>2, RestIsARun DEF Types, Same
<1>4. HandlerOK(h)' /\ Cleared(h)'
  BY <1>3, RestIsOK
<1>5. Alone(h) /\ Grows /\ Replaces(h)
  BY <1>1, <1>2, <1>3 DEF Alone, Grows, Replaces, Rest, Types
<1>6. Single'
  BY <1>3, <1>4, <1>5, StaysSingle
<1> QED
  BY <1>1, <1>3, <1>4, <1>5, <1>6, OneMoves

LEMMA SaveKeeps ==
  ASSUME IInv, NEW h \in Handlers, NEW old \in SUBSET stored, Save(h, old), faults' = faults,
         run[h].at \in Storing, run[h].evt \notin stored,
         \A x \in old : SameAddress(x, run[h].evt) /\ IsOlder(x, run[h].evt),
         ~raced /\ faults = 0 => \A x \in stored \ old : ~SameAddress(x, run[h].evt)
  PROVE  IInv'
<1> DEFINE e == run[h].evt
<1>1. Types /\ StepOK(h) /\ SweptOK(h)
  BY DEF IInv, HandlerOK
<1>2. /\ stored' = (stored \ old) \cup {e} /\ once' = once \cup {e} /\ refused' = refused
      /\ seen' = seen /\ acked' = acked /\ raced' = raced
      /\ run' = [g \in Handlers |-> IF g = h THEN [run[g] EXCEPT !.at = "saved"]
                                             ELSE [run[g] EXCEPT !.since = @ \cup {e}]]
  BY DEF Save
<1>3. e \in Events /\ e # None /\ Len(Tags[e]) \in Nat /\ DOMAIN Tags[e] = 1..Len(Tags[e])
  BY <1>1, NoneAssumption, TagsAssumption DEF Types, Runs, StepOK, Storing
<1>4. /\ run'[h].at = "saved" /\ run'[h].evt = e /\ run'[h].byMessage = run[h].byMessage
      /\ run'[h].k = run[h].k /\ run'[h].target = run[h].target /\ run'[h].blind = run[h].blind
      /\ run'[h].since = run[h].since
  BY <1>1, <1>2 DEF Types, Runs
<1>5. \A g \in Handlers \ {h} : Same(g)
  BY <1>1, <1>2 DEF Types, Runs, Same
<1>6. Types'
  <2>1. \A g \in Handlers : [run[g] EXCEPT !.at = "saved"] \in Runs
    BY <1>1 DEF Types, Runs, Steps
  <2>2. \A g \in Handlers : [run[g] EXCEPT !.since = @ \cup {e}] \in Runs
    BY <1>1, <1>3 DEF Types, Runs
  <2>3. run' \in [Handlers -> Runs]
    BY <1>2, <2>1, <2>2
  <2> QED
    BY <1>1, <1>2, <1>3, <2>3 DEF Types
<1>7. Grows /\ Replaces(h)
  BY <1>2 DEF Grows, Replaces
<1>8. HandlerOK(h)'
  <2>1. StepOK(h)' /\ AimOK(h)' /\ ThroughOK(h)'
    BY <1>1, <1>2, <1>4 DEF StepOK, AimOK, ThroughOK, Aiming, Deleting, ForVersions, Storing
  <2>2. SweptOK(h)'
    <3>1. SUFFICES ASSUME Sweeping(h)', NEW j \in Done(h)', NEW x \in stored', Tags[e][j] = <<"e", x>>
                   PROVE  x \in run[h].since
      BY <1>4 DEF SweptOK
    <3>2. Sweeping(h)
      <4>1. ~run[h].blind /\ run[h].byMessage
        BY <1>4, <3>1, Zenon DEF Sweeping
      <4> QED
        BY <1>4, <3>1, <4>1 DEF Sweeping, Storing
    <3>3. j \in Done(h) /\ j \in DOMAIN Tags[e]
      BY <1>3, <1>4, <3>1 DEF Done, Deleting, Storing
    <3>4. x # e
      BY <1>3, <3>1, <3>3, TagsAssumption
    <3> QED
      BY <1>1, <1>2, <3>1, <3>2, <3>3, <3>4 DEF SweptOK
  <2> QED
    BY <2>1, <2>2 DEF HandlerOK
<1>9. Single'
  <2>1. \A x \in stored' : (~raced /\ faults = 0 /\ SameAddress(x, e)) => x = e
    BY <1>2
  <2>2. Alone(h) /\ Cleared(h)'
    BY <1>2, <1>3, <1>4, <2>1 DEF Alone, Cleared
  <2> QED
    BY <1>5, <2>2, StaysSingle
<1>10. \A x \in stored \ stored' : Excused(x)'
  <2> TAKE x \in stored \ stored'
  <2>1. SameAddress(x, e) /\ IsOlder(x, e) /\ e \in once'
    BY <1>2
  <2> QED
    BY <1>3, <2>1 DEF Excused, Displaced
<1> QED
  BY <1>2, <1>5, <1>6, <1>7, <1>8, <1>9, <1>10, OneMoves

-----------------------------------------------------------------------------
LEMMA DeleteEndAndHangKeep ==
  ASSUME IInv, NEW h \in Handlers, DeleteEnd(h) \/ Hang(h)
  PROVE  IInv'
<1>1. Quiet /\ FaultsCount
  BY DEF DeleteEnd, Hang, history, Quiet, FaultsCount, IInv, Types
<1>2. CASE DeleteEnd(h)
  BY <1>1, <1>2, GotoKeeps DEF DeleteEnd, Plain, ForVersions
<1>3. CASE Hang(h)
  BY <1>1, <1>3, GotoKeeps DEF Hang, NilChannel, Plain, ForVersions
<1> QED
  BY <1>2, <1>3

LEMMA Classified == \A e \in Events : Ephemeral(e) \/ Regular(e) \/ Versioned(e)
BY ClassAssumption DEF Ephemeral, Regular, Versioned

LEMMA AdmitKeeps ==
  ASSUME IInv, NEW h \in Handlers, Reject(h) \/ Admit(h)
  PROVE  IInv'
<1>1. run[h].at = "admit" /\ faults \in Nat /\ run[h].evt \in Events
  BY DEF Reject, Admit, IInv, Types, Runs, HandlerOK, StepOK
<1>2. CASE Refuse(h)
  <2>1. Quiet /\ FaultsCount
    BY <1>1, <1>2 DEF Refuse, history, Quiet, FaultsCount
  <2> QED
    BY <1>1, <1>2, <2>1, RefuseKeeps DEF Refuse, Replacing
<1>3. CASE Admit(h) /\ ~Refuse(h)
  <2> DEFINE s == IF Regular(run[h].evt) THEN "store" ELSE "byAddress"
  <2>1. Goto(h, s) /\ Quiet /\ FaultsCount /\ ~Ephemeral(run[h].evt)
    BY <1>1, <1>3 DEF Admit, history, Quiet, FaultsCount, Fault
  <2> QED
    BY <1>1, <2>1, GotoKeeps, Classified DEF Plain, ForVersions
<1> QED
  BY <1>2, <1>3 DEF Reject

LEMMA StoreRegularKeeps ==
  ASSUME IInv, NEW h \in Handlers, StoreRegular(h)
  PROVE  IInv'
<1>1. run[h].at = "store" /\ Regular(run[h].evt)
  BY DEF StoreRegular, IInv, HandlerOK, StepOK
<1>2. CASE AlreadyThere(h)
  BY <1>1, <1>2, AlreadyThereKeeps DEF Storing
<1>3. CASE run[h].evt \notin stored /\ Save(h, {})
  <2>1. \A x : ~SameAddress(x, run[h].evt)
    BY <1>1 DEF SameAddress, Regular, Versioned
  <2>2. faults' = faults
    BY <1>3 DEF Save
  <2> QED
    BY <1>1, <1>3, <2>1, <2>2, SaveKeeps DEF Storing
<1>4. CASE Fails(h)
  BY <1>1, <1>4, FailsKeeps DEF Storing
<1> QED
  BY <1>2, <1>3, <1>4 DEF StoreRegular

LEMMA CheckAddressKeeps ==
  ASSUME IInv, NEW h \in Handlers, CheckAddress(h)
  PROVE  IInv'
<1>1. run[h].at = "byAddress" /\ faults \in Nat /\ Versioned(run[h].evt)
  BY DEF CheckAddress, IInv, Types, HandlerOK, StepOK, ForVersions
<1>2. CASE Refuse(h)
  <2>1. Quiet /\ FaultsCount
    BY <1>1, <1>2 DEF Refuse, history, Quiet, FaultsCount
  <2> QED
    BY <1>1, <1>2, <2>1, RefuseKeeps DEF Refuse, Replacing
<1>3. CASE ~Refuse(h)
  <2> DEFINE s == IF setup.replaces THEN "replace" ELSE "previous"
  <2>1. Goto(h, s) /\ Quiet /\ FaultsCount
    BY <1>1, <1>3 DEF CheckAddress, history, Quiet, FaultsCount, Fault
  <2> QED
    BY <1>1, <2>1, GotoKeeps DEF Plain, ForVersions
<1> QED
  BY <1>2, <1>3

LEMMA ReplaceKeeps ==
  ASSUME IInv, NEW h \in Handlers, Replace(h)
  PROVE  IInv'
<1> DEFINE e == run[h].evt
           versions == {x \in stored : SameAddress(x, e)}
<1>1. run[h].at = "replace" /\ Types /\ e \in Events
  BY NoneAssumption DEF Replace, IInv, HandlerOK, StepOK, Types, Runs
<1>2. CASE AlreadyThere(h)
  BY <1>1, <1>2, AlreadyThereKeeps DEF Storing
<1>3. CASE e \notin stored /\ (\A x \in versions : IsOlder(x, e)) /\ Save(h, versions)
  <2>1. faults' = faults
    BY <1>3 DEF Save
  <2> QED
    BY <1>1, <1>3, <2>1, SaveKeeps DEF Storing
<1>4. CASE (\E x \in versions : ~IsOlder(x, e)) /\ Goto(h, "saved") /\ UNCHANGED <<stored, received, faults, history>>
  <2>1. e \in once \/ Displaced(e)
    BY <1>1, <1>4, NewerIsThere
  <2> QED
    BY <1>1, <1>4, <2>1, PassKeeps DEF Quiet, history
<1>5. CASE Fails(h)
  BY <1>1, <1>5, FailsKeeps DEF Storing
<1> QED
  BY <1>2, <1>3, <1>4, <1>5 DEF Replace

LEMMA FetchPreviousKeeps ==
  ASSUME IInv, NEW h \in Handlers, FetchPrevious(h)
  PROVE  IInv'
<1> DEFINE e == run[h].evt
<1>1. /\ run[h].at = "previous" /\ Types /\ StepOK(h) /\ SweptOK(h) /\ e \in Events /\ e # None
      /\ Versioned(e)
  BY NoneAssumption DEF FetchPrevious, IInv, HandlerOK, StepOK, Types, Runs, ForVersions
<1>2. Quiet
  BY DEF FetchPrevious, Quiet, history
\* Of a single version, the latest is that one.
<1>3. ASSUME ~raced, faults = 0, NEW y \in stored, SameAddress(y, e)
      PROVE  \A x \in stored : SameAddress(x, e) => x = y
  <2>1. Lone
    BY <1>3 DEF IInv, Single
  <2> QED
    BY <1>3, <2>1 DEF Lone, SameAddress, Versioned, Address
<1>4. ASSUME NEW x \in Previous(e), IsOlder(x, e), faults' = faults,
             run' = [run EXCEPT ![h] = [@ EXCEPT !.at = "deletePrevious", !.target = x]]
      PROVE  IInv'
  <2> DEFINE r == [run[h] EXCEPT !.at = "deletePrevious", !.target = x]
  <2>1. x \in stored /\ SameAddress(x, e) /\ x \in Events /\ x # None
    BY <1>1, <1>4, NoneAssumption DEF Previous, Types
  <2>2. r \in Runs /\ run' = [run EXCEPT ![h] = r] /\ r.evt = e
    BY <1>1, <1>4, <2>1 DEF Types, Runs, Steps
  <2>3. /\ run'[h].at = "deletePrevious" /\ run'[h].evt = e /\ run'[h].byMessage = run[h].byMessage
        /\ run'[h].k = run[h].k /\ run'[h].target = x /\ run'[h].blind = run[h].blind
        /\ run'[h].since = run[h].since
    BY <1>1, <1>4 DEF Types, Runs
  <2>4. StepOK(h)'
    BY <1>1, <1>2, <2>1, <2>3 DEF StepOK, Aiming, Deleting, ForVersions, Quiet
  <2>5. AimOK(h)' /\ ThroughOK(h)'
    BY <1>4, <2>1, <2>3 DEF AimOK, ThroughOK, SameAddress, Versioned, Address, IsOlder
  <2>6. SweptOK(h)'
    BY <1>1, <1>2, <2>3 DEF SweptOK, Sweeping, Done, Deleting, Quiet
  <2>7. ~raced /\ faults = 0 => Cleared(h)'
    BY <1>2, <1>3, <2>1, <2>3 DEF Cleared, Quiet, SameAddress, Versioned, Address
  <2>8. Replaces(h) /\ FaultsCount
    BY <1>1, <1>4 DEF Replaces, Replacing, FaultsCount, Types
  <2> QED
    BY <1>2, <2>2, <2>4, <2>5, <2>6, <2>7, <2>8, QuietSteps DEF HandlerOK, FaultsCount
<1>5. ASSUME NEW x \in Previous(e), ~IsOlder(x, e), faults' = faults,
             run' = [run EXCEPT ![h] = [@ EXCEPT !.at = "saved"]]
      PROVE  IInv'
  <2>1. e \in once \/ Displaced(e)
    BY <1>1, <1>5, NewerIsThere DEF Previous
  <2>2. Goto(h, "saved")
    BY <1>1, <1>5 DEF Goto, Types
  <2> QED
    BY <1>1, <1>2, <1>5, <2>1, <2>2, PassKeeps
<1>6. ASSUME Goto(h, "storeNew"), FaultsCount, Previous(e) = {} \/ faults' # 0
      PROVE  IInv'
  <2> DEFINE r == [run[h] EXCEPT !.at = "storeNew"]
  <2>1. r \in Runs /\ run' = [run EXCEPT ![h] = r] /\ r.evt = e
    BY <1>1, <1>6 DEF Goto, Types, Runs, Steps
  <2>2. /\ run'[h].at = "storeNew" /\ run'[h].evt = e /\ run'[h].byMessage = run[h].byMessage
        /\ run'[h].k = run[h].k /\ run'[h].target = run[h].target /\ run'[h].blind = run[h].blind
        /\ run'[h].since = run[h].since
    BY <1>1, <1>6 DEF Goto, Types, Runs
  <2>3. StepOK(h)' /\ AimOK(h)' /\ ThroughOK(h)'
    BY <1>1, <1>2, <2>2 DEF StepOK, AimOK, ThroughOK, Aiming, Deleting, ForVersions, Quiet
  <2>4. SweptOK(h)'
    BY <1>1, <1>2, <2>2 DEF SweptOK, Sweeping, Done, Deleting, Quiet
  <2>5. Replaces(h)
    BY <1>1 DEF Replaces, Replacing
  <2>6. ~raced /\ faults' = 0 => Cleared(h)'
    <3>1. ASSUME ~raced, faults' = 0, NEW x \in stored, SameAddress(x, e)
          PROVE  FALSE
      <4>1. \A y \in stored : SameAddress(y, e) => y = x
        BY <1>3, <1>6, <3>1 DEF FaultsCount
      <4> QED
        BY <1>6, <3>1, <4>1 DEF Previous
    <3> QED
      BY <1>2, <2>2, <3>1 DEF Cleared, Quiet
  <2> QED
    BY <1>2, <1>6, <2>1, <2>3, <2>4, <2>5, <2>6, QuietSteps DEF HandlerOK
<1>7. CASE Previous(e) = {} /\ Goto(h, "storeNew") /\ UNCHANGED faults
  BY <1>1, <1>6, <1>7 DEF FaultsCount, Types
<1>8. CASE Fault /\ Goto(h, "storeNew")
  BY <1>1, <1>6, <1>8 DEF Fault, FaultsCount, Types
<1> QED
  BY <1>4, <1>5, <1>7, <1>8 DEF FetchPrevious

LEMMA DeletePreviousKeeps ==
  ASSUME IInv, NEW h \in Handlers, DeletePrevious(h)
  PROVE  IInv'
<1> DEFINE e == run[h].evt
           x == run[h].target
<1>1. /\ run[h].at = "deletePrevious" /\ Types /\ StepOK(h) /\ SweptOK(h)
      /\ SameAddress(x, e) /\ IsOlder(x, e) /\ e \in Events /\ e # None /\ Versioned(e)
  BY NoneAssumption DEF DeletePrevious, IInv, HandlerOK, StepOK, AimOK, Types, Runs, ForVersions
<1>2. /\ once' = once /\ refused' = refused /\ seen' = seen /\ acked' = acked /\ raced' = raced
      /\ stored' \subseteq stored /\ stored \ stored' \subseteq {x}
      /\ (stored' = stored \ {x} \/ faults' # 0) /\ FaultsCount
      /\ run' = [run EXCEPT ![h].at = "storeNew", ![h].target = None]
  BY <1>1 DEF DeletePrevious, history, Fault, FaultsCount, Types
<1>3. run' \in [Handlers -> Runs]
  <2> DEFINE q == [run[h] EXCEPT !.at = "storeNew"]
             r == [q EXCEPT !.target = None]
  <2>1. q \in Runs
    BY <1>1 DEF Types, Runs, Steps
  <2>2. run' = [run EXCEPT ![h] = r]
    BY <1>1, <1>2 DEF Types
  <2> HIDE DEF q
  <2>3. r \in Runs
    BY <2>1 DEF Runs
  <2> HIDE DEF r
  <2> QED
    BY <1>1, <2>2, <2>3 DEF Types
<1>4. /\ run'[h].at = "storeNew" /\ run'[h].evt = e /\ run'[h].byMessage = run[h].byMessage
      /\ run'[h].k = run[h].k /\ run'[h].target = None /\ run'[h].blind = run[h].blind
      /\ run'[h].since = run[h].since
  BY <1>1, <1>2 DEF Types, Runs
<1>5. \A g \in Handlers \ {h} : Same(g)
  BY <1>1, <1>2 DEF Types, Same
<1>6. Types'
  BY <1>1, <1>2, <1>3 DEF Types, FaultsCount
<1>7. Grows /\ Replaces(h) /\ Alone(h)
  BY <1>2, <1>4 DEF Grows, Replaces, Replacing, Alone, FaultsCount
<1>8. HandlerOK(h)'
  <2>1. StepOK(h)' /\ AimOK(h)' /\ ThroughOK(h)'
    BY <1>1, <1>2, <1>4 DEF StepOK, AimOK, ThroughOK, Aiming, Deleting, ForVersions
  <2>2. SweptOK(h)'
    BY <1>1, <1>4 DEF SweptOK, Sweeping, SameAddress, Versioned
  <2> QED
    BY <2>1, <2>2 DEF HandlerOK
<1>9. Single'
  <2>1. ~raced /\ faults = 0 => Cleared(h)
    BY DEF IInv, Single
  <2>2. ~raced /\ faults' = 0 => Cleared(h)'
    BY <1>1, <1>2, <1>4, <2>1 DEF Cleared, FaultsCount
  <2> QED
    BY <1>5, <1>7, <2>2, StaysSingle
<1>10. \A y \in stored \ stored' : Excused(y)'
  <2> TAKE y \in stored \ stored'
  <2>1. SameAddress(y, e) /\ IsOlder(y, e) /\ run'[h].evt = e /\ run'[h].at = "storeNew"
    BY <1>1, <1>2, <1>4
  <2> QED
    BY <1>1, <2>1 DEF Excused, Displaced
<1> QED
  BY <1>2, <1>5, <1>6, <1>7, <1>8, <1>9, <1>10, OneMoves

LEMMA StoreNewKeeps ==
  ASSUME IInv, NEW h \in Handlers, StoreNew(h)
  PROVE  IInv'
<1>1. run[h].at = "storeNew"
  BY DEF StoreNew
<1>2. CASE AlreadyThere(h)
  BY <1>1, <1>2, AlreadyThereKeeps DEF Storing
<1>3. CASE run[h].evt \notin stored /\ Save(h, {})
  <2>1. ~raced /\ faults = 0 => \A x \in stored : ~SameAddress(x, run[h].evt)
    BY <1>1 DEF IInv, Single, Cleared
  <2>2. faults' = faults
    BY <1>3 DEF Save
  <2> QED
    BY <1>1, <1>3, <2>1, <2>2, SaveKeeps DEF Storing
<1>4. CASE Fails(h)
  BY <1>1, <1>4, FailsKeeps DEF Storing
<1> QED
  BY <1>2, <1>3, <1>4 DEF StoreNew

LEMMA FinishKeeps ==
  ASSUME IInv, NEW h \in Handlers, Finish(h) \/ \E n \in {0, 1} : FinishEphemeral(h, n)
  PROVE  IInv'
<1> DEFINE e == run[h].evt
<1>1. /\ stored' = stored /\ faults' = faults /\ seen' = seen /\ once' = once /\ refused' = refused
      /\ raced' = raced /\ run' = [run EXCEPT ![h] = Rest]
      /\ acked \subseteq acked' /\ acked' \subseteq acked \cup {e}
      /\ run[h].at \in {"saved", "skip"} \/ (run[h].at = "admit" /\ Ephemeral(e))
  BY DEF Finish, FinishEphemeral
<1>2. Types /\ ThroughOK(h)
  BY DEF IInv, HandlerOK
<1>3. Types' /\ run'[h] = Rest /\ \A g \in Handlers \ {h} : Same(g)
  BY <1>1, <1>2, RestIsARun DEF Types, Same
<1>4. HandlerOK(h)' /\ Cleared(h)'
  BY <1>3, RestIsOK
<1>5. Alone(h) /\ Grows /\ Replaces(h)
  BY <1>1, <1>3 DEF Alone, Grows, Replaces, Replacing, Rest
<1>6. Single'
  BY <1>3, <1>4, <1>5, StaysSingle
<1>7. \A x \in acked' \ acked : Ephemeral(x) \/ x \in once' \/ Displaced(x)'
  <2>1. \A x : Displaced(x) => Displaced(x)'
    BY <1>3, <1>5, ExcusesStay
  <2>2. Ephemeral(e) \/ e \in once \/ Displaced(e)
    BY <1>1, <1>2 DEF ThroughOK
  <2> QED
    BY <1>1, <2>1, <2>2
<1> QED
  BY <1>1, <1>3, <1>4, <1>5, <1>6, <1>7, OneMoves

LEMMA StepKeeps == IInv /\ [Next]_vars => IInv'
<1> SUFFICES ASSUME IInv, [Next]_vars
             PROVE  IInv'
  OBVIOUS
<1>1. CASE UNCHANGED vars
  <2>1. Types' /\ Kept' /\ AcksKept'
    BY <1>1 DEF vars, IInv, Types, Kept, AcksKept, Excused, DeletionWanted, Displaced
  <2>2. \A h \in Handlers : HandlerOK(h)'
    BY <1>1 DEF vars, IInv, HandlerOK, StepOK, AimOK, ThroughOK, SweptOK, Sweeping, Done, Displaced
  <2>3. Single'
    BY <1>1 DEF vars, IInv, Single, Apart, Lone, Cleared
  <2> QED
    BY <2>1, <2>2, <2>3 DEF IInv
<1>2. ASSUME NEW h \in Handlers, NEW e \in Events, Receive(h, e) \/ AddEvent(h, e)
      PROVE  IInv'
  BY <1>2, ReceiveKeeps
<1>3. ASSUME NEW h \in Handlers, Step(h)
      PROVE  IInv'
  BY <1>3, DeleteQueryKeeps, DeleteTargetKeeps, DeleteEndAndHangKeep, AdmitKeeps, StoreRegularKeeps,
     CheckAddressKeeps, ReplaceKeeps, FetchPreviousKeeps, DeletePreviousKeeps, StoreNewKeeps,
     FinishKeeps DEF Step
<1> QED
  BY <1>1, <1>2, <1>3 DEF Next

-----------------------------------------------------------------------------
\* Nothing goes missing, a request's tags are done in order and an address has one handler at a time
\* or a race on record: the inductive invariant (adding.go:25-156, deleting.go:14-79).
THEOREM PipelineStaysRight == Spec => []IInv
<1> QED
  BY InitEstablishes, StepKeeps, PTL DEF Spec

\* A handler is always at a step its event can be at, and aims at a target exactly when it is about
\* to delete one (handlers.go:212-224, adding.go:25-156).
THEOREM TypesHold == Spec => []TypeOK
<1>1. IInv => TypeOK
  BY NoneAssumption
     DEF IInv, Types, Runs, HandlerOK, StepOK, Aiming, Deleting, ForVersions, TypeOK
<1> QED
  BY <1>1, PipelineStaysRight, PTL

\* Nothing is lost, for any number of events, handlers, requests and failing calls
\* (adding.go:54-148, deleting.go:40-66).
THEOREM NothingIsLost == Spec => []AcknowledgedIsKept
<1>1. IInv => AcknowledgedIsKept
  BY DEF IInv, Kept, AcksKept, Excused, AcknowledgedIsKept
<1> QED
  BY <1>1, PipelineStaysRight, PTL

\* What a deletion request names by id is gone once its tags are done, for any number of tags,
\* events and handlers (deleting.go:14-79).
THEOREM DeletionsTakeEffect == Spec => []DeletionTakesEffect
<1>1. IInv => DeletionTakesEffect
  <2> SUFFICES ASSUME IInv, NEW h \in Handlers, run[h].byMessage, ~run[h].blind,
                      run[h].at \in {"admit", "store", "saved", "skip"},
                      Class[run[h].evt] = "deletion", NEW x \in stored, Tagged(run[h].evt, "e", x)
               PROVE  x \in run[h].since
    BY DEF DeletionTakesEffect
  <2>1. Types /\ StepOK(h) /\ SweptOK(h) /\ Sweeping(h)
    BY DEF IInv, HandlerOK, Sweeping
  <2>2. run[h].evt \in Events
    BY <2>1 DEF Types, Runs, StepOK
  <2>3. PICK j \in DOMAIN Tags[run[h].evt] : Tags[run[h].evt][j] = <<"e", x>>
    BY DEF Tagged
  <2>4. j \in Done(h)
    BY <2>2, <2>3, TagsAssumption DEF Done, Deleting
  <2> QED
    BY <2>1, <2>3, <2>4 DEF SweptOK
<1> QED
  BY <1>1, PipelineStaysRight, PTL

\* One version of an address is all there is, for any number of events and handlers
\* (adding.go:92-148).
THEOREM OneVersionAtATime == Spec => []OneVersion
<1>1. IInv => OneVersion
  BY DEF IInv, Single, Lone, OneVersion
<1> QED
  BY <1>1, PipelineStaysRight, PTL

-----------------------------------------------------------------------------
(* An event of a regular kind is sent for a save of its own.               *)

\* The handlers that stored e and are about to send it.
ToSend(e) == {h \in Handlers : run[h].evt = e /\ run[h].at = "saved"}

Sent ==
  /\ saves \in [Events -> Nat] /\ notified \in [Events -> Nat]
  /\ \A e \in Events : Regular(e) => notified[e] + Cardinality(ToSend(e)) <= saves[e]

LEMMA InitSendsNothing == Init => Sent
<1> SUFFICES ASSUME Init
             PROVE  Sent
  OBVIOUS
<1>1. \A e : ToSend(e) = {}
  BY DEF Init, ToSend, Rest
<1>2. Cardinality({}) = 0
  BY FS_EmptySet
<1>3. \A e \in Events : notified[e] = 0 /\ saves[e] = 0
  BY DEF Init
<1>4. saves \in [Events -> Nat] /\ notified \in [Events -> Nat]
  BY DEF Init
<1> QED
  BY <1>1, <1>2, <1>3, <1>4 DEF Sent

LEMMA ToSendIsFinite == \A e : IsFiniteSet(ToSend(e)) /\ Cardinality(ToSend(e)) \in Nat
<1> TAKE e
<1>1. ToSend(e) \subseteq Handlers
  BY DEF ToSend
<1> QED
  BY <1>1, HandlersAssumption, FS_Subset, FS_CardinalityType

LEMMA Bumped ==
  ASSUME NEW f \in [Events -> Nat], NEW x
  PROVE  [f EXCEPT ![x] = @ + 1] \in [Events -> Nat]
<1>1. CASE x \in Events
  <2>1. f[x] + 1 \in Nat
    BY <1>1
  <2> QED
    BY <2>1
<1>2. CASE x \notin Events
  BY <1>2
<1> QED
  BY <1>1, <1>2

\* A step that sends and saves nothing has only to see that nobody is about to send more.
LEMMA SendsNoMore ==
  ASSUME Sent, saves' = saves, NEW e \in Events, Regular(e), notified'[e] = notified[e],
         ToSend(e)' \subseteq ToSend(e)
  PROVE  notified'[e] + Cardinality(ToSend(e)') <= saves'[e]
<1>1. Cardinality(ToSend(e)') \in Nat /\ Cardinality(ToSend(e)') <= Cardinality(ToSend(e))
  BY ToSendIsFinite, FS_Subset, FS_CardinalityType
<1>2. /\ notified[e] \in Nat /\ saves[e] \in Nat /\ Cardinality(ToSend(e)) \in Nat
      /\ notified[e] + Cardinality(ToSend(e)) <= saves[e]
  BY ToSendIsFinite DEF Sent
<1> QED
  BY <1>1, <1>2

LEMMA OneSaved ==
  ASSUME IInv, Sent, NEW h \in Handlers, NEW old, Save(h, old)
  PROVE  Sent'
<1>1. run[h] \in Runs /\ run \in [Handlers -> Runs]
  BY DEF IInv, Types
<1>2. /\ notified' = notified /\ saves' = [saves EXCEPT ![run[h].evt] = @ + 1]
      /\ run' = [g \in Handlers |-> IF g = h THEN [run[g] EXCEPT !.at = "saved"]
                                             ELSE [run[g] EXCEPT !.since = @ \cup {run[h].evt}]]
  BY DEF Save
<1>3. ASSUME NEW e \in Events, Regular(e)
      PROVE  notified'[e] + Cardinality(ToSend(e)') <= saves'[e]
  <2>1. CASE e # run[h].evt
    <3>1. ToSend(e)' \subseteq ToSend(e)
      BY <1>1, <1>2, <2>1 DEF ToSend, Runs
    <3>2. Cardinality(ToSend(e)') \in Nat /\ Cardinality(ToSend(e)') <= Cardinality(ToSend(e))
      BY <3>1, ToSendIsFinite, FS_Subset, FS_CardinalityType
    <3>3. saves'[e] = saves[e]
      BY <1>2, <1>3, <2>1 DEF Sent
    <3> QED
      BY <1>2, <1>3, <3>2, <3>3, ToSendIsFinite DEF Sent
  <2>2. CASE e = run[h].evt
    <3>1. ToSend(e)' \subseteq ToSend(e) \cup {h}
      BY <1>1, <1>2 DEF ToSend, Runs
    <3>2. /\ IsFiniteSet(ToSend(e) \cup {h})
          /\ Cardinality(ToSend(e) \cup {h}) <= Cardinality(ToSend(e)) + 1
      BY ToSendIsFinite, FS_AddElement
    <3>3. Cardinality(ToSend(e)') \in Nat /\ Cardinality(ToSend(e)') <= Cardinality(ToSend(e) \cup {h})
      BY <3>1, <3>2, FS_Subset, FS_CardinalityType
    <3>4. saves'[e] = saves[e] + 1 /\ saves[e] \in Nat /\ notified[e] \in Nat
      BY <1>2, <1>3, <2>2 DEF Sent
    <3>5. Cardinality(ToSend(e) \cup {h}) \in Nat
      BY <3>2, FS_CardinalityType
    <3> QED
      BY <1>2, <1>3, <3>2, <3>3, <3>4, <3>5, ToSendIsFinite DEF Sent
  <2> QED
    BY <2>1, <2>2
<1>4. saves' \in [Events -> Nat]
  BY <1>2, Bumped DEF Sent
<1> QED
  BY <1>2, <1>3, <1>4 DEF Sent

LEMMA OneSent ==
  ASSUME IInv, Sent, NEW h \in Handlers, Finish(h)
  PROVE  Sent'
<1>1. run[h] \in Runs /\ run \in [Handlers -> Runs]
  BY DEF IInv, Types
<1>2. run' = [run EXCEPT ![h] = Rest] /\ saves' = saves /\ run[h].at \in {"saved", "skip"}
  BY DEF Finish
<1>3. \A e \in Events : ToSend(e)' = ToSend(e) \ {h}
  BY <1>1, <1>2 DEF ToSend, Rest
<1>4. notified' \in [Events -> Nat]
  BY Bumped DEF Finish, Sent
<1>5. ASSUME NEW e \in Events, Regular(e)
      PROVE  notified'[e] + Cardinality(ToSend(e)') <= saves'[e]
  <2>1. CASE h \in ToSend(e)
    <3>1. Cardinality(ToSend(e)') = Cardinality(ToSend(e)) - 1
      BY <1>3, <2>1, ToSendIsFinite, FS_RemoveElement
    <3>2. notified'[e] \in {notified[e], notified[e] + 1}
      BY DEF Finish, Sent
    <3> QED
      BY <1>2, <1>5, <3>1, <3>2, ToSendIsFinite DEF Sent
  <2>2. CASE h \notin ToSend(e)
    <3>1. notified'[e] = notified[e]
      BY <2>2 DEF Finish, Sent, ToSend
    <3>2. ToSend(e)' \subseteq ToSend(e)
      BY <1>3
    <3> QED
      BY <1>2, <1>5, <3>1, <3>2, SendsNoMore
  <2> QED
    BY <2>1, <2>2
<1> QED
  BY <1>2, <1>4, <1>5 DEF Sent

\* Of the steps that save and send nothing, those that go on to "saved" are about versions.
Unsent(h) ==
  /\ \A g \in Handlers \ {h} : run'[g] = run[g]
  /\ run'[h].at = "saved" => ~Regular(run'[h].evt)

LEMMA UnsentKeeps ==
  ASSUME Sent, NEW h \in Handlers, Unsent(h), saves' = saves, notified' \in [Events -> Nat],
         \A e \in Events : Regular(e) => notified'[e] = notified[e]
  PROVE  Sent'
<1>1. ASSUME NEW e \in Events, Regular(e)
      PROVE  ToSend(e)' \subseteq ToSend(e)
  BY <1>1 DEF Unsent, ToSend
<1> QED
  BY <1>1, SendsNoMore DEF Sent

LEMMA ReceiveSendsNothing ==
  ASSUME IInv, Sent, NEW h \in Handlers, NEW e \in Events, Receive(h, e) \/ AddEvent(h, e)
  PROVE  Sent'
<1>1. run \in [Handlers -> Runs] /\ saves' = saves /\ notified' = notified
  BY DEF Receive, AddEvent, IInv, Types
<1>2. PICK r : run' = [run EXCEPT ![h] = r] /\ r.at \in {"delete", "admit"}
  <2> DEFINE m == [Rest EXCEPT !.evt = e, !.byMessage = TRUE, !.k = 1,
                               !.at = IF Class[e] = "deletion" THEN "delete" ELSE "admit"]
             c == [Rest EXCEPT !.evt = e, !.at = "admit"]
  <2>1. m.at \in {"delete", "admit"} /\ c.at = "admit"
    BY DEF Rest
  <2>2. run' = [run EXCEPT ![h] = m] \/ run' = [run EXCEPT ![h] = c]
    BY DEF Receive, AddEvent
  <2> HIDE DEF m, c
  <2> QED
    BY <2>1, <2>2
<1>3. Unsent(h)
  BY <1>1, <1>2 DEF Unsent
<1> QED
  BY <1>1, <1>3, UnsentKeeps DEF Sent

LEMMA StepSendsItsOwn ==
  ASSUME IInv, Sent, NEW h \in Handlers, Step(h)
  PROVE  Sent'
<1>1. run \in [Handlers -> Runs] /\ run[h] \in Runs /\ StepOK(h)
  BY DEF IInv, Types, HandlerOK
<1>2. ASSUME NEW s \in Steps, Goto(h, s), s = "saved" => ~Regular(run[h].evt)
      PROVE  Unsent(h)
  BY <1>1, <1>2 DEF Goto, Unsent, Runs
<1>3. ASSUME run' = [run EXCEPT ![h] = Rest]
      PROVE  Unsent(h)
  BY <1>1, <1>3 DEF Unsent, Rest
<1>4. ASSUME notified' = notified, saves' = saves, Unsent(h)
      PROVE  Sent'
  BY <1>4, UnsentKeeps DEF Sent
<1>5. Refuse(h) \/ Fails(h) \/ AlreadyThere(h) => Sent'
  BY <1>2, <1>3, <1>4 DEF Refuse, Fails, AlreadyThere, IfDuplicate, history, Steps
<1>6. CASE DeleteQuery(h) \/ DeleteTarget(h)
  <2>1. notified' = notified /\ saves' = saves
    BY <1>6 DEF DeleteQuery, DeleteTarget, history
  <2>2. \A g \in Handlers \ {h} : run'[g] = run[g]
    BY <1>1, <1>6 DEF DeleteQuery, DeleteTarget
  <2>3. run'[h].at # "saved"
    <3>1. CASE DeleteQuery(h)
      <4>1. ASSUME NEW x, run' = [run EXCEPT ![h] = [@ EXCEPT !.at = "deleteTarget", !.target = x]]
            PROVE  run'[h].at = "deleteTarget"
        BY <1>1, <4>1 DEF Runs
      <4>2. run' = [run EXCEPT ![h] = Rest] => run'[h].at = "rest"
        BY <1>1 DEF Rest
      <4>3. run' = [run EXCEPT ![h].k = @ + 1] => run'[h].at = run[h].at
        BY <1>1 DEF Runs
      <4>4. run' = [run EXCEPT ![h].k = @ + 1, ![h].blind = TRUE] => run'[h].at = run[h].at
        BY <1>1 DEF Runs
      <4> QED
        BY <3>1, <4>1, <4>2, <4>3, <4>4 DEF DeleteQuery
    <3>2. CASE DeleteTarget(h)
      BY <1>1, <3>2 DEF DeleteTarget, Rest, Runs
    <3> QED
      BY <1>6, <3>1, <3>2
  <2> QED
    BY <1>4, <2>1, <2>2, <2>3 DEF Unsent
<1>7. CASE DeleteEnd(h) \/ Hang(h)
  BY <1>2, <1>4, <1>7 DEF DeleteEnd, Hang, history, Steps
<1>8. CASE Reject(h) \/ Admit(h)
  <2>1. CASE Refuse(h)
    BY <1>5, <2>1
  <2>2. CASE Admit(h) /\ ~Refuse(h)
    <3> DEFINE s == IF Regular(run[h].evt) THEN "store" ELSE "byAddress"
    <3>1. Goto(h, s) /\ notified' = notified /\ saves' = saves
      BY <2>2 DEF Admit, history
    <3> QED
      BY <1>2, <1>4, <3>1 DEF Steps
  <2> QED
    BY <1>8, <2>1, <2>2 DEF Reject
<1>9. CASE StoreRegular(h) \/ StoreNew(h)
  BY <1>5, <1>9, OneSaved DEF StoreRegular, StoreNew
<1>10. CASE CheckAddress(h)
  <2>1. CASE Refuse(h)
    BY <1>5, <2>1
  <2>2. CASE ~Refuse(h)
    <3> DEFINE s == IF setup.replaces THEN "replace" ELSE "previous"
    <3>1. Goto(h, s) /\ notified' = notified /\ saves' = saves
      BY <1>10, <2>2 DEF CheckAddress, history
    <3> QED
      BY <1>2, <1>4, <3>1 DEF Steps
  <2> QED
    BY <2>1, <2>2
<1>11. CASE Replace(h)
  <2>1. ~Regular(run[h].evt)
    BY <1>1, <1>11 DEF Replace, StepOK, ForVersions, Versioned, Regular
  <2>2. Unsent(h) \/ Sent'
    BY <1>2, <1>5, <1>11, <2>1, OneSaved DEF Replace, Steps
  <2>3. CASE Goto(h, "saved") /\ UNCHANGED history
    BY <1>2, <1>4, <2>1, <2>3 DEF history, Steps
  <2> QED
    BY <1>5, <1>11, <2>3, OneSaved DEF Replace, history
<1>12. CASE FetchPrevious(h) \/ DeletePrevious(h)
  <2>1. ~Regular(run[h].evt)
    BY <1>1, <1>12 DEF FetchPrevious, DeletePrevious, StepOK, ForVersions, Versioned, Regular
  <2>2. notified' = notified /\ saves' = saves
    BY <1>12 DEF FetchPrevious, DeletePrevious, history
  <2>3. \A g \in Handlers \ {h} : run'[g] = run[g]
    BY <1>1, <1>12 DEF FetchPrevious, DeletePrevious, Goto
  <2>4. run'[h].evt = run[h].evt
    <3>1. CASE FetchPrevious(h)
      <4>1. CASE Goto(h, "storeNew")
        BY <1>1, <4>1 DEF Goto, Runs
      <4>2. ASSUME NEW x \in Previous(run[h].evt),
                   \/ run' = [run EXCEPT ![h] = [@ EXCEPT !.at = "deletePrevious", !.target = x]]
                   \/ run' = [run EXCEPT ![h] = [@ EXCEPT !.at = "saved"]]
            PROVE  run'[h].evt = run[h].evt
        BY <1>1, <4>2 DEF Runs
      <4> QED
        BY <3>1, <4>1, <4>2 DEF FetchPrevious
    <3>2. CASE DeletePrevious(h)
      BY <1>1, <3>2 DEF DeletePrevious, Runs
    <3> QED
      BY <1>12, <3>1, <3>2
  <2> QED
    BY <1>4, <2>1, <2>2, <2>3, <2>4 DEF Unsent
<1>13. CASE Finish(h)
  BY <1>13, OneSent
<1>14. CASE \E n \in {0, 1} : FinishEphemeral(h, n)
  <2>1. run' = [run EXCEPT ![h] = Rest] /\ saves' = saves /\ Ephemeral(run[h].evt)
    BY <1>14 DEF FinishEphemeral
  <2>2. notified' \in [Events -> Nat]
    BY <1>14, Bumped DEF FinishEphemeral, Sent
  <2>3. \A e \in Events : e # run[h].evt => notified'[e] = notified[e]
    BY <1>14 DEF FinishEphemeral, Sent
  <2>4. \A e \in Events : Regular(e) => notified'[e] = notified[e]
    BY <2>1, <2>3 DEF Regular, Ephemeral
  <2> QED
    BY <1>3, <2>1, <2>2, <2>4, UnsentKeeps
<1> QED
  BY <1>6, <1>7, <1>8, <1>9, <1>10, <1>11, <1>12, <1>13, <1>14 DEF Step

LEMMA SentStays == Sent /\ IInv /\ [Next]_vars => Sent'
<1> SUFFICES ASSUME Sent, IInv, [Next]_vars
             PROVE  Sent'
  OBVIOUS
<1>1. CASE UNCHANGED vars
  BY <1>1 DEF vars, Sent, ToSend
<1> QED
  BY <1>1, ReceiveSendsNothing, StepSendsItsOwn DEF Next

\* A regular event is sent to the listeners no more often than it was stored, for any number of
\* handlers and events (adding.go:54-62, handlers.go:239-240).
THEOREM SentNoMoreThanSaved == Spec => []SentOncePerSave
<1>1. Spec => []Sent
  BY InitSendsNothing, SentStays, PipelineStaysRight, PTL DEF Spec
<1>2. Sent => SentOncePerSave
  <2> SUFFICES ASSUME Sent, NEW e \in Events, Regular(e)
               PROVE  notified[e] <= saves[e]
    BY DEF SentOncePerSave
  <2>1. Cardinality(ToSend(e)) \in Nat /\ Cardinality(ToSend(e)) >= 0
    BY ToSendIsFinite
  <2>2. notified[e] \in Nat /\ saves[e] \in Nat /\ notified[e] + Cardinality(ToSend(e)) <= saves[e]
    BY DEF Sent
  <2> QED
    BY <2>1, <2>2
<1> QED
  BY <1>1, <1>2, PTL
=============================================================================
