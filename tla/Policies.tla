------------------------------ MODULE Policies ------------------------------
(***************************************************************************)
(* The policies of the package policies that look at a filter or an event, *)
(* for REQ, NEG-OPEN and EVENT.  A filter has                              *)
(*                                                                         *)
(*   kinds, authors    sets, empty when there is no such field,            *)
(*   tags              a function from names to sets of values,            *)
(*   search, limitZero whether it has a search, and a limit of zero;       *)
(*                                                                         *)
(* an event has a kind, an author, such tags, and a number of tags whose   *)
(* names are single letters, indexable, which counts each of several tags  *)
(* of one name.  A policy is a record of its name and its argument, arg.   *)
(***************************************************************************)
EXTENDS Integers, FiniteSets, Sequences, Functions

Nobody == "nobody"

\* What a filter is, for any kinds, authors, names and values of tags.
IsFilter(f) ==
  /\ f = [kinds |-> f.kinds, authors |-> f.authors, tags |-> f.tags,
          search |-> f.search, limitZero |-> f.limitZero]
  /\ f.tags = Restrict(f.tags, DOMAIN f.tags)
  /\ IsFiniteSet(f.kinds) /\ IsFiniteSet(DOMAIN f.tags)
  /\ {f.search, f.limitZero} \subseteq BOOLEAN

uint16(k) == k % 65536

\* nostr.Filter.Matches.
Matches(f, e) ==
  /\ f.kinds = {} \/ e.kind \in f.kinds
  /\ f.authors = {} \/ e.author \in f.authors
  /\ \A t \in DOMAIN f.tags : t \in DOMAIN e.tags /\ f.tags[t] \cap e.tags[t] # {}

-----------------------------------------------------------------------------
(* OverwriteFilter                                                         *)

RemoveSearchQueries(f) ==
  [f EXCEPT !.search = FALSE, !.limitZero = @ \/ f.search]

\* A filter that named kinds, of which none is left, is to be skipped.
RemoveAllButKinds(kinds, f) ==
  LET newKinds == {k \in f.kinds : uint16(k) \in kinds}
  IN  [f EXCEPT !.kinds = newKinds, !.limitZero = @ \/ (f.kinds # {} /\ newKinds = {})]

\* The same for tags.
RemoveAllButTags(names, f) ==
  LET newTags == Restrict(f.tags, DOMAIN f.tags \cap names)
  IN  [f EXCEPT !.tags = newTags, !.limitZero = @ \/ (DOMAIN f.tags # {} /\ DOMAIN newTags = {})]

Overwrite(f, policy) ==
  CASE policy.name = "RemoveSearchQueries" -> RemoveSearchQueries(f)
    [] policy.name = "RemoveAllButKinds"   -> RemoveAllButKinds(policy.arg, f)
    [] policy.name = "RemoveAllButTags"    -> RemoveAllButTags(policy.arg, f)

OverwriteFilters == {"RemoveSearchQueries", "RemoveAllButKinds", "RemoveAllButTags"}

\* Each policy overwrites what the one before it left.
OverwriteAll(policies, f) ==
  LET after[n \in 0..Len(policies)] == IF n = 0 THEN f ELSE Overwrite(after[n - 1], policies[n])
  IN  after[Len(policies)]

-----------------------------------------------------------------------------
(* RejectFilter                                                            *)

NoComplexFilters(f) ==
  /\ Cardinality(DOMAIN f.tags) + Cardinality(f.kinds) > 4
  /\ Cardinality(DOMAIN f.tags) > 2

MustAuth(authed) == authed = Nobody

NoEmptyFilters(f) ==
  f.kinds = {} /\ f.authors = {} /\ \A t \in DOMAIN f.tags : f.tags[t] = {}

AntiSyncBots(f) ==
  (f.kinds = {} \/ 1 \in f.kinds) /\ f.authors = {}

NoSearchQueries(f) == f.search

\* Whoever asks for kind 4 by name must be its only author or its only receiver.
RejectKind04Snoopers(f, authed) ==
  LET receivers == IF "p" \in DOMAIN f.tags THEN f.tags["p"] ELSE {}
      soleSender == f.authors = {authed} /\ Cardinality(receivers) < 2
      soleReceiver == receivers = {authed} /\ Cardinality(f.authors) < 2
  IN  4 \in f.kinds /\ (authed = Nobody \/ ~(soleSender \/ soleReceiver))

RejectFilters ==
  {"NoComplexFilters", "MustAuth", "NoEmptyFilters", "AntiSyncBots", "NoSearchQueries", "RejectKind04Snoopers"}

Rejects(policy, f, authed) ==
  \/ policy = "NoComplexFilters" /\ NoComplexFilters(f)
  \/ policy = "MustAuth" /\ MustAuth(authed)
  \/ policy = "NoEmptyFilters" /\ NoEmptyFilters(f)
  \/ policy = "AntiSyncBots" /\ AntiSyncBots(f)
  \/ policy = "NoSearchQueries" /\ NoSearchQueries(f)
  \/ policy = "RejectKind04Snoopers" /\ RejectKind04Snoopers(f, authed)

-----------------------------------------------------------------------------
(* RejectEvent                                                             *)

\* It may be told to let ephemeral events through, which FilterFlow has none of.
RestrictToSpecifiedKinds(kinds, e) == uint16(e.kind) \notin kinds

\* Kinds in ignored are let through, or, if there are some in only, all but those.
PreventTooManyIndexableTags(max, ignored, only, e) ==
  /\ IF only = {} THEN e.kind \notin ignored ELSE e.kind \in only
  /\ e.indexable > max

RejectsEvent(policy, e) ==
  \/ policy.name = "RestrictToSpecifiedKinds" /\ RestrictToSpecifiedKinds(policy.arg, e)
  \/ policy.name = "PreventTooManyIndexableTags"
     /\ PreventTooManyIndexableTags(policy.arg.max, policy.arg.ignored, policy.arg.only, e)
=============================================================================
