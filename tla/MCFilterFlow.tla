---------------------------- MODULE MCFilterFlow ----------------------------
(***************************************************************************)
(* Four ways to set up a relay or a router, and a client that sends two    *)
(* messages, REQs of two filters among them, while five events are         *)
(* published: a note, messages to the client and to another, a list of     *)
(* follows, and one whose kind is 1 but for 2^16.                          *)
(***************************************************************************)
EXTENDS FilterFlow

NoTags == <<>>
Tags(names) == [t \in names |-> IF t = "p" THEN {"me"} ELSE {"x"}]
Filter(kinds, authors, tags) ==
  [kinds |-> kinds, authors |-> authors, tags |-> tags, search |-> FALSE, limitZero |-> FALSE]
AnEvent(kind, author, tags) ==
  [kind |-> kind, author |-> author, tags |-> tags,
   indexable |-> Cardinality(UNION {{t} \X tags[t] : t \in DOMAIN tags})]

All == Filter({}, {}, NoTags)
Notes == Filter({1}, {}, NoTags)
Mixed == Filter({1, 4}, {"you"}, NoTags)
Letters == Filter({4}, {}, Tags({"p", "h"}))
Mine == Filter({4}, {"me"}, NoTags)
Group == Filter({}, {}, Tags({"h"}))
Complex == Filter({1, 65537}, {"you"}, Tags({"p", "h", "e"}))
Search == [Notes EXCEPT !.search = TRUE]
Follows == Filter({3}, {}, Tags({"p"}))
LiveLetters == [Letters EXCEPT !.limitZero = TRUE]

MCFilters == {All, Notes, Mixed, Letters, Mine, Group, Complex, Search, Follows, LiveLetters}
MCReqs ==
  {<<Notes, Letters>>, <<Mixed, Group>>, <<LiveLetters, Mine>>, <<Search, Complex>>, <<Follows, All>>}

MCEvents ==
  {AnEvent(1, "you", Tags({"h"})), AnEvent(4, "you", Tags({"p", "h"})),
   AnEvent(4, "you", [Tags({"p", "h"}) EXCEPT !["p"] = {"another"}]),
   AnEvent(3, "you", [p |-> {"me", "another"}]),
   AnEvent(65537, "you", Tags({"p", "h", "e"}))}

Setup(overwrite, reject, rejectEvent, count) ==
  [overwrite |-> overwrite, reject |-> reject, rejectEvent |-> rejectEvent, count |-> count,
   rejectCount |-> reject \cap {"RejectKind04Snoopers"}, negentropy |-> TRUE]
Bare == Setup(<<>>, {}, {}, {})

Policied ==
  Setup(<<[name |-> "RemoveAllButKinds", arg |-> {1, 4}],
          [name |-> "RemoveAllButTags", arg |-> {"h", "e"}]>>,
        {"RejectKind04Snoopers", "NoEmptyFilters"},
        {[name |-> "RestrictToSpecifiedKinds", arg |-> {1, 4}]}, {"CountEvents", "CountEventsHLL"})
Strict ==
  Setup(<<[name |-> "RemoveSearchQueries"]>>,
        {"MustAuth", "AntiSyncBots", "NoComplexFilters", "NoSearchQueries"},
        {[name |-> "PreventTooManyIndexableTags", arg |-> [max |-> 1, ignored |-> {4}, only |-> {}]]},
        {"CountEvents"})
Groups == Setup(<<[name |-> "RemoveAllButTags", arg |-> {"h"}]>>, {}, {}, {"CountEvents"})
Public == Setup(<<>>, {"RejectKind04Snoopers"}, {}, {"CountEvents", "CountEventsHLL"})

Alone(setup) == [routes |-> <<>>, relay |-> [r \in Relays |-> IF r = Top THEN setup ELSE Bare]]
HasH(x) == "h" \in DOMAIN x.tags
Routed(top, groups, public) ==
  [routes |-> <<[filters |-> {f \in Filters : HasH(f)}, events |-> {e \in Events : HasH(e)},
                 relay |-> "groups"],
                [filters |-> Filters, events |-> Events, relay |-> "public"]>>,
   relay |-> [r \in Relays |-> IF r = Top THEN top ELSE IF r = "groups" THEN groups ELSE public]]

MCConfigs ==
  {Alone(Policied), Alone(Strict), Routed(Bare, Policied, Public), Routed(Public, Groups, Strict)}
=============================================================================
