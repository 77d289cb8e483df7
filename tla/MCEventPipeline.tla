--------------------------- MODULE MCEventPipeline ---------------------------
(***************************************************************************)
(* A note, two versions of a profile with one timestamp, two versions of   *)
(* an addressable event, a deletion of all sorts by their author, one by   *)
(* somebody else, and an ephemeral event.  A hook lets the other delete    *)
(* the note, and nobody the older addressable event.                       *)
(***************************************************************************)
EXTENDS EventPipeline, TLC

CONSTANTS h1, h2

Note == 1
Profile2 == 2
Profile2b == 3
Article1 == 4
Article3 == 5
Deletion == 6
OthersDeletion == 7
Blip == 8

MCEvents == 1..8
MCClass == <<"regular", "replaceable", "replaceable", "addressable", "addressable",
             "deletion", "deletion", "ephemeral">>
MCAuthor == [e \in MCEvents |-> IF e = OthersDeletion THEN "bob" ELSE "ann"]
MCSlot == <<"note", "profile", "profile", "article", "article", "deletion", "deletion", "blip">>
MCDate == <<1, 2, 2, 1, 3, 2, 2, 1>>
MCTags == [e \in MCEvents |->
             CASE e = Deletion -> << <<"a", <<"ann", "article">>>>, <<"e", Note>> >>
               [] e = OthersDeletion -> << <<"e", Note>>, <<"e", Profile2>> >>
               [] OTHER -> <<>>]

MCOutcomes == (<<Note, OthersDeletion>> :> TRUE) @@ (<<Article1, Deletion>> :> FALSE)
MCHandlers == {h1, h2}
MCSymmetry == Permutations(MCHandlers)
=============================================================================
