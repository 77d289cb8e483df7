---------------------------- MODULE MCExpiration ----------------------------
(***************************************************************************)
(* Two versions of an event, of which the newer expires last, and two      *)
(* stores.  In a behaviour there are two saves, a deletion request, a      *)
(* failed call and a restart: an event can be saved, deleted and saved     *)
(* again, swept over a failed query, or lost from the heap between its     *)
(* save and its entry.                                                     *)
(***************************************************************************)
EXTENDS Expiration

MCEvents == {1, 2}
MCExpires == <<1, 2>>
MCOlder == {<<1, 2>>}
=============================================================================
