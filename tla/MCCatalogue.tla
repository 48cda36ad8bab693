---------------------------- MODULE MCCatalogue ----------------------------
(***************************************************************************)
(* Catalogue with three media arrays, two of which have the same (no)      *)
(* primary thumbnail.                                                      *)
(***************************************************************************)
EXTENDS TLC, Catalogue

Item(t, primary, u) == [type |-> t, isPrimary |-> primary, url |-> u]

SomeMedias ==
  {<<>>,
   <<Item("POSTER", TRUE, "poster")>>,
   <<Item("THUMBNAIL", FALSE, "poster"), Item("THUMBNAIL", TRUE, "cover")>>}

RequestSymmetry == Permutations(Requests)
=============================================================================
