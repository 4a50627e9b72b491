------------------------- MODULE MCServerEntities -------------------------
(* Small instances of ServerEntities for TLC.                               *)
EXTENDS ServerEntities

\* One kind of item each: one the bag takes, one it leaves, one that is destroyed.
SomeLoadouts == {<<"knife", "weapon">>}
BareHands    == {<<>>}
UnsetGameId  == {NoId}

IdSymmetry     == Permutations(Ids)
ClientSymmetry == Permutations(Clients) \cup Permutations(Ids)

=============================================================================
