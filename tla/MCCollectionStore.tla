------------------------- MODULE MCCollectionStore -------------------------
(***************************************************************************)
(* Instances of CollectionStore for TLC.                                   *)
(***************************************************************************)
EXTENDS CollectionStore

CONSTANTS c1, c2, r1

\* A library with one collection and one request, stored or left behind under
\* the legacy key.
MCStored == [edition |-> 0, collections |-> {c1}, home |-> [r \in RequestIds |->
              IF r = r1 THEN c1 ELSE Nowhere]]
MCFirstFiles == {MCStored, Missing, Newer}
MCFirstLegacy == {MCStored, Missing}
=============================================================================
