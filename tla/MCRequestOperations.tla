------------------------ MODULE MCRequestOperations ------------------------
(***************************************************************************)
(* Instances of RequestOperations for TLC.                                 *)
(***************************************************************************)
EXTENDS RequestOperations, TLC

CONSTANTS r1, r2, r3, t1, i1

MCKind == [o \in Operations |->
  CASE o = t1 -> "tool" [] o = i1 -> "import" [] OTHER -> "request"]

\* Two requests with the same ID, one with another, a tool of the same ID in
\* the map of the tools.
MCKey == [o \in Operations |->
  CASE o \in {r1, r2} -> <<"request", "a">>
    [] o = r3 -> <<"request", "b">>
    [] OTHER -> <<"tool", "a">>]

MCSymmetry == Permutations(Operations \cap {r1, r2})
=============================================================================
