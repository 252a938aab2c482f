------------------------------ MODULE Question ------------------------------
(***************************************************************************)
(* A computation without state, checked for one input after the other: the *)
(* input is chosen by the initial state and kept.  Each module of such     *)
(* computations extends this one, so that a run may hold several.          *)
(***************************************************************************)

VARIABLE question   \* a record with one field, named for the computation asked

NoQuestion == [nothing |-> {}]

Asks(computation) == computation \in DOMAIN question
=============================================================================
