----------------------------- MODULE JsonValues -----------------------------
(***************************************************************************)
(* Decoded JSON values, as packages assertions and diagnostics compare     *)
(* them, with the exact numbers of package jsonnumber.                     *)
(*                                                                         *)
(* A text is a sequence of characters.  A number has its spelling, its     *)
(* value, and whether it is within the limits for exact arithmetic.        *)
(***************************************************************************)
EXTENDS Integers, Sequences, FiniteSets, SequencesExt, FiniteSetsExt

JsonNull == [type |-> "null"]
JsonText(text) == [type |-> "string", text |-> text]
JsonBoolean(b) == [type |-> "boolean", holds |-> b]
JsonNumber(value, spelling, fits) ==
  [type |-> "number", number |-> value, spelling |-> spelling, fits |-> fits]
JsonArray(items) == [type |-> "array", items |-> items]
JsonObject(members) == [type |-> "object", members |-> members]

\* jsonnumber.Rat: whether the value is a number that can be compared exactly.
Exact(value) == value.type = "number" /\ value.fits

\* Two leaves are the same: numbers by value, or else by spelling.
SameLeaf(left, right) ==
  IF Exact(left) /\ Exact(right) THEN left.number = right.number ELSE left = right

\* A step of a path is an index of an array or a key, which names an element of
\* an array too if it is spelled like a number.
KeyStep(key, number) == [isIndex |-> FALSE, key |-> key, index |-> number]
IndexStep(index) == [isIndex |-> TRUE, key |-> <<>>, index |-> index]

-----------------------------------------------------------------------------
(* What it means that two values are the same, for the properties *)

RECURSIVE SameValue(_, _)
SameValue(left, right) ==
  IF left.type = "array" /\ right.type = "array"
    THEN /\ Len(left.items) = Len(right.items)
         /\ \A i \in DOMAIN left.items : SameValue(left.items[i], right.items[i])
  ELSE IF left.type = "object" /\ right.type = "object"
    THEN /\ DOMAIN left.members = DOMAIN right.members
         /\ \A key \in DOMAIN left.members :
              SameValue(left.members[key], right.members[key])
  ELSE SameLeaf(left, right)

Children(value) ==
  CASE value.type = "array" -> ToSet(value.items)
    [] value.type = "object" -> {value.members[key] : key \in DOMAIN value.members}
    [] OTHER -> {}

RECURSIVE NodesOf(_)
NodesOf(value) ==
  1 + (CASE value.type = "array" -> FoldLeft(LAMBDA sum, item : sum + NodesOf(item), 0, value.items)
         [] value.type = "object" ->
              MapThenSumSet(LAMBDA key : NodesOf(value.members[key]), DOMAIN value.members)
         [] OTHER -> 0)

RECURSIVE DepthOf(_)
DepthOf(value) ==
  IF Children(value) = {} THEN 0
  ELSE 1 + Max({DepthOf(child) : child \in Children(value)})
=============================================================================
