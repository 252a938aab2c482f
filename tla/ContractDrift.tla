--------------------------- MODULE ContractDrift ---------------------------
(***************************************************************************)
(* The comparison of a response body with the schema of an OpenAPI         *)
(* response (internal/core/drift.go), and what JSON Schema says of both.   *)
(*                                                                         *)
(* A value is a record with its JSON type: a scalar has an atom, an object *)
(* a function from names, an array a sequence.  A schema graph is a        *)
(* sequence of nodes that refer to one another by their index, 0 for no    *)
(* schema; it may have cycles.  Findings are counted, not worded.  A       *)
(* constraint on a value (a length, a pattern, a bound of a number, ...)   *)
(* is the set of the values it rejects.                                    *)
(***************************************************************************)
EXTENDS Integers, Sequences, FiniteSets, SequencesExt, Question

CONSTANTS
  PropertyNames,      \* the property names, in the order of sort.Strings
  MaxDepth,           \* maxDriftTraversalDepth
  MaxNodes,           \* maxDriftTraversalNodes
  MaxFindings         \* maxDriftFindings

ASSUME DriftAssumption ==
  /\ MaxDepth \in Nat \ {0} /\ MaxNodes \in Nat \ {0} /\ MaxFindings \in Nat \ {0}
  /\ IsInjective(PropertyNames)

-----------------------------------------------------------------------------
(* Schemas and values *)

\* The types a schema asks for, those it implies included.
SchemaTypes(s) ==
  IF s.types # <<>> THEN s.types
  ELSE IF DOMAIN s.properties # {} \/ s.required # {} THEN <<"object">>
  ELSE IF s.items # 0 THEN <<"array">>
  ELSE <<>>

TypeMatches(type, value) ==
  \/ type = value.type
  \/ type = "number" /\ value.type = "integer"

MatchedType(s, value) ==
  LET matching == SelectSeq(SchemaTypes(s), LAMBDA type : TypeMatches(type, value))
  IN  IF matching = <<>> THEN "" ELSE matching[1]

\* The names of an object, in their order.
NamesOf(names) == SelectSeq(PropertyNames, LAMBDA name : name \in names)

-----------------------------------------------------------------------------
(* The traversal.  Its state is the result that is written to, the visits  *)
(* that are open, the nodes counted and the last value ID.                 *)

NewResult == [findings |-> 0, truncated |-> FALSE, ok |-> TRUE]

NewTraversal == [active |-> {}, nodes |-> 0, nextValueID |-> 1, exhausted |-> FALSE]

Mark(st) == [st EXCEPT !.res.truncated = TRUE, !.res.ok = FALSE]

AddFinding(st) ==
  IF st.res.findings >= MaxFindings THEN Mark(st)
  ELSE [st EXCEPT !.res.findings = @ + 1, !.res.ok = FALSE]

\* Findings of a candidate are added to the result until it is full.
AppendFindings(st, candidate) ==
  FoldLeft(LAMBDA acc, i : IF acc.res.truncated THEN acc ELSE AddFinding(acc),
           st, [i \in 1..candidate.findings |-> i])

\* What follows is done unless the result is already truncated.
Unless(st, next(_)) == IF st.res.truncated THEN st ELSE next(st)

\* enter: a visit that is too deep, one too many or open already is refused.
Exhausts(st) == st.t.exhausted \/ st.t.nodes >= MaxNodes
Refuses(visit, depth, st) ==
  depth >= MaxDepth \/ Exhausts(st) \/ visit \in st.t.active
Refused(depth, st) ==
  IF depth < MaxDepth /\ Exhausts(st) THEN [Mark(st) EXCEPT !.t.exhausted = TRUE]
  ELSE Mark(st)
Entered(visit, st) ==
  [st EXCEPT !.t.nodes = @ + 1, !.t.active = @ \cup {visit}]

\* A candidate that is worth reporting when no alternative matches.
Better(candidate, best) ==
  best = {} \/ \A other \in best : candidate.findings < other.findings

\* Counts one alternative.  "best" holds at most one result.
Weigh(acc, candidate, t) ==
  [t |-> t,
   matches |-> acc.matches + (IF candidate.ok THEN 1 ELSE 0),
   unresolved |-> acc.unresolved \/ candidate.truncated,
   best |-> IF /\ ~candidate.ok
               /\ candidate.truncated => candidate.findings > 0
               /\ Better(candidate, acc.best)
            THEN {candidate} ELSE acc.best,
   gaveUp |-> candidate.truncated /\ t.exhausted]

\* Mutant: one match decides a oneOf although another alternative is unresolved.
JudgeEarly(kind, st, acc) ==
  LET report == FoldLeft(AppendFindings, st, SetToSeq(acc.best))
  IN  IF acc.gaveUp THEN Mark(report)
      ELSE IF kind = "anyOf" /\ acc.matches > 0 THEN st
      ELSE IF kind = "oneOf" /\ acc.matches > 1 THEN AddFinding(st)
      ELSE IF kind = "oneOf" /\ acc.matches = 1 THEN st
      ELSE IF acc.unresolved THEN Mark(report)
      ELSE IF acc.best # {} THEN report
      ELSE AddFinding(st)

\* What the alternatives together say of the value.
Judge(kind, st, acc) ==
  LET report == FoldLeft(AppendFindings, st, SetToSeq(acc.best))
  IN  IF acc.gaveUp THEN Mark(report)
      ELSE IF kind = "anyOf" /\ acc.matches > 0 THEN st
      ELSE IF kind = "oneOf" /\ acc.matches > 1 THEN AddFinding(st)
      ELSE IF acc.unresolved THEN Mark(report)
      ELSE IF kind = "oneOf" /\ acc.matches = 1 THEN st
      ELSE IF acc.best # {} THEN report
      ELSE AddFinding(st)

\* compareSchemaToValue and compareSchemaAlternatives
RECURSIVE Compare(_, _, _, _, _, _)

Alternatives(kind, g, nodes, value, id, depth, st) ==
  LET decided(acc) == acc.gaveUp \/ (kind = "anyOf" /\ acc.matches > 0)
      Try(acc, n) ==
        IF decided(acc) THEN acc
        ELSE LET after == Compare(g, n, value, id, depth, [res |-> NewResult, t |-> acc.t])
             IN  Weigh(acc, after.res, after.t)
      weighed == FoldLeft(Try, [t |-> st.t, matches |-> 0, unresolved |-> FALSE,
                                best |-> {}, gaveUp |-> FALSE], nodes)
  IN  IF nodes = <<>> THEN st ELSE Judge(kind, [st EXCEPT !.t = weighed.t], weighed)

\* A member of an object or an array has a value ID of its own.
Member(g, n, value, depth, st) ==
  LET id == st.t.nextValueID + 1
  IN  Compare(g, n, value, id, depth, [st EXCEPT !.t.nextValueID = id])

Declared(g, s, value, depth, st) ==
  LET Visit(acc, name) ==
        IF acc.res.truncated THEN acc
        ELSE IF name \in DOMAIN value.fields
          THEN Member(g, s.properties[name], value.fields[name], depth, acc)
        ELSE IF name \in s.required THEN AddFinding(acc)
        ELSE acc
  IN  FoldLeft(Visit, st, NamesOf(DOMAIN s.properties))

Additional(g, s, value, depth, st) ==
  LET Visit(acc, name) ==
        IF acc.res.truncated THEN acc
        ELSE IF s.additional # 0 THEN Member(g, s.additional, value.fields[name], depth, acc)
        ELSE IF s.closed THEN AddFinding(acc)
        ELSE acc
  IN  FoldLeft(Visit, st, NamesOf(DOMAIN value.fields \ DOMAIN s.properties))

Members(g, s, value, depth, st) ==
  LET Item(acc, item) ==
        IF acc.res.truncated THEN acc ELSE Member(g, s.items, item, depth, acc)
      Rest(now) == Additional(g, s, value, depth, now)
  IN  IF MatchedType(s, value) = "object"
        THEN Unless(Declared(g, s, value, depth, st), Rest)
      ELSE IF MatchedType(s, value) = "array" /\ s.items # 0
        THEN FoldLeft(Item, st, value.items)
      ELSE st

\* The enumeration; then the type, the constraints and the members.
CompareEnum(s, value, st) ==
  IF s.enum = {} \/ value \in s.enum THEN st ELSE AddFinding(st)

CompareBody(g, s, value, depth, st) ==
  LET types == SchemaTypes(s)
      accepted == IF value.type = "null"
                    THEN s.nullable \/ Contains(types, "null") \/ types = <<>>
                    ELSE types = <<>> \/ MatchedType(s, value) # ""
      Deeper(now) == Members(g, s, value, depth, now)
  IN  IF ~accepted THEN AddFinding(st)
      ELSE IF value.type = "null" THEN st
      ELSE Unless(IF value \in s.rejects THEN AddFinding(st) ELSE st, Deeper)

Compare(g, n, value, id, depth, st) ==
  LET s == g[n]
      visit == <<n, id>>
      AllOf(acc, m) == IF acc.res.truncated THEN acc
                       ELSE Compare(g, m, value, id, depth + 1, acc)
      OneOf(now) == Alternatives("oneOf", g, s.oneOf, value, id, depth + 1, now)
      AnyOf(now) == Alternatives("anyOf", g, s.anyOf, value, id, depth + 1, now)
      Enum(now) == CompareEnum(s, value, now)
      Body(now) == CompareBody(g, s, value, depth + 1, now)
      visited ==
        Unless(Unless(Unless(Unless(
          FoldLeft(AllOf, Entered(visit, st), s.allOf), OneOf), AnyOf), Enum), Body)
  IN  IF st.res.truncated THEN st
      ELSE IF Refuses(visit, depth, st) THEN Refused(depth, st)
      ELSE [visited EXCEPT !.t.active = @ \ {visit}]

-----------------------------------------------------------------------------
(* The report *)

DriftVerdict(res) ==
  [compared |-> TRUE, truncated |-> res.truncated, ok |-> res.findings = 0 /\ ~res.truncated]

\* RunDriftWithContentType, of a body that is JSON: the schema that is chosen
\* is node 1 of the graph, if the response has one.
RunDrift(g, body) ==
  IF g = <<>> THEN [compared |-> FALSE, truncated |-> FALSE, ok |-> TRUE]
  ELSE DriftVerdict(Compare(g, 1, body, 1, 0, [res |-> NewResult, t |-> NewTraversal]).res)

-----------------------------------------------------------------------------
(* The reference *)

\* Whether a value is an instance of a schema.  Nothing follows from a schema
\* that refers to itself for the same value: "unknown" stands for its answer.
\* As in the code, a required name counts only when it has a property, and the
\* members of an object only when the schema asks for an object.
RECURSIVE IsInstance(_, _, _, _, _)
IsInstance(g, n, value, open, unknown) ==
  LET s == g[n]
      Here(m) == IsInstance(g, m, value, open \cup {n}, unknown)
      There(m, v) == IsInstance(g, m, v, {}, unknown)
      types == {SchemaTypes(s)[i] : i \in DOMAIN SchemaTypes(s)}
      isObject == value.type = "object" /\ "object" \in types
  IN  IF n \in open THEN unknown
      ELSE /\ \A i \in DOMAIN s.allOf : Here(s.allOf[i])
           /\ \/ s.oneOf = <<>>
              \/ Cardinality({i \in DOMAIN s.oneOf : Here(s.oneOf[i])}) = 1
           /\ \/ s.anyOf = <<>>
              \/ \E i \in DOMAIN s.anyOf : Here(s.anyOf[i])
           /\ s.enum # {} => value \in s.enum
           /\ \/ types = {}
              \/ value.type \in types
              \/ value.type = "integer" /\ "number" \in types
              \/ value.type = "null" /\ s.nullable
           /\ value.type # "null" => value \notin s.rejects
           /\ isObject =>
                /\ s.required \cap DOMAIN s.properties \subseteq DOMAIN value.fields
                /\ \A name \in DOMAIN value.fields :
                     IF name \in DOMAIN s.properties
                       THEN There(s.properties[name], value.fields[name])
                     ELSE IF s.additional # 0 THEN There(s.additional, value.fields[name])
                     ELSE ~s.closed
           /\ (value.type = "array" /\ "array" \in types /\ s.items # 0) =>
                \A i \in DOMAIN value.items : There(s.items, value.items[i])

-----------------------------------------------------------------------------
(* Properties *)

\* A verdict that is not marked as incomplete is that of JSON Schema, whatever a
\* schema that refers to itself may mean: giving up on a cycle, a depth, a number
\* of nodes or of findings inside one alternative never turns into an answer about
\* all of them (drift.go:698, compareSchemaAlternatives).
VerdictsAreRight ==
  Asks("drift") =>
    \A g \in {question.drift.schemas}, body \in {question.drift.body} :
      \A report \in {RunDrift(g, body)} :
        report.compared /\ ~report.truncated =>
          \A unknown \in BOOLEAN : report.ok <=> IsInstance(g, 1, body, {}, unknown)
=============================================================================
