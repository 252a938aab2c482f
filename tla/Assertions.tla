----------------------------- MODULE Assertions -----------------------------
(***************************************************************************)
(* Assertions on one response (internal/assertions): which combinations of *)
(* a target, an operator and an expected value are valid, what is read,    *)
(* and how it is compared.                                                 *)
(*                                                                         *)
(* An input has a status, header values in the order of their names, a     *)
(* body as text with its size in bytes and the JSON value it decodes to,   *)
(* if any, and a duration.                                                 *)
(***************************************************************************)
EXTENDS JsonValues, Question

CONSTANTS
  Patterns,          \* the texts that each regular expression matches
  AssertionLimits    \* segments, pattern, text, body, depth and nodes

NotJson == [type |-> "none"]

-----------------------------------------------------------------------------
(* Validation: the registry of targets and operators *)

Ordering == {"less_than", "greater_than"}
Presence == {"exists", "not_exists"}

\* The kind of value that a target expects of an operator.
ExpectedKind(target, operator) ==
  CASE target \in {"status", "duration_ms"} ->
         IF operator \in {"equals", "not_equals"} \cup Ordering THEN "number" ELSE "unsupported"
    [] target \in {"header", "body"} ->
         IF operator \in Presence THEN "any"
         ELSE IF operator \in Ordering THEN "unsupported" ELSE "string"
    [] target = "json_path" ->
         IF operator \in Ordering THEN "number" ELSE IF operator = "matches" THEN "string" ELSE "any"

ExpectedFits(kind, expected) ==
  CASE kind = "any" -> TRUE
    [] kind = "string" -> expected.type = "string"
    [] kind = "number" -> Exact(expected)
    [] kind = "unsupported" -> FALSE

ValidPath(assertion) ==
  CASE assertion.target = "header" -> assertion.path # <<>>
    [] assertion.target = "json_path" -> Len(assertion.path) <= AssertionLimits.segments
    [] OTHER -> TRUE

ValidPattern(expected) ==
  Len(expected.text) <= AssertionLimits.pattern /\ expected.text \in DOMAIN Patterns

Validate(assertion) ==
  /\ ValidPath(assertion)
  /\ ExpectedFits(ExpectedKind(assertion.target, assertion.operator), assertion.expected)
  /\ assertion.operator = "matches" => ValidPattern(assertion.expected)

-----------------------------------------------------------------------------
(* Reading *)

Found(value) == [error |-> FALSE, exists |-> TRUE, value |-> value]
NotFound == [error |-> FALSE, exists |-> FALSE, value |-> JsonNull]
Unreadable == [error |-> TRUE, exists |-> FALSE, value |-> JsonNull]

\* lookupJSONPath
LookupStep(found, step) ==
  LET value == found.value
  IN  IF ~found.exists THEN found
      ELSE IF value.type = "array"
        THEN IF step.index \in 0..Len(value.items) - 1 THEN Found(value.items[step.index + 1])
             ELSE NotFound
      ELSE IF value.type = "object" /\ ~step.isIndex /\ step.key \in DOMAIN value.members
        THEN Found(value.members[step.key])
      ELSE NotFound

LookupJSONPath(root, path) == FoldLeft(LookupStep, Found(root), path)

\* The values of a header, whatever the case of its name, joined by a comma.
HeaderText(headers, name) ==
  LET values == SelectSeq(headers, LAMBDA header : header.lower = name)
  IN  IF values = <<>> THEN NotFound
      ELSE Found(JsonText(FoldLeft(LAMBDA text, header : text \o <<",">> \o header.text,
                                   values[1].text, Tail(values))))

WholeNumber(n) == JsonNumber(n, n, TRUE)

\* Undecodable bodies, and those that are too large, are errors for a path only.
Actual(input, assertion) ==
  CASE assertion.target = "status" -> Found(WholeNumber(input.status))
    [] assertion.target = "duration_ms" -> Found(WholeNumber(input.duration))
    [] assertion.target = "header" -> HeaderText(input.headers, assertion.path)
    [] assertion.target = "body" ->
         [Found(JsonText(input.body)) EXCEPT !.exists = input.body # <<>>]
    [] assertion.target = "json_path" ->
         IF input.size > AssertionLimits.body \/ input.json = NotJson THEN Unreadable
         ELSE LookupJSONPath(input.json, assertion.path)

-----------------------------------------------------------------------------
(* Comparing *)

\* Mutant: numbers are compared as they are written.
EqualAsWritten(left, right) == left = right

EqualLeaves(left, right) == SameLeaf(left, right)

\* valuesEqualWithBudget: what is beyond the budget is not equal.
RECURSIVE EqualWithin(_, _, _, _)
EqualWithin(left, right, depth, nodes) ==
  LET Failed == [equal |-> FALSE, nodes |-> nodes]
      Each(sum, pair) ==
        IF sum.equal THEN EqualWithin(pair[1], pair[2], depth + 1, sum.nodes) ELSE sum
      All(pairs) == FoldLeft(Each, [equal |-> TRUE, nodes |-> nodes + 1], pairs)
  IN  IF depth > AssertionLimits.depth \/ nodes >= AssertionLimits.nodes THEN Failed
      ELSE IF left.type = "array"
        THEN IF right.type # "array" \/ Len(left.items) # Len(right.items) THEN Failed
             ELSE All([i \in DOMAIN left.items |-> <<left.items[i], right.items[i]>>])
      ELSE IF left.type = "object"
        THEN IF right.type # "object" \/ DOMAIN left.members # DOMAIN right.members THEN Failed
             ELSE LET keys == SetToSeq(DOMAIN left.members)
                  IN  All([i \in DOMAIN keys |-> <<left.members[keys[i]], right.members[keys[i]]>>])
      ELSE [equal |-> EqualLeaves(left, right), nodes |-> nodes + 1]

ValuesEqual(left, right) == EqualWithin(left, right, 0, 0).equal

HasText(text, part) ==
  \E i \in 0..Len(text) : SubSeq(text, i + 1, i + Len(part)) = part

Failure == [error |-> TRUE, passed |-> FALSE]
Verdict(passed) == [error |-> FALSE, passed |-> passed]

CompareContains(actual, expected) ==
  CASE actual.type = "array" ->
         Verdict(\E i \in DOMAIN actual.items : ValuesEqual(actual.items[i], expected))
    [] actual.type = "string" ->
         IF expected.type = "string" THEN Verdict(HasText(actual.text, expected.text)) ELSE Failure
    [] actual.type = "object" ->
         IF expected.type = "string" THEN Verdict(expected.text \in DOMAIN actual.members)
         ELSE Failure
    [] OTHER -> Failure

CompareMatches(actual, expected) ==
  IF actual.type # "string" \/ Len(actual.text) > AssertionLimits.text THEN Failure
  ELSE Verdict(actual.text \in Patterns[expected.text])

CompareOrder(actual, expected, before) ==
  IF ~Exact(actual) \/ ~Exact(expected) THEN Failure
  ELSE Verdict(IF before THEN actual.number < expected.number
               ELSE actual.number > expected.number)

\* A missing value passes no comparison, and fails none with an error.
CompareValues(operator, actual, exists, expected) ==
  IF operator \in Presence THEN Verdict(exists = (operator = "exists"))
  ELSE IF ~exists THEN Verdict(FALSE)
  ELSE CASE operator = "equals" -> Verdict(ValuesEqual(actual, expected))
         [] operator = "not_equals" -> Verdict(~ValuesEqual(actual, expected))
         [] operator = "contains" -> CompareContains(actual, expected)
         [] operator = "matches" -> CompareMatches(actual, expected)
         [] operator = "less_than" -> CompareOrder(actual, expected, TRUE)
         [] operator = "greater_than" -> CompareOrder(actual, expected, FALSE)

\* assertionEvaluator.evaluate
Evaluate(input, assertion) ==
  LET actual == Actual(input, assertion)
  IN  IF ~Validate(assertion) \/ actual.error THEN Failure
      ELSE CompareValues(assertion.operator, actual.value, actual.exists, assertion.expected)

-----------------------------------------------------------------------------
(* Properties *)

\* The operators agree with each other and with what they are named for: equals
\* passes exactly for the same value within the limits of the comparison, and
\* not_equals when equals does not, unless there is no value; of less_than, equals
\* and greater_than exactly one passes for numbers; an array contains what one of
\* its elements equals, an object the keys that exist; exactly one of exists and
\* not_exists passes when the target can be read (evaluate.go:82).
AssertionsExact ==
  Asks("assertion") =>
    LET input == question.assertion.input
        asked == question.assertion.assertion
        Under(operator) == Evaluate(input, [asked EXCEPT !.operator = operator])
        At(step, operator) ==
          Evaluate(input, [asked EXCEPT !.operator = operator, !.path = Append(@, step)])
        actual == Actual(input, asked)
        value == actual.value
        numbers == Exact(value) /\ Exact(asked.expected)
        room == Len(asked.path) < AssertionLimits.segments
        supported == ExpectedKind(asked.target, "exists") # "unsupported"
    IN  /\ ~Under("equals").error =>
             /\ Under("equals").passed <=>
                  /\ actual.exists /\ SameValue(value, asked.expected)
                  /\ NodesOf(value) <= AssertionLimits.nodes
                  /\ DepthOf(value) <= AssertionLimits.depth
             /\ Under("not_equals").passed <=> actual.exists /\ ~Under("equals").passed
        /\ (actual.exists /\ numbers /\ ~Under("less_than").error) =>
             Cardinality({op \in {"less_than", "equals", "greater_than"} : Under(op).passed}) = 1
        /\ (supported /\ ValidPath(asked)) =>
             /\ Under("exists").error = Under("not_exists").error
             /\ ~Under("exists").error => Under("exists").passed # Under("not_exists").passed
        /\ (asked.target = "json_path" /\ room /\ actual.exists /\ value.type = "array") =>
             (Under("contains").passed <=>
                \E i \in DOMAIN value.items : At(IndexStep(i - 1), "equals").passed)
        /\ (asked.target = "json_path" /\ room /\ actual.exists /\ value.type = "object"
              /\ asked.expected.type = "string") =>
             (Under("contains").passed <=>
                At(KeyStep(asked.expected.text, -1), "exists").passed)
=============================================================================
