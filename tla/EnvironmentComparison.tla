------------------------ MODULE EnvironmentComparison ------------------------
(***************************************************************************)
(* One request sent to several environments and each response compared     *)
(* with the first (internal/diagnostics/environment.go): what is refused,  *)
(* what is captured, and the differences of headers and of JSON bodies.    *)
(***************************************************************************)
EXTENDS JsonValues, Functions, Question

CONSTANTS
  KeyOrder,            \* the keys of objects, in the order of their texts
  HeaderOrder,         \* the names of headers, likewise, in lower case
  ComparisonLimits     \* environments, requestBytes, responseBytes, ignored,
                       \* differences, depth and nodes

-----------------------------------------------------------------------------
(* Before anything is sent *)

SafeMethods == {"GET", "HEAD", "OPTIONS"}
SupportedMethods == SafeMethods \cup {"POST", "PUT", "PATCH", "DELETE"}

\* CompareEnvironments, in the order of its checks; targets one after the other.
Refusal(input) ==
  LET targets == input.targets
      Bad(i) == \/ targets[i].name = "" \/ ~targets[i].urlValid
                \/ \E j \in 1..i - 1 : targets[j].name = targets[i].name
  IN  IF input.method \notin SupportedMethods THEN "invalid_input"
      ELSE IF input.method \notin SafeMethods /\ ~input.allowUnsafe THEN "unsafe_method"
      ELSE IF Len(targets) < 2 THEN "invalid_input"
      ELSE IF Len(targets) > ComparisonLimits.environments
              \/ input.bodySize > ComparisonLimits.requestBytes
              \/ Len(input.ignoredPaths) > ComparisonLimits.ignored
        THEN "limit_exceeded"
      ELSE IF \E i \in DOMAIN targets : Bad(i) THEN "invalid_input"
      ELSE ""

-----------------------------------------------------------------------------
(* What is captured of a reply *)

Redacted == <<"[redacted]">>

\* sanitizeResponseHeaders
SanitizeHeaders(headers) ==
  [name \in DOMAIN headers |->
     IF name \in {"set-cookie", "authorization"} THEN Redacted ELSE headers[name]]

NoHeaders == <<>>

\* fetchEnvironment.  A reply fails while it is sent for or read, or is whole; a
\* body that is too large is cut and is an error.
FetchEnvironment(reply) ==
  LET failed == [error |-> TRUE, status |-> 0, headers |-> NoHeaders, body |-> reply.body]
  IN  IF reply.fails = "sending" THEN failed
      ELSE [error |-> reply.fails = "reading" \/ reply.size > ComparisonLimits.responseBytes,
            status |-> reply.status, headers |-> SanitizeHeaders(reply.headers),
            body |-> reply.body]

-----------------------------------------------------------------------------
(* Headers *)

AlwaysIgnored == {"connection", "content-length", "date", "keep-alive", "transfer-encoding"}

\* The values of a header, in no order.
SameValues(a, b) ==
  /\ Len(a) = Len(b)
  /\ \A value \in ToSet(a) \cup ToSet(b) :
       Len(SelectSeq(a, LAMBDA v : v = value)) = Len(SelectSeq(b, LAMBDA v : v = value))

ValuesOf(headers, name) == IF name \in DOMAIN headers THEN headers[name] ELSE <<>>

SameHeader(a, b, name) == SameValues(ValuesOf(a, name), ValuesOf(b, name))

DiffHeaders(a, b, ignored) ==
  LET differing == SelectSeq(HeaderOrder, LAMBDA name :
                     name \notin AlwaysIgnored \cup ignored /\ ~SameHeader(a, b, name))
      limit == ComparisonLimits.differences
  IN  IF Len(differing) > limit
        THEN [names |-> SubSeq(differing, 1, limit), truncated |-> TRUE]
      ELSE [names |-> differing, truncated |-> FALSE]

-----------------------------------------------------------------------------
(* JSON bodies *)

\* ignoredJSONPath: a wildcard stands for one key, or for one index.
StepIgnored(pattern, step) ==
  /\ pattern.isIndex = step.isIndex
  /\ pattern.wildcard \/ (IF step.isIndex THEN pattern.index = step.index
                          ELSE pattern.key = step.key)

IgnoredPath(path, ignored) ==
  \E pattern \in ToSet(ignored) :
    /\ Len(pattern) = Len(path)
    /\ \A i \in DOMAIN path : StepIgnored(pattern[i], path[i])

NoDifferences == [differences |-> <<>>, truncated |-> FALSE, nodes |-> 0]

AddDifference(st, path, kind) ==
  IF Len(st.differences) >= ComparisonLimits.differences THEN [st EXCEPT !.truncated = TRUE]
  ELSE [st EXCEPT !.differences = Append(@, [path |-> path, kind |-> kind])]

\* Mutant: members that only the candidate has are not looked for.
StepsOfBaseline(baseline, candidate) ==
  IF baseline.type = "object"
    THEN SelectSeq([i \in DOMAIN KeyOrder |-> KeyStep(KeyOrder[i], -1)],
                   LAMBDA step : step.key \in DOMAIN baseline.members)
  ELSE [i \in DOMAIN baseline.items |-> IndexStep(i - 1)]

\* The places below two containers of one type, in order.
StepsOf(baseline, candidate) ==
  IF baseline.type = "object"
    THEN SelectSeq([i \in DOMAIN KeyOrder |-> KeyStep(KeyOrder[i], -1)],
                   LAMBDA step : step.key \in DOMAIN baseline.members \cup DOMAIN candidate.members)
  ELSE [i \in 1..Max({Len(baseline.items), Len(candidate.items)}) |-> IndexStep(i - 1)]

HasStep(value, step) ==
  IF step.isIndex THEN step.index < Len(value.items) ELSE step.key \in DOMAIN value.members

Below(value, step) ==
  IF step.isIndex THEN value.items[step.index + 1] ELSE value.members[step.key]

\* diffJSONValues
RECURSIVE DiffValues(_, _, _, _, _, _)
DiffValues(baseline, candidate, path, ignored, depth, st) ==
  LET counted == [st EXCEPT !.nodes = @ + 1]
      Visit(acc, step) ==
        LET child == Append(path, step)
        IN  IF acc.truncated \/ IgnoredPath(child, ignored) THEN acc
            ELSE IF ~HasStep(baseline, step) THEN AddDifference(acc, child, "extra_in_candidate")
            ELSE IF ~HasStep(candidate, step)
              THEN AddDifference(acc, child, "missing_in_candidate")
            ELSE DiffValues(Below(baseline, step), Below(candidate, step), child, ignored,
                            depth + 1, acc)
  IN  IF st.truncated \/ IgnoredPath(path, ignored) THEN st
      ELSE IF depth > ComparisonLimits.depth \/ st.nodes >= ComparisonLimits.nodes
        THEN [st EXCEPT !.truncated = TRUE]
      ELSE IF JsonNull \in {baseline, candidate}
        THEN IF baseline = candidate THEN counted ELSE AddDifference(counted, path, "value_mismatch")
      ELSE IF baseline.type # candidate.type THEN AddDifference(counted, path, "type_mismatch")
      ELSE IF baseline.type \in {"object", "array"}
        THEN FoldLeft(Visit, counted, StepsOf(baseline, candidate))
      ELSE IF SameLeaf(baseline, candidate) THEN counted
      ELSE AddDifference(counted, path, "value_mismatch")

-----------------------------------------------------------------------------
(* The comparison *)

IsJson(body) == body.json.type # "none"

CompareBodies(baseline, candidate, ignored) ==
  LET diff == DiffValues(baseline.json, candidate.json, <<>>, ignored, 0, NoDifferences)
  IN  IF IsJson(baseline) /\ IsJson(candidate)
        THEN [mode |-> "json", equal |-> diff.differences = <<>> /\ ~diff.truncated,
              differences |-> diff.differences, truncated |-> diff.truncated]
      ELSE [mode |-> "text", equal |-> baseline.text = candidate.text,
            differences |-> <<>>, truncated |-> FALSE]

CompareResponses(baseline, candidate, input) ==
  LET compared == ~baseline.error /\ ~candidate.error
      headers == DiffHeaders(baseline.headers, candidate.headers, input.ignoredHeaders)
  IN  [statusMatch |-> baseline.status = candidate.status,
       headers |-> IF compared THEN headers ELSE [names |-> <<>>, truncated |-> FALSE],
       body |-> IF compared THEN CompareBodies(baseline.body, candidate.body, input.ignoredPaths)
                ELSE [mode |-> "unavailable", equal |-> FALSE,
                      differences |-> <<>>, truncated |-> FALSE]]

\* CompareEnvironments: the requests overlap, the responses are kept by target.
CompareEnvironments(input) ==
  LET error == Refusal(input)
      responses == [i \in DOMAIN input.targets |-> FetchEnvironment(input.targets[i].reply)]
  IN  IF error # "" THEN [error |-> error, responses |-> <<>>, comparisons |-> <<>>]
      ELSE [error |-> "", responses |-> responses,
            comparisons |-> [i \in 1..Len(responses) - 1 |->
                               CompareResponses(responses[1], responses[i + 1], input)]]

-----------------------------------------------------------------------------
(* Properties *)

Absent == [type |-> "absent"]

\* A value as it is compared: without what is ignored, with exact numbers by
\* their value, and the same domain for all containers of a type.
RECURSIVE NormalForm(_, _, _)
NormalForm(value, path, ignored) ==
  LET Part(step) == IF ~HasStep(value, step) THEN Absent
                    ELSE NormalForm(Below(value, step), Append(path, step), ignored)
  IN  IF IgnoredPath(path, ignored) THEN Absent
      ELSE CASE value.type = "object" ->
                  [type |-> "object", parts |-> [key \in ToSet(KeyOrder) |-> Part(KeyStep(key, -1))]]
             [] value.type = "array" ->
                  [type |-> "array",
                   parts |-> [i \in 0..ComparisonLimits.nodes |-> Part(IndexStep(i))]]
             [] Exact(value) -> [type |-> "exact", number |-> value.number]
             [] OTHER -> value

\* What is at a path, if there is anything.
RECURSIVE AtPath(_, _)
AtPath(value, path) ==
  IF path = <<>> THEN value
  ELSE IF value.type # (IF Head(path).isIndex THEN "array" ELSE "object")
          \/ ~HasStep(value, Head(path)) THEN Absent
  ELSE AtPath(Below(value, Head(path)), Tail(path))

Mirrored(kind) ==
  CASE kind = "extra_in_candidate" -> "missing_in_candidate"
    [] kind = "missing_in_candidate" -> "extra_in_candidate"
    [] OTHER -> kind

\* Two bodies are called equal exactly if they are the same apart from what is
\* ignored; a comparison that was cut short never says so, and is cut only at a
\* limit.  Every difference is a place that is not ignored and that differs as is
\* said, none is below another, and with the roles exchanged the same places
\* differ.  Headers differ when their values do, in whatever order they are, and
\* what a server keeps secret is never part of a result.  A refused comparison
\* sends nothing (environment.go:118).
ComparisonExact ==
  Asks("comparison") =>
    LET input == question.comparison
        result == CompareEnvironments(input)
        ignored == input.ignoredPaths
        responses == result.responses
        Body(i) == responses[i].body
        Swapped(i) == CompareResponses(responses[i + 1], responses[1], input)
    IN  /\ result.error # "" => responses = <<>>
        /\ input.method \notin SafeMethods => (input.allowUnsafe \/ responses = <<>>)
        /\ \A i \in DOMAIN responses : \A name \in DOMAIN responses[i].headers :
             name \in {"set-cookie", "authorization"} => responses[i].headers[name] = Redacted
        /\ \A i \in DOMAIN result.comparisons :
             LET comparison == result.comparisons[i]
                 body == comparison.body
                 places == {d.path : d \in ToSet(body.differences)}
                 left == Body(1).json
                 right == Body(i + 1).json
             IN  /\ (responses[1].error \/ responses[i + 1].error) <=> body.mode = "unavailable"
                 /\ body.mode # "unavailable" =>
                      \A name \in ToSet(HeaderOrder) :
                        (name \in ToSet(comparison.headers.names) \/ comparison.headers.truncated)
                          \/ name \in AlwaysIgnored \cup input.ignoredHeaders
                          \/ SameHeader(responses[1].headers, responses[i + 1].headers, name)
                 /\ body.mode = "json" =>
                      /\ ~body.truncated =>
                           (body.equal <=> NormalForm(left, <<>>, ignored)
                                             = NormalForm(right, <<>>, ignored))
                      /\ body.truncated =>
                           /\ ~body.equal
                           /\ \/ Len(body.differences) = ComparisonLimits.differences
                              \/ NodesOf(left) > ComparisonLimits.nodes
                              \/ DepthOf(left) > ComparisonLimits.depth
                      /\ \A d \in ToSet(body.differences) :
                           LET there == AtPath(left, d.path)
                               here == AtPath(right, d.path)
                           IN  /\ NormalForm(there, d.path, ignored) # NormalForm(here, d.path, ignored)
                               /\ ~IgnoredPath(d.path, ignored)
                               /\ d.kind = "extra_in_candidate" <=> there = Absent
                               /\ d.kind = "missing_in_candidate" <=> here = Absent
                      /\ \A p, q \in places : p # q => ~IsPrefix(p, q)
                      /\ Cardinality(places) = Len(body.differences)
                      /\ (~body.truncated /\ ~Swapped(i).body.truncated) =>
                           Swapped(i).body.differences =
                             [n \in DOMAIN body.differences |->
                                [body.differences[n] EXCEPT !.kind = Mirrored(@)]]
=============================================================================
