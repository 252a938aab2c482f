-------------------------- MODULE MCAnalysisTools ---------------------------
(***************************************************************************)
(* The questions asked of the tools that read a contract and of those that *)
(* read what was observed, each modelled in a module of its own, and what  *)
(* is promised of them together.                                           *)
(***************************************************************************)
EXTENDS ContractDrift, OpenApiLint, EndpointCoverage, EnvironmentComparison,
        ThreadDump, LogSearch, SseStream, BodyPresentation, TLC

-----------------------------------------------------------------------------
(***************************************************************************)
(* ContractDrift: schema graphs of three nodes and small values for        *)
(* ContractDrift. Node 1 is compared; it and the second may refer to any   *)
(* node, themselves included.                                              *)
(***************************************************************************)

Nothing == [name \in {} |-> 0]

Unconstrained ==
  [types |-> <<>>, properties |-> Nothing, required |-> {}, items |-> 0,
   additional |-> 0, closed |-> FALSE, allOf |-> <<>>, oneOf |-> <<>>,
   anyOf |-> <<>>, enum |-> {}, rejects |-> {}, nullable |-> FALSE]

Scalar(type, atom) == [type |-> type, atom |-> atom]
Object(fields) == [type |-> "object", fields |-> fields]
Array(items) == [type |-> "array", items |-> items]

One == Scalar("integer", 1)
SomeText == Scalar("string", 0)

MCNames == <<"a", "b">>

DriftBodies ==
  {Scalar("null", 0), Scalar("integer", 0), One, Scalar("number", 0), SomeText,
   Object(Nothing),
   Object([name \in {"a"} |-> One]),
   Object([name \in {"a", "b"} |-> IF name = "a" THEN One ELSE SomeText]),
   Object([name \in {"b"} |-> Object([inner \in {"a"} |-> SomeText])]),
   Array(<<One, SomeText>>), Array(<<One, Scalar("integer", 0)>>)}

LeafSchemas ==
  {Unconstrained,
   [Unconstrained EXCEPT !.types = <<"integer">>],
   [Unconstrained EXCEPT !.types = <<"string", "null">>],
   [Unconstrained EXCEPT !.types = <<"number">>, !.nullable = TRUE],
   [Unconstrained EXCEPT !.enum = {One}],
   [Unconstrained EXCEPT !.rejects = {One}]}

Pairs == {<<2, 3>>, <<3, 2>>, <<1, 3>>, <<2, 1>>}

Compositions ==
  {[Unconstrained EXCEPT !.allOf = pair] : pair \in Pairs}
    \cup {[Unconstrained EXCEPT !.oneOf = pair] : pair \in Pairs}
    \cup {[Unconstrained EXCEPT !.anyOf = pair] : pair \in Pairs}

Containers ==
  {[Unconstrained EXCEPT !.properties = [name \in {"a"} |-> n], !.required = {"a"},
                         !.additional = other] : n \in {1, 2}, other \in {0, 2, 3}}
    \cup {[Unconstrained EXCEPT !.properties = [name \in {"b"} |-> 1], !.closed = TRUE],
          [Unconstrained EXCEPT !.items = 2],
          [Unconstrained EXCEPT !.items = 1, !.oneOf = <<2, 3>>]}

DriftQuestions ==
  {[drift |-> [schemas |-> <<first, second, third>>, body |-> body]] :
     body \in DriftBodies, first \in Compositions \cup Containers,
     second \in LeafSchemas \cup Compositions \cup Containers,
     third \in LeafSchemas}

-----------------------------------------------------------------------------
(***************************************************************************)
(* OpenApiLint: documents of up to three operations, options below, at and *)
(* above the limits, and cancellation at every check.                      *)
(***************************************************************************)

MCIssueBytes ==
  [code \in {"document.too_large", "document.parse", "document.invalid",
             "operation_id.missing", "operation_id.duplicate", "summary.missing",
             "tags.missing", "responses.missing", "success.missing",
             "json.schema_missing", "json.example_missing"} |->
     IF code = "json.schema_missing" THEN 4 ELSE 1]

MCLintLimits == [issues |-> 3, mostIssues |-> 5, bytes |-> 8, mostBytes |-> 14, pathBytes |-> 2]

Operated(id, summary, tagged, responses) ==
  [id |-> id, summary |-> summary, tagged |-> tagged, responses |-> responses]

Replying(success, content) == [success |-> success, content |-> content]
MediaOf(json, schema, example) == [json |-> json, schema |-> schema, example |-> example]

Bare == Replying(TRUE, <<>>)
Incomplete == MediaOf(TRUE, FALSE, FALSE)

ResponseLists ==
  {<<>>, <<Bare>>, <<Replying(FALSE, <<>>)>>,
   <<Replying(FALSE, <<Incomplete>>), Replying(TRUE, <<MediaOf(FALSE, FALSE, FALSE)>>)>>,
   <<Replying(TRUE, <<Incomplete, MediaOf(TRUE, TRUE, FALSE)>>)>>}

Operations ==
  {Operated(id, complete, complete, responses) :
     id \in {"", "a", "b"}, complete \in BOOLEAN, responses \in ResponseLists}

FewOperations == {Operated(id, TRUE, tagged, <<Bare>>) : id \in {"", "a", "b"}, tagged \in BOOLEAN}

PathOf(operations, size) == [operations |-> operations, size |-> size]

Linted(valid, paths) == [large |-> FALSE, parses |-> TRUE, valid |-> valid, paths |-> paths]

LintAsked(document, issues, bytes, canceledAt) ==
  [lint |-> [document |-> document, options |-> [issues |-> issues, bytes |-> bytes],
             canceledAt |-> canceledAt]]

AskLint ==
  \/ \E a \in Operations, b \in FewOperations, valid \in BOOLEAN, size \in {1, 3},
        issues \in {0, 2, 9}, bytes \in {0, 5, 99} :
       question = LintAsked(Linted(valid, <<PathOf(<<a, b>>, size)>>), issues, bytes, 0)
  \/ \E a, b, c \in FewOperations, issues \in {1, 9}, canceledAt \in 0..8 :
       question = LintAsked(Linted(FALSE, <<PathOf(<<a>>, 1), PathOf(<<>>, 1), PathOf(<<b, c>>, 3)>>),
                        issues, 99, canceledAt)
  \/ \E large, parses \in BOOLEAN, canceledAt \in 0..3 :
       question = LintAsked([Linted(TRUE, <<>>) EXCEPT !.large = large, !.parses = parses], 0, 0,
                        canceledAt)

-----------------------------------------------------------------------------
(***************************************************************************)
(* EndpointCoverage: templates that overlap, calls that match several of   *)
(* them or none, and histories that wrap the ring of two keys more than    *)
(* once.                                                                   *)
(***************************************************************************)

Endpoint(method, segments) == [method |-> method, segments |-> segments]
ObservedCall(method, path, count) == [method |-> method, path |-> path, count |-> count]

MCTemplates ==
  <<Endpoint("GET", <<"**">>), Endpoint("GET", <<"a">>),
    Endpoint("GET", <<"a", "**">>), Endpoint("GET", <<"a", "{x}">>),
    Endpoint("GET", <<"a", "{y}">>), Endpoint("POST", <<"a", "b">>)>>

HistoryQuestions ==
  {[history |-> history] :
     history \in UNION {[1..n -> {"k1", "k2", "k3", "reset"}] : n \in 0..6}}

KnownLists ==
  UNION {[1..n -> DOMAIN MCTemplates] : n \in 0..2} \cup {<<3, 1, 5>>, <<4, 5, 4>>}

Plainly(path) == ObservedCall("GET", path, 0)

Observable ==
  {Plainly(<<"a">>), Plainly(<<"a", "b">>), Plainly(<<"a", "c">>),
   Plainly(<<"a", "b", "c">>), ObservedCall("GET", <<"a", "b">>, 2),
   ObservedCall("GET", <<"a">>, 2), ObservedCall("POST", <<"a", "b">>, 1),
   ObservedCall("GET", <<>>, -1)}

ObservedLists ==
  UNION {[1..n -> Observable] : n \in 0..2}
    \cup [1..3 -> {Plainly(<<"a", "b">>), Plainly(<<"a", "c">>)}]

CoverageQuestions ==
  {[coverage |-> [known |-> known, observed |-> observed]] :
     known \in KnownLists, observed \in ObservedLists}

-----------------------------------------------------------------------------
(***************************************************************************)
(* EnvironmentComparison: pairs of bodies of up to two levels with every   *)
(* ignored path, triples of environments that fail, and requests that are  *)
(* refused.                                                                *)
(***************************************************************************)

MCKeyOrder == <<"a", "b">>

MCHeaderOrder == <<"a", "b", "c", "date", "set-cookie">>

MCComparisonLimits ==
  [environments |-> 3, requestBytes |-> 1, responseBytes |-> 1, ignored |-> 2,
   differences |-> 2, depth |-> 1, nodes |-> 4]

Atoms ==
  {JsonNull, JsonNumber(1, 1, TRUE), JsonNumber(1, 10, TRUE)}

Shallow ==
  Atoms
    \cup {JsonArray(items) : items \in UNION {[1..n -> Atoms] : n \in 0..2}}
    \cup {JsonObject(members) : members \in UNION {[keys -> Atoms] : keys \in SUBSET {"a", "b"}}}

Deep ==
  {JsonObject("a" :> inner) : inner \in Shallow \ Atoms}
    \cup {JsonArray(<<JsonNull, JsonArray(<<JsonNull>>)>>),
          JsonArray(<<JsonNull, JsonNull, JsonNull, JsonNull>>),
          JsonArray(<<JsonArray(<<JsonArray(<<JsonNull>>)>>)>>)}

Exactly(step) == [isIndex |-> step.isIndex, key |-> step.key, index |-> step.index, wildcard |-> FALSE]
AnyKey == [isIndex |-> FALSE, key |-> "*", index |-> -1, wildcard |-> TRUE]
AnyIndex == [isIndex |-> TRUE, key |-> "*", index |-> -1, wildcard |-> TRUE]

IgnoredLists ==
  {<<>>, <<<<>>>>, <<<<Exactly(KeyStep("a", -1))>>>>, <<<<Exactly(IndexStep(1))>>>>,
   <<<<AnyKey, Exactly(KeyStep("b", -1))>>, <<AnyIndex>>>>}

Whole(json) ==
  [fails |-> "no", size |-> 1, status |-> 200, headers |-> <<>>,
   body |-> [text |-> json, json |-> json]]

NotJsonReply == [Whole(JsonNull) EXCEPT !.body.text = JsonText(<<"?">>), !.body.json = [type |-> "none"]]

Environment(name, reply) == [name |-> name, urlValid |-> TRUE, reply |-> reply]

Compared(replies, ignored) ==
  [method |-> "GET", allowUnsafe |-> FALSE, bodySize |-> 1, ignoredPaths |-> ignored,
   ignoredHeaders |-> {"b"},
   targets |-> [i \in DOMAIN replies |-> Environment(<<"A", "B", "C", "D">>[i], replies[i])]]

HeaderSets ==
  UNION {[names -> {<<>>, <<1, 2>>, <<2, 1>>, <<1, 1>>}] :
           names \in {{}, {"a"}, {"a", "b"}, {"a", "set-cookie"}, {"date"}}}

Replied ==
  {Whole(JsonNull), [Whole(JsonNull) EXCEPT !.fails = "sending"],
   [Whole(JsonNull) EXCEPT !.fails = "reading"], [Whole(JsonNull) EXCEPT !.size = 2],
   [Whole(JsonNull) EXCEPT !.status = 404], NotJsonReply}

Refusals ==
  LET base == Compared(<<Whole(JsonNull), Whole(JsonNull)>>, <<>>)
  IN  {[base EXCEPT !.method = method, !.allowUnsafe = allow, !.bodySize = size] :
         method \in {"GET", "POST", "TRACE"}, allow \in BOOLEAN, size \in {1, 2}}
        \cup {[base EXCEPT !.targets[2].name = name, !.targets[1].urlValid = valid] :
                name \in {"", "A", "B"}, valid \in BOOLEAN}
        \cup {[base EXCEPT !.targets = <<>>], [base EXCEPT !.ignoredPaths = <<<<>>, <<>>, <<>>>>],
              Compared([i \in 1..4 |-> Whole(JsonNull)], <<>>)}

AskComparison ==
  \/ \E left \in Shallow \cup Deep, right \in Shallow \cup Deep, ignored \in IgnoredLists :
       question = [comparison |-> Compared(<<Whole(left), Whole(right)>>, ignored)]
  \/ \E replies \in UNION {[1..n -> Replied] : n \in 2..3} :
       question = [comparison |-> Compared(replies, <<>>)]
  \/ \E h, k \in HeaderSets :
       question = [comparison |-> Compared(<<[Whole(JsonNull) EXCEPT !.headers = h],
                                             [Whole(JsonNull) EXCEPT !.headers = k]>>, <<>>)]
  \/ \E input \in Refusals : question = [comparison |-> input]

-----------------------------------------------------------------------------
(***************************************************************************)
(* ThreadDump: dumps of up to five lines of every kind, and dumps of       *)
(* several threads with stacks that repeat.                                *)
(***************************************************************************)

MCFrameOrder == <<"f", "g">>

MCDumpLimits ==
  [threads |-> 4, issues |-> 1, groups |-> 1, depth |-> 2, frames |-> 3, clues |-> 1,
   deadlockClues |-> 2, names |-> 2]

DumpLines ==
  {ThreadHeader("t"), ThreadHeader("u"), Blank, StateLine("BLOCKED"), FrameLine("f"), LockClue,
   ParkClue, Marker}

Stacks == UNION {[1..n -> {FrameLine("f"), FrameLine("g")}] : n \in 0..2}

AskDump ==
  \/ \E n \in 0..5 : \E lines \in [1..n -> DumpLines] : question = [dump |-> lines]
  \/ \E n \in 4..7 : \E lines \in [1..n -> {ThreadHeader("t"), Blank, Marker}] :
       question = [dump |-> lines]
  \/ \E a, b, c, d \in Stacks :
       question = [dump |-> <<ThreadHeader("t")>> \o a \o <<ThreadHeader("u")>> \o b
                            \o <<Marker, ThreadHeader("t")>> \o c
                            \o <<Blank, ThreadHeader("u")>> \o d]

-----------------------------------------------------------------------------
(***************************************************************************)
(* LogSearch: every text of up to six characters, and longer ones of       *)
(* letters only, with identifiers that repeat parts of themselves.         *)
(***************************************************************************)

MCLowerOf == ("a" :> "a") @@ ("A" :> "a") @@ ("b" :> "b") @@ ("lf" :> "lf") @@ ("cr" :> "cr")

MCSearchLimits == [query |-> 4, input |-> 7, results |-> 1, line |-> 3]

Queries ==
  {<<>>, <<"a">>, <<"A", "b">>, <<"a", "a", "b">>, <<"a", "b", "a", "A">>,
   <<"a", "b", "a", "b", "a">>}

AskSearch ==
  \/ \E n \in 0..5 : \E text \in [1..n -> {"a", "A", "b", "lf", "cr"}],
        query \in {<<"a">>, <<"A", "b">>}, caseSensitive \in BOOLEAN :
       question = [search |-> [text |-> text, query |-> query, caseSensitive |-> caseSensitive]]
  \/ \E n \in {6, 7, 8} : \E text \in [1..n -> {"a", "b"}], query \in Queries :
       question = [search |-> [text |-> text, query |-> query, caseSensitive |-> FALSE]]

-----------------------------------------------------------------------------
(***************************************************************************)
(* SseStream: streams of up to four lines that end or break between two    *)
(* lines or inside one, lines out of the ordinary between ordinary ones,   *)
(* a cancellation after each line, and every limit with every answer.      *)
(***************************************************************************)

StreamBounds(events, response, event) == [events |-> events, response |-> response, event |-> event]
Reading(limits, canceledAt) == [limits |-> limits, canceledAt |-> canceledAt]
StreamOf(lines, inLine, broken) == [lines |-> lines, inLine |-> inLine, broken |-> broken]
Answering(stream) == [status |-> 200, eventStream |-> TRUE, stream |-> stream]

AskStreamOf(request, answer) == question = [stream |-> [request |-> request, answer |-> answer]]

EndOfBlock == Line("blank", "", 1)
StreamLines ==
  {EndOfBlock, Line("data", "a", 2), Line("data", "b", 3), Line("event", "e", 1), Line("id", "1", 1),
   Line("other", "", 2)}
OddLines ==
  StreamLines \cup {Line("event", "", 1), Line("id", "nul", 1), Line("id", "", 1), Line("retry", "0", 1),
                    Line("retry", "7", 1), Line("retry", "-", 1), [EndOfBlock EXCEPT !.mark = TRUE],
                    [Line("data", "m", 2) EXCEPT !.mark = TRUE]}
MayEndInside(lines) == lines # <<>> /\ lines[Len(lines)].field # "blank"

AskStream ==
  \/ \E n \in 0..4 : \E lines \in [1..n -> StreamLines], inLine, broken \in BOOLEAN,
        limits \in {StreamBounds(0, 0, 0), StreamBounds(1, 6, 4)} :
       /\ inLine => MayEndInside(lines)
       /\ AskStreamOf(Reading(limits, 0), Answering(StreamOf(lines, inLine, broken)))
  \/ \E a, b, c \in OddLines :
       AskStreamOf(Reading(StreamBounds(3, 9, 0), 0),
                   Answering(StreamOf(<<a, b, Line("data", "a", 1), EndOfBlock, c, Line("data", "b", 1)>>,
                                      FALSE, FALSE)))
  \/ \E n \in 0..2 : \E lines \in [1..n -> StreamLines], canceledAt \in 1..3, inLine \in BOOLEAN :
       /\ inLine => MayEndInside(lines)
       /\ AskStreamOf(Reading(StreamBounds(1, 0, 0), canceledAt), Answering(StreamOf(lines, inLine, FALSE)))
  \/ \E events, response, event \in -1..11, status \in {200, 404}, eventStream \in BOOLEAN :
       AskStreamOf(Reading(StreamBounds(events, response, event), 0),
                   [status |-> status, eventStream |-> eventStream,
                    stream |-> StreamOf(<<Line("data", "a", 2), EndOfBlock>>, FALSE, FALSE)])

-----------------------------------------------------------------------------
(***************************************************************************)
(* BodyPresentation: JSON values of up to three levels whose strings hold  *)
(* quotes and brackets, XML documents of up to six lexemes, and bodies     *)
(* around the budget.                                                      *)
(***************************************************************************)

MCPresentationLimits ==
  [json |-> 24, jsonDepth |-> 2, xml |-> 17, xmlDepth |-> 3, xmlTokens |-> 9, body |-> 16]

JsonAtom == [type |-> "atom"]
JsonString(chars) == [type |-> "string", chars |-> chars]
Container(type, items) == [type |-> type, items |-> items]

JsonLeaves ==
  {JsonAtom, JsonString(<<>>), JsonString(<<"{", "[">>), JsonString(<<"backslash", "quote", "{">>),
   JsonString(<<"backslash", "backslash">>), JsonString(<<"backslash", "quote", ",">>)}
ContainersOf(values) ==
  {Container(type, items) : type \in {"object", "array"}, items \in UNION {[1..n -> values] : n \in 0..2}}
FewContainers == ContainersOf({JsonAtom, JsonString(<<"backslash", "quote", "{">>)})
JsonValuesAsked ==
  JsonLeaves \cup ContainersOf(JsonLeaves) \cup ContainersOf(FewContainers)
    \cup ContainersOf({Container("array", <<v>>) : v \in FewContainers})

XmlTag(kind, size) == [kind |-> kind, size |-> size, preserve |-> FALSE]
XmlText(size, white, break) == [kind |-> "text", size |-> size, white |-> white, break |-> break]

XmlLexemes ==
  {<<XmlTag("start", 1)>>, <<XmlTag("end", 1)>>, <<XmlTag("start", 2), XmlTag("end", 0)>>,
   <<XmlTag("markup", 1)>>, <<XmlText(1, FALSE, FALSE)>>, <<XmlText(1, TRUE, FALSE)>>,
   <<XmlText(2, TRUE, TRUE)>>}
OddLexemes == {<<[XmlTag("start", 1) EXCEPT !.preserve = TRUE]>>, <<[kind |-> "error", size |-> 1]>>}

OpenTags(tokens) ==
  Cardinality({i \in DOMAIN tokens : tokens[i].kind = "start"})
    - Cardinality({i \in DOMAIN tokens : tokens[i].kind = "end"})

\* What a decoder reads: every end has its start, and white space is one token.
IsDecoded(tokens) ==
  /\ \A n \in DOMAIN tokens : OpenTags(SubSeq(tokens, 1, n)) >= 0
  /\ \A n \in 1..Len(tokens) - 1 :
       ~(tokens[n].kind = "text" /\ tokens[n].white /\ tokens[n + 1].kind = "text" /\ tokens[n + 1].white)
  /\ OpenTags(tokens) = 0 \/ (tokens # <<>> /\ tokens[Len(tokens)].kind = "error")

Formatter(matches, formatted) == [matches |-> matches, formatted |-> formatted]

AskBody ==
  \/ \E value \in JsonValuesAsked : question = [json |-> value]
  \/ \E n \in 0..6 : \E lexemes \in [1..n -> XmlLexemes] :
       /\ IsDecoded(FlattenSeq(lexemes))
       /\ question = [xml |-> FlattenSeq(lexemes)]
  \/ \E n \in 1..3 : \E lexemes \in [1..n -> XmlLexemes], odd \in OddLexemes, ending \in {<<>>, <<XmlTag("end", 1)>>} :
       /\ IsDecoded(FlattenSeq(lexemes) \o odd \o ending)
       /\ question = [xml |-> FlattenSeq(lexemes) \o odd \o ending]
  \/ \E n \in 0..4, isText \in BOOLEAN : \E raw \in [1..n -> {1, 2, 6}] :
       \E json, xml \in {Formatter(FALSE, <<raw>>), Formatter(TRUE, <<>>)}
                          \cup {Formatter(TRUE, <<raw \o extra>>) : extra \in {<<>>, <<1>>, <<2, 1>>, <<2, 2, 1>>}} :
         question = [body |-> [raw |-> raw, isText |-> isText, formatters |-> <<json, xml>>]]

-----------------------------------------------------------------------------
(* Properties *)

\* A response is judged against its schema as the schema says, and a document is
\* linted without losing or repeating an issue (contract/drift.go, openapilint).
ContractToolsExact == VerdictsAreRight /\ LintExact

\* Environments are compared within their limits, a dump yields its threads, a
\* search every first match, a stream its events, and a body is shown with the
\* content it has (environment.go, thread_dump.go, log_search.go, sse.go,
\* response_body_presentation.go).
DiagnosticToolsExact ==
  /\ ComparisonExact
  /\ ThreadsExact
  /\ SearchExact
  /\ StreamExact
  /\ PresentationExact
=============================================================================
