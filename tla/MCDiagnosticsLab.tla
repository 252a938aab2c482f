--------------------------- MODULE MCDiagnosticsLab ---------------------------
(***************************************************************************)
(* The diagnostics workspace with its performance run on a small instance, *)
(* see MCDiagnosticsLab.cfg, and the computations of the tools that views  *)
(* call, each asked its questions in states of their own.                  *)
(***************************************************************************)
EXTENDS DiagnosticsLab, MCAnalysisTools, CollectionRun

-----------------------------------------------------------------------------
(***************************************************************************)
(* Runs for CollectionRun: one request with every framing, text and reply, *)
(* and sequences of two and three requests that share the budgets of the   *)
(* report, are cancelled, fail or time out.                                *)
(***************************************************************************)

(***************************************************************************)
(* Assertions: values of up to two levels with equal numbers of other      *)
(* spellings and numbers beyond exact arithmetic, every target and         *)
(* expected value.                                                         *)
(***************************************************************************)
\* A regular expression that matches two texts, one that matches none, and one
\* that is too long.
MCPatterns ==
  (<<"a">> :> {<<"a">>, <<"a", "b">>}) @@ (<<"b">> :> {}) @@ (<<"a", "b", "a">> :> {<<"a">>})

MCAssertionLimits ==
  [segments |-> 2, pattern |-> 2, text |-> 3, body |-> 4, depth |-> 1, nodes |-> 3]

Texts == {<<>>, <<"a">>, <<"a", "b">>, <<"a", "b", "a">>}

Leaves ==
  {JsonNull, JsonBoolean(TRUE), JsonText(<<"a">>), JsonText(<<"a", "b">>),
   JsonNumber(1, 1, TRUE), JsonNumber(1, 10, TRUE), JsonNumber(2, 2, TRUE),
   JsonNumber(9, 9, FALSE), JsonNumber(9, 90, FALSE)}

FewLeaves == {JsonText(<<"a">>), JsonNumber(1, 1, TRUE), JsonNumber(1, 10, TRUE)}

Flat ==
  {JsonArray(items) : items \in UNION {[1..n -> FewLeaves] : n \in 0..2}}
    \cup {JsonArray(<<JsonNull, JsonNull, JsonNull>>)}
    \cup {JsonObject(members) :
            members \in UNION {[keys -> FewLeaves] : keys \in SUBSET {<<"a">>, <<"b">>}}}

Nested ==
  {JsonArray(<<inner>>) : inner \in Flat} \cup {JsonObject(<<"a">> :> inner) : inner \in Flat}

JsonValue == Leaves \cup Flat \cup Nested

Header(lower, text) == [lower |-> lower, text |-> text]

Response(body, json) ==
  [status |-> 1, duration |-> 2, body |-> body, size |-> Len(body), json |-> json,
   headers |-> <<Header(<<"a">>, <<"a">>), Header(<<"a">>, <<"b">>), Header(<<"b">>, <<>>)>>]

Assertion(target, path, expected) ==
  [target |-> target, path |-> path, operator |-> "equals", expected |-> expected]

Asked(of, assertion) == [assertion |-> [input |-> of, assertion |-> assertion]]

AskAssertion ==
  \/ \E json \in JsonValue \ Leaves, expected \in Flat \cup Nested :
       question = Asked(Response(<<"a">>, json), Assertion("json_path", <<>>, expected))
  \/ \E json \in JsonValue \cup {NotJson}, expected \in Leaves,
        path \in {<<>>, <<KeyStep(<<"a">>, -1)>>, <<KeyStep(<<"1">>, 1)>>, <<IndexStep(0)>>,
                  <<IndexStep(0), KeyStep(<<"b">>, -1)>>,
                  <<IndexStep(0), IndexStep(1), IndexStep(0)>>} :
       question = Asked(Response(<<"a">>, json), Assertion("json_path", path, expected))
  \/ \E body \in Texts \cup {<<"a", "b", "a", "b">>},
        target \in {"status", "duration_ms", "header", "body"},
        path \in {<<>>, <<"a">>, <<"b">>, <<"c">>},
        expected \in Leaves \cup {JsonText(t) : t \in Texts} :
       question = Asked(Response(body, JsonNull), Assertion(target, path, expected))

-----------------------------------------------------------------------------
(***************************************************************************)
(* CollectionRun: runs for CollectionRun: one request with every framing,  *)
(* text and reply, and sequences of two and three requests that share the  *)
(* budgets of the report, are cancelled, fail or time out.                 *)
(***************************************************************************)
MCLimits ==
  [requestBody |-> 3, responseBody |-> 4, responseHeader |-> 12,
   reportBody |-> 9, reportHeader |-> 31, url |-> 4, headerValue |-> 2]

\* Characters: one that is escaped with a backslash, one of two bytes, one that
\* is written as \u and four digits.
Letter == [raw |-> 1, json |-> 1]
Quote == [raw |-> 1, json |-> 2]
Wide == [raw |-> 2, json |-> 2]
Control == [raw |-> 1, json |-> 6]

-----------------------------------------------------------------------------
(* Requests *)

Text(size, uses) == [size |-> size, uses |-> uses]

Field(kind, number) ==
  [enabled |-> TRUE, named |-> TRUE, oneLine |-> TRUE, valid |-> TRUE,
   kind |-> kind, number |-> number, text |-> Text(1, <<>>)]

Simple ==
  [id |-> "a", methodValid |-> TRUE, method |-> "POST", urlValid |-> TRUE,
   url |-> Text(1, <<>>), body |-> Text(1, <<>>), literal |-> FALSE,
   fields |-> <<>>, variables |-> <<>>, assertions |-> <<>>]

StatusIs(status) == Assertion("status", <<>>, WholeNumber(status))
FirstIsOne == Assertion("json_path", <<IndexStep(0)>>, WholeNumber(1))

Host == Field("host", 0)
Chunked == Field("transfer", 0)

Fields ==
  {Host, Field("length", 1), Field("length", 0), Chunked, Field("trailer", 0),
   [Chunked EXCEPT !.enabled = FALSE, !.text = Text(1, <<"w">>)],
   [Field("other", 0) EXCEPT !.text = Text(1, <<"v">>)],
   [Host EXCEPT !.oneLine = FALSE]}

Framings ==
  {[Simple EXCEPT !.method = method, !.body = Text(size, <<>>), !.fields = fields] :
     method \in {"POST", "GET", "HEAD"}, size \in {0, 1},
     fields \in UNION {[1..n -> Fields] : n \in 0..2}}

Templated ==
  {[Simple EXCEPT !.url = Text(1, url), !.body = Text(1, body), !.literal = literal,
                  !.variables = variables, !.urlValid = valid] :
     url \in {<<>>, <<"v">>, <<"w">>}, body \in {<<>>, <<"v", "w">>, <<"v", "v">>},
     literal \in BOOLEAN, valid \in BOOLEAN,
     variables \in {<<>>, "v" :> 0, ("v" :> 1) @@ ("w" :> 2), "w" :> 4}}

-----------------------------------------------------------------------------
(* Replies *)

Answered ==
  [arrives |-> TRUE, late |-> FALSE, interrupted |-> "no", status |-> 200,
   duration |-> 1, json |-> JsonArray(<<JsonNumber(1, 1, TRUE)>>),
   fields |-> <<>>, declared |-> -1, encodings |-> <<>>, layers |-> <<>>,
   body |-> <<Letter, Quote>>]

Layer(encoding, size) == [encoding |-> encoding, size |-> size]

ReplyField(name, order, nameSize, value, size) ==
  [name |-> name, order |-> order, nameSize |-> nameSize, value |-> value, size |-> size]

Encoded ==
  {[Answered EXCEPT !.layers = layers, !.encodings = encodings, !.declared = declared,
                    !.status = status, !.body = body] :
     layers \in {<<>>, <<Layer("gzip", 3)>>, <<Layer("deflate", 5), Layer("gzip", 3)>>,
                 <<Layer("deflate", 3), Layer("gzip", 4)>>},
     encodings \in {<<>>, <<"gzip">>, <<"gzip", "deflate">>, <<"deflate", "gzip">>,
                    <<"identity", "gzip">>, <<"deflate", "identity", "gzip">>, <<"br">>},
     declared \in {-1, 0, 5}, status \in {200, 204},
     body \in {<<Letter, Quote>>, <<Wide, Wide, Letter>>}}

Late ==
  {[Answered EXCEPT !.late = TRUE, !.interrupted = when, !.arrives = arrives] :
     when \in {"no", "sending", "reading"}, arrives \in BOOLEAN}

LongHeader ==
  [Answered EXCEPT !.fields = <<ReplyField("n", 1, 3, 3, 7), ReplyField("m", 2, 3, 3, 6)>>]

-----------------------------------------------------------------------------
(* Runs *)

Single(request, reply) ==
  [requests |-> <<request>>, replies |-> <<reply>>, collection |-> "v" :> 2,
   runtime |-> "v" :> 1, canceledAt |-> 0, canceledWhen |-> "no"]

Singles ==
  {Single(request, Answered) : request \in Framings \cup Templated}
    \cup {Single([Simple EXCEPT !.method = method,
                                !.assertions = <<FirstIsOne>>], reply) :
            method \in {"POST", "HEAD"}, reply \in Encoded \cup Late \cup {LongHeader}}

Bodies ==
  {<<>>, <<Letter>>, <<Quote, Wide>>, <<Control, Letter>>,
   <<Letter, Letter, Letter, Letter>>}

Headers ==
  {<<>>, <<ReplyField("n", 1, 3, 3, 5)>>,
   <<ReplyField("n", 2, 3, 4, 5), ReplyField("m", 1, 4, 3, 5)>>,
   <<ReplyField("n", 1, 3, 3, 5), ReplyField("n", 2, 3, 5, 5)>>}

Replies ==
  {[Answered EXCEPT !.body = body] : body \in Bodies}
    \cup {[Answered EXCEPT !.body = <<Letter>>, !.fields = fields] : fields \in Headers}

Broken ==
  {[Answered EXCEPT !.interrupted = "reading", !.late = TRUE],
   [Answered EXCEPT !.arrives = FALSE]}

Definitions ==
  {Simple,
   [Simple EXCEPT !.body = Text(1, <<"w">>)],
   [Simple EXCEPT !.variables = "w" :> 1,
                  !.assertions = <<StatusIs(200), FirstIsOne>>]}

Numbered(definitions) ==
  [i \in DOMAIN definitions |-> [definitions[i] EXCEPT !.id = <<"a", "b", "c">>[i]]]

Cancellations ==
  {[at |-> 0, when |-> "no"], [at |-> 2, when |-> "before"], [at |-> 2, when |-> "during"]}

Runs ==
  Singles
    \cup {[requests |-> Numbered(<<Simple, Simple, Simple>>), replies |-> replies,
           collection |-> <<>>, runtime |-> <<>>, canceledAt |-> 0, canceledWhen |-> "no"] :
            replies \in [1..3 -> Replies]}
    \cup {[requests |-> Numbered(definitions), replies |-> <<first, second>>,
           collection |-> "v" :> 2, runtime |-> <<>>,
           canceledAt |-> cancel.at, canceledWhen |-> cancel.when] :
            definitions \in [1..2 -> Definitions], first \in Replies,
            second \in Broken \cup {Answered}, cancel \in Cancellations}

RunQuestions == {[run |-> run] : run \in Runs}
-----------------------------------------------------------------------------

AskedFirst ==
  \/ question \in DriftQuestions
  \/ question \in HistoryQuestions
  \/ question \in CoverageQuestions
  \/ question \in RunQuestions
  \/ AskAssertion
  \/ AskComparison
  \/ AskLint
  \/ AskDump
  \/ AskSearch
  \/ AskStream
  \/ AskBody

MCInit ==
  /\ Init
  /\ \/ question = NoQuestion
     \/ view = "runtime" /\ AskedFirst

\* Questions stand alone: nothing follows them.
MCNext == question = NoQuestion /\ Next /\ UNCHANGED question

MCSpec == MCInit /\ [][MCNext]_<<vars, question>> /\ Fairness

-----------------------------------------------------------------------------
(* Properties *)

\* What the tools compute of what they are asked: verdicts and issues of a
\* contract, what views show, and the report of a run (drift.go, environment.go, run.go).
AnalysisToolsExact == ContractToolsExact /\ DiagnosticToolsExact /\ RunReportExact
=============================================================================
