---------------------------- MODULE MCMockServer ----------------------------
(***************************************************************************)
(* The mock server on a small instance, see MCMockServer.cfg, and what it  *)
(* computes of tables, hits and documents, asked in states of their own.   *)
(***************************************************************************)
EXTENDS MockServer, MockRoutes, MockImport, TLC

-----------------------------------------------------------------------------
(***************************************************************************)
(* MockRoutes: tables of up to three routes over templates that overlap,   *)
(* with routes that are refused among them, and histories of hits that     *)
(* wrap the ring.                                                          *)
(***************************************************************************)
Literal(text) == [kind |-> "literal", text |-> text]
Parameter(name) == [kind |-> "parameter", text |-> name]
Malformed == [kind |-> "malformed", text |-> "{"]

\* In the order of /, /a, /a/{x}, /bb, /bb/{x}, /{, /{x}, /{x}/a, /{x}/{x},
\* /{x}/{y}, /{y}/a.
MCPathTexts ==
  <<<<Literal("")>>, <<Literal("a")>>, <<Literal("a"), Parameter("x")>>,
    <<Literal("bb")>>, <<Literal("bb"), Parameter("x")>>, <<Malformed>>,
    <<Parameter("x")>>, <<Parameter("x"), Literal("a")>>,
    <<Parameter("x"), Parameter("x")>>, <<Parameter("x"), Parameter("y")>>,
    <<Parameter("y"), Literal("a")>>>>

MCSizeOfText == ("a" :> 1) @@ ("bb" :> 2)

MCTableLimits ==
  [routes |-> 3, body |-> 18, tableBodies |-> 24, headers |-> 1, headerBytes |-> 4, delay |-> 1]

Routed(path, method, enabled) ==
  [id |-> "", path |-> path, method |-> method, methodValid |-> TRUE, status |-> 200,
   delay |-> 0, bodySize |-> 0, bodyValid |-> TRUE, headers |-> <<>>, enabled |-> enabled]

Identified(table) ==
  [i \in DOMAIN table |-> [table[i] EXCEPT !.id = <<"r1", "r2", "r3", "r4">>[i]]]

Plain == {Routed(p, "GET", TRUE) : p \in DOMAIN MCPathTexts}
Varied == Plain \cup {Routed(p, "POST", e) : p \in {2, 3, 7, 8, 11}, e \in BOOLEAN}

Header == [name |-> "n", valid |-> TRUE, managed |-> FALSE, size |-> 3]

Odd ==
  LET base == Routed(2, "GET", TRUE)
  IN  {[base EXCEPT !.status = 199], [base EXCEPT !.status = 599, !.bodySize = 18],
       [base EXCEPT !.delay = 2], [base EXCEPT !.bodySize = 19], [base EXCEPT !.bodyValid = FALSE],
       [base EXCEPT !.headers = <<Header>>], [base EXCEPT !.headers = <<Header, Header>>],
       [base EXCEPT !.headers = <<[Header EXCEPT !.managed = TRUE]>>]}

Tables ==
  {<<>>} \cup {Identified(t) : t \in UNION {[1..n -> Varied] : n \in 1..2} \cup [1..3 -> Plain]}
    \cup {Identified(<<odd, Routed(7, "GET", TRUE)>>) : odd \in Odd}
    \cup {<<[odd EXCEPT !.id = "r1"], [Routed(7, "GET", TRUE) EXCEPT !.id = "r1"]>> : odd \in Odd}

TableQuestions == {[table |-> table] : table \in Tables}

HitQuestions ==
  {[hits |-> events] : events \in UNION {[1..n -> {"h1", "h2", "clear"}] : n \in 0..6}}

-----------------------------------------------------------------------------
(***************************************************************************)
(* MockImport: documents of one operation over graphs of up to three       *)
(* schemas and over chains with one level more than a sample, and of two   *)
(* operations with all their responses, whose examples may be too large    *)
(* for a route, for the import or for neither.                             *)
(***************************************************************************)
MCImportLimits ==
  [routes |-> 2, bodyBytes |-> 24, items |-> 3, depth |-> 3, nodes |-> 6, bytes |-> 18]

Schema == [kind |-> "any", given |-> Null, parts |-> <<>>, properties |-> <<>>,
           required |-> {}, items |-> "none", min |-> 0, max |-> -1,
           exclusive |-> FALSE, size |-> 4, refs |-> {}]

Leaf == [Schema EXCEPT !.kind = "leaf"]
Text == [type |-> "leaf", size |-> 3]
Property(name, schema) == [name |-> name, schema |-> schema]

Numbers ==
  {[Schema EXCEPT !.kind = kind, !.min = min, !.max = max, !.exclusive = e] :
     kind \in {"integer", "number"}, min \in -1..3, max \in -1..4, e \in BOOLEAN}

\* Schemas that refer to others, which follow them in a composition.
Over(a, b) ==
  {[Schema EXCEPT !.kind = kind, !.parts = <<a, b>>, !.refs = {a, b}] :
     kind \in {"allOf", "oneOf", "anyOf"}}

\* A composition of an empty object alone gives null, which is larger.
Composed(a) == [Schema EXCEPT !.kind = "allOf", !.parts = <<a>>, !.refs = {a}]

Objects(a, b) ==
  {[Schema EXCEPT !.kind = "object", !.properties = <<Property("a", a), Property("bb", b)>>,
                  !.required = r, !.refs = {a, b}] : r \in {{}, {"a"}, {"other"}}}

Arrays(a) ==
  {[Schema EXCEPT !.kind = "array", !.items = a, !.min = min, !.max = max, !.refs = {a}] :
     min \in {0, 2, 4}, max \in {-1, 0, 2}}

Plainest ==
  {Schema, Leaf, [Leaf EXCEPT !.given = Text], [Schema EXCEPT !.kind = "null"],
   [Schema EXCEPT !.kind = "integer", !.min = 1, !.exclusive = TRUE],
   [Schema EXCEPT !.kind = "object"], [Schema EXCEPT !.kind = "array"],
   [Schema EXCEPT !.kind = "object", !.properties = <<Property("a", "s1")>>, !.refs = {"s1"}]}

Graphs ==
  {[s1 |-> s1, s2 |-> s2, s3 |-> s3] :
     s1 \in Over("s2", "s3") \cup Objects("s2", "s3") \cup Arrays("s2"),
     s2 \in Over("s3", "s3") \cup Objects("s3", "s3") \cup Arrays("s3") \cup Plainest,
     s3 \in Plainest}
  \cup {[s1 |-> s1, s2 |-> Composed("s3"), s3 |-> s3] :
           s1 \in Objects("s2", "s2") \cup Objects("s2", "s3") \cup Arrays("s2"), s3 \in Plainest}
  \cup {[s1 |-> number, s2 |-> Leaf, s3 |-> Leaf] : number \in Numbers}

\* Objects and arrays in each other, down to one of the plainest: five levels.
Link(kind, next) ==
  IF kind = "array" THEN [Schema EXCEPT !.kind = kind, !.items = next, !.refs = {next}]
  ELSE [Schema EXCEPT !.kind = kind, !.properties = <<Property("a", next)>>, !.refs = {next}]

Chains ==
  {[s1 |-> Link(kinds[1], "s2"), s2 |-> Link(kinds[2], "s3"), s3 |-> Link(kinds[3], "s4"),
    s4 |-> s4, s5 |-> s5] :
     kinds \in [1..3 -> {"array", "object"}], s5 \in Plainest,
     s4 \in {Link(kind, "s5") : kind \in {"array", "object"}} \cup Plainest}

Media(key, json, examples) == [key |-> key, json |-> json, examples |-> examples, schema |-> "s1"]

ResponseOf(kind, status, content) ==
  [key |-> status, kind |-> kind, status |-> status, content |-> content]

Plainly == <<Media("application/json", TRUE, <<>>)>>

\* As large as a route may be at most, larger, as large as an import may be at most.
Example(size) == <<Media("application/json", TRUE, <<[type |-> "leaf", size |-> size]>>)>>

Operation(path, method, responses) == [path |-> path, method |-> method, responses |-> responses]

Offered ==
  {ResponseOf("status", 200, Plainly), ResponseOf("status", 204, Plainly),
   ResponseOf("status", 404, Plainly), ResponseOf("pattern", 200, NoContent),
   ResponseOf("pattern", 400, Plainly), ResponseOf("default", 0, Plainly),
   ResponseOf("other", 0, Plainly),
   ResponseOf("status", 201, <<Media("text/plain", FALSE, <<Text>>), Media("a/b+json", TRUE, <<>>)>>)}

AskImport ==
  \/ \E graph \in Graphs \cup Chains :
       question = [import |-> [schemas |-> graph,
                               endpoints |-> <<Operation(2, "GET", <<ResponseOf("status", 200, Plainly)>>)>>]]
  \/ \E a, b \in Offered, p \in {2, 7}, q \in {7, 8, 9}, size \in {4, 13} :
       question = [import |-> [schemas |-> [s1 |-> [Leaf EXCEPT !.size = size], s2 |-> Leaf, s3 |-> Leaf],
                               endpoints |-> <<Operation(p, "GET", <<a, b>>), Operation(q, "POST", <<b>>)>>]]
  \/ \E p, q \in {2, 8}, size \in {1, 18, 19, 20, 24, 25} :
       question = [import |-> [schemas |-> [s1 |-> Leaf, s2 |-> Leaf, s3 |-> Leaf],
                               endpoints |-> <<Operation(p, "GET", <<ResponseOf("status", 200, Example(size))>>),
                                               Operation(q, "POST", <<ResponseOf("status", 200, Plainly)>>)>>]]
  \/ \E a \in Offered :
       question = [import |-> [schemas |-> [s1 |-> Leaf, s2 |-> Leaf, s3 |-> Leaf],
                               endpoints |-> [i \in 1..3 |-> Operation(i, "GET", <<a>>)]]]

-----------------------------------------------------------------------------
(* The instance *)

AskedFirst ==
  \/ question \in TableQuestions
  \/ question \in HitQuestions
  \/ AskImport

MCInit == Init /\ (question = NoQuestion \/ AskedFirst)

\* Questions stand alone: nothing follows them.
MCNext == question = NoQuestion /\ Next /\ UNCHANGED question

MCSpec == MCInit /\ [][MCNext]_<<vars, question>>
=============================================================================
