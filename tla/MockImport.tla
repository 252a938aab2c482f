----------------------------- MODULE MockImport -----------------------------
(***************************************************************************)
(* Routes of a mock server from an OpenAPI document                        *)
(* (internal/mockserver/openapi.go): the response that an operation is     *)
(* mocked with, a sample of its schema within two budgets, and the table.  *)
(*                                                                         *)
(* A schema is the name of a node of a graph.  A value is null, a leaf of  *)
(* a type with its size, a number, an object (a function of names) or an   *)
(* array (a sequence).  Numbers count in units of the smallest difference, *)
(* two of which make an integer.                                           *)
(***************************************************************************)
EXTENDS MockRoutes, Functions, TLC

CONSTANTS
  Json,            \* the media type application/json
  ImportLimits     \* routes, bodyBytes, and of a sample: items, depth,
                   \* nodes and bytes

-----------------------------------------------------------------------------
(* Values *)

Null == [type |-> "null", size |-> 4]
Object(members) == [type |-> "object", members |-> members]
EmptyObject == Object(<<>>)

\* The bytes of a name with its quotation marks and the colon.
NameBytes(name) == SizeOfText[name] + 3

RECURSIVE SampleBytes(_)
SampleBytes(value) ==
  CASE value.type = "object" ->
         2 + MapThenSumSet(LAMBDA name : NameBytes(name) + 1 + SampleBytes(value.members[name]),
                           DOMAIN value.members)
           - (IF DOMAIN value.members = {} THEN 0 ELSE 1)
    [] value.type = "array" ->
         2 + FoldLeft(LAMBDA sum, item : sum + 1 + SampleBytes(item), 0, value.items)
           - (IF value.items = <<>> THEN 0 ELSE 1)
    [] OTHER -> value.size

-----------------------------------------------------------------------------
(* The sample of a schema *)

ConsumeBytes(acc, count) ==
  IF acc.error # "" THEN acc
  ELSE IF acc.bytes + count > ImportLimits.bytes THEN [acc EXCEPT !.error = "estimated_bytes"]
  ELSE [acc EXCEPT !.bytes = @ + count]

ConsumeNode(acc) ==
  IF acc.error # "" THEN acc
  ELSE IF acc.nodes + 1 > ImportLimits.nodes THEN [acc EXCEPT !.error = "nodes"]
  ELSE [acc EXCEPT !.nodes = @ + 1]

LiteralSample(acc, value) == [ConsumeBytes(acc, SampleBytes(value)) EXCEPT !.value = value]

\* Mutant: an exclusive bound is skipped also where rounding has left it.
SkippedNumber(schema) ==
  LET step == IF schema.kind = "integer" THEN 2 ELSE 1
      up == ((schema.min + step - 1) \div step) * step
      down == (schema.max \div step) * step
  IN  IF schema.min >= 0 THEN IF schema.exclusive THEN up + step ELSE up
      ELSE IF schema.max >= 0 THEN IF schema.exclusive THEN down - step ELSE down
      ELSE 2

\* The least number that the lower bound allows; without one, the greatest that
\* the upper bound allows; without both, 1.
BoundedNumber(schema) ==
  LET step == IF schema.kind = "integer" THEN 2 ELSE 1
      up == ((schema.min + step - 1) \div step) * step
      down == (schema.max \div step) * step
  IN  IF schema.min >= 0
        THEN IF schema.exclusive /\ up <= schema.min THEN up + step ELSE up
      ELSE IF schema.max >= 0
        THEN IF schema.exclusive /\ down >= schema.max THEN down - step ELSE down
      ELSE 2

ItemCount(schema) ==
  IF schema.max = 0 THEN 0 ELSE IF schema.min > 1 THEN schema.min ELSE 1

\* schemaSampleVisitor.visit.  A schema that is being visited, or too deep, is null.
RECURSIVE Visit(_, _, _, _, _)

\* Later schemas give the members that several have; of the others, the first
\* that is not null is taken if there are no members.
Merged(sum, next) ==
  IF next.value.type = "object" THEN [sum EXCEPT !.acc = next, !.merged = next.value.members @@ @]
  ELSE [sum EXCEPT !.acc = next, !.other = IF @ = Null THEN next.value ELSE @]

AllMerged(sum) ==
  [sum.acc EXCEPT !.value = IF DOMAIN sum.merged = {} THEN sum.other ELSE Object(sum.merged)]

VisitAllOf(schemas, acc, parts, depth, active) ==
  AllMerged(FoldLeft(LAMBDA sum, part :
                       IF sum.acc.error # "" THEN sum
                       ELSE Merged(sum, Visit(schemas, sum.acc, part, depth + 1, active)),
                     [acc |-> acc, merged |-> <<>>, other |-> Null], parts))

WithMember(sum, name, next) ==
  IF next.error # "" THEN next
  ELSE [next EXCEPT !.value = Object((name :> next.value) @@ sum.value.members)]

VisitObject(schemas, acc, properties, depth, active) ==
  FoldLeft(LAMBDA sum, i :
             WithMember(sum, properties[i].name,
                        Visit(schemas,
                              ConsumeBytes(sum, NameBytes(properties[i].name) + (IF i > 1 THEN 1 ELSE 0)),
                              properties[i].schema, depth + 1, active)),
           [ConsumeBytes(acc, 2) EXCEPT !.value = EmptyObject], [i \in DOMAIN properties |-> i])

Array(items) == [type |-> "array", items |-> items]

WithItem(sum, next) ==
  IF next.error # "" THEN next
  ELSE [next EXCEPT !.value = Array(Append(sum.value.items, next.value))]

VisitItems(schemas, acc, schema, count, depth, active) ==
  FoldLeft(LAMBDA sum, i : WithItem(sum, Visit(schemas, sum, schema.items, depth + 1, active)),
           [ConsumeBytes(acc, 2 + (IF count > 1 THEN count - 1 ELSE 0)) EXCEPT !.value = Array(<<>>)],
           [i \in 1..count |-> i])

VisitArray(schemas, acc, schema, depth, active) ==
  IF schema.max # 0 /\ schema.min > ImportLimits.items THEN [acc EXCEPT !.error = "items"]
  ELSE VisitItems(schemas, acc, schema, ItemCount(schema), depth, active)

\* A schema that was counted and whose value is not given.
VisitKind(schemas, acc, schema, depth, active) ==
  CASE schema.kind = "allOf" -> VisitAllOf(schemas, acc, schema.parts, depth, active)
    [] schema.kind \in {"oneOf", "anyOf"} -> Visit(schemas, acc, schema.parts[1], depth + 1, active)
    [] schema.kind = "object" -> VisitObject(schemas, acc, schema.properties, depth, active)
    [] schema.kind = "array" -> VisitArray(schemas, acc, schema, depth, active)
    [] schema.kind \in {"integer", "number"} ->
         LiteralSample(acc, [type |-> schema.kind, size |-> 1, number |-> BoundedNumber(schema)])
    [] schema.kind = "leaf" -> LiteralSample(acc, [type |-> "leaf", size |-> schema.size])
    [] schema.kind = "null" -> LiteralSample(acc, Null)
    [] OTHER -> LiteralSample(acc, EmptyObject)

VisitCounted(schemas, acc, schema, name, depth, active) ==
  IF acc.error # "" THEN acc
  ELSE IF name \in active THEN LiteralSample(acc, Null)
  ELSE IF schema.given # Null THEN LiteralSample(acc, schema.given)
  ELSE VisitKind(schemas, acc, schema, depth, active \cup {name})

\* Mutant: a schema at the last level is null already.
VisitShallow(schemas, acc, name, depth, active) ==
  IF acc.error # "" THEN acc
  ELSE IF name = "none" \/ depth >= ImportLimits.depth THEN LiteralSample(acc, Null)
  ELSE VisitCounted(schemas, ConsumeNode(acc), schemas[name], name, depth, active)

Visit(schemas, acc, name, depth, active) ==
  IF acc.error # "" THEN acc
  ELSE IF name = "none" \/ depth > ImportLimits.depth THEN LiteralSample(acc, Null)
  ELSE VisitCounted(schemas, ConsumeNode(acc), schemas[name], name, depth, active)

SampleFromSchema(schemas, name) ==
  Visit(schemas, [error |-> "", nodes |-> 0, bytes |-> 0, value |-> Null], name, 0, {})

\* Schema.VisitJSON of kin-openapi: whether a value satisfies a schema.
RECURSIVE Satisfies(_, _, _)
Satisfies(schemas, name, value) ==
  LET schema == schemas[name]
      fitting == {i \in DOMAIN schema.parts : Satisfies(schemas, schema.parts[i], value)}
  IN  CASE schema.kind = "any" -> TRUE
        [] schema.kind = "allOf" -> fitting = DOMAIN schema.parts
        [] schema.kind = "oneOf" -> Cardinality(fitting) = 1
        [] schema.kind = "anyOf" -> fitting # {}
        [] schema.kind = "object" ->
             /\ value.type = "object"
             /\ schema.required \subseteq DOMAIN value.members
             /\ \A property \in ToSet(schema.properties) :
                  property.name \in DOMAIN value.members =>
                    Satisfies(schemas, property.schema, value.members[property.name])
        [] schema.kind = "array" ->
             /\ value.type = "array"
             /\ Len(value.items) >= schema.min
             /\ schema.max >= 0 => Len(value.items) <= schema.max
             /\ schema.items # "none" =>
                  \A item \in ToSet(value.items) : Satisfies(schemas, schema.items, item)
        [] schema.kind \in {"integer", "number"} ->
             /\ value.type \in {"integer", schema.kind}
             /\ schema.min >= 0 => IF schema.exclusive THEN value.number > schema.min
                                   ELSE value.number >= schema.min
             /\ schema.max >= 0 => IF schema.exclusive THEN value.number < schema.max
                                   ELSE value.number <= schema.max
        [] OTHER -> value.type = schema.kind

-----------------------------------------------------------------------------
(* The response of an operation *)

\* selectResponse: a status from 200 to 599, a pattern such as 2XX, or default.
ResponsePriority(response) ==
  CASE response.kind = "status" -> IF response.status \in 200..299 THEN 0 ELSE 2
    [] response.kind = "pattern" -> IF response.status = 200 THEN 1 ELSE 3
    [] response.kind = "default" -> 4

\* Of two with the same priority and status, the one whose key comes first; keys
\* are numbered in their order.
Candidates(responses) ==
  SortSeq(SelectSeq(responses, LAMBDA r : r.kind # "other"
                                          /\ (r.kind = "status" => r.status \in 200..599)),
          LAMBDA a, b :
            IF ResponsePriority(a) # ResponsePriority(b)
              THEN ResponsePriority(a) < ResponsePriority(b)
            ELSE IF a.status # b.status THEN a.status < b.status
            ELSE a.key < b.key)

NoContent == <<>>

Chosen(candidates) ==
  IF candidates = <<>> THEN [status |-> 200, content |-> NoContent]
  ELSE [status |-> IF candidates[1].kind = "default" THEN 200 ELSE candidates[1].status,
        content |-> candidates[1].content]

SelectResponse(responses) == Chosen(Candidates(responses))

\* application/json, else the first that is JSON, else the first.
PreferredMediaType(content) ==
  (SelectSeq(content, LAMBDA media : media.key = Json)
     \o SelectSeq(content, LAMBDA media : media.json) \o content)[1]

Filled(value) == IF value = Null THEN EmptyObject ELSE value

NoBody(error) == [error |-> error, size |-> 0, value |-> Null]
BodyOf(value) == [error |-> "", size |-> SampleBytes(value), value |-> value]

GeneratedBody(schemas, schema, sample) ==
  IF sample.error # "" THEN NoBody(sample.error)
  ELSE IF sample.value # Null /\ ~Satisfies(schemas, schema, sample.value) THEN NoBody("unsatisfied")
  ELSE BodyOf(Filled(sample.value))

MediaBody(schemas, media) ==
  IF media.examples # <<>> THEN BodyOf(media.examples[1])
  ELSE IF media.schema = "none" THEN BodyOf(EmptyObject)
  ELSE GeneratedBody(schemas, media.schema, SampleFromSchema(schemas, media.schema))

\* responseBody: the value sent, or none, or an error.
ResponseBody(schemas, selected) ==
  IF selected.status \in {204, 205, 304} THEN NoBody("")
  ELSE IF selected.content = NoContent THEN BodyOf(EmptyObject)
  ELSE MediaBody(schemas, PreferredMediaType(selected.content))

-----------------------------------------------------------------------------
(* The import *)

\* Far below the limits of a table.
ContentType == [name |-> "Content-Type", valid |-> TRUE, managed |-> FALSE, size |-> 1]

RouteOf(endpoint, status, body) ==
  [id |-> endpoint.method \o " " \o ToString(endpoint.path), path |-> endpoint.path,
   method |-> endpoint.method, methodValid |-> TRUE, status |-> status, delay |-> 0,
   bodySize |-> body.size, bodyValid |-> TRUE, headers |-> <<ContentType>>, enabled |-> TRUE]

WithRoute(acc, route, body) ==
  IF body.error # "" THEN [acc EXCEPT !.error = body.error]
  ELSE IF acc.bytes + body.size > ImportLimits.bodyBytes THEN [acc EXCEPT !.error = "body_bytes"]
  ELSE [acc EXCEPT !.routes = Append(@, route), !.bodies = Append(@, body.value),
                   !.bytes = @ + body.size]

RespondWith(acc, endpoint, selected, body) ==
  WithRoute(acc, RouteOf(endpoint, selected.status, body), body)

AddResponse(schemas, acc, endpoint, selected) ==
  RespondWith(acc, endpoint, selected, ResponseBody(schemas, selected))

AddRoute(schemas, acc, endpoint) ==
  IF acc.error # "" THEN acc
  ELSE AddResponse(schemas, acc, endpoint, SelectResponse(endpoint.responses))

NothingImported == [error |-> "", routes |-> <<>>, bodies |-> <<>>, bytes |-> 0]

\* The table is validated as one that was written by hand.
Validated(built) ==
  IF built.error = "" /\ ~TableAccepted(built.routes) THEN [built EXCEPT !.error = "invalid_routes"]
  ELSE built

\* importOpenAPIEndpointsContext.  Endpoints come in the order of path and method.
ImportedRoutes(document) ==
  IF Len(document.endpoints) > ImportLimits.routes THEN [NothingImported EXCEPT !.error = "routes"]
  ELSE Validated(FoldLeft(LAMBDA acc, endpoint : AddRoute(document.schemas, acc, endpoint),
                          NothingImported, document.endpoints))

-----------------------------------------------------------------------------
(* Properties *)

\* Schemas reached from one.
RECURSIVE Reached(_, _)
Reached(schemas, names) ==
  LET next == names \cup UNION {schemas[n].refs : n \in names}
  IN  IF next = names THEN names ELSE Reached(schemas, next)

Kinds(schemas, name) == {schemas[n].kind : n \in Reached(schemas, {name})}

\* A schema that some value satisfies and that no choice or cycle complicates.
Simple(schemas, name) ==
  LET names == Reached(schemas, {name})
      \* An integer between the bounds, or a number.
      Inhabited(schema) ==
        schema.kind \in {"integer", "number"} /\ schema.max >= 0 =>
          \E n \in 0..schema.max :
            /\ schema.kind = "integer" => n % 2 = 0
            /\ IF schema.exclusive THEN n > schema.min /\ n < schema.max
               ELSE n >= schema.min
  IN  \A n \in names :
        /\ schemas[n].kind \notin {"allOf", "oneOf", "anyOf"}
        /\ schemas[n].given = Null
        /\ n \notin Reached(schemas, schemas[n].refs)
        /\ schemas[n].required \subseteq {p.name : p \in ToSet(schemas[n].properties)}
        /\ schemas[n].kind = "array" =>
             /\ schemas[n].items # "none"
             /\ schemas[n].max >= 0 => schemas[n].min <= schemas[n].max
        /\ Inhabited(schemas[n])

\* The levels of schemas below one without cycles, and whether a sample has them all.
RECURSIVE Height(_, _)
Height(schemas, name) == Max({0} \cup {1 + Height(schemas, n) : n \in schemas[name].refs})

SimpleAndShallow(schemas, name) ==
  Simple(schemas, name) /\ Height(schemas, name) <= ImportLimits.depth

IsGenerated(selected) ==
  /\ selected.content # NoContent /\ selected.status \notin {204, 205, 304}
  /\ PreferredMediaType(selected.content).examples = <<>>
  /\ PreferredMediaType(selected.content).schema # "none"

\* The schemas that the response of an operation is generated from: one or none.
GeneratedFrom(endpoint) ==
  {PreferredMediaType(selected.content).schema :
     selected \in {s \in {SelectResponse(endpoint.responses)} : IsGenerated(s)}}

OwnAnswer(routes, i, method) ==
  \E path \in ProbePaths : \E answer \in {Serve(routes, FALSE, Probe(method, path))} :
    answer.id = routes[i].id /\ answer.status = routes[i].status

SampleIsCounted(schemas, name, sample) ==
  /\ sample.nodes <= ImportLimits.nodes /\ sample.bytes <= ImportLimits.bytes
  /\ (sample.error = "" /\ "allOf" \notin Kinds(schemas, name)) =>
       SampleBytes(sample.value) = sample.bytes

\* The bodies that are too large for a table, and the table without its bodies.
TooLarge(built) ==
  {i \in DOMAIN built.routes : built.routes[i].bodySize > TableLimits.body}
WithoutBodies(routes) == [i \in DOMAIN routes |-> [routes[i] EXCEPT !.bodySize = 0]]

\* A table that was built is refused for its paths or for a body that was given or
\* merged: one that is within the budget of all bodies may be too large for a route.
RefusalExplained(schemas, endpoints, built) ==
  /\ built.error = "invalid_routes" =>
       TooLarge(built) # {} \/ ~TableAccepted(WithoutBodies(built.routes))
  /\ \A i \in TooLarge(built) : \A name \in GeneratedFrom(endpoints[i]) :
       "allOf" \in Kinds(schemas, name)

\* An import is all or nothing: every operation gets its route, which answers a
\* request of its own with the status of the response that no other is preferred
\* to.  The table that is built is refused for its paths, or for an example that
\* fits the budget of the import and no route; for a body that was generated only
\* if parts of it were merged.  A body that was generated satisfies its schema or
\* stands for null; it is as large as was counted, unless parts of it were merged
\* away; and a simple schema is refused only for a limit, unless it has more
\* levels than a sample, which need not satisfy it then (openapi.go:170, :311, :452).
ImportExact ==
  Asks("import") =>
    \A schemas \in {question.import.schemas}, endpoints \in {question.import.endpoints},
       built \in {ImportedRoutes(question.import)} :
      /\ built.error = "" =>
           /\ Len(built.routes) = Len(endpoints)
           /\ \A i \in DOMAIN endpoints :
                /\ OwnAnswer(built.routes, i, endpoints[i].method)
                /\ \A r \in ToSet(Candidates(endpoints[i].responses)) :
                     ResponsePriority(r) = 0 => built.routes[i].status \in 200..299
                /\ \A name \in GeneratedFrom(endpoints[i]) :
                     \/ Satisfies(schemas, name, built.bodies[i])
                     \/ built.bodies[i] = EmptyObject
      /\ \A i \in DOMAIN endpoints : \A name \in GeneratedFrom(endpoints[i]) :
           SampleIsCounted(schemas, name, SampleFromSchema(schemas, name))
      /\ RefusalExplained(schemas, endpoints, built)
      /\ (\A i \in DOMAIN endpoints :
            \A name \in GeneratedFrom(endpoints[i]) : SimpleAndShallow(schemas, name)) =>
           built.error # "unsatisfied"
=============================================================================
