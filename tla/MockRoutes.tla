----------------------------- MODULE MockRoutes -----------------------------
(***************************************************************************)
(* How a mock server answers (internal/mockserver/server.go): the table of *)
(* routes it accepts, the route that a request is given, what is written,  *)
(* and the ring of hits.                                                   *)
(*                                                                         *)
(* A path is the sequence of what is between its slashes, the first one    *)
(* left out.  A route names its template by its place in PathTexts, which  *)
(* is in the order of the texts.  A segment of a template is a literal, a  *)
(* parameter or malformed; sizes are bytes.                                *)
(***************************************************************************)
EXTENDS Integers, Sequences, FiniteSets, SequencesExt, FiniteSetsExt, Question

CONSTANTS
  PathTexts,      \* the path templates, in the order of their texts
  SizeOfText,     \* the size of a literal segment
  Preflight,      \* the method OPTIONS, which asks for permission
  TableLimits,    \* MaxRoutes, MaxRouteBodyBytes, MaxRouteTableBodyBytes,
                  \* MaxRouteHeaders, MaxRouteHeaderBytes, MaxDelayMS
  HitLimit        \* the number of hits that are kept

-----------------------------------------------------------------------------
(* The table *)

SegmentsOf(route) == PathTexts[route.path]

IsLiteral(segment) == segment.kind = "literal" /\ segment.text # ""

\* The places of the parameters and of the literals.
Parameters(segments) == {i \in DOMAIN segments : segments[i].kind = "parameter"}
Literals(segments) == {i \in DOMAIN segments : IsLiteral(segments[i])}

WrittenTexts == UNION {{PathTexts[p][i].text : i \in DOMAIN PathTexts[p]} : p \in DOMAIN PathTexts}
Segments == [kind : {"literal", "parameter", "malformed"}, text : WrittenTexts]

\* "else" is a text that no template has: the properties ask for it.
ASSUME RoutesAssumption ==
  /\ HitLimit \in Nat \ {0}
  /\ PathTexts \in Seq(Seq(Segments)) /\ "else" \notin WrittenTexts
  /\ \A p \in DOMAIN PathTexts : \A i \in Literals(PathTexts[p]) :
       SizeOfText[PathTexts[p][i].text] \in Nat

\* compilePath: parameters are whole segments with names of their own.
PathCompiles(segments) ==
  /\ \A i \in DOMAIN segments : segments[i].kind # "malformed"
  /\ \A i, j \in Parameters(segments) : i # j => segments[i].text # segments[j].text

HeadersAccepted(headers) ==
  /\ Len(headers) <= TableLimits.headers
  /\ \A i \in DOMAIN headers : headers[i].valid /\ ~headers[i].managed
  /\ \A i, j \in DOMAIN headers : i # j => headers[i].name # headers[j].name
  /\ FoldLeft(LAMBDA sum, header : sum + header.size, 0, headers) <= TableLimits.headerBytes

RouteAccepted(route) ==
  /\ route.id # "" /\ route.methodValid
  /\ route.status \in 200..599
  /\ route.delay \in 0..TableLimits.delay
  /\ route.bodySize <= TableLimits.body /\ route.bodyValid
  /\ HeadersAccepted(route.headers)
  /\ PathCompiles(SegmentsOf(route))

\* Mutant: templates that differ in the names of their parameters are two.
TemplateKeyWithNames(segments) == segments

\* routeTemplateKey: the names of parameters do not tell templates apart.
TemplateKey(segments) ==
  [i \in DOMAIN segments |->
     IF segments[i].kind = "parameter" THEN <<>> ELSE <<segments[i].text>>]

\* compileRoutes: a table is taken as a whole or not at all.
TableAccepted(table) ==
  LET bodies == FoldLeft(LAMBDA sum, route : sum + route.bodySize, 0, table)
      Key(route) == <<route.method, TemplateKey(SegmentsOf(route))>>
  IN  /\ Len(table) <= TableLimits.routes
      /\ \A i \in DOMAIN table : RouteAccepted(table[i])
      /\ bodies <= TableLimits.tableBodies
      /\ \A i, j \in DOMAIN table : i # j =>
           table[i].id # table[j].id /\ Key(table[i]) # Key(table[j])

-----------------------------------------------------------------------------
(* The route of a request *)

\* The compiled expression: a parameter takes a segment that is not empty.
PathMatches(segments, path) ==
  /\ Len(segments) = Len(path)
  /\ \A i \in DOMAIN segments :
       IF segments[i].kind = "parameter" THEN path[i] # "" ELSE path[i] = segments[i].text

LiteralBytes(segments) ==
  FoldLeft(LAMBDA sum, s : IF IsLiteral(s) THEN sum + SizeOfText[s.text] ELSE sum, 0, segments)

\* Literal segments, their bytes, fewer parameters, then the order of the texts.
MoreSpecificSegments(mine, other, tie) ==
  LET literals == Cardinality(Literals(mine)) - Cardinality(Literals(other))
      bytes == LiteralBytes(mine) - LiteralBytes(other)
      parameters == Cardinality(Parameters(mine)) - Cardinality(Parameters(other))
  IN  IF literals # 0 THEN literals > 0
      ELSE IF bytes # 0 THEN bytes > 0
      ELSE IF parameters # 0 THEN parameters < 0
      ELSE tie

MoreSpecific(candidate, current) ==
  MoreSpecificSegments(SegmentsOf(candidate), SegmentsOf(current), candidate.path < current.path)

\* The best route so far, as the place of one or 0, and the other methods.
Consider(table, request, acc, i) ==
  LET route == table[i]
  IN  IF ~route.enabled \/ ~PathMatches(SegmentsOf(route), request.path) THEN acc
      ELSE IF route.method # request.method
        THEN [acc EXCEPT !.allowed = @ \cup {route.method}]
      ELSE IF acc.best = 0 \/ MoreSpecific(route, table[acc.best])
        THEN [acc EXCEPT !.best = i]
      ELSE acc

BestAlone(found) == IF found.best # 0 THEN [found EXCEPT !.allowed = {}] ELSE found

Match(table, request) ==
  BestAlone(FoldLeft(LAMBDA acc, i : Consider(table, request, acc, i),
                     [best |-> 0, allowed |-> {}], [i \in DOMAIN table |-> i]))

\* The values of the parameters of a route for a path.
PathParams(segments, path) ==
  {[name |-> segments[i].text, value |-> path[i]] :
     i \in Parameters(segments)}

-----------------------------------------------------------------------------
(* The answer.  A client that goes away during the delay is answered with  *)
(* nothing and kept as a hit with a status of its own.                     *)

ClientClosedRequest == 499

ResponseAllowsBody(method, status) == method # "HEAD" /\ status \notin {204, 205, 304}

Unmatched(status, body, allowed) ==
  [status |-> status, body |-> body, allowed |-> allowed, written |-> TRUE,
   matched |-> FALSE, id |-> "", params |-> {}]

FromRoute(route, request) ==
  LET gone == route.delay > 0 /\ request.leaves
  IN  [status |-> IF gone THEN ClientClosedRequest ELSE route.status,
       body |-> IF gone \/ ~ResponseAllowsBody(request.method, route.status) THEN "none"
                ELSE IF route.bodySize = 0 THEN "{}" ELSE "route",
       allowed |-> {}, written |-> ~gone, matched |-> TRUE, id |-> route.id,
       params |-> PathParams(SegmentsOf(route), request.path)]

Dispatch(table, request, found) ==
  IF found.best # 0 THEN FromRoute(table[found.best], request)
  ELSE IF found.allowed # {} THEN Unmatched(405, "error", found.allowed)
  ELSE Unmatched(404, "error", {})

\* ServeHTTP
Serve(table, cors, request) ==
  IF cors /\ request.method = Preflight /\ request.asks THEN Unmatched(204, "none", {})
  ELSE Dispatch(table, request, Match(table, request))

-----------------------------------------------------------------------------
(* The ring of hits *)

NewHitRing == [values |-> <<>>, next |-> 0, total |-> 0]

\* Mutant: clearing keeps the place of the oldest hit.
ClearKeepingPlace(ring) == [ring EXCEPT !.values = <<>>, !.total = 0]

ClearRing(ring) == NewHitRing

AddHit(ring, hit) ==
  LET numbered == [id |-> ring.total + 1, hit |-> hit]
  IN  IF Len(ring.values) < HitLimit
        THEN [ring EXCEPT !.values = Append(@, numbered), !.total = @ + 1]
      ELSE [values |-> [ring.values EXCEPT ![ring.next + 1] = numbered],
            next |-> (ring.next + 1) % HitLimit, total |-> ring.total + 1]

ListHits(ring) ==
  IF Len(ring.values) < HitLimit THEN ring.values
  ELSE SubSeq(ring.values, ring.next + 1, Len(ring.values)) \o SubSeq(ring.values, 1, ring.next)

-----------------------------------------------------------------------------
(* Properties *)

\* The requests that tell the templates apart: with their literals, with
\* something else and with nothing between two slashes.
ProbePaths ==
  LET texts == {"", "else"} \cup
        UNION {{PathTexts[p][i].text : i \in Literals(PathTexts[p])} : p \in DOMAIN PathTexts}
  IN  UNION {[1..n -> texts] : n \in {Len(PathTexts[p]) : p \in DOMAIN PathTexts}}

Probe(method, path) == [method |-> method, path |-> path, asks |-> FALSE, leaves |-> FALSE]

AnswerTo(table, method, path) == Serve(table, FALSE, Probe(method, path))

\* The path that a template has with the parameters of an answer put back.
PutBack(segments, params) ==
  [n \in DOMAIN segments |->
     IF segments[n].kind = "literal" THEN segments[n].text
     ELSE (CHOOSE p \in params : p.name = segments[n].text).value]

AnswerExplained(table, method, path, answer, others) ==
  IF answer.matched
    THEN \E i \in DOMAIN table :
           /\ table[i].enabled /\ table[i].id = answer.id /\ table[i].method = method
           /\ path = PutBack(SegmentsOf(table[i]), answer.params)
  ELSE /\ answer.allowed = others
       /\ answer.status = (IF others = {} THEN 404 ELSE 405)

\* An accepted table is a function of what it contains: the answer does not
\* depend on the order of the routes; 405 names exactly the methods that would be
\* answered on that path, and 404 means there are none; an answer comes from an
\* enabled route whose template, with the parameters put back, is the path; and
\* every enabled route answers some request: none is shadowed by the others
\* (server.go:345, match).
RoutesExact ==
  Asks("table") =>
    \A table \in {question.table} : TableAccepted(table) =>
      /\ \A methods \in {{table[i].method : i \in DOMAIN table}} :
           \A path \in ProbePaths, method \in methods :
             \A answer \in {AnswerTo(table, method, path)} :
               /\ answer = AnswerTo(Reverse(table), method, path)
               /\ AnswerExplained(table, method, path, answer,
                                  {m \in methods : AnswerTo(table, m, path).matched})
      /\ \A i \in DOMAIN table :
           table[i].enabled =>
             \E path \in ProbePaths : AnswerTo(table, table[i].method, path).id = table[i].id

\* The hits that are listed are the last ones since the log was cleared, oldest
\* first and numbered without a gap up to the total, also when the ring has
\* wrapped before it was cleared (server.go:700, hitRing).
HitsExact ==
  Asks("hits") =>
    LET events == question.hits
        Step(ring, event) == IF event = "clear" THEN ClearRing(ring) ELSE AddHit(ring, event)
        ring == FoldLeft(Step, NewHitRing, events)
        cleared == Max({0} \cup {i \in DOMAIN events : events[i] = "clear"})
        since == SubSeq(events, cleared + 1, Len(events))
        kept == IF Len(since) < HitLimit THEN Len(since) ELSE HitLimit
    IN  /\ ring.total = Len(since)
        /\ ListHits(ring) =
             [n \in 1..kept |-> [id |-> Len(since) - kept + n,
                                 hit |-> since[Len(since) - kept + n]]]

\* What a window sees of the server's answers: the answers themselves, and the
\* hits that are listed of them (server.go:345, server.go:700).
AnswersExact == RoutesExact /\ HitsExact
=============================================================================
