-------------------------- MODULE EndpointCoverage --------------------------
(***************************************************************************)
(* The endpoint coverage: the bounded record of the calls that were        *)
(* observed (internal/canbridge/tools_bridge.go) and its comparison with   *)
(* the known endpoints (internal/diagnostics/coverage.go).                 *)
(*                                                                         *)
(* A path is the sequence of its segments.  A known endpoint is a number:  *)
(* its place in Templates, which are in the order of their texts, so that  *)
(* "<" between endpoints of one method is the order of their paths.        *)
(***************************************************************************)
EXTENDS Integers, Sequences, FiniteSets, SequencesExt, FiniteSetsExt, Functions, TLC,
        Question

CONSTANTS
  Templates,         \* the known endpoints: method and segments
  AnySegment,        \* the segments that stand for one segment: {id}, :id, *
  AnyRest,           \* the segments that stand for the rest: **, {*path}
  Capacity,          \* maxObservedCoverageEntries
  MaxEvaluations,    \* maxCoverageMatchEvaluations
  MaxPaths,          \* maxObservedPathsPerEndpoint
  MaxCount           \* the largest int

ASSUME CoverageAssumption ==
  /\ Capacity \in Nat \ {0} /\ MaxPaths \in Nat \ {0}
  /\ MaxEvaluations \in Nat /\ MaxCount \in Nat
  /\ Templates \in Seq(ToSet(Templates))
  /\ \A t \in DOMAIN Templates : Templates[t].segments \in Seq(ToSet(Templates[t].segments))

-----------------------------------------------------------------------------
(* The record of observed calls: their counts, and a ring of their keys in *)
(* the order in which they came.                                           *)

ResetEndpointCoverage == [observed |-> <<>>, order |-> <<>>, next |-> 1]

WithCount(counts, key, count) ==
  [k \in DOMAIN counts \cup {key} |-> IF k = key THEN count ELSE counts[k]]

\* Mutant: the place of the oldest key does not move on.
InsertInPlace(ring, key) ==
  IF Len(ring.order) < Capacity
    THEN [ring EXCEPT !.order = Append(@, key),
                      !.observed = WithCount(@, key, 1)]
    ELSE LET evicted == ring.order[ring.next]
         IN  [observed |-> WithCount(Restrict(ring.observed, DOMAIN ring.observed \ {evicted}), key, 1),
              order |-> [ring.order EXCEPT ![ring.next] = key],
              next |-> ring.next]

\* A key that is new takes the place of the oldest one when the ring is full.
Insert(ring, key) ==
  IF Len(ring.order) < Capacity
    THEN [ring EXCEPT !.order = Append(@, key),
                      !.observed = WithCount(@, key, 1)]
    ELSE LET evicted == ring.order[ring.next]
         IN  [observed |-> WithCount(Restrict(ring.observed, DOMAIN ring.observed \ {evicted}), key, 1),
              order |-> [ring.order EXCEPT ![ring.next] = key],
              next |-> (ring.next % Capacity) + 1]

RecordObservedCall(ring, key) ==
  IF key \in DOMAIN ring.observed THEN [ring EXCEPT !.observed[key] = @ + 1]
  ELSE Insert(ring, key)

Observe(ring, event) ==
  IF event = "reset" THEN ResetEndpointCoverage ELSE RecordObservedCall(ring, event)

Recorded(history) == FoldLeft(Observe, ResetEndpointCoverage, history)

-----------------------------------------------------------------------------
(* The comparison *)

SegmentMatches(segment, actual) == segment \in AnySegment \/ segment = actual

\* The first segment for the rest decides; no other may follow it.
RouteMatches(template, actual) ==
  LET rests == {i \in DOMAIN template : template[i] \in AnyRest}
      fixed == IF rests = {} THEN Len(template) ELSE Min(rests) - 1
  IN  /\ Len(actual) >= fixed
      /\ \A i \in 1..fixed : SegmentMatches(template[i], actual[i])
      /\ IF rests = {} THEN Len(actual) = fixed ELSE Min(rests) = Len(template)

RouteSpecificity(template) ==
  LET Score(segment) == IF segment \in AnyRest THEN 1
                        ELSE IF segment \in AnySegment THEN 10 ELSE 100
  IN  FoldLeft(LAMBDA sum, segment : sum + Score(segment), Len(template), template)

Preferred(candidate, current) ==
  LET mine == RouteSpecificity(Templates[candidate].segments)
      other == RouteSpecificity(Templates[current].segments)
  IN  mine > other \/ (mine = other /\ candidate < current)

\* The route a call is counted for, 0 if there is none.
BestRoute(routes, call) ==
  LET Choose(best, route) ==
        IF /\ Templates[route].method = call.method
           /\ RouteMatches(Templates[route].segments, call.path)
           /\ best = 0 \/ Preferred(route, best)
        THEN route ELSE best
  IN  FoldLeft(Choose, 0, routes)

\* Known endpoints without their repetitions.
Routes(known) ==
  FoldLeft(LAMBDA routes, route : IF Contains(routes, route) THEN routes
                                  ELSE Append(routes, route), <<>>, known)

\* A count of zero stands for one call.
Amount(call) == IF call.count = 0 THEN 1 ELSE call.count

NoCalls == [error |-> "none", unknown |-> <<>>, truncated |-> {},
            hits |-> [route \in DOMAIN Templates |-> 0],
            paths |-> [route \in DOMAIN Templates |-> {}]]

\* A call that belongs to no endpoint is counted under its own path.
CountUnknown(tally, call) ==
  LET key == <<call.method, call.path>>
      total == (IF key \in DOMAIN tally.unknown THEN tally.unknown[key] ELSE 0) + Amount(call)
  IN  IF total > MaxCount THEN [tally EXCEPT !.error = "limitExceeded"]
      ELSE [tally EXCEPT !.unknown = WithCount(@, key, total)]

\* Mutant: a sample that is full is marked, though the path is in it.
CountHitOfFull(tally, route, call) ==
  LET full == Cardinality(tally.paths[route]) >= MaxPaths
  IN  IF tally.hits[route] + Amount(call) > MaxCount
        THEN [tally EXCEPT !.error = "limitExceeded"]
      ELSE [tally EXCEPT
              !.hits[route] = @ + Amount(call),
              !.paths[route] = IF full THEN @ ELSE @ \cup {call.path},
              !.truncated = IF full THEN @ \cup {route} ELSE @]

CountHit(tally, route, call) ==
  LET seen == tally.paths[route]
      full == Cardinality(seen) >= MaxPaths
  IN  IF tally.hits[route] + Amount(call) > MaxCount
        THEN [tally EXCEPT !.error = "limitExceeded"]
      ELSE [tally EXCEPT
              !.hits[route] = @ + Amount(call),
              !.paths[route] = IF full THEN @ ELSE @ \cup {call.path},
              !.truncated = IF full /\ call.path \notin seen THEN @ \cup {route} ELSE @]

CountCall(routes, tally, call) ==
  LET route == BestRoute(routes, call)
  IN  IF tally.error # "none" THEN tally
      ELSE IF call.count < 0 THEN [tally EXCEPT !.error = "invalidInput"]
      ELSE IF route = 0 THEN CountUnknown(tally, call)
      ELSE CountHit(tally, route, call)

AnalyzeEndpointCoverage(known, observed) ==
  LET routes == Routes(known)
      tally == FoldLeft(LAMBDA acc, call : CountCall(routes, acc, call), NoCalls, observed)
  IN  IF known # <<>> /\ Len(observed) > MaxEvaluations \div Len(known)
        THEN [NoCalls EXCEPT !.error = "limitExceeded"]
      ELSE tally

-----------------------------------------------------------------------------
(* Properties *)

\* The calls that are kept: a queue of keys with their counts, the oldest first.
Kept(history) ==
  LET Step(queue, event) ==
        IF event = "reset" THEN <<>>
        ELSE IF \E i \in DOMAIN queue : queue[i].key = event
          THEN [i \in DOMAIN queue |->
                  IF queue[i].key = event THEN [queue[i] EXCEPT !.count = @ + 1] ELSE queue[i]]
        ELSE Append(IF Len(queue) = Capacity THEN Tail(queue) ELSE queue,
                    [key |-> event, count |-> 1])
  IN  FoldLeft(Step, <<>>, history)

\* The map, the ring and its index stay one queue of the keys that came last,
\* also after the ring has wrapped, been emptied and filled again: no key is
\* counted that is not in the ring, none is evicted before an older one, and a
\* key that comes back counts from one (tools_bridge.go:418).
RingIsExact ==
  Asks("history") =>
    LET history == question.history
        ring == Recorded(history)
        queue == Kept(history)
        oldest == IF Len(ring.order) < Capacity THEN 1 ELSE ring.next
    IN  /\ [i \in DOMAIN ring.order |->
              ring.order[((oldest + i - 2) % Len(ring.order)) + 1]]
             = [i \in DOMAIN queue |-> queue[i].key]
        /\ DOMAIN ring.observed = ToSet(ring.order)
        /\ \A i \in DOMAIN queue : ring.observed[queue[i].key] = queue[i].count

\* The endpoint a call belongs to: of those that match, the one preferred to
\* every other one.
Candidates(known, call) ==
  {route \in ToSet(known) : /\ Templates[route].method = call.method
                            /\ RouteMatches(Templates[route].segments, call.path)}
Owners(known, call) ==
  {route \in Candidates(known, call) :
     \A other \in Candidates(known, call) \ {route} : Preferred(route, other)}

\* The calls are taken from a map of Go, in any order, and the endpoints from a
\* document that may repeat them.  The report depends on neither: each call
\* counts once, for the most specific endpoint that matches it or as unknown;
\* the comparison fails exactly if a limit is exceeded; and a sample of paths is
\* marked as incomplete exactly if a path is missing (coverage.go:102).
CoverageExact ==
  Asks("coverage") =>
    LET known == question.coverage.known
        observed == question.coverage.observed
        report == AnalyzeEndpointCoverage(known, observed)
        Of(route) == {i \in DOMAIN observed : Owners(known, observed[i]) = {route}}
        At(key) == {i \in DOMAIN observed :
                      /\ Candidates(known, observed[i]) = {}
                      /\ key = <<observed[i].method, observed[i].path>>}
        Total(calls) == MapThenSumSet(LAMBDA i : Amount(observed[i]), calls)
        PathsOf(route) == {observed[i].path : i \in Of(route)}
        strangers == {<<observed[i].method, observed[i].path>> : i \in
                        {j \in DOMAIN observed : Candidates(known, observed[j]) = {}}}
    IN  /\ report.error = "none" <=>
             /\ Len(known) * Len(observed) <= MaxEvaluations
             /\ \A i \in DOMAIN observed : observed[i].count >= 0
             /\ \A route \in ToSet(known) : Total(Of(route)) <= MaxCount
             /\ \A key \in strangers : Total(At(key)) <= MaxCount
        /\ report.error = "none" =>
             /\ report.unknown = [key \in strangers |-> Total(At(key))]
             /\ \A route \in DOMAIN Templates :
                  /\ report.hits[route] = Total(Of(route))
                  /\ report.paths[route] \subseteq PathsOf(route)
                  /\ route \in report.truncated <=> report.paths[route] # PathsOf(route)
                  /\ Cardinality(report.paths[route]) <= MaxPaths

\* What the coverage view shows is right from the calls that are counted to the
\* report over them: the ring that holds the counts (tools_bridge.go:418) and the
\* endpoints they are attributed to (coverage.go:102).
CoverageReportExact == RingIsExact /\ CoverageExact
=============================================================================
