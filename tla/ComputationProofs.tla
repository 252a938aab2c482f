-------------------------- MODULE ComputationProofs --------------------------
(***************************************************************************)
(* Theorems about what the tools compute: the hits and the routes of the   *)
(* mock server (MockRoutes), the ring of observed calls and their report   *)
(* (EndpointCoverage) and the matcher of log lines (LogSearch), for all    *)
(* limits and for inputs of every length.                                  *)
(*                                                                         *)
(* The models fold over sequences.  A property of a fold is proved as an   *)
(* invariant of its steps: the folds have solutions for every length       *)
(* (FoldExists), each step follows from the one before (FoldSteps), and a  *)
(* set of natural numbers has a least member (LeastNatural), so that a     *)
(* first step that breaks the invariant would have to exist.               *)
(***************************************************************************)
EXTENDS MockRoutes, EndpointCoverage, LogSearch, FiniteSetTheorems, SequenceTheorems,
        WellFoundedInduction, TLAPS

-----------------------------------------------------------------------------
(* Induction over the natural numbers *)

\* A set of natural numbers has a least one: how the lemmas below do induction.
LEMMA LeastNatural ==
  ASSUME NEW B \in SUBSET Nat, B # {}
  PROVE  \E n \in B : \A m \in B : n <= m
<1>1. PICK n \in B : \A m \in B : ~(<<m, n>> \in OpToRel(<, Nat))
  BY NatLessThanWellFounded, WFMin
<1>2. ASSUME NEW m \in B PROVE n <= m
  <2>1. <<m, n>> \in Nat \X Nat /\ n \in Nat /\ m \in Nat
    OBVIOUS
  <2>2. ASSUME m < n PROVE <<m, n>> \in OpToRel(<, Nat)
    <3> DEFINE pair == <<m, n>>
    <3>1. pair \in Nat \X Nat /\ pair[1] = m /\ pair[2] = n
      BY <2>1
    <3>2. pair[1] < pair[2]
      BY <2>2, <3>1
    <3> HIDE DEF pair
    <3>3. pair \in OpToRel(<, Nat)
      BY <3>1, <3>2, Zenon DEF OpToRel
    <3> QED BY <3>3 DEF pair
  <2>3. ~(m < n)
    BY <1>1, <2>2, Zenon
  <2> QED BY <2>1, <2>3
<1> QED
  BY <1>2

\* Max of a set of natural numbers with a bound is its largest.
LEMMA LargestOf ==
  ASSUME NEW N \in Nat, NEW s \in SUBSET (0..N), s # {}
  PROVE  Max(s) \in s /\ \A x \in s : x <= Max(s)
<1> DEFINE B == {N - x : x \in s}
<1>1. B \in SUBSET Nat /\ B # {}
  <2>1. \A x \in 0..N : N - x \in Nat
    OBVIOUS
  <2>2. \A x \in s : N - x \in Nat
    BY <2>1
  <2>3. PICK x \in s : TRUE
    OBVIOUS
  <2>4. N - x \in B
    BY <2>3
  <2> QED BY <2>2, <2>4
<1>2. PICK n \in B : \A m \in B : n <= m
  BY <1>1, LeastNatural
<1>3. PICK x \in s : n = N - x
  BY <1>2
<1>4. \A y \in s : x >= y
  <2> SUFFICES ASSUME NEW y \in s PROVE x >= y
    OBVIOUS
  <2>1. n <= N - y
    BY <1>2
  <2> QED BY <1>3, <2>1
<1>5. Max(s) \in s /\ \A y \in s : Max(s) >= y
  BY <1>4 DEF Max
<1> QED
  BY <1>5

\* What holds of 0 and goes on from n - 1 to n holds up to N.
LEMMA UpTo ==
  ASSUME NEW N \in Nat, NEW G, 0 \in G, \A n \in 1..N : n - 1 \in G => n \in G
  PROVE  \A n \in 0..N : n \in G
<1> DEFINE B == (0..N) \ G
<1>1. SUFFICES ASSUME B # {} PROVE FALSE
  OBVIOUS
<1>2. PICK n \in B : \A m \in B : n <= m
  <2>1. B \in SUBSET Nat
    OBVIOUS
  <2> HIDE DEF B
  <2> QED BY <1>1, <2>1, LeastNatural
<1>3. n \in 1..N /\ n - 1 \in 0..N /\ ~(n <= n - 1)
  OBVIOUS
<1>4. n - 1 \in G
  BY <1>2, <1>3
<1> QED
  BY <1>3, <1>4

-----------------------------------------------------------------------------
(* Folds over sequences.  FoldLeft is the value, at the whole sequence, of a  *)
(* function chosen over the subsets of its places.  The folds of the models   *)
(* are told apart by a record, so that what holds of all of them is said once. *)

HitsFold == [of |-> "hits"]
BytesFold == [of |-> "bytes"]
SearchFold(table, request) == [of |-> "search", table |-> table, request |-> request]
ObservedFold == [of |-> "observed"]
QueueFold == [of |-> "queue"]
ScoreFold(first) == [of |-> "score", first |-> first]
RoutesFold == [of |-> "routes"]
BestFold(call) == [of |-> "best", call |-> call]
TallyFold(routes) == [of |-> "tally", routes |-> routes]
TableFold(pattern) == [of |-> "table", pattern |-> pattern]
MatchFold(pattern, prefix) == [of |-> "match", pattern |-> pattern, prefix |-> prefix]

\* What HitsExact, LiteralBytes, Kept, RouteSpecificity, Routes and BestRoute fold.
LogStep(ring, event) == IF event = "clear" THEN ClearRing(ring) ELSE AddHit(ring, event)
BytesStep(sum, s) == IF IsLiteral(s) THEN sum + SizeOfText[s.text] ELSE sum
QueueStep(queue, event) ==
  IF event = "reset" THEN <<>>
  ELSE IF \E i \in DOMAIN queue : queue[i].key = event
    THEN [i \in DOMAIN queue |->
            IF queue[i].key = event THEN [queue[i] EXCEPT !.count = @ + 1] ELSE queue[i]]
  ELSE Append(IF Len(queue) = Capacity THEN Tail(queue) ELSE queue,
              [key |-> event, count |-> 1])
ScoreStep(sum, segment) ==
  sum + (IF segment \in AnyRest THEN 1 ELSE IF segment \in AnySegment THEN 10 ELSE 100)
RoutesStep(routes, route) ==
  IF Contains(routes, route) THEN routes ELSE Append(routes, route)
BestStep(call, best, route) ==
  IF /\ Templates[route].method = call.method
     /\ RouteMatches(Templates[route].segments, call.path)
     /\ best = 0 \/ Preferred(route, best)
  THEN route ELSE best

NothingFound == [best |-> 0, allowed |-> {}]

FirstOf(fold) ==
  CASE fold.of = "hits" -> NewHitRing
    [] fold.of = "bytes" -> 0
    [] fold.of = "search" -> NothingFound
    [] fold.of = "observed" -> ResetEndpointCoverage
    [] fold.of = "queue" -> <<>>
    [] fold.of = "score" -> fold.first
    [] fold.of = "routes" -> <<>>
    [] fold.of = "best" -> 0
    [] fold.of = "tally" -> NoCalls
    [] fold.of = "table" -> <<>>
    [] fold.of = "match" -> 0

NextOf(fold, value, x) ==
  CASE fold.of = "hits" -> LogStep(value, x)
    [] fold.of = "bytes" -> BytesStep(value, x)
    [] fold.of = "search" -> Consider(fold.table, fold.request, value, x)
    [] fold.of = "observed" -> Observe(value, x)
    [] fold.of = "queue" -> QueueStep(value, x)
    [] fold.of = "score" -> ScoreStep(value, x)
    [] fold.of = "routes" -> RoutesStep(value, x)
    [] fold.of = "best" -> BestStep(fold.call, value, x)
    [] fold.of = "tally" -> CountCall(fold.routes, value, x)
    [] fold.of = "table" -> Extend(fold.pattern, value, x)
    [] fold.of = "match" -> Consume(fold.pattern, fold.prefix, value, x)

\* g is the fold of seq over every subset of S, the last place of a subset last.
IsFold(g, fold, seq, S) ==
  g = [s \in SUBSET S |->
         IF s = {} THEN FirstOf(fold) ELSE NextOf(fold, g[s \ {Max(s)}], seq[Max(s)])]

LEMMA PrefixSets ==
  ASSUME NEW N \in Nat, NEW n \in 1..N
  PROVE  /\ 1..n \in SUBSET (1..N) /\ 1..n # {} /\ Max(1..n) = n
         /\ (1..n) \ {n} = 1..(n - 1) /\ 1..(n - 1) \in SUBSET (1..N)
<1>1. n \in Nat /\ n \in 1..n /\ n <= N
  OBVIOUS
<1>2. 1..n \subseteq 1..N /\ 1..(n - 1) \subseteq 1..N /\ 1..n \subseteq 0..n
  BY <1>1
<1>3. (1..n) \ {n} = 1..(n - 1)
  BY <1>1
<1> DEFINE s == 1..n
<1>4. s \in SUBSET (0..n) /\ s # {} /\ n \in s
  BY <1>1, <1>2
<1>5. Max(s) = n
  <2> HIDE DEF s
  <2>1. Max(s) \in s /\ \A x \in s : x <= Max(s)
    BY <1>1, <1>4, LargestOf
  <2>2. Max(s) \in 1..n /\ n <= Max(s)
    BY <1>4, <2>1 DEF s
  <2> QED BY <1>1, <2>2
<1>6. s \in SUBSET (1..N) /\ 1..(n - 1) \in SUBSET (1..N)
  BY <1>2
<1> QED
  BY <1>3, <1>4, <1>5, <1>6, Zenon

\* The function that FoldLeft chooses exists: the definition by recursion over
\* subsets has a solution for every length.
LEMMA FoldExists ==
  ASSUME NEW fold, NEW seq, NEW N \in Nat
  PROVE  \E g : IsFold(g, fold, seq, 1..N)
<1> DEFINE B == {n \in Nat : ~\E g : IsFold(g, fold, seq, 1..n)}
<1>1. SUFFICES ASSUME B # {} PROVE FALSE
  OBVIOUS
<1>2. PICK n \in B : \A m \in B : n <= m
  BY <1>1, LeastNatural
<1>3. n # 0
  <2>1. SUFFICES ASSUME n = 0 PROVE FALSE
    OBVIOUS
  <2> DEFINE g == [s \in SUBSET (1..0) |-> FirstOf(fold)]
  <2>2. SUBSET (1..0) = {{}}
    OBVIOUS
  <2>3. IsFold(g, fold, seq, 1..0)
    BY <2>2 DEF IsFold
  <2> HIDE DEF g
  <2> QED BY <1>2, <2>1, <2>3
<1> DEFINE k == n - 1
<1>4. k \in Nat /\ n = k + 1 /\ ~(n <= k)
  BY <1>2, <1>3
<1> HIDE DEF k
<1>5. PICK g : IsFold(g, fold, seq, 1..k)
  BY <1>2, <1>4
<1> DEFINE h == [s \in SUBSET (1..n) |->
                   IF n \in s THEN NextOf(fold, g[s \ {n}], seq[n]) ELSE g[s]]
<1>6. \A s \in SUBSET (1..n) : n \notin s => s \in SUBSET (1..k)
  BY <1>4
<1>7. ASSUME NEW s \in SUBSET (1..n)
      PROVE  h[s] = IF s = {} THEN FirstOf(fold)
                    ELSE NextOf(fold, h[s \ {Max(s)}], seq[Max(s)])
  <2>1. CASE n \in s
    <3>1. s \in SUBSET (0..n) /\ n \in Nat
      BY <1>4
    <3>2. Max(s) = n
      <4>1. Max(s) \in s /\ \A x \in s : x <= Max(s)
        BY <2>1, <3>1, LargestOf
      <4>2. Max(s) \in 1..n /\ n <= Max(s)
        BY <2>1, <4>1
      <4> QED BY <4>2
    <3>3. h[s \ {n}] = g[s \ {n}]
      OBVIOUS
    <3>4. h[s] = NextOf(fold, g[s \ {n}], seq[n])
      BY <2>1
    <3> HIDE DEF h
    <3> QED BY <2>1, <3>2, <3>3, <3>4
  <2>2. CASE n \notin s
    <3>1. s \in SUBSET (1..k) /\ s \in SUBSET (0..n) /\ n \in Nat
      BY <1>4, <1>6, <2>2
    <3>2. h[s] = g[s] /\ h[s \ {Max(s)}] = g[s \ {Max(s)}]
      BY <2>2
    <3>3. g[s] = IF s = {} THEN FirstOf(fold)
                 ELSE NextOf(fold, g[s \ {Max(s)}], seq[Max(s)])
      BY <1>5, <3>1 DEF IsFold
    <3> HIDE DEF h
    <3> QED BY <3>2, <3>3
  <2> QED BY <2>1, <2>2
<1>8. IsFold(h, fold, seq, 1..n)
  BY <1>7 DEF IsFold
<1> QED
  BY <1>2, <1>8

\* The fold of the first n elements is a step from the fold of the first n - 1.
LEMMA FoldSteps ==
  ASSUME NEW fold, NEW seq, NEW N \in Nat, NEW g, IsFold(g, fold, seq, 1..N)
  PROVE  /\ g[1..0] = FirstOf(fold)
         /\ \A n \in 1..N : g[1..n] = NextOf(fold, g[1..(n - 1)], seq[n])
<1>1. \A s \in SUBSET (1..N) :
        g[s] = IF s = {} THEN FirstOf(fold) ELSE NextOf(fold, g[s \ {Max(s)}], seq[Max(s)])
  BY DEF IsFold
<1>2. g[1..0] = FirstOf(fold)
  <2>1. 1..0 = {} /\ {} \in SUBSET (1..N)
    OBVIOUS
  <2> QED BY <1>1, <2>1
<1>3. ASSUME NEW n \in 1..N PROVE g[1..n] = NextOf(fold, g[1..(n - 1)], seq[n])
  <2>1. /\ 1..n \in SUBSET (1..N) /\ 1..n # {} /\ Max(1..n) = n
        /\ (1..n) \ {n} = 1..(n - 1)
    BY PrefixSets
  <2> DEFINE s == 1..n
             t == 1..(n - 1)
  <2>2. s \in SUBSET (1..N) /\ s # {} /\ Max(s) = n /\ s \ {n} = t
    BY <2>1
  <2> HIDE DEF s, t
  <2>3. g[s] = NextOf(fold, g[t], seq[n])
    BY <1>1, <2>2
  <2> QED BY <2>3 DEF s, t
<1> QED
  BY <1>2, <1>3

-----------------------------------------------------------------------------
(* The log of hits *)

IsLog(g, events, S) ==
  g = [s \in SUBSET S |->
         IF s = {} THEN NewHitRing ELSE LogStep(g[s \ {Max(s)}], events[Max(s)])]

Log(events) == CHOOSE g : IsLog(g, events, DOMAIN events)

\* The log after the first n events.
After(events, n) == Log(events)[1..n]

LEMMA LogIsOfHits ==
  ASSUME NEW g, NEW events, NEW S
  PROVE  IsLog(g, events, S) <=> IsFold(g, HitsFold, events, S)
<1>1. FirstOf(HitsFold) = NewHitRing
  BY DEF FirstOf, HitsFold
<1>2. \A value, x : NextOf(HitsFold, value, x) = LogStep(value, x)
  BY DEF NextOf, HitsFold
<1> QED
  BY <1>1, <1>2 DEF IsLog, IsFold

\* The log after n events is a step from the log after the first n - 1.
LEMMA LogSteps ==
  ASSUME NEW E, NEW events \in Seq(E)
  PROVE  /\ After(events, 0) = NewHitRing
         /\ \A n \in 1..Len(events) :
              After(events, n) = LogStep(After(events, n - 1), events[n])
<1>1. DOMAIN events = 1..Len(events) /\ Len(events) \in Nat
  OBVIOUS
<1>2. IsFold(Log(events), HitsFold, events, 1..Len(events))
  <2>1. \E g : IsLog(g, events, 1..Len(events))
    BY <1>1, FoldExists, LogIsOfHits
  <2>2. IsLog(Log(events), events, 1..Len(events))
    BY <1>1, <2>1 DEF Log
  <2> QED BY <2>2, LogIsOfHits
<1>3. /\ Log(events)[1..0] = FirstOf(HitsFold)
      /\ \A n \in 1..Len(events) :
           Log(events)[1..n] = NextOf(HitsFold, Log(events)[1..(n - 1)], events[n])
  BY <1>1, <1>2, FoldSteps
<1>4. FirstOf(HitsFold) = NewHitRing
  BY DEF FirstOf, HitsFold
<1>5. \A value, x : NextOf(HitsFold, value, x) = LogStep(value, x)
  BY DEF NextOf, HitsFold
<1> QED
  BY <1>3, <1>4, <1>5 DEF After

\* Folding all events gives the log after the last one.
LEMMA LogIsFold ==
  ASSUME NEW E, NEW events \in Seq(E)
  PROVE  FoldLeft(LogStep, NewHitRing, events) = After(events, Len(events))
<1>1. DOMAIN events = 1..Len(events)
  OBVIOUS
<1>2. FoldLeft(LogStep, NewHitRing, events) = Log(events)[DOMAIN events]
  BY DEF FoldLeft, MapThenFoldSet, Log, IsLog
<1> QED
  BY <1>1, <1>2 DEF After

LEMMA SomeHitsAreKept == HitLimit \in Nat \ {0}
BY RoutesAssumption

\* The i-th hit after the place c of the last time the log was cleared.
Entry(events, c, i) == [id |-> i, hit |-> events[c + i]]

\* How many hits are as old as the one at place k of a full ring, or older.
Place(k, next) == IF k > next THEN k - next ELSE k - next + HitLimit

\* What a ring with t hits since the place c holds: all of them in their order,
\* or the last HitLimit of them from the place of the oldest, going round.
RingHolds(ring, events, c, t) ==
  /\ ring = [values |-> ring.values, next |-> ring.next, total |-> t]
  /\ IF t < HitLimit
       THEN /\ ring.next = 0
            /\ ring.values = [k \in 1..t |-> Entry(events, c, k)]
     ELSE /\ ring.next \in 0..(HitLimit - 1)
          /\ ring.values = [k \in 1..HitLimit |->
                              Entry(events, c, t - HitLimit + Place(k, ring.next))]

\* Adding the next hit (server.go:700, hitRing.add).
LEMMA AddKeepsRing ==
  ASSUME NEW ring, NEW events, NEW c \in Nat, NEW t \in Nat,
         RingHolds(ring, events, c, t)
  PROVE  RingHolds(AddHit(ring, events[c + (t + 1)]), events, c, t + 1)
<1> USE SomeHitsAreKept
<1> DEFINE added == AddHit(ring, events[c + (t + 1)])
<1>1. PICK values, next : ring = [values |-> values, next |-> next, total |-> t]
  BY DEF RingHolds
<1>2. Entry(events, c, t + 1) = [id |-> ring.total + 1, hit |-> events[c + (t + 1)]]
  BY <1>1 DEF Entry
<1>3. CASE t < HitLimit
  <2>1. next = 0 /\ values = [k \in 1..t |-> Entry(events, c, k)]
    BY <1>1, <1>3 DEF RingHolds
  <2> DEFINE all == {Entry(events, c, k) : k \in 1..(t + 1)}
  <2>2. Entry(events, c, t + 1) \in all /\ \A k \in 1..t : Entry(events, c, k) \in all
    <3>1. t + 1 \in 1..(t + 1) /\ \A k \in 1..t : k \in 1..(t + 1)
      OBVIOUS
    <3> QED BY <3>1
  <2> HIDE DEF all
  <2>3. values \in Seq(all) /\ Len(values) = t
    BY <2>1, <2>2
  <2>4. added = [values |-> Append(values, Entry(events, c, t + 1)), next |-> 0,
                 total |-> t + 1]
    BY <1>1, <1>2, <1>3, <2>1, <2>3 DEF AddHit
  <2> HIDE DEF added
  <2>5. Append(values, Entry(events, c, t + 1)) = [k \in 1..(t + 1) |-> Entry(events, c, k)]
    <3>1. PICK w : w = Entry(events, c, t + 1)
      OBVIOUS
    <3>2. Append(values, w) = [k \in 1..(t + 1) |-> IF k = t + 1 THEN w ELSE values[k]]
      BY <2>2, <2>3, <3>1
    <3>3. \A k \in 1..(t + 1) :
            (IF k = t + 1 THEN w ELSE values[k]) = Entry(events, c, k)
      BY <2>1, <3>1
    <3> QED BY <3>1, <3>2, <3>3
  <2>6. ASSUME t + 1 < HitLimit PROVE RingHolds(added, events, c, t + 1)
    BY <2>4, <2>5, <2>6 DEF RingHolds
  <2>7. ASSUME ~(t + 1 < HitLimit) PROVE RingHolds(added, events, c, t + 1)
    <3>1. t + 1 = HitLimit /\ 0 \in 0..(HitLimit - 1)
      BY <1>3, <2>7
    <3>2. \A k \in 1..HitLimit : (t + 1) - HitLimit + Place(k, 0) = k
      BY <3>1 DEF Place
    <3>3. [k \in 1..(t + 1) |-> Entry(events, c, k)] =
            [k \in 1..HitLimit |-> Entry(events, c, (t + 1) - HitLimit + Place(k, 0))]
      BY <3>1, <3>2
    <3> QED BY <2>4, <2>5, <2>7, <3>1, <3>3 DEF RingHolds
  <2> QED BY <2>6, <2>7 DEF added
<1>4. CASE ~(t < HitLimit)
  <2>1. /\ next \in 0..(HitLimit - 1)
        /\ values = [k \in 1..HitLimit |-> Entry(events, c, t - HitLimit + Place(k, next))]
    BY <1>1, <1>4 DEF RingHolds
  <2>2. Len(values) = HitLimit
    BY <2>1
  <2> DEFINE then == (next + 1) % HitLimit
  <2>3. IF next + 1 = HitLimit THEN then = 0 ELSE then = next + 1
    <3>1. CASE next + 1 = HitLimit
      BY <3>1
    <3>2. CASE next + 1 # HitLimit
      <4>1. next + 1 \in 0..(HitLimit - 1)
        BY <2>1, <3>2
      <4>2. \A a \in Nat, b \in Nat \ {0} : a < b => a % b = a
        OBVIOUS
      <4> QED BY <3>2, <4>1, <4>2
    <3> QED BY <3>1, <3>2
  <2> HIDE DEF then
  <2>4. then \in 0..(HitLimit - 1)
    BY <2>1, <2>3
  <2>5. added = [values |-> [values EXCEPT ![next + 1] = Entry(events, c, t + 1)],
                 next |-> then, total |-> t + 1]
    BY <1>1, <1>2, <2>2 DEF AddHit, then
  <2> HIDE DEF added
  <2>6. ASSUME NEW k \in 1..HitLimit
        PROVE  [values EXCEPT ![next + 1] = Entry(events, c, t + 1)][k] =
                 Entry(events, c, (t + 1) - HitLimit + Place(k, then))
    <3>1. CASE k = next + 1
      <4>1. (t + 1) - HitLimit + Place(k, then) = t + 1
        BY <2>1, <2>3, <3>1 DEF Place
      <4> QED BY <2>1, <3>1, <4>1
    <3>2. CASE k # next + 1
      <4>1. (t + 1) - HitLimit + Place(k, then) = t - HitLimit + Place(k, next)
        BY <2>1, <2>3, <3>2 DEF Place
      <4> QED BY <2>1, <3>2, <4>1
    <3> QED BY <3>1, <3>2
  <2>7. [values EXCEPT ![next + 1] = Entry(events, c, t + 1)] =
          [k \in 1..HitLimit |-> Entry(events, c, (t + 1) - HitLimit + Place(k, then))]
    BY <2>1, <2>6
  <2>8. ~(t + 1 < HitLimit)
    BY <1>4
  <2> QED BY <2>4, <2>5, <2>7, <2>8 DEF RingHolds, added
<1> QED
  BY <1>3, <1>4

\* Two sequences in one, as a function.
LEMMA JoinedSequences ==
  ASSUME NEW S, NEW a \in Seq(S), NEW b \in Seq(S)
  PROVE  a \o b = [i \in 1..(Len(a) + Len(b)) |->
                     IF i <= Len(a) THEN a[i] ELSE b[i - Len(a)]]
<1>1. PICK c : c = a \o b
  OBVIOUS
<1>2. /\ c \in Seq(S) /\ Len(c) = Len(a) + Len(b)
      /\ \A i \in 1..(Len(a) + Len(b)) :
           c[i] = IF i <= Len(a) THEN a[i] ELSE b[i - Len(a)]
  BY <1>1, ConcatProperties
<1>3. c = [i \in 1..Len(c) |-> c[i]]
  BY <1>2
<1> QED
  BY <1>1, <1>2, <1>3

\* How many of t hits are kept.
KeptOf(t) == IF t < HitLimit THEN t ELSE HitLimit

\* Listing puts the two parts of a full ring in order (hitRing.list).
LEMMA RingIsListed ==
  ASSUME NEW ring, NEW events, NEW c \in Nat, NEW t \in Nat,
         RingHolds(ring, events, c, t)
  PROVE  ListHits(ring) = [n \in 1..KeptOf(t) |-> Entry(events, c, t - KeptOf(t) + n)]
<1> USE SomeHitsAreKept
<1>1. PICK values, next : ring = [values |-> values, next |-> next, total |-> t]
  BY DEF RingHolds
<1>2. CASE t < HitLimit
  <2>1. values = [k \in 1..t |-> Entry(events, c, k)]
    BY <1>1, <1>2 DEF RingHolds
  <2>2. Len(values) = t
    BY <2>1
  <2>3. ListHits(ring) = values /\ KeptOf(t) = t
    BY <1>1, <1>2, <2>2 DEF ListHits, KeptOf
  <2>4. \A n \in 1..t : t - t + n = n
    OBVIOUS
  <2> QED BY <2>1, <2>3, <2>4
<1>3. CASE ~(t < HitLimit)
  <2>1. /\ next \in 0..(HitLimit - 1)
        /\ values = [k \in 1..HitLimit |-> Entry(events, c, t - HitLimit + Place(k, next))]
    BY <1>1, <1>3 DEF RingHolds
  <2> DEFINE all == {Entry(events, c, t - HitLimit + Place(k, next)) : k \in 1..HitLimit}
  <2>2. values \in Seq(all) /\ Len(values) = HitLimit
    <3>1. values \in [1..HitLimit -> all]
      BY <2>1
    <3> HIDE DEF all
    <3> QED BY <3>1
  <2> HIDE DEF all
  <2> DEFINE older == SubSeq(values, next + 1, HitLimit)
             newer == SubSeq(values, 1, next)
  <2>3. /\ older \in Seq(all) /\ Len(older) = HitLimit - next
        /\ \A j \in 1..(HitLimit - next) : older[j] = values[next + j]
    BY <2>1, <2>2
  <2>4. newer \in Seq(all) /\ Len(newer) = next /\ \A j \in 1..next : newer[j] = values[j]
    BY <2>1, <2>2
  <2>5. ListHits(ring) = older \o newer /\ KeptOf(t) = HitLimit
    <3>1. ring.values = values /\ ring.next = next
      BY <1>1
    <3>2. ~(Len(ring.values) < HitLimit) /\ Len(ring.values) = HitLimit
      BY <2>2, <3>1
    <3>3. KeptOf(t) = HitLimit
      BY <1>3 DEF KeptOf
    <3>4. ListHits(ring) = SubSeq(ring.values, ring.next + 1, Len(ring.values))
                             \o SubSeq(ring.values, 1, ring.next)
      BY <3>2, Zenon DEF ListHits
    <3> QED BY <3>1, <3>2, <3>3, <3>4, Zenon
  <2> HIDE DEF older, newer
  <2>8. Len(older) = HitLimit - next /\ Len(older) + Len(newer) = HitLimit
    BY <2>1, <2>3, <2>4
  <2>6. ASSUME NEW n \in 1..HitLimit
        PROVE  (older \o newer)[n] = Entry(events, c, t - HitLimit + n)
    <3>1. CASE n <= HitLimit - next
      <4>1. (older \o newer)[n] = values[next + n]
        BY <2>1, <2>3, <2>4, <3>1
      <4>2. next + n \in 1..HitLimit /\ Place(next + n, next) = n
        BY <2>1, <3>1 DEF Place
      <4> QED BY <2>1, <4>1, <4>2
    <3>2. CASE ~(n <= HitLimit - next)
      <4> DEFINE j == n - (HitLimit - next)
      <4>1. j \in 1..next /\ j \in 1..HitLimit /\ Place(j, next) = n
        BY <2>1, <3>2 DEF Place
      <4>2. (older \o newer)[n] = values[j]
        <5>1. n \in 1..(Len(older) + Len(newer)) /\ ~(n <= Len(older))
          <6>1. n \in 1..(Len(older) + Len(newer))
            BY <2>8, Zenon
          <6>2. ~(n <= Len(older))
            BY <2>8, <3>2, Zenon
          <6> QED BY <6>1, <6>2
        <5>2. (older \o newer)[n] = newer[n - Len(older)]
          <6>1. older \o newer = [i \in 1..(Len(older) + Len(newer)) |->
                                   IF i <= Len(older) THEN older[i] ELSE newer[i - Len(older)]]
            BY <2>3, <2>4, JoinedSequences, Zenon
          <6> QED BY <5>1, <6>1
        <5> QED BY <2>3, <2>4, <4>1, <5>2
      <4> HIDE DEF j
      <4> QED BY <2>1, <4>1, <4>2
    <3> QED BY <3>1, <3>2
  <2>7. older \o newer = [n \in 1..HitLimit |-> (older \o newer)[n]]
    <3>1. Len(older) + Len(newer) = HitLimit
      BY <2>1, <2>3, <2>4
    <3>2. older \o newer = [n \in 1..(Len(older) + Len(newer)) |->
                              IF n <= Len(older) THEN older[n] ELSE newer[n - Len(older)]]
      BY <2>3, <2>4, JoinedSequences
    <3> QED BY <3>1, <3>2
  <2> QED BY <2>5, <2>6, <2>7
<1> QED
  BY <1>2, <1>3

\* The place of the last time the log was cleared, or 0.
ClearedAt(events) == Max({0} \cup {i \in DOMAIN events : events[i] = "clear"})

\* Nothing after that place clears the log.
LEMMA ClearedIsLast ==
  ASSUME NEW Events, NEW events \in Seq(Events)
  PROVE  /\ ClearedAt(events) \in 0..Len(events)
         /\ ClearedAt(events) = 0 \/ events[ClearedAt(events)] = "clear"
         /\ \A i \in 1..Len(events) : i > ClearedAt(events) => events[i] # "clear"
<1> DEFINE places == {0} \cup {i \in DOMAIN events : events[i] = "clear"}
<1>1. places \in SUBSET (0..Len(events)) /\ places # {} /\ Len(events) \in Nat
  OBVIOUS
<1>2. \A i \in 1..Len(events) : events[i] = "clear" => i \in places
  OBVIOUS
<1>3. \A i \in places : i = 0 \/ events[i] = "clear"
  OBVIOUS
<1>4. ClearedAt(events) = Max(places)
  BY DEF ClearedAt
<1> HIDE DEF places
<1>5. Max(places) \in places /\ \A x \in places : x <= Max(places)
  BY <1>1, LargestOf
<1>6. Max(places) \in 0..Len(events)
  BY <1>1, <1>5
<1> QED
  BY <1>1, <1>2, <1>3, <1>4, <1>5, <1>6

\* The ring after any sequence of hits and clears: by induction over the events
\* after the last clear.
LEMMA RingAfterEvents ==
  ASSUME NEW Events, NEW events \in Seq(Events)
  PROVE  RingHolds(After(events, Len(events)), events, ClearedAt(events),
                   Len(events) - ClearedAt(events))
<1> USE SomeHitsAreKept
<1> DEFINE N == Len(events)
           c == ClearedAt(events)
<1>1. /\ N \in Nat /\ c \in 0..N /\ c \in Nat /\ N \in c..N
      /\ c = 0 \/ events[c] = "clear"
      /\ \A i \in 1..N : i > c => events[i] # "clear"
  <2>1. N \in Nat
    OBVIOUS
  <2>2. /\ c \in 0..N
        /\ c = 0 \/ events[c] = "clear"
        /\ \A i \in 1..N : i > c => events[i] # "clear"
    BY ClearedIsLast
  <2> HIDE DEF N, c
  <2>3. c \in Nat /\ N \in c..N
    BY <2>1, <2>2
  <2> QED BY <2>1, <2>2, <2>3
<1>2. /\ After(events, 0) = NewHitRing
      /\ \A n \in 1..N : After(events, n) = LogStep(After(events, n - 1), events[n])
  BY LogSteps
<1> HIDE DEF N, c
<1>3. After(events, c) = NewHitRing
  <2>1. CASE c = 0
    BY <1>2, <2>1
  <2>2. CASE c # 0
    <3>1. c \in 1..N /\ events[c] = "clear"
      BY <1>1, <2>2
    <3> QED BY <1>2, <3>1 DEF LogStep, ClearRing
  <2> QED BY <2>1, <2>2
<1>4. RingHolds(NewHitRing, events, c, 0)
  <2>1. 0 < HitLimit /\ 1..0 = {}
    OBVIOUS
  <2> QED BY <2>1 DEF RingHolds, NewHitRing
<1> DEFINE Holds(n) == RingHolds(After(events, n), events, c, n - c)
           B == {n \in Nat : n \in c..N /\ ~Holds(n)}
<1>5. B = {}
  <2>1. SUFFICES ASSUME B # {} PROVE FALSE
    OBVIOUS
  <2>2. B \in SUBSET Nat
    OBVIOUS
  <2>3. PICK n \in B : \A m \in B : n <= m
    BY <2>1, <2>2, LeastNatural
  <2>4. n \in Nat /\ n \in c..N /\ ~Holds(n)
    OBVIOUS
  <2>5. n # c
    <3>1. c - c = 0
      BY <1>1
    <3> QED BY <1>3, <1>4, <2>4, <3>1
  <2>6. PICK m \in Nat : n = m + 1 /\ m \in c..N /\ m - c \in Nat
    <3>1. n - 1 \in Nat /\ n = (n - 1) + 1 /\ n - 1 \in c..N /\ (n - 1) - c \in Nat
      BY <1>1, <2>4, <2>5
    <3> QED BY <3>1
  <2>7. Holds(m)
    <3>1. ~(n <= m)
      BY <2>6
    <3> QED BY <2>3, <2>6, <3>1
  <2>8. n \in 1..N /\ n > c /\ n - 1 = m /\ n = c + ((m - c) + 1) /\ n - c = (m - c) + 1
    BY <1>1, <2>4, <2>6
  <2>9. After(events, n) = AddHit(After(events, m), events[c + ((m - c) + 1)])
    BY <1>1, <1>2, <2>8 DEF LogStep
  <2>10. Holds(n)
    BY <1>1, <2>6, <2>7, <2>8, <2>9, AddKeepsRing
  <2> QED BY <2>4, <2>10
<1>6. Holds(N)
  BY <1>1, <1>5
<1> QED
  BY <1>6 DEF N, c

\* Whatever hits came and wherever the log was cleared between them, the hits that
\* are listed are the last ones since then, oldest first and numbered without a gap
\* up to the total (server.go:695, hitRing).
THEOREM HitsAreExact ==
  ASSUME NEW Events, Asks("hits") => question.hits \in Seq(Events)
  PROVE  HitsExact
<1> USE SomeHitsAreKept
<1>1. SUFFICES ASSUME Asks("hits") PROVE HitsExact
  BY DEF HitsExact
<1> DEFINE events == question.hits
           N == Len(events)
           c == ClearedAt(events)
           t == N - c
           since == SubSeq(events, c + 1, N)
           ring == After(events, N)
<1>2. events \in Seq(Events) /\ N \in Nat
  BY <1>1
<1>3. FoldLeft(LogStep, NewHitRing, events) = ring
  BY <1>2, LogIsFold
<1>4. RingHolds(ring, events, c, t)
  BY <1>2, RingAfterEvents
<1>5. c \in 0..N
  BY <1>2, ClearedIsLast
<1>6. c \in Nat /\ t \in Nat
  <2> HIDE DEF N, c
  <2> QED BY <1>2, <1>5
<1>7. Len(since) = t /\ \A i \in 1..t : since[i] = events[c + i]
  <2> HIDE DEF events, c
  <2> QED BY <1>2, <1>5, <1>6
<1> HIDE DEF ring, c, N, events, t, since
<1>8. ListHits(ring) = [n \in 1..KeptOf(t) |-> Entry(events, c, t - KeptOf(t) + n)]
  BY <1>4, <1>6, RingIsListed
<1>9. \A n \in 1..KeptOf(t) : t - KeptOf(t) + n \in 1..t
  BY <1>6 DEF KeptOf
<1>10. ListHits(ring) =
         [n \in 1..KeptOf(t) |-> [id |-> t - KeptOf(t) + n, hit |-> since[t - KeptOf(t) + n]]]
  BY <1>7, <1>8, <1>9 DEF Entry
<1>11. ring.total = t
  BY <1>4 DEF RingHolds
<1> QED
  BY <1>1, <1>3, <1>7, <1>10, <1>11
     DEF HitsExact, LogStep, ClearedAt, KeptOf, events, N, c, since

-----------------------------------------------------------------------------
(* How specific a route is *)

IsBytes(g, segments, S) ==
  g = [s \in SUBSET S |->
         IF s = {} THEN 0
         ELSE BytesStep(g[s \ {Max(s)}], segments[Max(s)])]

Bytes(segments) == CHOOSE g : IsBytes(g, segments, DOMAIN segments)

LEMMA BytesAreSum ==
  ASSUME NEW segments
  PROVE  LiteralBytes(segments) = Bytes(segments)[DOMAIN segments]
BY DEF LiteralBytes, FoldLeft, MapThenFoldSet, Bytes, IsBytes, BytesStep

LEMMA BytesAreOfFold ==
  ASSUME NEW g, NEW segments, NEW S
  PROVE  IsBytes(g, segments, S) <=> IsFold(g, BytesFold, segments, S)
<1>1. FirstOf(BytesFold) = 0
  BY DEF FirstOf, BytesFold
<1>2. \A value, x : NextOf(BytesFold, value, x) = BytesStep(value, x)
  BY DEF NextOf, BytesFold
<1> QED
  BY <1>1, <1>2 DEF IsBytes, IsFold

\* The bytes of the literals of a template are a number.
LEMMA BytesAreNatural ==
  ASSUME NEW p \in DOMAIN PathTexts
  PROVE  LiteralBytes(PathTexts[p]) \in Nat
<1> DEFINE segments == PathTexts[p]
           N == Len(segments)
           h == Bytes(segments)
           B == {n \in Nat : n <= N /\ h[1..n] \notin Nat}
<1>1. segments \in Seq(Segments) /\ N \in Nat /\ DOMAIN segments = 1..N
  BY RoutesAssumption
<1>2. \A i \in 1..N : IsLiteral(segments[i]) => SizeOfText[segments[i].text] \in Nat
  <2>1. \A i \in Literals(segments) : SizeOfText[segments[i].text] \in Nat
    BY RoutesAssumption
  <2> QED BY <1>1, <2>1 DEF Literals
<1> HIDE DEF segments, N
<1>3. IsFold(h, BytesFold, segments, 1..N)
  <2>1. \E g : IsBytes(g, segments, 1..N)
    BY <1>1, FoldExists, BytesAreOfFold
  <2>2. IsBytes(Bytes(segments), segments, 1..N)
    BY <1>1, <2>1 DEF Bytes
  <2> QED BY <2>2, BytesAreOfFold
<1>4. /\ h[1..0] = 0
      /\ \A n \in 1..N : h[1..n] = BytesStep(h[1..(n - 1)], segments[n])
  <2>1. /\ h[1..0] = FirstOf(BytesFold)
        /\ \A n \in 1..N : h[1..n] = NextOf(BytesFold, h[1..(n - 1)], segments[n])
    <3> HIDE DEF h
    <3> QED BY <1>1, <1>3, FoldSteps
  <2>2. FirstOf(BytesFold) = 0
    BY DEF FirstOf, BytesFold
  <2>3. \A value, x : NextOf(BytesFold, value, x) = BytesStep(value, x)
    BY DEF NextOf, BytesFold
  <2> QED BY <2>1, <2>2, <2>3
<1> HIDE DEF h
<1>5. B = {}
  <2>1. SUFFICES ASSUME B # {} PROVE FALSE
    OBVIOUS
  <2>2. PICK n \in B : \A m \in B : n <= m
    <3>1. B \in SUBSET Nat
      OBVIOUS
    <3> HIDE DEF B
    <3> QED BY <2>1, <3>1, LeastNatural
  <2>3. n \in Nat /\ n <= N /\ h[1..n] \notin Nat
    OBVIOUS
  <2>4. n # 0
    BY <1>4, <2>3
  <2>5. n \in 1..N
    BY <1>1, <2>3, <2>4
  <2>6. h[1..(n - 1)] \in Nat
    <3>1. n - 1 \in Nat /\ n - 1 <= N /\ ~(n <= n - 1)
      BY <1>1, <2>5
    <3> QED BY <2>2, <3>1
  <2>7. h[1..n] = BytesStep(h[1..(n - 1)], segments[n])
    BY <1>4, <2>5
  <2>8. IsLiteral(segments[n]) => SizeOfText[segments[n].text] \in Nat
    BY <1>2, <2>5
  <2> QED BY <2>3, <2>6, <2>7, <2>8 DEF BytesStep
<1>6. h[1..N] \in Nat
  BY <1>1, <1>5
<1> QED
  BY <1>1, <1>6, BytesAreSum DEF h, segments

\* What moreSpecific compares is numbers, and at last the places of the templates.
LEMMA Specificity ==
  ASSUME NEW route, route.path \in DOMAIN PathTexts
  PROVE  /\ Cardinality(Literals(SegmentsOf(route))) \in Nat
         /\ Cardinality(Parameters(SegmentsOf(route))) \in Nat
         /\ LiteralBytes(SegmentsOf(route)) \in Nat
         /\ route.path \in Nat
<1> DEFINE segments == SegmentsOf(route)
<1>1. segments \in Seq(Segments) /\ route.path \in Nat
  BY RoutesAssumption DEF SegmentsOf
<1>2. LiteralBytes(segments) \in Nat
  BY BytesAreNatural DEF SegmentsOf
<1>3. IsFiniteSet(DOMAIN segments)
  <2>1. DOMAIN segments = 1..Len(segments) /\ 1 \in Int /\ Len(segments) \in Int
    BY <1>1
  <2> QED BY <2>1, FS_Interval
<1>4. IsFiniteSet(Literals(segments)) /\ IsFiniteSet(Parameters(segments))
  <2>1. Literals(segments) \subseteq DOMAIN segments /\ Parameters(segments) \subseteq DOMAIN segments
    BY DEF Literals, Parameters
  <2> QED BY <1>3, <2>1, FS_Subset
<1> QED
  BY <1>1, <1>2, <1>4, FS_CardinalityType

Placed(route) == route.path \in DOMAIN PathTexts

\* moreSpecific is a strict order, and tells routes of different templates apart.
LEMMA SpecificityOrders ==
  ASSUME NEW a, NEW b, NEW c, Placed(a), Placed(b), Placed(c)
  PROVE  /\ a.path # b.path => MoreSpecific(a, b) \/ MoreSpecific(b, a)
         /\ ~(MoreSpecific(a, b) /\ MoreSpecific(b, a))
         /\ MoreSpecific(a, b) /\ MoreSpecific(b, c) => MoreSpecific(a, c)
<1> DEFINE l(r) == Cardinality(Literals(SegmentsOf(r)))
           p(r) == Cardinality(Parameters(SegmentsOf(r)))
           y(r) == LiteralBytes(SegmentsOf(r))
<1>1. /\ l(a) \in Nat /\ p(a) \in Nat /\ y(a) \in Nat /\ a.path \in Nat
      /\ l(b) \in Nat /\ p(b) \in Nat /\ y(b) \in Nat /\ b.path \in Nat
      /\ l(c) \in Nat /\ p(c) \in Nat /\ y(c) \in Nat /\ c.path \in Nat
  BY Specificity DEF Placed
<1> DEFINE more(r, s) ==
             IF l(r) # l(s) THEN l(r) > l(s)
             ELSE IF y(r) # y(s) THEN y(r) > y(s)
             ELSE IF p(r) # p(s) THEN p(r) < p(s)
             ELSE r.path < s.path
<1>2. /\ MoreSpecific(a, b) <=> more(a, b)
      /\ MoreSpecific(b, a) <=> more(b, a)
      /\ MoreSpecific(b, c) <=> more(b, c)
      /\ MoreSpecific(a, c) <=> more(a, c)
  <2> HIDE DEF l, p, y
  <2>1. ASSUME NEW r \in {a, b, c}, NEW s \in {a, b, c}
        PROVE  MoreSpecific(r, s) <=> more(r, s)
    <3>1. l(r) \in Nat /\ p(r) \in Nat /\ y(r) \in Nat /\ l(s) \in Nat /\ p(s) \in Nat /\ y(s) \in Nat
      BY <1>1
    <3>2. MoreSpecific(r, s) <=>
            IF l(r) - l(s) # 0 THEN l(r) - l(s) > 0
            ELSE IF y(r) - y(s) # 0 THEN y(r) - y(s) > 0
            ELSE IF p(r) - p(s) # 0 THEN p(r) - p(s) < 0
            ELSE r.path < s.path
      BY Zenon DEF MoreSpecific, MoreSpecificSegments, l, p, y
    <3> QED BY <3>1, <3>2
  <2> QED BY <2>1
<1> HIDE DEF l, p, y
<1> QED
  BY <1>1, <1>2

-----------------------------------------------------------------------------
(* The route of a request *)

Suits(table, request, i) ==
  table[i].enabled /\ PathMatches(SegmentsOf(table[i]), request.path)

\* The routes that could answer, and the methods that are answered on the path instead,
\* of the first n routes.
CouldAnswer(table, request, n) ==
  {i \in 1..n : Suits(table, request, i) /\ table[i].method = request.method}
OtherMethods(table, request, n) ==
  {table[i].method : i \in {j \in 1..n : /\ Suits(table, request, j)
                                         /\ table[j].method # request.method}}

IsBest(table, request, n, i) ==
  /\ i \in CouldAnswer(table, request, n)
  /\ \A j \in CouldAnswer(table, request, n) : j # i => MoreSpecific(table[i], table[j])

\* What the loop has found in the first n routes.
Found(table, request, n, acc) ==
  /\ acc = [best |-> acc.best, allowed |-> acc.allowed]
  /\ acc.allowed = OtherMethods(table, request, n)
  /\ \/ CouldAnswer(table, request, n) = {} /\ acc.best = 0
     \/ IsBest(table, request, n, acc.best)

\* A table of routes that have templates, those of one method different ones.
ProperTable(table) ==
  /\ table \in Seq({table[i] : i \in DOMAIN table})
  /\ \A i \in DOMAIN table : Placed(table[i]) /\ table[i].enabled \in BOOLEAN
  /\ \A i, j \in DOMAIN table :
       i # j /\ table[i].method = table[j].method => table[i].path # table[j].path

LEMMA ConsiderFinds ==
  ASSUME NEW table, NEW request, NEW n \in 1..Len(table), NEW acc,
         ProperTable(table), Found(table, request, n - 1, acc)
  PROVE  Found(table, request, n, Consider(table, request, acc, n))
<1> DEFINE C == CouldAnswer(table, request, n - 1)
           D == CouldAnswer(table, request, n)
           O == OtherMethods(table, request, n - 1)
           P == OtherMethods(table, request, n)
           next == Consider(table, request, acc, n)
           route == table[n]
<1>1. /\ Len(table) \in Nat /\ DOMAIN table = 1..Len(table)
      /\ n \in Nat /\ n - 1 \in Nat /\ 1..n = 1..(n - 1) \cup {n}
      /\ 1..n \subseteq DOMAIN table
  <2>1. table \in Seq({table[i] : i \in DOMAIN table})
    BY DEF ProperTable
  <2>2. Len(table) \in Nat /\ DOMAIN table = 1..Len(table)
    BY <2>1
  <2> QED BY <2>2
<1>2. PICK best, allowed : acc = [best |-> best, allowed |-> allowed]
  BY DEF Found
<1>3. /\ allowed = O
      /\ (C = {} /\ best = 0) \/ IsBest(table, request, n - 1, best)
  BY <1>2 DEF Found
<1>4. CASE ~Suits(table, request, n)
  <2>1. next = acc
    BY <1>4 DEF Consider, Suits
  <2>2. D = C /\ P = O
    BY <1>1, <1>4 DEF CouldAnswer, OtherMethods
  <2>3. IsBest(table, request, n - 1, best) => IsBest(table, request, n, best)
    BY <2>2 DEF IsBest
  <2> QED BY <1>2, <1>3, <2>1, <2>2, <2>3 DEF Found
<1>5. CASE Suits(table, request, n) /\ route.method # request.method
  <2>1. next = [best |-> best, allowed |-> allowed \cup {route.method}]
    BY <1>2, <1>5 DEF Consider, Suits
  <2>2. D = C
    BY <1>1, <1>5 DEF CouldAnswer
  <2>3. P = O \cup {route.method}
    BY <1>1, <1>5 DEF OtherMethods
  <2>4. IsBest(table, request, n - 1, best) => IsBest(table, request, n, best)
    BY <2>2 DEF IsBest
  <2> HIDE DEF D, C, P, O, next
  <2>5. (D = {} /\ best = 0) \/ IsBest(table, request, n, best)
    BY <1>3, <2>2, <2>4
  <2> QED BY <1>3, <2>1, <2>3, <2>5 DEF Found, D, P, next
<1>6. CASE Suits(table, request, n) /\ route.method = request.method
  <2>1. P = O
    BY <1>1, <1>6 DEF OtherMethods
  <2>2. D = C \cup {n}
    BY <1>1, <1>6 DEF CouldAnswer
  <2>3. C \subseteq 1..(n - 1) /\ n \notin C /\ 0 \notin C
    BY <1>1 DEF CouldAnswer
  <2>4. \A j \in C : /\ Placed(table[j]) /\ Placed(route) /\ table[j].path # route.path
                     /\ j # n
    <3> SUFFICES ASSUME NEW j \in C
                 PROVE  /\ Placed(table[j]) /\ Placed(route) /\ table[j].path # route.path
                        /\ j # n
      OBVIOUS
    <3>1. j \in DOMAIN table /\ n \in DOMAIN table /\ j # n
      BY <1>1, <2>3
    <3>2. table[j].method = route.method
      BY <1>6 DEF CouldAnswer
    <3> QED BY <3>1, <3>2 DEF ProperTable
  <2> HIDE DEF C, D, O, P
  <2>5. CASE C = {}
    <3>1. best = 0
      BY <1>3, <2>5 DEF IsBest, C
    <3>2. next = [best |-> n, allowed |-> allowed]
      BY <1>2, <1>6, <3>1 DEF Consider, Suits
    <3>3. D = {n}
      BY <2>2, <2>5
    <3>4. IsBest(table, request, n, n)
      BY <3>3 DEF IsBest, D
    <3> QED BY <1>3, <2>1, <3>2, <3>4 DEF Found, P, O
  <2>6. CASE C # {}
    <3>1. /\ best \in C /\ best # 0
          /\ \A j \in C : j # best => MoreSpecific(table[best], table[j])
      BY <1>3, <2>3, <2>6 DEF IsBest, C
    <3>2. CASE MoreSpecific(route, table[best])
      <4>1. next = [best |-> n, allowed |-> allowed]
        BY <1>2, <1>6, <3>2 DEF Consider, Suits
      <4>2. ASSUME NEW j \in C PROVE MoreSpecific(route, table[j])
        <5>1. CASE j = best
          BY <3>2, <5>1
        <5>2. CASE j # best
          <6>1. MoreSpecific(table[best], table[j])
            BY <3>1, <5>2
          <6>2. Placed(route) /\ Placed(table[best]) /\ Placed(table[j])
            BY <2>4, <3>1
          <6> QED BY <3>2, <6>1, <6>2, SpecificityOrders
        <5> QED BY <5>1, <5>2
      <4>3. IsBest(table, request, n, n)
        BY <2>2, <4>2 DEF IsBest, D
      <4> QED BY <1>3, <2>1, <4>1, <4>3 DEF Found, P, O
    <3>3. CASE ~MoreSpecific(route, table[best])
      <4>1. next = acc
        BY <1>2, <1>6, <3>1, <3>3 DEF Consider, Suits
      <4>2. MoreSpecific(table[best], route)
        <5>1. Placed(route) /\ Placed(table[best]) /\ table[best].path # route.path
          BY <2>4, <3>1
        <5> QED BY <3>3, <5>1, SpecificityOrders
      <4>3. IsBest(table, request, n, best)
        <5>1. best \in D
          BY <2>2, <3>1
        <5>2. ASSUME NEW j \in D, j # best PROVE MoreSpecific(table[best], table[j])
          BY <2>2, <3>1, <4>2, <5>2
        <5> QED BY <5>1, <5>2 DEF IsBest, D
      <4> QED BY <1>2, <1>3, <2>1, <4>1, <4>3 DEF Found, P, O
    <3> QED BY <3>2, <3>3
  <2> QED BY <2>5, <2>6
<1> QED
  BY <1>4, <1>5, <1>6

IsSearch(g, table, request, S) ==
  g = [s \in SUBSET S |->
         IF s = {} THEN NothingFound
         ELSE Consider(table, request, g[s \ {Max(s)}],
                       [i \in DOMAIN table |-> i][Max(s)])]

Search(table, request) ==
  CHOOSE g : IsSearch(g, table, request, DOMAIN [i \in DOMAIN table |-> i])

LEMMA MatchIsSearch ==
  ASSUME NEW table, NEW request
  PROVE  Match(table, request) =
           BestAlone(Search(table, request)[DOMAIN [i \in DOMAIN table |-> i]])
BY DEF Match, FoldLeft, MapThenFoldSet, Search, IsSearch, NothingFound

LEMMA SearchIsOfFold ==
  ASSUME NEW g, NEW table, NEW request, NEW S, NEW places, places = [i \in DOMAIN table |-> i]
  PROVE  IsSearch(g, table, request, S) <=> IsFold(g, SearchFold(table, request), places, S)
<1> DEFINE fold == SearchFold(table, request)
<1>1. FirstOf(fold) = NothingFound
  BY DEF FirstOf, SearchFold
<1>2. \A value, x : NextOf(fold, value, x) = Consider(table, request, value, x)
  BY DEF NextOf, SearchFold
<1> HIDE DEF fold
<1>3. IsSearch(g, table, request, S) <=>
        g = [s \in SUBSET S |->
               IF s = {} THEN NothingFound
               ELSE Consider(table, request, g[s \ {Max(s)}], places[Max(s)])]
  BY Zenon DEF IsSearch
<1>4. IsFold(g, fold, places, S) <=>
        g = [s \in SUBSET S |->
               IF s = {} THEN NothingFound
               ELSE Consider(table, request, g[s \ {Max(s)}], places[Max(s)])]
  <2> DEFINE wanted == [s \in SUBSET S |->
               IF s = {} THEN NothingFound
               ELSE Consider(table, request, g[s \ {Max(s)}], places[Max(s)])]
             given == [s \in SUBSET S |->
               IF s = {} THEN FirstOf(fold) ELSE NextOf(fold, g[s \ {Max(s)}], places[Max(s)])]
  <2>1. \A s \in SUBSET S : wanted[s] = given[s]
    BY <1>1, <1>2
  <2>2. wanted = given
    BY <2>1
  <2> QED BY <2>2, Zenon DEF IsFold
<1> QED
  BY <1>3, <1>4 DEF fold

\* The search ends, whatever the table and the request are.
LEMMA SearchExists ==
  ASSUME NEW table, NEW request, NEW N \in Nat, DOMAIN table = 1..N
  PROVE  IsSearch(Search(table, request), table, request, 1..N)
<1> DEFINE places == [i \in DOMAIN table |-> i]
<1>1. \E g : IsFold(g, SearchFold(table, request), places, 1..N)
  BY FoldExists
<1>2. \E g : IsSearch(g, table, request, 1..N)
  <2> HIDE DEF places
  <2> QED BY <1>1, SearchIsOfFold DEF places
<1>3. DOMAIN [i \in DOMAIN table |-> i] = 1..N
  OBVIOUS
<1> QED
  BY <1>2, <1>3 DEF Search

\* server.match finds the most specific of the routes that could answer; and if there
\* is none, the methods that are answered on the path instead.
LEMMA MatchExact ==
  ASSUME NEW table, NEW request, ProperTable(table)
  PROVE  IF CouldAnswer(table, request, Len(table)) = {}
           THEN Match(table, request) =
                  [best |-> 0, allowed |-> OtherMethods(table, request, Len(table))]
         ELSE IsBest(table, request, Len(table), Match(table, request).best)
<1> DEFINE N == Len(table)
           places == [i \in DOMAIN table |-> i]
           h == Search(table, request)
           B == {n \in Nat : n <= N /\ ~Found(table, request, n, h[1..n])}
<1>1. N \in Nat /\ DOMAIN table = 1..N /\ DOMAIN places = 1..N
      /\ \A i \in 1..N : places[i] = i
  <2>1. table \in Seq({table[i] : i \in DOMAIN table})
    BY DEF ProperTable
  <2> QED BY <2>1
<1>2. \A s \in SUBSET (1..N) :
        h[s] = IF s = {} THEN NothingFound
               ELSE Consider(table, request, h[s \ {Max(s)}], places[Max(s)])
  <2>1. IsSearch(h, table, request, 1..N)
    BY <1>1, SearchExists
  <2> HIDE DEF h
  <2> QED BY <2>1 DEF IsSearch
<1> HIDE DEF h, places, N
<1>3. B = {}
  <2>1. SUFFICES ASSUME B # {} PROVE FALSE
    OBVIOUS
  <2>2. PICK n \in B : \A m \in B : n <= m
    <3>1. B \in SUBSET Nat
      OBVIOUS
    <3> HIDE DEF B
    <3> QED BY <2>1, <3>1, LeastNatural
  <2>3. n \in Nat /\ n <= N /\ ~Found(table, request, n, h[1..n])
    OBVIOUS
  <2>4. n # 0
    <3>1. SUFFICES ASSUME n = 0 PROVE FALSE
      OBVIOUS
    <3>2. 1..0 = {} /\ {} \in SUBSET (1..N)
      OBVIOUS
    <3>3. h[1..0] = NothingFound
      BY <1>2, <3>2
    <3>4. CouldAnswer(table, request, 0) = {} /\ OtherMethods(table, request, 0) = {}
      BY <3>2 DEF CouldAnswer, OtherMethods
    <3>5. Found(table, request, 0, NothingFound)
      BY <3>4 DEF Found, NothingFound
    <3> QED BY <2>3, <3>1, <3>3, <3>5
  <2>5. n \in 1..N
    BY <1>1, <2>3, <2>4
  <2>6. Found(table, request, n - 1, h[1..(n - 1)])
    <3>1. n - 1 \in Nat /\ n - 1 <= N /\ ~(n <= n - 1)
      BY <1>1, <2>5
    <3> QED BY <2>2, <3>1
  <2>7. /\ 1..n \in SUBSET (1..N) /\ 1..n # {} /\ Max(1..n) = n
        /\ (1..n) \ {n} = 1..(n - 1)
    BY <1>1, <2>5, PrefixSets
  <2>8. h[1..n] = Consider(table, request, h[1..(n - 1)], n)
    <3>1. places[n] = n
      BY <1>1, <2>5
    <3> QED BY <1>2, <2>7, <3>1, Zenon
  <2>9. Found(table, request, n, h[1..n])
    <3>1. n \in 1..Len(table)
      BY <2>5 DEF N
    <3> QED BY <2>6, <2>8, <3>1, ConsiderFinds
  <2> QED BY <2>3, <2>9
<1>4. Found(table, request, N, h[1..N])
  BY <1>1, <1>3
<1> DEFINE found == h[1..N]
<1>5. Match(table, request) = BestAlone(found)
  BY <1>1, MatchIsSearch DEF h, places
<1> HIDE DEF found
<1>6. PICK best, allowed : found = [best |-> best, allowed |-> allowed]
  BY <1>4 DEF Found, found
<1>7. CASE CouldAnswer(table, request, N) = {}
  <2>1. best = 0 /\ allowed = OtherMethods(table, request, N)
    BY <1>4, <1>6, <1>7 DEF Found, IsBest, found
  <2> QED BY <1>5, <1>6, <1>7, <2>1 DEF BestAlone, N
<1>8. CASE CouldAnswer(table, request, N) # {}
  <2>1. IsBest(table, request, N, best)
    BY <1>4, <1>6, <1>8 DEF Found, found
  <2>2. best # 0
    BY <2>1 DEF IsBest, CouldAnswer
  <2>3. Match(table, request).best = best
    BY <1>5, <1>6, <2>2 DEF BestAlone
  <2> QED BY <1>8, <2>1, <2>3 DEF N
<1> QED
  BY <1>7, <1>8 DEF N

-----------------------------------------------------------------------------
(* The answers of a table *)

\* A request without a route that could answer is told the other methods of its path;
\* any other is answered by the most specific of those routes.
Told(others) == Unmatched(IF others = {} THEN 404 ELSE 405, "error", others)

AnswerFollows(table, method, path, N) ==
  LET request == Probe(method, path)
      others == OtherMethods(table, request, N)
  IN  IF CouldAnswer(table, request, N) = {}
        THEN AnswerTo(table, method, path) = Told(others)
      ELSE \E i \in 1..N : /\ IsBest(table, request, N, i)
                           /\ AnswerTo(table, method, path) = FromRoute(table[i], request)

LEMMA AnswerIs ==
  ASSUME NEW table, NEW method, NEW path, ProperTable(table), NEW N, N = Len(table)
  PROVE  AnswerFollows(table, method, path, N)
<1> DEFINE request == Probe(method, path)
           others == OtherMethods(table, request, Len(table))
           found == Match(table, request)
<1>1. AnswerTo(table, method, path) = Dispatch(table, request, found)
  BY Zenon DEF AnswerTo, Serve
<1>2. CASE CouldAnswer(table, request, Len(table)) = {}
  <2>1. found.best = 0 /\ found.allowed = others
    <3>1. found = [best |-> 0, allowed |-> others]
      BY <1>2, MatchExact
    <3> HIDE DEF found, others
    <3> QED BY <3>1
  <2>2. Dispatch(table, request, found) =
          IF others # {} THEN Unmatched(405, "error", others) ELSE Unmatched(404, "error", {})
    <3> HIDE DEF found, others, request
    <3> QED BY <2>1 DEF Dispatch
  <2> HIDE DEF found, others
  <2>3. CASE others = {}
    BY <1>1, <2>2, <2>3, <1>2 DEF others, AnswerFollows, Told
  <2>4. CASE others # {}
    BY <1>1, <2>2, <2>4, <1>2 DEF others, AnswerFollows, Told
  <2> QED BY <2>3, <2>4
<1>3. CASE CouldAnswer(table, request, Len(table)) # {}
  <2>1. IsBest(table, request, Len(table), found.best)
    BY <1>3, MatchExact
  <2>2. found.best \in 1..Len(table) /\ found.best # 0
    <3> HIDE DEF found
    <3> QED BY <2>1 DEF IsBest, CouldAnswer
  <2>3. Dispatch(table, request, found) = FromRoute(table[found.best], request)
    <3> HIDE DEF found, request
    <3> QED BY <2>2 DEF Dispatch
  <2> HIDE DEF found
  <2> QED BY <1>1, <1>3, <2>1, <2>2, <2>3 DEF AnswerFollows
<1> QED
  BY <1>2, <1>3

\* What compileRoutes lets through.
LEMMA AcceptedTables ==
  ASSUME NEW table, TableAccepted(table)
  PROVE  /\ \A i \in DOMAIN table : table[i].id # "" /\ PathCompiles(SegmentsOf(table[i]))
         /\ \A i, j \in DOMAIN table : i # j =>
              /\ table[i].id # table[j].id
              /\ table[i].method = table[j].method =>
                   TemplateKey(SegmentsOf(table[i])) # TemplateKey(SegmentsOf(table[j]))
<1>1. \A i \in DOMAIN table : RouteAccepted(table[i])
  BY Zenon DEF TableAccepted
<1>2. \A i, j \in DOMAIN table : i # j =>
        /\ table[i].id # table[j].id
        /\ <<table[i].method, TemplateKey(SegmentsOf(table[i]))>>
             # <<table[j].method, TemplateKey(SegmentsOf(table[j]))>>
  BY Zenon DEF TableAccepted
<1>3. \A i \in DOMAIN table : table[i].id # "" /\ PathCompiles(SegmentsOf(table[i]))
  <2> SUFFICES ASSUME NEW i \in DOMAIN table
               PROVE  table[i].id # "" /\ PathCompiles(SegmentsOf(table[i]))
    OBVIOUS
  <2>1. RouteAccepted(table[i])
    BY <1>1
  <2> QED BY <2>1, Zenon DEF RouteAccepted
<1>4. ASSUME NEW i \in DOMAIN table, NEW j \in DOMAIN table, i # j,
             table[i].method = table[j].method
      PROVE  TemplateKey(SegmentsOf(table[i])) # TemplateKey(SegmentsOf(table[j]))
  BY <1>2, <1>4, Zenon
<1> QED
  BY <1>2, <1>3, <1>4

RoutesWithTemplates(AllRoutes) ==
  \A route \in AllRoutes : route.path \in DOMAIN PathTexts /\ route.enabled \in BOOLEAN

LEMMA AcceptedIsProper ==
  ASSUME NEW AllRoutes, RoutesWithTemplates(AllRoutes), NEW table \in Seq(AllRoutes), TableAccepted(table)
  PROVE  ProperTable(table)
<1>1. DOMAIN table = 1..Len(table) /\ Len(table) \in Nat
      /\ \A i \in DOMAIN table : table[i] \in AllRoutes
  OBVIOUS
<1>2. table \in Seq({table[i] : i \in DOMAIN table})
  <2> DEFINE E == {table[i] : i \in DOMAIN table}
  <2>1. table = [i \in 1..Len(table) |-> table[i]] /\ \A i \in 1..Len(table) : table[i] \in E
    BY <1>1
  <2> HIDE DEF E
  <2>2. table \in Seq(E)
    BY <1>1, <2>1
  <2> QED BY <2>2 DEF E
<1>3. \A i \in DOMAIN table : Placed(table[i]) /\ table[i].enabled \in BOOLEAN
  BY <1>1 DEF RoutesWithTemplates, Placed
<1>4. ASSUME NEW i \in DOMAIN table, NEW j \in DOMAIN table, i # j,
             table[i].method = table[j].method, table[i].path = table[j].path
      PROVE  FALSE
  <2>1. SegmentsOf(table[i]) = SegmentsOf(table[j])
    BY <1>4, Zenon DEF SegmentsOf
  <2>2. TemplateKey(SegmentsOf(table[i])) # TemplateKey(SegmentsOf(table[j]))
    BY <1>4, AcceptedTables
  <2> QED BY <2>1, <2>2, Zenon
<1> QED
  BY <1>2, <1>3, <1>4 DEF ProperTable

LEMMA ReverseIsProper ==
  ASSUME NEW table, ProperTable(table)
  PROVE  /\ ProperTable(Reverse(table)) /\ Len(Reverse(table)) = Len(table)
         /\ Len(table) \in Nat
         /\ \A i \in 1..Len(table) : /\ Reverse(table)[i] = table[Len(table) + 1 - i]
                                     /\ Len(table) + 1 - i \in 1..Len(table)
<1> DEFINE N == Len(table)
           E == {table[i] : i \in DOMAIN table}
           other == Reverse(table)
<1>1. table \in Seq(E) /\ N \in Nat /\ DOMAIN table = 1..N
  <2>1. table \in Seq(E)
    BY DEF ProperTable
  <2> HIDE DEF E
  <2> QED BY <2>1
<1>2. \A i \in 1..N : N + 1 - i \in 1..N /\ (N - i) + 1 = N + 1 - i /\ table[N + 1 - i] \in E
  BY <1>1
<1> HIDE DEF N, E
<1>3. other = [i \in 1..N |-> table[N + 1 - i]]
  <2>1. other = [i \in 1..N |-> table[(N - i) + 1]]
    BY DEF Reverse, N
  <2> HIDE DEF other
  <2> QED BY <1>2, <2>1
<1> HIDE DEF other
<1>4. Len(other) = N /\ DOMAIN other = 1..N /\ \A i \in 1..N : other[i] = table[N + 1 - i]
  BY <1>1, <1>3
<1>5. other \in Seq({other[i] : i \in DOMAIN other})
  <2> DEFINE F == {other[i] : i \in DOMAIN other}
  <2>1. other = [i \in 1..N |-> other[i]] /\ \A i \in 1..N : other[i] \in F
    BY <1>3, <1>4
  <2> HIDE DEF F
  <2>2. other \in Seq(F)
    BY <1>1, <2>1
  <2> QED BY <2>2 DEF F
<1>6. ASSUME NEW i \in 1..N, NEW j \in 1..N, i # j, other[i].method = other[j].method
      PROVE  other[i].path # other[j].path
  <2>1. N + 1 - i # N + 1 - j /\ N + 1 - i \in DOMAIN table /\ N + 1 - j \in DOMAIN table
    BY <1>1, <1>2, <1>6
  <2> QED BY <1>4, <1>6, <2>1 DEF ProperTable
<1>7. \A i \in 1..N : Placed(other[i]) /\ other[i].enabled \in BOOLEAN
  BY <1>1, <1>2, <1>4 DEF ProperTable
<1>8. ProperTable(other)
  BY <1>4, <1>5, <1>6, <1>7 DEF ProperTable
<1> QED
  BY <1>1, <1>2, <1>4, <1>8 DEF N, other

\* The order of the routes does not matter.
LEMMA OrderDoesNotMatter ==
  ASSUME NEW table, NEW method, NEW path, ProperTable(table)
  PROVE  AnswerTo(table, method, path) = AnswerTo(Reverse(table), method, path)
<1> DEFINE N == Len(table)
           other == Reverse(table)
           request == Probe(method, path)
           Turned(i) == N + 1 - i
<1>1. /\ ProperTable(other) /\ Len(other) = N /\ N \in Nat
      /\ \A i \in 1..N : other[i] = table[Turned(i)] /\ Turned(i) \in 1..N
  BY ReverseIsProper
<1>2. \A i \in 1..N : table[i] = other[Turned(i)] /\ Turned(Turned(i)) = i
  <2> SUFFICES ASSUME NEW i \in 1..N PROVE table[i] = other[Turned(i)] /\ Turned(Turned(i)) = i
    OBVIOUS
  <2>1. Turned(i) \in 1..N /\ Turned(Turned(i)) = i
    BY <1>1
  <2> HIDE DEF other
  <2> QED BY <1>1, <2>1
<1> HIDE DEF Turned, other, N, request
<1>3. \A i \in 1..N : Suits(other, request, i) <=> Suits(table, request, Turned(i))
  BY <1>1 DEF Suits
<1>4. \A i \in 1..N : i \in CouldAnswer(table, request, N) <=>
                        Turned(i) \in CouldAnswer(other, request, N)
  <2> SUFFICES ASSUME NEW i \in 1..N
               PROVE  i \in CouldAnswer(table, request, N) <=>
                        Turned(i) \in CouldAnswer(other, request, N)
    OBVIOUS
  <2>1. Turned(i) \in 1..N
    BY <1>1
  <2>2. Suits(other, request, Turned(i)) <=> Suits(table, request, i)
    BY <1>2, <1>3, <2>1
  <2>3. other[Turned(i)].method = table[i].method
    BY <1>2
  <2> QED BY <2>1, <2>2, <2>3 DEF CouldAnswer
<1>5. OtherMethods(table, request, N) = OtherMethods(other, request, N)
  <2>1. ASSUME NEW i \in 1..N, Suits(table, request, i), table[i].method # request.method
        PROVE  table[i].method \in OtherMethods(other, request, N)
    <3>1. /\ Turned(i) \in 1..N /\ Suits(other, request, Turned(i))
          /\ other[Turned(i)].method = table[i].method
      BY <1>1, <1>2, <1>3, <2>1
    <3> QED BY <2>1, <3>1 DEF OtherMethods
  <2>2. ASSUME NEW i \in 1..N, Suits(other, request, i), other[i].method # request.method
        PROVE  other[i].method \in OtherMethods(table, request, N)
    <3>1. /\ Turned(i) \in 1..N /\ Suits(table, request, Turned(i))
          /\ table[Turned(i)].method = other[i].method
      BY <1>1, <1>3, <2>2
    <3> QED BY <2>2, <3>1 DEF OtherMethods
  <2>3. ASSUME NEW m \in OtherMethods(table, request, N)
        PROVE  m \in OtherMethods(other, request, N)
    <3>1. PICK i \in 1..N : /\ Suits(table, request, i) /\ table[i].method # request.method
                            /\ m = table[i].method
      BY DEF OtherMethods
    <3> QED BY <2>1, <3>1
  <2>4. ASSUME NEW m \in OtherMethods(other, request, N)
        PROVE  m \in OtherMethods(table, request, N)
    <3>1. PICK i \in 1..N : /\ Suits(other, request, i) /\ other[i].method # request.method
                            /\ m = other[i].method
      BY DEF OtherMethods
    <3> QED BY <2>2, <3>1
  <2> QED BY <2>3, <2>4
<1>6. CouldAnswer(table, request, N) \subseteq 1..N /\ CouldAnswer(other, request, N) \subseteq 1..N
  BY DEF CouldAnswer
<1>9. AnswerFollows(table, method, path, N)
  BY AnswerIs, Zenon DEF N
<1>10. AnswerFollows(other, method, path, N)
  BY <1>1, AnswerIs, Zenon
<1>7. CASE CouldAnswer(table, request, N) = {}
  <2>1. CouldAnswer(other, request, N) = {}
    <3>1. ASSUME NEW i \in CouldAnswer(other, request, N) PROVE FALSE
      <4>1. i \in 1..N /\ Turned(i) \in 1..N /\ Turned(Turned(i)) = i
        BY <1>1, <1>2, <1>6, <3>1
      <4>2. Turned(i) \in CouldAnswer(table, request, N)
        BY <1>4, <3>1, <4>1
      <4> QED BY <1>7, <4>2
    <3> QED BY <3>1
  <2>2. AnswerTo(table, method, path) = Told(OtherMethods(table, request, N))
    BY <1>7, <1>9, Zenon DEF AnswerFollows, request
  <2>3. AnswerTo(other, method, path) = Told(OtherMethods(other, request, N))
    BY <1>10, <2>1, Zenon DEF AnswerFollows, request
  <2>5. AnswerTo(table, method, path) = AnswerTo(other, method, path)
    BY <1>5, <2>2, <2>3, Zenon
  <2> QED BY <2>5, Zenon DEF other
<1>8. CASE CouldAnswer(table, request, N) # {}
  <2>1. CouldAnswer(other, request, N) # {}
    BY <1>4, <1>6, <1>8
  <2>2. PICK i \in 1..N : /\ IsBest(table, request, N, i)
                          /\ AnswerTo(table, method, path) = FromRoute(table[i], request)
    BY <1>8, <1>9, Zenon DEF AnswerFollows, request
  <2>3. PICK j \in 1..N : /\ IsBest(other, request, N, j)
                          /\ AnswerTo(other, method, path) = FromRoute(other[j], request)
    BY <1>10, <2>1, Zenon DEF AnswerFollows, request
  <2> DEFINE k == Turned(j)
  <2>4. k \in 1..N /\ other[j] = table[k] /\ Turned(k) = j /\ Turned(i) \in 1..N
        /\ Turned(Turned(i)) = i /\ other[Turned(i)] = table[i]
    BY <1>1, <1>2
  <2> HIDE DEF k
  <2>5. i = k
    <3>1. SUFFICES ASSUME i # k PROVE FALSE
      OBVIOUS
    <3>2. MoreSpecific(table[i], table[k])
      <4>1. k \in CouldAnswer(table, request, N)
        BY <1>4, <2>3, <2>4 DEF IsBest
      <4> QED BY <2>2, <3>1, <4>1 DEF IsBest
    <3>3. MoreSpecific(table[k], table[i])
      <4>1. Turned(i) \in CouldAnswer(other, request, N)
        BY <1>4, <2>2 DEF IsBest
      <4>2. Turned(i) # j
        BY <2>4, <3>1 DEF k
      <4> QED BY <2>3, <2>4, <4>1, <4>2 DEF IsBest
    <3>4. Placed(table[i]) /\ Placed(table[k])
      <4>1. i \in DOMAIN table /\ k \in DOMAIN table
        <5>1. table \in Seq({table[n] : n \in DOMAIN table})
          BY DEF ProperTable
        <5> QED BY <2>2, <2>4, <5>1 DEF N
      <4> QED BY <4>1 DEF ProperTable
    <3> QED BY <3>2, <3>3, <3>4, SpecificityOrders
  <2>6. AnswerTo(table, method, path) = AnswerTo(other, method, path)
    BY <2>2, <2>3, <2>4, <2>5, Zenon
  <2> QED BY <2>6, Zenon DEF other
<1> QED
  BY <1>7, <1>8

-----------------------------------------------------------------------------
(* What an answer says of the table *)

\* A template is a sequence of segments.
LEMMA TemplatesAreSequences ==
  ASSUME NEW p \in DOMAIN PathTexts
  PROVE  /\ PathTexts[p] \in Seq(Segments) /\ Len(PathTexts[p]) \in Nat
         /\ DOMAIN PathTexts[p] = 1..Len(PathTexts[p])
         /\ \A i \in DOMAIN PathTexts[p] :
              PathTexts[p][i].text # "else" /\ PathTexts[p][i].kind \in {"literal", "parameter", "malformed"}
<1>1. PathTexts[p] \in Seq(Segments)
  BY RoutesAssumption
<1>2. \A i \in DOMAIN PathTexts[p] : PathTexts[p][i] \in Segments
  BY <1>1
<1>3. \A i \in DOMAIN PathTexts[p] : PathTexts[p][i].text \in WrittenTexts
  BY DEF WrittenTexts
<1>4. "else" \notin WrittenTexts
  BY RoutesAssumption
<1>5. \A i \in DOMAIN PathTexts[p] : PathTexts[p][i].kind \in {"literal", "parameter", "malformed"}
  <2> DEFINE kinds == {"literal", "parameter", "malformed"}
  <2>1. \A s \in Segments : s.kind \in kinds
    BY DEF Segments
  <2> QED BY <1>2, <2>1
<1> QED
  BY <1>1, <1>3, <1>4, <1>5

\* A request that only the routes with those literals, and more, can answer.
OwnPath(segments) ==
  [n \in 1..Len(segments) |-> IF segments[n].kind = "parameter" THEN "else" ELSE segments[n].text]

LEMMA OwnPathIsProbed ==
  ASSUME NEW p \in DOMAIN PathTexts, PathCompiles(PathTexts[p])
  PROVE  OwnPath(PathTexts[p]) \in ProbePaths /\ PathMatches(PathTexts[p], OwnPath(PathTexts[p]))
<1> DEFINE segments == PathTexts[p]
           path == OwnPath(segments)
           texts == {"", "else"} \cup
             UNION {{PathTexts[q][i].text : i \in Literals(PathTexts[q])} : q \in DOMAIN PathTexts}
           lengths == {Len(PathTexts[q]) : q \in DOMAIN PathTexts}
<1>1. /\ Len(segments) \in Nat /\ DOMAIN segments = 1..Len(segments)
      /\ \A i \in DOMAIN segments :
           segments[i].kind \in {"literal", "parameter", "malformed"} /\ segments[i].kind # "malformed"
  BY TemplatesAreSequences DEF PathCompiles
<1>2. ASSUME NEW n \in 1..Len(segments) PROVE path[n] \in texts
  <2>1. CASE segments[n].kind = "parameter"
    BY <2>1 DEF OwnPath
  <2>2. CASE segments[n].kind # "parameter" /\ segments[n].text = ""
    BY <2>2 DEF OwnPath
  <2>3. CASE segments[n].kind # "parameter" /\ segments[n].text # ""
    <3>1. n \in Literals(segments)
      BY <1>1, <2>3 DEF Literals, IsLiteral
    <3>2. path[n] = segments[n].text
      BY <2>3 DEF OwnPath
    <3>3. segments[n].text \in {PathTexts[p][i].text : i \in Literals(PathTexts[p])}
      BY <3>1
    <3>4. segments[n].text \in texts
      BY <3>3, Zenon
    <3> QED BY <3>2, <3>4
  <2> QED BY <2>1, <2>2, <2>3
<1>3. path = [n \in 1..Len(segments) |-> path[n]]
  BY DEF OwnPath
<1>4. path \in [1..Len(segments) -> texts] /\ Len(segments) \in lengths
  <2>1. Len(segments) \in lengths
    OBVIOUS
  <2> HIDE DEF texts, path, segments
  <2>2. path \in [1..Len(segments) -> texts]
    BY <1>2, <1>3
  <2> QED BY <2>1, <2>2
<1>5. ProbePaths = UNION {[1..n -> texts] : n \in lengths}
  BY DEF ProbePaths
<1>6. path \in ProbePaths
  <2> HIDE DEF texts, path, lengths, segments
  <2> QED BY <1>4, <1>5
<1>7. Len(path) = Len(segments)
  BY <1>1 DEF OwnPath
<1>8. \A i \in DOMAIN segments :
        IF segments[i].kind = "parameter" THEN path[i] # "" ELSE path[i] = segments[i].text
  BY <1>1 DEF OwnPath
<1> QED
  BY <1>6, <1>7, <1>8 DEF PathMatches

\* Another template that takes that path has fewer literals.
LEMMA OwnPathIsOwn ==
  ASSUME NEW p \in DOMAIN PathTexts, NEW q \in DOMAIN PathTexts,
         PathCompiles(PathTexts[p]), PathCompiles(PathTexts[q]),
         PathMatches(PathTexts[q], OwnPath(PathTexts[p])),
         TemplateKey(PathTexts[p]) # TemplateKey(PathTexts[q])
  PROVE  Cardinality(Literals(PathTexts[q])) < Cardinality(Literals(PathTexts[p]))
<1> DEFINE a == PathTexts[p]
           b == PathTexts[q]
           path == OwnPath(a)
           N == Len(a)
<1>1. /\ N \in Nat /\ DOMAIN a = 1..N
      /\ \A i \in 1..N : a[i].text # "else" /\ (a[i].kind = "literal" \/ a[i].kind = "parameter")
  BY TemplatesAreSequences DEF PathCompiles
<1>2. Len(path) = N /\ \A i \in 1..N :
        path[i] = IF a[i].kind = "parameter" THEN "else" ELSE a[i].text
  BY <1>1 DEF OwnPath
<1>3. /\ Len(b) = N /\ DOMAIN b = 1..N
      /\ \A i \in 1..N : b[i].text # "else" /\ (b[i].kind = "literal" \/ b[i].kind = "parameter")
  <2>1. Len(b) = N
    BY <1>2 DEF PathMatches
  <2> QED BY <2>1, TemplatesAreSequences DEF PathCompiles
<1>4. \A i \in 1..N : IF b[i].kind = "parameter" THEN path[i] # "" ELSE path[i] = b[i].text
  BY <1>3 DEF PathMatches
<1> HIDE DEF path, N
<1>5. Literals(b) \subseteq Literals(a)
  <2> SUFFICES ASSUME NEW i \in Literals(b) PROVE i \in Literals(a)
    OBVIOUS
  <2>1. i \in 1..N /\ b[i].kind = "literal" /\ b[i].text # ""
    BY <1>3 DEF Literals, IsLiteral
  <2>2. path[i] = b[i].text /\ path[i] # "else"
    BY <1>3, <1>4, <2>1
  <2>3. a[i].kind = "literal" /\ a[i].text = b[i].text
    BY <1>1, <1>2, <2>1, <2>2
  <2> QED BY <1>1, <2>1, <2>3 DEF Literals, IsLiteral
<1>6. Literals(b) # Literals(a)
  <2> SUFFICES ASSUME Literals(b) = Literals(a) PROVE TemplateKey(a) = TemplateKey(b)
    OBVIOUS
  <2>1. ASSUME NEW i \in 1..N
        PROVE  (IF a[i].kind = "parameter" THEN <<>> ELSE <<a[i].text>>) =
                 (IF b[i].kind = "parameter" THEN <<>> ELSE <<b[i].text>>)
    <3>1. CASE a[i].kind = "parameter"
      <4>1. path[i] = "else"
        BY <1>2, <3>1
      <4>2. b[i].kind = "parameter"
        BY <1>3, <1>4, <4>1
      <4> QED BY <3>1, <4>2
    <3>2. CASE a[i].kind = "literal" /\ a[i].text = ""
      <4>1. path[i] = ""
        BY <1>2, <3>2
      <4>2. b[i].kind # "parameter" /\ b[i].text = ""
        BY <1>4, <4>1
      <4> QED BY <3>2, <4>2
    <3>3. CASE a[i].kind = "literal" /\ a[i].text # ""
      <4>1. i \in Literals(a)
        BY <1>1, <3>3 DEF Literals, IsLiteral
      <4>2. b[i].kind = "literal"
        BY <4>1, <2>1 DEF Literals, IsLiteral
      <4>3. path[i] = a[i].text /\ path[i] = b[i].text
        BY <1>2, <1>4, <3>3, <4>2
      <4> QED BY <3>3, <4>2, <4>3
    <3> QED BY <1>1, <3>1, <3>2, <3>3
  <2>2. TemplateKey(a) = [i \in 1..N |-> IF a[i].kind = "parameter" THEN <<>> ELSE <<a[i].text>>]
    BY <1>1 DEF TemplateKey
  <2>3. TemplateKey(b) = [i \in 1..N |-> IF b[i].kind = "parameter" THEN <<>> ELSE <<b[i].text>>]
    BY <1>3 DEF TemplateKey
  <2> QED BY <2>1, <2>2, <2>3
<1>7. IsFiniteSet(Literals(a))
  <2>1. IsFiniteSet(1..N)
    BY <1>1, FS_Interval
  <2>2. Literals(a) \subseteq 1..N
    BY <1>1 DEF Literals
  <2> QED BY <2>1, <2>2, FS_Subset
<1>8. /\ IsFiniteSet(Literals(b)) /\ Cardinality(Literals(b)) \in Nat
      /\ Cardinality(Literals(a)) \in Nat /\ Cardinality(Literals(b)) <= Cardinality(Literals(a))
      /\ Cardinality(Literals(b)) = Cardinality(Literals(a)) => Literals(b) = Literals(a)
  BY <1>5, <1>7, FS_Subset, FS_CardinalityType
<1> QED
  BY <1>6, <1>8

Chosen(params, name) == CHOOSE p \in params : p.name = name

LEMMA ChosenExists ==
  ASSUME NEW params, NEW name, \E p \in params : p.name = name
  PROVE  Chosen(params, name) \in params /\ Chosen(params, name).name = name
BY Zenon DEF Chosen

\* The path comes back when the parameters of the answer are put into the template.
LEMMA PathComesBack ==
  ASSUME NEW p \in DOMAIN PathTexts, PathCompiles(PathTexts[p]), NEW path \in ProbePaths,
         PathMatches(PathTexts[p], path)
  PROVE  path = PutBack(PathTexts[p], PathParams(PathTexts[p], path))
<1> DEFINE segments == PathTexts[p]
           params == PathParams(segments, path)
           texts == {"", "else"} \cup
             UNION {{PathTexts[q][i].text : i \in Literals(PathTexts[q])} : q \in DOMAIN PathTexts}
           N == Len(segments)
<1>1. /\ N \in Nat /\ DOMAIN segments = 1..N
      /\ \A i \in 1..N : segments[i].kind = "literal" \/ segments[i].kind = "parameter"
      /\ \A i, j \in Parameters(segments) : i # j => segments[i].text # segments[j].text
  BY TemplatesAreSequences DEF PathCompiles
<1>2. path = [n \in 1..N |-> path[n]]
  <2>1. PICK q \in DOMAIN PathTexts : path \in [1..Len(PathTexts[q]) -> texts]
    BY Zenon DEF ProbePaths
  <2>2. Len(PathTexts[q]) \in Nat
    BY TemplatesAreSequences
  <2> HIDE DEF texts
  <2>3. Len(path) = Len(PathTexts[q]) /\ path = [n \in 1..Len(PathTexts[q]) |-> path[n]]
    BY <2>1, <2>2
  <2>4. Len(path) = N
    BY DEF PathMatches
  <2> QED BY <2>3, <2>4
<1>3. \A i \in 1..N : segments[i].kind = "literal" => path[i] = segments[i].text
  BY <1>1 DEF PathMatches
<1> HIDE DEF segments, N
<1>4. ASSUME NEW n \in 1..N, segments[n].kind # "literal"
      PROVE  Chosen(params, segments[n].text).value = path[n]
  <2>1. n \in Parameters(segments)
    BY <1>1, <1>4 DEF Parameters
  <2>2. [name |-> segments[n].text, value |-> path[n]] \in params
    BY <2>1 DEF PathParams
  <2>3. Chosen(params, segments[n].text) \in params
        /\ Chosen(params, segments[n].text).name = segments[n].text
    <3> HIDE DEF params
    <3>1. \E c \in params : c.name = segments[n].text
      BY <2>2
    <3> QED BY <3>1, ChosenExists
  <2>4. PICK i \in Parameters(segments) :
          Chosen(params, segments[n].text) = [name |-> segments[i].text, value |-> path[i]]
    BY <2>3 DEF PathParams
  <2>5. segments[i].text = segments[n].text
    BY <2>3, <2>4
  <2>6. i = n
    BY <1>1, <2>1, <2>5
  <2> QED BY <2>4, <2>6
<1>5. PutBack(segments, params) =
        [n \in 1..N |-> IF segments[n].kind = "literal" THEN segments[n].text
                        ELSE Chosen(params, segments[n].text).value]
  BY <1>1, Zenon DEF PutBack, Chosen
<1> HIDE DEF params
<1>6. PutBack(segments, params) = [n \in 1..N |-> path[n]]
  BY <1>3, <1>4, <1>5
<1> QED
  BY <1>2, <1>6 DEF segments, params

\* A request is answered by a route when one could answer it, and only then.
LEMMA MatchedWhen ==
  ASSUME NEW table, NEW method, NEW path, ProperTable(table), NEW N, N = Len(table)
  PROVE  AnswerTo(table, method, path).matched <=>
           \E i \in 1..N : Suits(table, Probe(method, path), i) /\ table[i].method = method
<1> DEFINE request == Probe(method, path)
           C == CouldAnswer(table, request, N)
<1>1. AnswerFollows(table, method, path, N)
  BY AnswerIs
<1>2. C = {} <=> ~\E i \in 1..N : Suits(table, request, i) /\ table[i].method = method
  BY DEF CouldAnswer, Probe
<1>3. CASE C = {}
  <2>1. AnswerTo(table, method, path) = Told(OtherMethods(table, request, N))
    BY <1>1, <1>3, Zenon DEF AnswerFollows
  <2>2. Told(OtherMethods(table, request, N)).matched = FALSE
    BY DEF Told, Unmatched
  <2> QED BY <1>2, <1>3, <2>1, <2>2
<1>4. CASE C # {}
  <2>1. PICK i \in 1..N : AnswerTo(table, method, path) = FromRoute(table[i], request)
    BY <1>1, <1>4, Zenon DEF AnswerFollows
  <2>2. FromRoute(table[i], request).matched = TRUE
    BY DEF FromRoute
  <2> QED BY <1>2, <1>4, <2>1, <2>2
<1> QED
  BY <1>3, <1>4

LEMMA FromRouteTells ==
  ASSUME NEW route, NEW request
  PROVE  /\ FromRoute(route, request).matched = TRUE /\ FromRoute(route, request).id = route.id
         /\ FromRoute(route, request).params = PathParams(SegmentsOf(route), request.path)
BY DEF FromRoute

\* What an accepted table answers explains itself.
LEMMA AnswersAreExplained ==
  ASSUME NEW AllRoutes, RoutesWithTemplates(AllRoutes), NEW table \in Seq(AllRoutes), TableAccepted(table),
         NEW path \in ProbePaths, NEW method
  PROVE  AnswerExplained(table, method, path, AnswerTo(table, method, path),
           {m \in {table[i].method : i \in DOMAIN table} : AnswerTo(table, m, path).matched})
<1> DEFINE N == Len(table)
           request == Probe(method, path)
           methods == {table[i].method : i \in DOMAIN table}
           others == {m \in methods : AnswerTo(table, m, path).matched}
           answer == AnswerTo(table, method, path)
<1>1. /\ ProperTable(table) /\ N \in Nat /\ DOMAIN table = 1..N
      /\ \A i \in 1..N : table[i].path \in DOMAIN PathTexts
  BY AcceptedIsProper DEF RoutesWithTemplates
<1>2. AnswerFollows(table, method, path, N)
  BY <1>1, AnswerIs
<1>3. \A m : \A i \in 1..N : Suits(table, Probe(m, path), i) <=> Suits(table, request, i)
  BY DEF Suits, Probe
<1>4. request.method = method /\ request.path = path /\ request.leaves = FALSE
  BY DEF Probe
<1>5. \A m : AnswerTo(table, m, path).matched <=>
               \E i \in 1..N : Suits(table, Probe(m, path), i) /\ table[i].method = m
  BY <1>1, MatchedWhen
<1> HIDE DEF N, request
<1>6. CASE CouldAnswer(table, request, N) = {}
  <2>1. answer = Told(OtherMethods(table, request, N))
    BY <1>2, <1>6, Zenon DEF AnswerFollows, request
  <2>2. others = OtherMethods(table, request, N)
    <3>1. ASSUME NEW m \in others PROVE m \in OtherMethods(table, request, N)
      <4>1. PICK i \in 1..N : Suits(table, request, i) /\ table[i].method = m
        BY <1>3, <1>5
      <4>2. m # request.method
        BY <1>6, <4>1 DEF CouldAnswer
      <4> QED BY <4>1, <4>2 DEF OtherMethods
    <3>2. ASSUME NEW m \in OtherMethods(table, request, N) PROVE m \in others
      <4>1. PICK i \in 1..N : Suits(table, request, i) /\ m = table[i].method
        BY DEF OtherMethods
      <4>2. m \in methods /\ AnswerTo(table, m, path).matched
        BY <1>1, <1>3, <1>5, <4>1
      <4> QED BY <4>2
    <3> HIDE DEF others
    <3> QED BY <3>1, <3>2
  <2> HIDE DEF others, answer
  <2>3. /\ answer.matched = FALSE /\ answer.allowed = others
        /\ answer.status = IF others = {} THEN 404 ELSE 405
    BY <2>1, <2>2 DEF Told, Unmatched
  <2>4. AnswerExplained(table, method, path, answer, others)
    BY <2>3 DEF AnswerExplained
  <2> QED BY <2>4, Zenon DEF answer, others
<1>7. CASE CouldAnswer(table, request, N) # {}
  <2>1. PICK i \in 1..N : /\ IsBest(table, request, N, i)
                          /\ answer = FromRoute(table[i], request)
    BY <1>2, <1>7, Zenon DEF AnswerFollows, request
  <2>2. Suits(table, request, i) /\ table[i].method = method
    BY <1>4, <2>1 DEF IsBest, CouldAnswer
  <2>3. PathCompiles(PathTexts[table[i].path]) /\ table[i].path \in DOMAIN PathTexts
    BY <1>1, AcceptedTables DEF SegmentsOf
  <2>4. PathMatches(PathTexts[table[i].path], path) /\ table[i].enabled
    BY <1>4, <2>2 DEF Suits, SegmentsOf
  <2>5. path = PutBack(SegmentsOf(table[i]), PathParams(SegmentsOf(table[i]), path))
    BY <2>3, <2>4, PathComesBack DEF SegmentsOf
  <2>6. /\ answer.matched = TRUE /\ answer.id = table[i].id
        /\ answer.params = PathParams(SegmentsOf(table[i]), path)
    <3>1. /\ FromRoute(table[i], request).matched = TRUE
          /\ FromRoute(table[i], request).id = table[i].id
          /\ FromRoute(table[i], request).params = PathParams(SegmentsOf(table[i]), path)
      BY <1>4, FromRouteTells
    <3> HIDE DEF answer
    <3> QED BY <2>1, <3>1
  <2> HIDE DEF answer, others
  <2>7. AnswerExplained(table, method, path, answer, others)
    BY <1>1, <2>2, <2>4, <2>5, <2>6 DEF AnswerExplained
  <2> QED BY <2>7, Zenon DEF answer, others
<1> QED
  BY <1>6, <1>7

\* No enabled route of an accepted table is shadowed by the others.
LEMMA NoRouteIsShadowed ==
  ASSUME NEW AllRoutes, RoutesWithTemplates(AllRoutes), NEW table \in Seq(AllRoutes), TableAccepted(table),
         NEW i \in DOMAIN table, table[i].enabled
  PROVE  \E path \in ProbePaths : AnswerTo(table, table[i].method, path).id = table[i].id
<1> DEFINE N == Len(table)
           path == OwnPath(SegmentsOf(table[i]))
           method == table[i].method
           request == Probe(method, path)
<1>1. /\ ProperTable(table) /\ N \in Nat /\ DOMAIN table = 1..N
      /\ \A n \in 1..N : table[n].path \in DOMAIN PathTexts
      /\ \A n \in 1..N : PathCompiles(SegmentsOf(table[n]))
  <2>1. ProperTable(table)
    BY AcceptedIsProper
  <2>2. N \in Nat /\ DOMAIN table = 1..N /\ \A n \in 1..N : table[n] \in AllRoutes
    OBVIOUS
  <2>3. \A n \in 1..N : PathCompiles(SegmentsOf(table[n]))
    BY <2>2, AcceptedTables
  <2> QED BY <2>1, <2>2, <2>3 DEF RoutesWithTemplates
<1>2. path \in ProbePaths /\ PathMatches(SegmentsOf(table[i]), path)
  BY <1>1, OwnPathIsProbed DEF SegmentsOf
<1>3. AnswerFollows(table, method, path, N)
  BY <1>1, AnswerIs
<1>4. request.method = method /\ request.path = path
  BY DEF Probe
<1> HIDE DEF path, method
<1>5. i \in CouldAnswer(table, request, N)
  BY <1>1, <1>2, <1>4 DEF CouldAnswer, Suits, method
<1>6. PICK b \in 1..N : /\ IsBest(table, request, N, b)
                        /\ AnswerTo(table, method, path) = FromRoute(table[b], request)
  BY <1>3, <1>5, Zenon DEF AnswerFollows
<1>7. b = i
  <2> SUFFICES ASSUME b # i PROVE FALSE
    OBVIOUS
  <2>1. MoreSpecific(table[b], table[i])
    BY <1>5, <1>6 DEF IsBest
  <2>2. PathMatches(SegmentsOf(table[b]), path) /\ table[b].method = table[i].method
    BY <1>4, <1>6 DEF IsBest, CouldAnswer, Suits, method
  <2>3. TemplateKey(SegmentsOf(table[i])) # TemplateKey(SegmentsOf(table[b]))
    BY <1>1, <2>2, AcceptedTables
  <2> DEFINE mine == Cardinality(Literals(SegmentsOf(table[i])))
             theirs == Cardinality(Literals(SegmentsOf(table[b])))
  <2>4. theirs < mine
    BY <1>1, <2>2, <2>3, OwnPathIsOwn DEF SegmentsOf, path
  <2>5. mine \in Nat /\ theirs \in Nat
    BY <1>1, Specificity DEF SegmentsOf
  <2> HIDE DEF mine, theirs
  <2>6. theirs - mine # 0 /\ ~(theirs - mine > 0)
    BY <2>4, <2>5
  <2>7. ~MoreSpecific(table[b], table[i])
    BY <2>6, Zenon DEF MoreSpecific, MoreSpecificSegments, mine, theirs
  <2> QED BY <2>1, <2>7
<1>8. AnswerTo(table, method, path).id = table[i].id
  <2>1. FromRoute(table[i], request).id = table[i].id
    BY FromRouteTells
  <2> HIDE DEF request
  <2> QED BY <1>6, <1>7, <2>1
<1> QED
  BY <1>2, <1>8 DEF method

\* RoutesExact, for every set of templates and every limit, and for tables of
\* every length: an accepted table answers by what it contains and not by its
\* order, 405 names exactly the methods that would be answered, an answer is
\* explained by an enabled route and its parameters, and none is shadowed
\* (server.go:345, match).
THEOREM RoutesAreExact ==
  ASSUME NEW AllRoutes, RoutesWithTemplates(AllRoutes), Asks("table") => question.table \in Seq(AllRoutes)
  PROVE  RoutesExact
<1> SUFFICES ASSUME NEW table \in Seq(AllRoutes), TableAccepted(table)
             PROVE  /\ \A methods \in {{table[i].method : i \in DOMAIN table}} :
                         \A path \in ProbePaths, method \in methods :
                           \A answer \in {AnswerTo(table, method, path)} :
                             /\ answer = AnswerTo(Reverse(table), method, path)
                             /\ AnswerExplained(table, method, path, answer,
                                  {m \in methods : AnswerTo(table, m, path).matched})
                    /\ \A i \in DOMAIN table :
                         table[i].enabled =>
                           \E path \in ProbePaths :
                             AnswerTo(table, table[i].method, path).id = table[i].id
  BY Zenon DEF RoutesExact
<1>1. ProperTable(table)
  BY AcceptedIsProper
<1>2. \A path \in ProbePaths : \A method :
        AnswerTo(table, method, path) = AnswerTo(Reverse(table), method, path)
  BY <1>1, OrderDoesNotMatter
<1>3. \A path \in ProbePaths : \A method :
        AnswerExplained(table, method, path, AnswerTo(table, method, path),
           {m \in {table[i].method : i \in DOMAIN table} : AnswerTo(table, m, path).matched})
  BY AnswersAreExplained, Zenon
<1>4. \A i \in DOMAIN table :
        table[i].enabled =>
          \E path \in ProbePaths : AnswerTo(table, table[i].method, path).id = table[i].id
  BY NoRouteIsShadowed, Zenon
<1> QED
  BY <1>2, <1>3, <1>4, Zenon

\* AnswersExact, for all templates and limits, tables and logs of every length:
\* what a window sees of the server's answers (server.go:345, server.go:700).
THEOREM AnswersAreExact ==
  ASSUME NEW AllRoutes, RoutesWithTemplates(AllRoutes), NEW Events,
         Asks("table") => question.table \in Seq(AllRoutes),
         Asks("hits") => question.hits \in Seq(Events)
  PROVE  AnswersExact
BY HitsAreExact, RoutesAreExact DEF AnswersExact

-----------------------------------------------------------------------------
(* The ring of observed calls *)

\* The place in the ring of the i-th oldest of N keys.
RingPlace(next, N, i) == IF next + i - 1 <= N THEN next + i - 1 ELSE next + i - 1 - N

\* The ring holds what the queue holds: as many keys, in its order from the place of the
\* oldest and round, with its counts; and a ring that is not full begins at its first place.
Mirror(observed, order, next, queue, N) ==
  /\ N \in 0..Capacity /\ next \in 1..Capacity
  /\ N < Capacity => next = 1
  /\ queue = [i \in 1..N |-> [key |-> queue[i].key, count |-> queue[i].count]]
  /\ order = [k \in 1..N |-> order[k]]
  /\ \A i, j \in 1..N : i # j => queue[i].key # queue[j].key
  /\ \A i \in 1..N : order[RingPlace(next, N, i)] = queue[i].key
  /\ observed = [key \in {queue[i].key : i \in 1..N} |-> observed[key]]
  /\ \A i \in 1..N : observed[queue[i].key] = queue[i].count

Mirrors(ring, queue, N) ==
  /\ ring = [observed |-> ring.observed, order |-> ring.order, next |-> ring.next]
  /\ Mirror(ring.observed, ring.order, ring.next, queue, N)

LEMMA MirrorsWhen ==
  ASSUME NEW observed, NEW order, NEW next, NEW queue, NEW N
  PROVE  Mirrors([observed |-> observed, order |-> order, next |-> next], queue, N)
           <=> Mirror(observed, order, next, queue, N)
BY DEF Mirrors

LEMMA PlacesGoRound ==
  ASSUME NEW N \in Nat \ {0}, NEW next \in 1..N
  PROVE  /\ \A i \in 1..N : RingPlace(next, N, i) \in 1..N
         /\ \A i, j \in 1..N : i # j => RingPlace(next, N, i) # RingPlace(next, N, j)
         /\ \A k \in 1..N : \E i \in 1..N : RingPlace(next, N, i) = k
         /\ RingPlace(next, N, 1) = next
         /\ \A i \in 1..N : RingPlace(next, N, i) = ((next + i - 2) % N) + 1
<1>1. \A i \in 1..N : RingPlace(next, N, i) \in 1..N
  BY DEF RingPlace
<1>2. \A i, j \in 1..N : i # j => RingPlace(next, N, i) # RingPlace(next, N, j)
  BY DEF RingPlace
<1>3. ASSUME NEW k \in 1..N PROVE \E i \in 1..N : RingPlace(next, N, i) = k
  <2>1. CASE k >= next
    <3>1. k - next + 1 \in 1..N /\ RingPlace(next, N, k - next + 1) = k
      BY <2>1 DEF RingPlace
    <3> QED BY <3>1
  <2>2. CASE k < next
    <3>1. k - next + 1 + N \in 1..N /\ RingPlace(next, N, k - next + 1 + N) = k
      BY <2>2 DEF RingPlace
    <3> QED BY <3>1
  <2> QED BY <2>1, <2>2
<1>4. RingPlace(next, N, 1) = next
  BY DEF RingPlace
<1>5. ASSUME NEW i \in 1..N PROVE RingPlace(next, N, i) = ((next + i - 2) % N) + 1
  <2>1. PICK a \in Nat : a = next + i - 2
    OBVIOUS
  <2>2. CASE a < N
    <3>1. a % N = a
      BY <2>2
    <3> QED BY <2>1, <2>2, <3>1 DEF RingPlace
  <2>3. CASE ~(a < N)
    <3>1. a % N = a - N
      <4>1. a - N \in 0..(N - 1) /\ a = N * 1 + (a - N)
        BY <2>1, <2>3
      <4> QED BY <4>1
    <3> QED BY <2>1, <2>3, <3>1 DEF RingPlace
  <2> QED BY <2>1, <2>2, <2>3
<1> QED
  BY <1>1, <1>2, <1>3, <1>4, <1>5

\* The place of the oldest moves on, and every other key is one place nearer to it.
LEMMA PlacesMoveOn ==
  ASSUME NEW next \in 1..Capacity
  PROVE  /\ (next % Capacity) + 1 \in 1..Capacity
         /\ RingPlace((next % Capacity) + 1, Capacity, Capacity) = next
         /\ \A i \in 1..(Capacity - 1) :
              RingPlace((next % Capacity) + 1, Capacity, i) = RingPlace(next, Capacity, i + 1)
<1>1. Capacity \in Nat \ {0}
  BY CoverageAssumption
<1>2. (next % Capacity) + 1 = IF next = Capacity THEN 1 ELSE next + 1
  <2>1. next < Capacity => next % Capacity = next
    BY <1>1
  <2>2. Capacity % Capacity = 0
    BY <1>1
  <2> QED BY <1>1, <2>1, <2>2
<1>3. PICK then : then = (next % Capacity) + 1
  OBVIOUS
<1>4. /\ then \in 1..Capacity /\ RingPlace(then, Capacity, Capacity) = next
      /\ \A i \in 1..(Capacity - 1) :
           RingPlace(then, Capacity, i) = RingPlace(next, Capacity, i + 1)
  BY <1>1, <1>2, <1>3 DEF RingPlace
<1> QED
  BY <1>3, <1>4

LEMMA MirrorsNothing == Mirrors(ResetEndpointCoverage, <<>>, 0)
<1>1. Capacity \in Nat \ {0}
  BY CoverageAssumption
<1>2. 1..0 = {} /\ <<>> = [i \in {} |-> 0]
  OBVIOUS
<1>3. {<<>>[i].key : i \in {}} = {}
  OBVIOUS
<1>4. /\ <<>> = [i \in {} |-> [key |-> <<>>[i].key, count |-> <<>>[i].count]]
      /\ <<>> = [k \in {} |-> <<>>[k]]
  BY <1>2
<1>5. ResetEndpointCoverage = [observed |-> <<>>, order |-> <<>>, next |-> 1]
  BY DEF ResetEndpointCoverage
<1> QED
  BY <1>1, <1>2, <1>3, <1>4, <1>5 DEF Mirrors, Mirror

\* A key that is kept is counted in its place.
LEMMA MirrorsSeen ==
  ASSUME NEW ring, NEW queue, NEW N, Mirrors(ring, queue, N), NEW event, event # "reset",
         \E i \in 1..N : queue[i].key = event
  PROVE  Mirrors(Observe(ring, event), QueueStep(queue, event), N)
<1>1. PICK observed, order, next :
        ring = [observed |-> observed, order |-> order, next |-> next]
  BY DEF Mirrors
<1>0. Mirror(observed, order, next, queue, N)
  BY <1>1, MirrorsWhen
<1>2. /\ N \in 0..Capacity /\ next \in 1..Capacity /\ (N < Capacity => next = 1)
      /\ order = [k \in 1..N |-> order[k]]
      /\ \A i, j \in 1..N : i # j => queue[i].key # queue[j].key
      /\ \A i \in 1..N : order[RingPlace(next, N, i)] = queue[i].key
      /\ \A i \in 1..N : observed[queue[i].key] = queue[i].count
  BY <1>0 DEF Mirror
<1> DEFINE keys == {queue[i].key : i \in 1..N}
<1>3. observed = [key \in keys |-> observed[key]]
  BY <1>0 DEF Mirror
<1>4. queue = [i \in 1..N |-> [key |-> queue[i].key, count |-> queue[i].count]]
  BY <1>0 DEF Mirror
<1>5. DOMAIN queue = 1..N
  BY <1>4
<1>6. PICK e \in 1..N : queue[e].key = event
  OBVIOUS
<1> DEFINE then == QueueStep(queue, event)
           seen == [observed EXCEPT ![event] = @ + 1]
<1>7. then = [i \in 1..N |-> IF queue[i].key = event THEN [queue[i] EXCEPT !.count = @ + 1]
                             ELSE queue[i]]
  BY <1>5, <1>6 DEF QueueStep
<1>8. ASSUME NEW i \in 1..N
      PROVE  /\ then[i] = [key |-> then[i].key, count |-> then[i].count]
             /\ then[i].key = queue[i].key
             /\ then[i].count = IF i = e THEN queue[i].count + 1 ELSE queue[i].count
  <2>1. PICK key, count : queue[i] = [key |-> key, count |-> count]
    BY <1>4
  <2>2. (key = event) <=> (i = e)
    BY <1>2, <1>6, <2>1
  <2>3. then[i] = IF i = e THEN [key |-> key, count |-> count + 1]
                  ELSE [key |-> key, count |-> count]
    <3> HIDE DEF then
    <3> QED BY <1>7, <2>1, <2>2
  <2> HIDE DEF then
  <2> QED BY <2>1, <2>3
<1>9. Observe(ring, event) = [observed |-> seen, order |-> order, next |-> next]
  <2>1. event \in DOMAIN ring.observed
    BY <1>1, <1>3, <1>6
  <2>2. Observe(ring, event) = [ring EXCEPT !.observed[event] = @ + 1]
    BY <2>1 DEF Observe, RecordObservedCall
  <2> QED BY <1>1, <2>2
<1>10. /\ seen = [key \in keys |-> seen[key]]
       /\ \A key \in keys : seen[key] = IF key = event THEN observed[key] + 1 ELSE observed[key]
  <2>1. DOMAIN observed = keys
    BY <1>3
  <2> HIDE DEF keys
  <2> QED BY <2>1
<1> HIDE DEF then, seen, keys
<1>11. keys = {then[i].key : i \in 1..N}
  BY <1>8 DEF keys
<1>12. \A i \in 1..N : seen[then[i].key] = then[i].count
  <2> SUFFICES ASSUME NEW i \in 1..N PROVE seen[then[i].key] = then[i].count
    OBVIOUS
  <2>1. queue[i].key \in keys /\ then[i].key = queue[i].key
    BY <1>8 DEF keys
  <2>2. (queue[i].key = event) <=> (i = e)
    BY <1>2, <1>6
  <2>3. observed[queue[i].key] = queue[i].count
    BY <1>2
  <2>4. seen[queue[i].key] = IF queue[i].key = event THEN observed[queue[i].key] + 1
                             ELSE observed[queue[i].key]
    BY <1>10, <2>1
  <2> QED BY <1>8, <2>1, <2>2, <2>3, <2>4
<1>13. then = [i \in 1..N |-> [key |-> then[i].key, count |-> then[i].count]]
  <2>1. then = [i \in 1..N |-> then[i]]
    BY <1>7
  <2>2. \A i \in 1..N : then[i] = [key |-> then[i].key, count |-> then[i].count]
    BY <1>8
  <2> QED BY <2>1, <2>2
<1>14. \A i, j \in 1..N : i # j => then[i].key # then[j].key
  <2>1. \A i \in 1..N : then[i].key = queue[i].key
    BY <1>8
  <2> QED BY <1>2, <2>1
<1>15. \A i \in 1..N : order[RingPlace(next, N, i)] = then[i].key
  BY <1>2, <1>8
<1>16. Mirror(seen, order, next, then, N)
  BY <1>2, <1>10, <1>11, <1>12, <1>13, <1>14, <1>15 DEF Mirror
<1> QED
  BY <1>9, <1>16, MirrorsWhen DEF then

\* What is counted is what the queue holds.
LEMMA MirrorsKeys ==
  ASSUME NEW observed, NEW order, NEW next, NEW queue, NEW N, Mirror(observed, order, next, queue, N)
  PROVE  /\ \A key : key \in DOMAIN observed <=> \E i \in 1..N : queue[i].key = key
         /\ DOMAIN queue = 1..N /\ N \in Nat /\ Len(order) = N /\ Len(queue) = N
<1>1. N \in Nat
  BY CoverageAssumption DEF Mirror
<1>2. order = [k \in 1..N |-> order[k]] /\ queue = [k \in 1..N |-> queue[k]]
  <2>1. order = [k \in 1..N |-> order[k]]
    BY DEF Mirror
  <2>2. queue = [i \in 1..N |-> [key |-> queue[i].key, count |-> queue[i].count]]
    BY DEF Mirror
  <2>3. DOMAIN queue = 1..N
    BY <2>2
  <2> QED BY <2>1, <2>2, <2>3
<1>3. \A key : key \in DOMAIN observed <=> \E i \in 1..N : queue[i].key = key
  <2>1. observed = [key \in {queue[i].key : i \in 1..N} |-> observed[key]]
    BY DEF Mirror
  <2> DEFINE keys == {queue[i].key : i \in 1..N}
  <2> HIDE DEF keys
  <2>2. observed = [key \in keys |-> observed[key]]
    BY <2>1 DEF keys
  <2>3. DOMAIN observed = keys
    BY <2>2
  <2> QED BY <2>3, Zenon DEF keys
<1> DEFINE O == {order[k] : k \in 1..N}
           Q == {queue[k] : k \in 1..N}
<1>4. /\ \A k \in 1..N : order[k] \in O
      /\ \A k \in 1..N : queue[k] \in Q
  OBVIOUS
<1> HIDE DEF O, Q
<1>5. order \in Seq(O) /\ queue \in Seq(Q) /\ Len(order) = N /\ Len(queue) = N
      /\ DOMAIN queue = 1..N
  BY <1>1, <1>2, <1>4
<1> QED
  BY <1>1, <1>2, <1>3, <1>5

LEMMA AppendedSequence ==
  ASSUME NEW N \in Nat, NEW seq, seq = [k \in 1..N |-> seq[k]], NEW x
  PROVE  Append(seq, x) = [k \in 1..(N + 1) |-> IF k = N + 1 THEN x ELSE seq[k]]
<1> DEFINE S == {seq[k] : k \in 1..N} \cup {x}
<1>1. x \in S /\ \A k \in 1..N : seq[k] \in S
  OBVIOUS
<1> HIDE DEF S
<1>2. seq \in Seq(S) /\ Len(seq) = N
  BY <1>1
<1>3. PICK longer : longer = Append(seq, x)
  OBVIOUS
<1>4. /\ longer \in Seq(S) /\ Len(longer) = N + 1
      /\ \A k \in 1..N : longer[k] = seq[k]
      /\ longer[N + 1] = x
  BY <1>1, <1>2, <1>3, AppendProperties
<1>5. longer = [k \in 1..(N + 1) |-> longer[k]]
  BY <1>4
<1>6. \A k \in 1..(N + 1) : longer[k] = IF k = N + 1 THEN x ELSE seq[k]
  BY <1>4
<1> QED
  BY <1>3, <1>5, <1>6

\* A new key comes last.
LEMMA MirrorsAdded ==
  ASSUME NEW ring, NEW queue, NEW N, Mirrors(ring, queue, N), NEW event, event # "reset",
         ~\E i \in 1..N : queue[i].key = event, N < Capacity
  PROVE  Mirrors(Observe(ring, event), QueueStep(queue, event), N + 1)
<1>1. PICK observed, order, next :
        ring = [observed |-> observed, order |-> order, next |-> next]
  BY DEF Mirrors
<1>2. Mirror(observed, order, next, queue, N)
  BY <1>1, MirrorsWhen
<1>3. /\ N \in 0..Capacity /\ next = 1 /\ Capacity \in Nat \ {0}
      /\ queue = [i \in 1..N |-> [key |-> queue[i].key, count |-> queue[i].count]]
      /\ order = [k \in 1..N |-> order[k]]
      /\ \A i, j \in 1..N : i # j => queue[i].key # queue[j].key
      /\ \A i \in 1..N : order[RingPlace(next, N, i)] = queue[i].key
      /\ \A i \in 1..N : observed[queue[i].key] = queue[i].count
  BY <1>2, CoverageAssumption DEF Mirror
<1>4. /\ \A key : key \in DOMAIN observed <=> \E i \in 1..N : queue[i].key = key
      /\ DOMAIN queue = 1..N /\ N \in Nat /\ Len(order) = N /\ Len(queue) = N
  BY <1>2, MirrorsKeys, Zenon
<1> DEFINE keys == {queue[i].key : i \in 1..N}
           entry == [key |-> event, count |-> 1]
           line == Append(order, event)
           then == Append(queue, entry)
           seen == WithCount(observed, event, 1)
<1>22. DOMAIN observed = keys
  BY <1>4
<1>23. queue = [k \in 1..N |-> queue[k]]
  BY <1>3, <1>4
<1>5. event \notin keys
  OBVIOUS
<1>6. Observe(ring, event) = [observed |-> seen, order |-> line, next |-> next]
  <2>1. event \notin DOMAIN ring.observed /\ Len(ring.order) < Capacity
    BY <1>1, <1>4
  <2>2. Observe(ring, event) = [ring EXCEPT !.order = Append(@, event),
                                            !.observed = WithCount(@, event, 1)]
    BY <2>1, Zenon DEF Observe, RecordObservedCall, Insert
  <2> QED BY <1>1, <2>2
<1>7. QueueStep(queue, event) = then
  <2>1. ~\E i \in DOMAIN queue : queue[i].key = event
    BY <1>4
  <2>2. Len(queue) # Capacity
    BY <1>3, <1>4
  <2> QED BY <2>1, <2>2 DEF QueueStep
<1>8. line = [k \in 1..(N + 1) |-> IF k = N + 1 THEN event ELSE order[k]]
  BY <1>3, <1>4, AppendedSequence
<1>9. then = [k \in 1..(N + 1) |-> IF k = N + 1 THEN entry ELSE queue[k]]
  <2> HIDE DEF entry
  <2> QED BY <1>4, <1>23, AppendedSequence
<1>10. /\ DOMAIN seen = keys \cup {event} /\ seen = [key \in keys \cup {event} |-> seen[key]]
       /\ seen[event] = 1 /\ \A key \in keys : seen[key] = observed[key]
  <2> HIDE DEF keys
  <2> QED BY <1>5, <1>22 DEF WithCount
<1> HIDE DEF line, then, seen
<1>11. /\ \A i \in 1..N : then[i] = queue[i] /\ line[i] = order[i] /\ i \in 1..(N + 1) /\ i # N + 1
       /\ then[N + 1].key = event /\ then[N + 1].count = 1 /\ line[N + 1] = event
       /\ then[N + 1] = [key |-> then[N + 1].key, count |-> then[N + 1].count]
       /\ \A i \in 1..(N + 1) : i \in 1..N \/ i = N + 1
       /\ N + 1 \in 1..(N + 1)
  BY <1>4, <1>8, <1>9
<1>12. keys \cup {event} = {then[i].key : i \in 1..(N + 1)}
  <2>1. \A i \in 1..(N + 1) : then[i].key \in keys \cup {event}
    BY <1>11
  <2>2. \A i \in 1..N : queue[i].key \in {then[k].key : k \in 1..(N + 1)}
    BY <1>11
  <2>3. event \in {then[k].key : k \in 1..(N + 1)}
    BY <1>11
  <2> QED BY <2>1, <2>2, <2>3
<1>13. \A i, j \in 1..(N + 1) : i # j => then[i].key # then[j].key
  <2>1. \A i \in 1..N : queue[i].key # event
    OBVIOUS
  <2> QED BY <1>3, <1>11, <2>1
<1>14. \A i \in 1..(N + 1) : line[RingPlace(next, N + 1, i)] = then[i].key
  <2>1. \A i \in 1..N : RingPlace(next, N, i) = i
    BY <1>3 DEF RingPlace
  <2>2. \A i \in 1..(N + 1) : RingPlace(next, N + 1, i) = i
    BY <1>3, <1>4 DEF RingPlace
  <2>3. \A i \in 1..N : line[i] = then[i].key
    <3>1. \A i \in 1..N : order[i] = queue[i].key
      BY <1>3, <2>1
    <3> QED BY <1>11, <3>1
  <2> QED BY <1>11, <2>2, <2>3
<1>15. \A i \in 1..(N + 1) : seen[then[i].key] = then[i].count
  <2>1. \A i \in 1..N : queue[i].key \in keys
    OBVIOUS
  <2> HIDE DEF keys
  <2>2. \A i \in 1..N : seen[then[i].key] = then[i].count
    BY <1>3, <1>10, <1>11, <2>1
  <2>3. seen[then[N + 1].key] = then[N + 1].count
    BY <1>10, <1>11
  <2> QED BY <1>11, <2>2, <2>3
<1>16. then = [i \in 1..(N + 1) |-> [key |-> then[i].key, count |-> then[i].count]]
  <2>1. \A i \in 1..N : queue[i] = [key |-> queue[i].key, count |-> queue[i].count]
    BY <1>3
  <2>2. \A i \in 1..(N + 1) : then[i] = [key |-> then[i].key, count |-> then[i].count]
    BY <1>11, <2>1
  <2>3. then = [i \in 1..(N + 1) |-> then[i]]
    BY <1>9
  <2> QED BY <2>2, <2>3
<1>17. line = [k \in 1..(N + 1) |-> line[k]]
  BY <1>8
<1>18. /\ N + 1 \in 0..Capacity /\ next \in 1..Capacity
       /\ N + 1 < Capacity => next = 1
  BY <1>3
<1> DEFINE K == {then[i].key : i \in 1..(N + 1)}
<1>19. seen = [key \in K |-> seen[key]]
  BY <1>10, <1>12
<1>20. Mirror(seen, line, next, then, N + 1)
  BY <1>13, <1>14, <1>15, <1>16, <1>17, <1>18, <1>19 DEF Mirror
<1> QED
  BY <1>6, <1>7, <1>20, MirrorsWhen

LEMMA ShiftedSequence ==
  ASSUME NEW N \in Nat \ {0}, NEW seq, seq = [k \in 1..N |-> seq[k]], NEW x
  PROVE  Append(Tail(seq), x) = [k \in 1..N |-> IF k = N THEN x ELSE seq[k + 1]]
<1> DEFINE S == {seq[k] : k \in 1..N}
<1>1. \A k \in 1..N : seq[k] \in S
  OBVIOUS
<1> HIDE DEF S
<1>2. seq \in Seq(S) /\ Len(seq) = N /\ seq # <<>>
  BY <1>1
<1>3. PICK rest : rest = Tail(seq)
  OBVIOUS
<1>4. /\ rest \in Seq(S) /\ Len(rest) = N - 1
      /\ \A k \in 1..(N - 1) : rest[k] = seq[k + 1]
  BY <1>2, <1>3, HeadTailProperties
<1>5. rest = [k \in 1..(N - 1) |-> rest[k]] /\ N - 1 \in Nat
  BY <1>4
<1>6. Append(rest, x) = [k \in 1..((N - 1) + 1) |-> IF k = (N - 1) + 1 THEN x ELSE rest[k]]
  BY <1>5, AppendedSequence
<1>7. (N - 1) + 1 = N /\ \A k \in 1..N : k # N => k \in 1..(N - 1)
  OBVIOUS
<1>8. Append(rest, x) = [k \in 1..N |-> IF k = N THEN x ELSE rest[k]]
  BY <1>6, <1>7
<1> QED
  BY <1>3, <1>4, <1>7, <1>8

\* In a full ring a new key takes the place of the oldest one.
LEMMA MirrorsEvicted ==
  ASSUME NEW ring, NEW queue, NEW N, Mirrors(ring, queue, N), NEW event, event # "reset",
         ~\E i \in 1..N : queue[i].key = event, ~(N < Capacity)
  PROVE  Mirrors(Observe(ring, event), QueueStep(queue, event), N)
<1>1. PICK observed, order, next :
        ring = [observed |-> observed, order |-> order, next |-> next]
  BY DEF Mirrors
<1>2. Mirror(observed, order, next, queue, N)
  BY <1>1, MirrorsWhen
<1>3. /\ N \in Nat \ {0} /\ next \in 1..N /\ Capacity = N
      /\ queue = [i \in 1..N |-> [key |-> queue[i].key, count |-> queue[i].count]]
      /\ order = [k \in 1..N |-> order[k]]
      /\ \A i, j \in 1..N : i # j => queue[i].key # queue[j].key
      /\ \A i \in 1..N : order[RingPlace(next, N, i)] = queue[i].key
      /\ \A i \in 1..N : observed[queue[i].key] = queue[i].count
  <2>1. /\ N \in 0..Capacity /\ next \in 1..Capacity
        /\ queue = [i \in 1..N |-> [key |-> queue[i].key, count |-> queue[i].count]]
        /\ order = [k \in 1..N |-> order[k]]
        /\ \A i, j \in 1..N : i # j => queue[i].key # queue[j].key
        /\ \A i \in 1..N : order[RingPlace(next, N, i)] = queue[i].key
        /\ \A i \in 1..N : observed[queue[i].key] = queue[i].count
    BY <1>2 DEF Mirror
  <2>2. N \in Nat \ {0} /\ next \in 1..N /\ Capacity = N
    BY <2>1, CoverageAssumption
  <2> QED BY <2>1, <2>2
<1>4. /\ \A key : key \in DOMAIN observed <=> \E i \in 1..N : queue[i].key = key
      /\ DOMAIN queue = 1..N /\ N \in Nat /\ Len(order) = N /\ Len(queue) = N
  BY <1>2, MirrorsKeys, Zenon
<1>5. queue = [k \in 1..N |-> queue[k]]
  BY <1>3, <1>4
<1>6. PICK after : after = (next % Capacity) + 1
  OBVIOUS
<1>7. /\ after \in 1..N /\ RingPlace(after, N, N) = next
      /\ \A i \in 1..(N - 1) : RingPlace(after, N, i) = RingPlace(next, N, i + 1)
  BY <1>3, <1>6, PlacesMoveOn
<1>8. /\ \A i \in 1..N : RingPlace(next, N, i) \in 1..N
      /\ \A i, j \in 1..N : i # j => RingPlace(next, N, i) # RingPlace(next, N, j)
      /\ RingPlace(next, N, 1) = next
  <2>1. N \in Nat \ {0} /\ next \in 1..N
    BY <1>3
  <2>2. \A i \in 1..N : RingPlace(next, N, i) \in 1..N
    BY <2>1, PlacesGoRound
  <2>3. \A i, j \in 1..N : i # j => RingPlace(next, N, i) # RingPlace(next, N, j)
    BY <2>1, PlacesGoRound
  <2>4. RingPlace(next, N, 1) = next
    BY <2>1 DEF RingPlace
  <2> QED BY <2>2, <2>3, <2>4
<1>9. order[next] = queue[1].key /\ 1 \in 1..N
  <2>1. 1 \in 1..N
    BY <1>3
  <2>2. order[RingPlace(next, N, 1)] = queue[1].key
    BY <1>3, <2>1
  <2> QED BY <1>8, <2>1, <2>2
<1> DEFINE entry == [key |-> event, count |-> 1]
           kept == DOMAIN observed \ {queue[1].key}
           line == [order EXCEPT ![next] = event]
           then == Append(Tail(queue), entry)
           seen == WithCount(Restrict(observed, kept), event, 1)
<1>10. Observe(ring, event) = [observed |-> seen, order |-> line, next |-> after]
  <2>1. event \notin DOMAIN ring.observed /\ ~(Len(ring.order) < Capacity)
    BY <1>1, <1>3, <1>4
  <2>2. Observe(ring, event)
          = [observed |-> WithCount(Restrict(ring.observed,
                                           DOMAIN ring.observed \ {ring.order[ring.next]}),
                                  event, 1),
             order |-> [ring.order EXCEPT ![ring.next] = event],
             next |-> (ring.next % Capacity) + 1]
    BY <2>1, Zenon DEF Observe, RecordObservedCall, Insert
  <2>3. ring.observed = observed /\ ring.order = order /\ ring.next = next
    BY <1>1
  <2> QED BY <1>6, <1>9, <2>2, <2>3
<1>11. QueueStep(queue, event) = then
  <2>1. ~\E i \in DOMAIN queue : queue[i].key = event
    BY <1>4
  <2>2. Len(queue) = Capacity
    BY <1>3, <1>4
  <2> QED BY <2>1, <2>2 DEF QueueStep
<1>12. then = [k \in 1..N |-> IF k = N THEN entry ELSE queue[k + 1]]
  <2> HIDE DEF entry
  <2> QED BY <1>3, <1>5, ShiftedSequence
<1>13. /\ line = [k \in 1..N |-> line[k]] /\ line[next] = event
       /\ \A k \in 1..N : k # next => line[k] = order[k]
  BY <1>3
<1>14. /\ \A key : key \in DOMAIN seen <=> key = event \/ key \in kept
       /\ seen = [key \in DOMAIN seen |-> seen[key]]
       /\ seen[event] = 1 /\ \A key \in kept : seen[key] = observed[key]
  <2>1. event \notin kept
    BY <1>4
  <2> HIDE DEF kept
  <2> QED BY <2>1 DEF WithCount, Restrict
<1> HIDE DEF line, then, seen
<1>15. /\ \A i \in 1..(N - 1) : then[i] = queue[i + 1] /\ i + 1 \in 1..N /\ i + 1 # 1 /\ i \in 1..N
       /\ then[N].key = event /\ then[N].count = 1
       /\ then[N] = [key |-> then[N].key, count |-> then[N].count]
       /\ \A i \in 1..N : i \in 1..(N - 1) \/ i = N
       /\ N \in 1..N
  BY <1>3, <1>12
<1>16. \A i \in 1..(N - 1) : then[i].key \in kept /\ then[i].key # event
  <2> SUFFICES ASSUME NEW i \in 1..(N - 1) PROVE then[i].key \in kept /\ then[i].key # event
    OBVIOUS
  <2>1. then[i] = queue[i + 1] /\ i + 1 \in 1..N /\ i + 1 # 1
    BY <1>15
  <2>2. queue[i + 1].key # queue[1].key
    BY <1>3, <1>9, <2>1
  <2>3. queue[i + 1].key \in DOMAIN observed
    BY <1>4, <2>1
  <2>4. queue[i + 1].key # event
    BY <2>1
  <2> QED BY <2>1, <2>2, <2>3, <2>4
<1>17. \A i, j \in 1..N : i # j => then[i].key # then[j].key
  <2>1. ASSUME NEW i \in 1..(N - 1), NEW j \in 1..(N - 1), i # j
        PROVE  then[i].key # then[j].key
    <3>1. i + 1 \in 1..N /\ j + 1 \in 1..N /\ i + 1 # j + 1
      BY <1>3, <2>1
    <3>2. then[i] = queue[i + 1] /\ then[j] = queue[j + 1]
      BY <1>15
    <3> QED BY <1>3, <3>1, <3>2
  <2> QED BY <1>15, <1>16, <2>1
<1>18. \A i \in 1..N : line[RingPlace(after, N, i)] = then[i].key
  <2>1. line[RingPlace(after, N, N)] = then[N].key
    BY <1>7, <1>13, <1>15
  <2>2. ASSUME NEW i \in 1..(N - 1) PROVE line[RingPlace(after, N, i)] = then[i].key
    <3>1. RingPlace(after, N, i) = RingPlace(next, N, i + 1) /\ i + 1 \in 1..N /\ i + 1 # 1
      BY <1>7, <1>15
    <3>2. RingPlace(next, N, i + 1) \in 1..N /\ RingPlace(next, N, i + 1) # next
      BY <1>8, <1>9, <3>1
    <3>3. order[RingPlace(next, N, i + 1)] = queue[i + 1].key
      BY <1>3, <3>1
    <3> QED BY <1>13, <1>15, <3>1, <3>2, <3>3
  <2> QED BY <1>15, <2>1, <2>2
<1>19. \A i \in 1..N : seen[then[i].key] = then[i].count
  <2> HIDE DEF kept
  <2>1. seen[then[N].key] = then[N].count
    BY <1>14, <1>15
  <2>2. ASSUME NEW i \in 1..(N - 1) PROVE seen[then[i].key] = then[i].count
    <3>1. then[i] = queue[i + 1] /\ i + 1 \in 1..N /\ then[i].key \in kept
      BY <1>15, <1>16
    <3>2. observed[queue[i + 1].key] = queue[i + 1].count
      BY <1>3, <3>1
    <3> QED BY <1>14, <3>1, <3>2
  <2> QED BY <1>15, <2>1, <2>2
<1> DEFINE K == {then[i].key : i \in 1..N}
<1>20. DOMAIN seen = K
  <2>1. ASSUME NEW key PROVE key \in DOMAIN seen <=> \E i \in 1..N : then[i].key = key
    <3>1. CASE key = event
      BY <1>14, <1>15, <3>1
    <3>2. CASE key # event
      <4>1. key \in kept => \E i \in 1..N : then[i].key = key
        <5>1. SUFFICES ASSUME key \in kept PROVE \E i \in 1..N : then[i].key = key
          OBVIOUS
        <5>2. PICK i \in 1..N : queue[i].key = key
          BY <1>4, <5>1
        <5>3. i # 1
          BY <5>1, <5>2
        <5>4. i - 1 \in 1..(N - 1) /\ (i - 1) + 1 = i
          BY <1>3, <5>3
        <5>5. then[i - 1] = queue[(i - 1) + 1] /\ i - 1 \in 1..N
          BY <1>15, <5>4
        <5> QED BY <5>2, <5>4, <5>5
      <4>2. (\E i \in 1..N : then[i].key = key) => key \in kept
        BY <1>15, <1>16, <3>2
      <4> QED BY <1>14, <3>2, <4>1, <4>2
    <3> QED BY <3>1, <3>2
  <2>2. \A key : key \in DOMAIN seen <=> \E i \in 1..N : then[i].key = key
    BY <2>1
  <2> QED BY <2>2
<1>21. seen = [key \in K |-> seen[key]]
  <2> HIDE DEF K
  <2> QED BY <1>14, <1>20
<1>22. then = [i \in 1..N |-> [key |-> then[i].key, count |-> then[i].count]]
  <2>1. \A i \in 1..N : queue[i] = [key |-> queue[i].key, count |-> queue[i].count]
    BY <1>3
  <2>2. \A i \in 1..N : then[i] = [key |-> then[i].key, count |-> then[i].count]
    BY <1>15, <2>1
  <2>3. then = [i \in 1..N |-> then[i]]
    BY <1>12
  <2> QED BY <2>2, <2>3
<1>23. N \in 0..Capacity /\ after \in 1..Capacity /\ (N < Capacity => after = 1)
  BY <1>3, <1>7
<1>24. Mirror(seen, line, after, then, N)
  <2>1. line = [k \in 1..N |-> line[k]]
    BY <1>13
  <2> QED BY <1>17, <1>18, <1>19, <1>21, <1>22, <1>23, <2>1 DEF Mirror
<1> QED
  BY <1>10, <1>11, <1>24, MirrorsWhen

\* The two folds of a history: the ring, and the queue that it stands for.
IsObserved(g, history, S) ==
  g = [s \in SUBSET S |->
         IF s = {} THEN ResetEndpointCoverage ELSE Observe(g[s \ {Max(s)}], history[Max(s)])]

IsQueue(g, history, S) ==
  g = [s \in SUBSET S |->
         IF s = {} THEN <<>> ELSE QueueStep(g[s \ {Max(s)}], history[Max(s)])]

Observed(history) == CHOOSE g : IsObserved(g, history, DOMAIN history)

Queue(history) == CHOOSE g : IsQueue(g, history, DOMAIN history)

LEMMA ObservedIsFold ==
  ASSUME NEW g, NEW history, NEW S
  PROVE  IsObserved(g, history, S) <=> IsFold(g, ObservedFold, history, S)
<1>1. FirstOf(ObservedFold) = ResetEndpointCoverage
  BY DEF FirstOf, ObservedFold
<1>2. \A value, x : NextOf(ObservedFold, value, x) = Observe(value, x)
  BY DEF NextOf, ObservedFold
<1> QED
  BY <1>1, <1>2 DEF IsObserved, IsFold

LEMMA QueueIsFold ==
  ASSUME NEW g, NEW history, NEW S
  PROVE  IsQueue(g, history, S) <=> IsFold(g, QueueFold, history, S)
<1>1. FirstOf(QueueFold) = <<>>
  BY DEF FirstOf, QueueFold
<1>2. \A value, x : NextOf(QueueFold, value, x) = QueueStep(value, x)
  BY DEF NextOf, QueueFold
<1> QED
  BY <1>1, <1>2 DEF IsQueue, IsFold

LEMMA ObservedSteps ==
  ASSUME NEW E, NEW history \in Seq(E)
  PROVE  /\ Observed(history)[1..0] = ResetEndpointCoverage
         /\ \A n \in 1..Len(history) :
              Observed(history)[1..n] = Observe(Observed(history)[1..(n - 1)], history[n])
<1>1. DOMAIN history = 1..Len(history) /\ Len(history) \in Nat
  OBVIOUS
<1>2. IsFold(Observed(history), ObservedFold, history, 1..Len(history))
  <2>1. \E g : IsObserved(g, history, 1..Len(history))
    BY <1>1, FoldExists, ObservedIsFold
  <2>2. IsObserved(Observed(history), history, 1..Len(history))
    BY <1>1, <2>1 DEF Observed
  <2> QED BY <2>2, ObservedIsFold
<1>3. /\ Observed(history)[1..0] = FirstOf(ObservedFold)
      /\ \A n \in 1..Len(history) :
           Observed(history)[1..n]
             = NextOf(ObservedFold, Observed(history)[1..(n - 1)], history[n])
  BY <1>1, <1>2, FoldSteps
<1>4. FirstOf(ObservedFold) = ResetEndpointCoverage
  BY DEF FirstOf, ObservedFold
<1>5. \A value, x : NextOf(ObservedFold, value, x) = Observe(value, x)
  BY DEF NextOf, ObservedFold
<1> QED
  BY <1>3, <1>4, <1>5

LEMMA QueueSteps ==
  ASSUME NEW E, NEW history \in Seq(E)
  PROVE  /\ Queue(history)[1..0] = <<>>
         /\ \A n \in 1..Len(history) :
              Queue(history)[1..n] = QueueStep(Queue(history)[1..(n - 1)], history[n])
<1>1. DOMAIN history = 1..Len(history) /\ Len(history) \in Nat
  OBVIOUS
<1>2. IsFold(Queue(history), QueueFold, history, 1..Len(history))
  <2>1. \E g : IsQueue(g, history, 1..Len(history))
    BY <1>1, FoldExists, QueueIsFold
  <2>2. IsQueue(Queue(history), history, 1..Len(history))
    BY <1>1, <2>1 DEF Queue
  <2> QED BY <2>2, QueueIsFold
<1>3. /\ Queue(history)[1..0] = FirstOf(QueueFold)
      /\ \A n \in 1..Len(history) :
           Queue(history)[1..n] = NextOf(QueueFold, Queue(history)[1..(n - 1)], history[n])
  BY <1>1, <1>2, FoldSteps
<1>4. FirstOf(QueueFold) = <<>>
  BY DEF FirstOf, QueueFold
<1>5. \A value, x : NextOf(QueueFold, value, x) = QueueStep(value, x)
  BY DEF NextOf, QueueFold
<1> QED
  BY <1>3, <1>4, <1>5

\* Recorded and Kept are the two folds at the whole history.
LEMMA HistoryIsFolded ==
  ASSUME NEW E, NEW history \in Seq(E)
  PROVE  /\ Recorded(history) = Observed(history)[1..Len(history)]
         /\ Kept(history) = Queue(history)[1..Len(history)]
<1>1. DOMAIN history = 1..Len(history)
  OBVIOUS
<1>2. FoldLeft(Observe, ResetEndpointCoverage, history) = Observed(history)[DOMAIN history]
  BY DEF FoldLeft, MapThenFoldSet, Observed, IsObserved
<1>3. FoldLeft(QueueStep, <<>>, history) = Queue(history)[DOMAIN history]
  BY DEF FoldLeft, MapThenFoldSet, Queue, IsQueue
<1>4. Kept(history) = FoldLeft(QueueStep, <<>>, history)
  BY Zenon DEF Kept, QueueStep
<1> QED
  BY <1>1, <1>2, <1>3, <1>4 DEF Recorded

\* One event keeps the ring in step with the queue.
LEMMA MirrorsStep ==
  ASSUME NEW ring, NEW queue, NEW event, \E N : Mirrors(ring, queue, N)
  PROVE  \E N : Mirrors(Observe(ring, event), QueueStep(queue, event), N)
<1>1. PICK N : Mirrors(ring, queue, N)
  OBVIOUS
<1>2. CASE event = "reset"
  <2>1. Observe(ring, event) = ResetEndpointCoverage
    BY <1>2 DEF Observe
  <2>2. QueueStep(queue, event) = <<>>
    BY <1>2 DEF QueueStep
  <2> QED BY <2>1, <2>2, MirrorsNothing
<1>3. CASE event # "reset" /\ \E i \in 1..N : queue[i].key = event
  BY <1>1, <1>3, MirrorsSeen
<1>4. CASE event # "reset" /\ ~(\E i \in 1..N : queue[i].key = event) /\ N < Capacity
  BY <1>1, <1>4, MirrorsAdded
<1>5. CASE event # "reset" /\ ~(\E i \in 1..N : queue[i].key = event) /\ ~(N < Capacity)
  BY <1>1, <1>5, MirrorsEvicted
<1> QED
  BY <1>2, <1>3, <1>4, <1>5

LEMMA HistoryMirrors ==
  ASSUME NEW E, NEW history \in Seq(E)
  PROVE  \E N : Mirrors(Recorded(history), Kept(history), N)
<1> DEFINE B == {n \in 0..Len(history) :
                   ~\E N : Mirrors(Observed(history)[1..n], Queue(history)[1..n], N)}
<1>1. Len(history) \in Nat
  OBVIOUS
<1>2. SUFFICES ASSUME B # {} PROVE FALSE
  <2>1. Len(history) \in 0..Len(history) /\ Len(history) \notin B
    BY <1>1, <1>2
  <2>2. \E N : Mirrors(Observed(history)[1..Len(history)], Queue(history)[1..Len(history)], N)
    BY <2>1
  <2> QED BY <2>2, HistoryIsFolded
<1>3. PICK n \in B : \A m \in B : n <= m
  <2>1. B \in SUBSET Nat
    BY <1>1
  <2> HIDE DEF B
  <2> QED BY <1>2, <2>1, LeastNatural
<1>4. n # 0
  <2>1. \E N : Mirrors(Observed(history)[1..0], Queue(history)[1..0], N)
    BY MirrorsNothing, ObservedSteps, QueueSteps
  <2> QED BY <1>3, <2>1
<1>5. n \in 1..Len(history) /\ n - 1 \in 0..Len(history) /\ ~(n <= n - 1)
  BY <1>1, <1>3, <1>4
<1>6. n - 1 \notin B
  BY <1>3, <1>5
<1>7. \E N : Mirrors(Observed(history)[1..(n - 1)], Queue(history)[1..(n - 1)], N)
  BY <1>5, <1>6
<1>8. \E N : Mirrors(Observe(Observed(history)[1..(n - 1)], history[n]),
                     QueueStep(Queue(history)[1..(n - 1)], history[n]), N)
  BY <1>7, MirrorsStep
<1>9. Observed(history)[1..n] = Observe(Observed(history)[1..(n - 1)], history[n])
  BY <1>5, ObservedSteps
<1>10. Queue(history)[1..n] = QueueStep(Queue(history)[1..(n - 1)], history[n])
  BY <1>5, QueueSteps
<1> QED
  BY <1>3, <1>8, <1>9, <1>10

\* RingIsExact, for every capacity and every sequence of calls and resets: the
\* ring of observed calls, its index and the map of counts are, after every
\* history, the queue of the keys that came last (tools_bridge.go:418).
THEOREM ObservedCallsAreExact ==
  ASSUME NEW Events, Asks("history") => question.history \in Seq(Events)
  PROVE  RingIsExact
<1>1. SUFFICES ASSUME Asks("history") PROVE RingIsExact
  BY DEF RingIsExact
<1>2. PICK history \in Seq(Events) : history = question.history
  BY <1>1
<1>3. PICK ring : ring = Recorded(history)
  OBVIOUS
<1>4. PICK queue : queue = Kept(history)
  OBVIOUS
<1>5. PICK N : Mirrors(ring, queue, N)
  BY <1>3, <1>4, HistoryMirrors
<1>6. PICK observed, order, next :
        ring = [observed |-> observed, order |-> order, next |-> next]
  BY <1>5 DEF Mirrors
<1>7. Mirror(observed, order, next, queue, N)
  BY <1>5, <1>6, MirrorsWhen
<1>8. /\ N \in 0..Capacity /\ next \in 1..Capacity /\ (N < Capacity => next = 1)
      /\ order = [k \in 1..N |-> order[k]]
      /\ \A i \in 1..N : order[RingPlace(next, N, i)] = queue[i].key
      /\ \A i \in 1..N : observed[queue[i].key] = queue[i].count
  BY <1>7 DEF Mirror
<1>9. /\ \A key : key \in DOMAIN observed <=> \E i \in 1..N : queue[i].key = key
      /\ DOMAIN queue = 1..N /\ N \in Nat /\ Len(order) = N /\ Len(queue) = N
  BY <1>7, MirrorsKeys, Zenon
<1>10. DOMAIN order = 1..N
  BY <1>8
<1> DEFINE oldest == IF Len(order) < Capacity THEN 1 ELSE next
<1>11. oldest = next
  BY <1>8, <1>9
<1>12. N # 0 => /\ \A i \in 1..N : RingPlace(next, N, i) = ((next + i - 2) % N) + 1
                /\ \A k \in 1..N : \E i \in 1..N : RingPlace(next, N, i) = k
                /\ \A i \in 1..N : RingPlace(next, N, i) \in 1..N
  <2> SUFFICES ASSUME N # 0
               PROVE  /\ \A i \in 1..N : RingPlace(next, N, i) = ((next + i - 2) % N) + 1
                      /\ \A k \in 1..N : \E i \in 1..N : RingPlace(next, N, i) = k
                      /\ \A i \in 1..N : RingPlace(next, N, i) \in 1..N
    OBVIOUS
  <2>1. N \in Nat \ {0} /\ next \in 1..N
    BY <1>8, CoverageAssumption
  <2>2. \A i \in 1..N : RingPlace(next, N, i) = ((next + i - 2) % N) + 1
    BY <2>1, PlacesGoRound
  <2>3. \A k \in 1..N : \E i \in 1..N : RingPlace(next, N, i) = k
    BY <2>1, PlacesGoRound
  <2>4. \A i \in 1..N : RingPlace(next, N, i) \in 1..N
    BY <2>1, PlacesGoRound
  <2> QED BY <2>2, <2>3, <2>4
<1>13. \A i \in 1..N : N # 0
  BY <1>9
<1>14. [i \in DOMAIN order |-> order[((oldest + i - 2) % Len(order)) + 1]]
         = [i \in DOMAIN queue |-> queue[i].key]
  <2>1. \A i \in 1..N : order[((oldest + i - 2) % Len(order)) + 1] = queue[i].key
    <3> SUFFICES ASSUME NEW i \in 1..N
                 PROVE  order[((oldest + i - 2) % Len(order)) + 1] = queue[i].key
      OBVIOUS
    <3>1. RingPlace(next, N, i) = ((next + i - 2) % N) + 1
      BY <1>12, <1>13
    <3>2. order[RingPlace(next, N, i)] = queue[i].key
      BY <1>8
    <3> HIDE DEF oldest
    <3> QED BY <1>9, <1>11, <3>1, <3>2
  <2> HIDE DEF oldest
  <2> QED BY <1>9, <1>10, <2>1
<1>15. DOMAIN observed = ToSet(order)
  <2>1. ASSUME NEW key PROVE key \in DOMAIN observed <=> \E k \in 1..N : order[k] = key
    <3>1. ASSUME NEW i \in 1..N, queue[i].key = key PROVE \E k \in 1..N : order[k] = key
      BY <1>8, <1>12, <1>13, <3>1
    <3>2. ASSUME NEW k \in 1..N, order[k] = key PROVE \E i \in 1..N : queue[i].key = key
      <4>1. PICK i \in 1..N : RingPlace(next, N, i) = k
        BY <1>12, <1>13
      <4> QED BY <1>8, <3>2, <4>1
    <3> QED BY <1>9, <3>1, <3>2
  <2>2. \A key : key \in DOMAIN observed <=> \E k \in 1..N : order[k] = key
    BY <2>1
  <2> QED BY <1>10, <2>2 DEF ToSet
<1>16. ring.observed = observed /\ ring.order = order /\ ring.next = next
  BY <1>6
<1>17. \A i \in DOMAIN queue : observed[queue[i].key] = queue[i].count
  BY <1>8, <1>9
<1> QED
  BY <1>2, <1>3, <1>4, <1>14, <1>15, <1>16, <1>17, Zenon DEF RingIsExact

-----------------------------------------------------------------------------
(* Sums over sets of calls *)

\* A set of subsets of a finite set has a member that contains no other one.
LEMMA LeastSubset ==
  ASSUME NEW D, IsFiniteSet(D), NEW B \in SUBSET SUBSET D, B # {}
  PROVE  \E T \in B : \A U \in SUBSET T : U # T => U \notin B
<1>1. IsWellFoundedOn(StrictSubsetOrdering(D), SUBSET D)
  <2>1. FiniteSubsetsOf(D) = SUBSET D
    BY FS_FiniteSubsetsOfFinite
  <2> QED BY <2>1, FS_StrictSubsetOrderingWellFounded, Zenon
<1>2. PICK T \in B : \A U \in B : ~(<<U, T>> \in StrictSubsetOrdering(D))
  BY <1>1, WFMin
<1>3. ASSUME NEW U \in SUBSET T, U # T, U \in B PROVE FALSE
  <2>1. <<U, T>> \in (SUBSET D) \X (SUBSET D)
    BY <1>3
  <2>2. <<U, T>> \in StrictSubsetOrdering(D)
    BY <1>3, <2>1 DEF StrictSubsetOrdering
  <2> QED BY <1>2, <1>3, <2>2
<1> QED
  BY <1>3

AnyOf(s) == CHOOSE c \in s : TRUE

LEMMA AnyOfIsMember == ASSUME NEW s, s # {} PROVE AnyOf(s) \in s
BY DEF AnyOf

\* The calls at the places of S, and g, the sum of their amounts over every subset of S.
TotalOf(calls, S) == MapThenSumSet(LAMBDA i : Amount(calls[i]), S)
IsTotal(g, calls, S) ==
  g = [s \in SUBSET S |->
         IF s = {} THEN 0 ELSE Amount(calls[AnyOf(s)]) + g[s \ {AnyOf(s)}]]
Totals(calls, S) == CHOOSE g : IsTotal(g, calls, S)

\* A finite set of places of calls that have amounts.
Counts(calls, D) == IsFiniteSet(D) /\ \A i \in D : Amount(calls[i]) \in Int

LEMMA TotalIsFold == ASSUME NEW calls, NEW S PROVE TotalOf(calls, S) = Totals(calls, S)[S]
BY DEF TotalOf, MapThenSumSet, MapThenFoldSet, Totals, IsTotal, AnyOf

LEMMA TotalValues ==
  ASSUME NEW calls, NEW S, NEW g, IsTotal(g, calls, S)
  PROVE  /\ g[{}] = 0
         /\ \A s \in SUBSET S :
              s # {} => g[s] = Amount(calls[AnyOf(s)]) + g[s \ {AnyOf(s)}]
BY DEF IsTotal

LEMMA TotalRestricts ==
  ASSUME NEW calls, NEW S, NEW g, IsTotal(g, calls, S), NEW R \in SUBSET S
  PROVE  IsTotal([s \in SUBSET R |-> g[s]], calls, R)
<1> DEFINE h == [s \in SUBSET R |-> g[s]]
<1>1. ASSUME NEW s \in SUBSET R
      PROVE  h[s] = IF s = {} THEN 0 ELSE Amount(calls[AnyOf(s)]) + h[s \ {AnyOf(s)}]
  <2>1. s \in SUBSET S /\ s \ {AnyOf(s)} \in SUBSET R /\ h[s] = g[s]
        /\ h[s \ {AnyOf(s)}] = g[s \ {AnyOf(s)}]
    OBVIOUS
  <2>2. g[s] = IF s = {} THEN 0 ELSE Amount(calls[AnyOf(s)]) + g[s \ {AnyOf(s)}]
    BY <2>1 DEF IsTotal
  <2> HIDE DEF h
  <2> QED BY <2>1, <2>2
<1> QED
  BY <1>1 DEF IsTotal

LEMMA TotalIsUnique ==
  ASSUME NEW calls, NEW S, IsFiniteSet(S), NEW g, NEW h, IsTotal(g, calls, S), IsTotal(h, calls, S)
  PROVE  g = h
<1> DEFINE B == {s \in SUBSET S : g[s] # h[s]}
<1>1. SUFFICES ASSUME B # {} PROVE FALSE
  <2>1. /\ g = [s \in SUBSET S |-> g[s]]
        /\ h = [s \in SUBSET S |-> h[s]]
    BY DEF IsTotal
  <2>2. (\A s \in SUBSET S : g[s] = h[s]) => g = h
    BY <2>1
  <2> QED BY <2>2
<1>2. PICK T \in B : \A U \in SUBSET T : U # T => U \notin B
  <2>1. B \in SUBSET SUBSET S
    OBVIOUS
  <2> HIDE DEF B
  <2> QED BY <1>1, <2>1, LeastSubset
<1>3. T # {} /\ T \in SUBSET S
  BY <1>2, TotalValues
<1>4. AnyOf(T) \in T
  BY <1>3, AnyOfIsMember
<1>5. g[T \ {AnyOf(T)}] = h[T \ {AnyOf(T)}]
  <2>1. T \ {AnyOf(T)} \in SUBSET T /\ T \ {AnyOf(T)} # T /\ T \ {AnyOf(T)} \in SUBSET S
    BY <1>3, <1>4
  <2> QED BY <1>2, <2>1
<1> QED
  BY <1>2, <1>3, <1>5, TotalValues

LEMMA TotalExists ==
  ASSUME NEW calls, NEW D, IsFiniteSet(D)
  PROVE  \E g : IsTotal(g, calls, D)
<1> DEFINE B == {s \in SUBSET D : ~\E g : IsTotal(g, calls, s)}
<1>1. SUFFICES ASSUME B # {} PROVE FALSE
  OBVIOUS
<1>2. PICK T \in B : \A U \in SUBSET T : U # T => U \notin B
  <2>1. B \in SUBSET SUBSET D
    OBVIOUS
  <2> HIDE DEF B
  <2> QED BY <1>1, <2>1, LeastSubset
<1>3. T \in SUBSET D /\ ~\E g : IsTotal(g, calls, T)
  BY <1>2
<1>4. \A U \in SUBSET T : U # T => IsFiniteSet(U) /\ IsTotal(Totals(calls, U), calls, U)
  <2> SUFFICES ASSUME NEW U \in SUBSET T, U # T
               PROVE  IsFiniteSet(U) /\ IsTotal(Totals(calls, U), calls, U)
    OBVIOUS
  <2>1. \E g : IsTotal(g, calls, U)
    BY <1>2, <1>3
  <2>2. U \in SUBSET D
    BY <1>3
  <2> QED BY <2>1, <2>2, FS_Subset DEF Totals
<1> DEFINE rest(s) == s \ {AnyOf(s)}
           g == [s \in SUBSET T |->
                   IF s = {} THEN 0
                   ELSE IF s = T
                     THEN Amount(calls[AnyOf(T)]) + Totals(calls, rest(T))[rest(T)]
                   ELSE Totals(calls, s)[s]]
<1>5. ASSUME NEW s \in SUBSET T
      PROVE  g[s] = IF s = {} THEN 0 ELSE Amount(calls[AnyOf(s)]) + g[rest(s)]
  <2>1. CASE s = {}
    BY <2>1
  <2>2. CASE s # {}
    <3>1. AnyOf(s) \in s /\ rest(s) \in SUBSET s /\ rest(s) # s /\ rest(s) \in SUBSET T
          /\ rest(s) # T
      BY <2>2, AnyOfIsMember
    <3>2. IsTotal(Totals(calls, rest(s)), calls, rest(s)) /\ IsFiniteSet(rest(s))
      BY <1>4, <3>1
    <3>3. g[rest(s)] = Totals(calls, rest(s))[rest(s)]
      <4>1. CASE rest(s) = {}
        BY <3>2, <4>1, TotalValues
      <4>2. CASE rest(s) # {}
        BY <3>1, <4>2
      <4> QED BY <4>1, <4>2
    <3>4. CASE s = T
      BY <2>2, <3>3, <3>4
    <3>5. CASE s # T
      <4>1. IsTotal(Totals(calls, s), calls, s)
        BY <1>4, <3>5
      <4>2. Totals(calls, s)[s] = Amount(calls[AnyOf(s)]) + Totals(calls, s)[rest(s)]
        <5>1. s \in SUBSET s
          OBVIOUS
        <5> QED BY <2>2, <4>1, <5>1, TotalValues
      <4>3. [r \in SUBSET rest(s) |-> Totals(calls, s)[r]] = Totals(calls, rest(s))
        <5>1. IsTotal([r \in SUBSET rest(s) |-> Totals(calls, s)[r]], calls, rest(s))
          BY <3>1, <4>1, TotalRestricts
        <5> HIDE DEF rest
        <5> QED BY <3>2, <5>1, TotalIsUnique
      <4>4. Totals(calls, s)[rest(s)] = Totals(calls, rest(s))[rest(s)]
        <5>1. rest(s) \in SUBSET rest(s)
          OBVIOUS
        <5> HIDE DEF rest
        <5>2. [r \in SUBSET rest(s) |-> Totals(calls, s)[r]][rest(s)] = Totals(calls, s)[rest(s)]
          BY <5>1
        <5> QED BY <4>3, <5>2
      <4>5. g[s] = Totals(calls, s)[s]
        BY <2>2, <3>5
      <4> QED BY <2>2, <3>3, <4>2, <4>4, <4>5
    <3> QED BY <3>4, <3>5
  <2> QED BY <2>1, <2>2
<1>6. IsTotal(g, calls, T)
  BY <1>5 DEF IsTotal
<1> QED
  BY <1>3, <1>6

\* The sum over S is that over D, taken at S.
LEMMA TotalOfSubset ==
  ASSUME NEW calls, NEW D, IsFiniteSet(D), NEW S \in SUBSET D
  PROVE  TotalOf(calls, S) = Totals(calls, D)[S] /\ IsTotal(Totals(calls, D), calls, D)
<1>1. IsFiniteSet(S)
  BY FS_Subset
<1>2. IsTotal(Totals(calls, S), calls, S)
  <2>1. \E g : IsTotal(g, calls, S)
    BY <1>1, TotalExists
  <2> QED BY <2>1 DEF Totals
<1>3. IsTotal(Totals(calls, D), calls, D)
  <2>1. \E g : IsTotal(g, calls, D)
    BY TotalExists
  <2> QED BY <2>1 DEF Totals
<1>4. [s \in SUBSET S |-> Totals(calls, D)[s]] = Totals(calls, S)
  <2>1. IsTotal([s \in SUBSET S |-> Totals(calls, D)[s]], calls, S)
    BY <1>3, TotalRestricts
  <2> QED BY <1>1, <1>2, <2>1, TotalIsUnique
<1>5. [s \in SUBSET S |-> Totals(calls, D)[s]][S] = Totals(calls, D)[S]
  OBVIOUS
<1> QED
  BY <1>3, <1>4, <1>5, TotalIsFold

LEMMA TotalOfNone == ASSUME NEW calls PROVE TotalOf(calls, {}) = 0
<1>1. IsFiniteSet({}) /\ {} \in SUBSET {}
  BY FS_EmptySet
<1>2. TotalOf(calls, {}) = Totals(calls, {})[{}] /\ IsTotal(Totals(calls, {}), calls, {})
  BY <1>1, TotalOfSubset
<1> QED
  BY <1>2, TotalValues

LEMMA TotalStep ==
  ASSUME NEW calls, NEW D, IsFiniteSet(D), NEW S \in SUBSET D, S # {}
  PROVE  /\ AnyOf(S) \in S
         /\ TotalOf(calls, S) = Amount(calls[AnyOf(S)]) + TotalOf(calls, S \ {AnyOf(S)})
<1>1. S \ {AnyOf(S)} \in SUBSET D
  OBVIOUS
<1>2. Totals(calls, D)[S] = Amount(calls[AnyOf(S)]) + Totals(calls, D)[S \ {AnyOf(S)}]
  <2>1. PICK g : g = Totals(calls, D)
    OBVIOUS
  <2>2. IsTotal(g, calls, D)
    BY <2>1, TotalOfSubset
  <2>3. g[S] = Amount(calls[AnyOf(S)]) + g[S \ {AnyOf(S)}]
    BY <2>2 DEF IsTotal
  <2> QED BY <2>1, <2>3
<1> QED
  BY <1>1, <1>2, TotalOfSubset, AnyOfIsMember

LEMMA TotalType ==
  ASSUME NEW calls, NEW D, Counts(calls, D), NEW S \in SUBSET D
  PROVE  TotalOf(calls, S) \in Int
<1> DEFINE B == {s \in SUBSET D : TotalOf(calls, s) \notin Int}
<1>1. SUFFICES ASSUME B # {} PROVE FALSE
  OBVIOUS
<1>2. PICK T \in B : \A U \in SUBSET T : U # T => U \notin B
  <2>1. B \in SUBSET SUBSET D /\ IsFiniteSet(D)
    BY DEF Counts
  <2> HIDE DEF B
  <2> QED BY <1>1, <2>1, LeastSubset
<1>3. T \in SUBSET D /\ TotalOf(calls, T) \notin Int /\ T # {}
  <2>1. T = {} => TotalOf(calls, T) = 0
    BY TotalOfNone, Zenon
  <2> QED BY <1>2, <2>1
<1>4. /\ AnyOf(T) \in T
      /\ TotalOf(calls, T) = Amount(calls[AnyOf(T)]) + TotalOf(calls, T \ {AnyOf(T)})
  <2>1. IsFiniteSet(D)
    BY DEF Counts
  <2> QED BY <1>3, <2>1, TotalStep
<1>5. TotalOf(calls, T \ {AnyOf(T)}) \in Int
  BY <1>2, <1>3, <1>4
<1>6. Amount(calls[AnyOf(T)]) \in Int
  BY <1>3, <1>4 DEF Counts
<1> QED
  BY <1>3, <1>4, <1>5, <1>6

LEMMA TotalRemove ==
  ASSUME NEW calls, NEW D, Counts(calls, D), NEW S \in SUBSET D, NEW c \in S
  PROVE  TotalOf(calls, S) = Amount(calls[c]) + TotalOf(calls, S \ {c})
<1> DEFINE B == {s \in SUBSET D :
                   \E d \in s : TotalOf(calls, s) # Amount(calls[d]) + TotalOf(calls, s \ {d})}
<1>0. IsFiniteSet(D)
  BY DEF Counts
<1>1. SUFFICES ASSUME B # {} PROVE FALSE
  OBVIOUS
<1>2. PICK T \in B : \A U \in SUBSET T : U # T => U \notin B
  <2>1. B \in SUBSET SUBSET D
    OBVIOUS
  <2> HIDE DEF B
  <2> QED BY <1>0, <1>1, <2>1, LeastSubset
<1>3. PICK d \in T : TotalOf(calls, T) # Amount(calls[d]) + TotalOf(calls, T \ {d})
  BY <1>2
<1> DEFINE e == AnyOf(T)
<1>4. T \in SUBSET D /\ e \in T
      /\ TotalOf(calls, T) = Amount(calls[e]) + TotalOf(calls, T \ {e})
  <2>1. T \in SUBSET D /\ T # {}
    BY <1>2, <1>3
  <2> QED BY <1>0, <2>1, TotalStep
<1> HIDE DEF e
<1>5. d # e
  BY <1>3, <1>4
<1>6. TotalOf(calls, T \ {e}) = Amount(calls[d]) + TotalOf(calls, (T \ {e}) \ {d})
  BY <1>2, <1>4, <1>5
<1>7. TotalOf(calls, T \ {d}) = Amount(calls[e]) + TotalOf(calls, (T \ {d}) \ {e})
  BY <1>2, <1>4, <1>5
<1>8. TotalOf(calls, (T \ {e}) \ {d}) = TotalOf(calls, (T \ {d}) \ {e})
  <2>1. (T \ {e}) \ {d} = (T \ {d}) \ {e}
    OBVIOUS
  <2> QED BY <2>1, Zenon
<1>9. /\ Amount(calls[d]) \in Int /\ Amount(calls[e]) \in Int
      /\ TotalOf(calls, (T \ {d}) \ {e}) \in Int
  <2>1. (T \ {d}) \ {e} \in SUBSET D /\ d \in D /\ e \in D
    BY <1>4
  <2>2. Amount(calls[d]) \in Int /\ Amount(calls[e]) \in Int
    BY <2>1 DEF Counts
  <2> QED BY <2>1, <2>2, TotalType
<1> QED
  BY <1>3, <1>4, <1>6, <1>7, <1>8, <1>9

\* One call more.
LEMMA TotalAdd ==
  ASSUME NEW calls, NEW D, Counts(calls, D), NEW S \in SUBSET D, NEW c \in D, c \notin S
  PROVE  TotalOf(calls, S \cup {c}) = TotalOf(calls, S) + Amount(calls[c])
<1>1. S \cup {c} \in SUBSET D /\ c \in S \cup {c}
  OBVIOUS
<1>2. TotalOf(calls, S \cup {c}) = Amount(calls[c]) + TotalOf(calls, (S \cup {c}) \ {c})
  BY <1>1, TotalRemove
<1>3. TotalOf(calls, (S \cup {c}) \ {c}) = TotalOf(calls, S)
  <2>1. (S \cup {c}) \ {c} = S
    OBVIOUS
  <2> QED BY <2>1, Zenon
<1>4. Amount(calls[c]) \in Int /\ TotalOf(calls, S) \in Int
  <2>1. Amount(calls[c]) \in Int
    BY DEF Counts
  <2> QED BY <2>1, TotalType
<1> QED
  BY <1>2, <1>3, <1>4

-----------------------------------------------------------------------------
(* The endpoint of a call *)

IsScore(g, template, S) ==
  g = [s \in SUBSET S |->
         IF s = {} THEN Len(template) ELSE ScoreStep(g[s \ {Max(s)}], template[Max(s)])]

Score(template) == CHOOSE g : IsScore(g, template, DOMAIN template)

LEMMA ScoreIsFold ==
  ASSUME NEW g, NEW template, NEW S
  PROVE  IsScore(g, template, S) <=> IsFold(g, ScoreFold(Len(template)), template, S)
<1> DEFINE fold == ScoreFold(Len(template))
<1>1. FirstOf(fold) = Len(template)
  BY DEF FirstOf, ScoreFold
<1>2. \A value, x : NextOf(fold, value, x) = ScoreStep(value, x)
  BY DEF NextOf, ScoreFold
<1> HIDE DEF fold
<1> QED
  BY <1>1, <1>2 DEF IsScore, IsFold, fold

LEMMA SpecificityIsScore ==
  ASSUME NEW template
  PROVE  RouteSpecificity(template) = Score(template)[DOMAIN template]
BY DEF RouteSpecificity, FoldLeft, MapThenFoldSet, Score, IsScore, ScoreStep

LEMMA SpecificityIsNumber ==
  ASSUME NEW E, NEW template \in Seq(E)
  PROVE  RouteSpecificity(template) \in Int
<1> DEFINE N == Len(template)
           h == Score(template)
           G == {n \in 0..N : h[1..n] \in Int}
<1>1. N \in Nat /\ DOMAIN template = 1..N
  OBVIOUS
<1>2. IsFold(h, ScoreFold(N), template, 1..N)
  <2>1. \E g : IsScore(g, template, 1..N)
    BY <1>1, FoldExists, ScoreIsFold
  <2>2. IsScore(Score(template), template, 1..N)
    BY <1>1, <2>1 DEF Score
  <2> QED BY <2>2, ScoreIsFold
<1> HIDE DEF h
<1>3. /\ h[1..0] = N
      /\ \A n \in 1..N : h[1..n] = ScoreStep(h[1..(n - 1)], template[n])
  <2> DEFINE fold == ScoreFold(N)
  <2>1. FirstOf(fold) = N
    BY DEF FirstOf, ScoreFold
  <2>2. \A value, x : NextOf(fold, value, x) = ScoreStep(value, x)
    BY DEF NextOf, ScoreFold
  <2>3. IsFold(h, fold, template, 1..N)
    BY <1>2
  <2> HIDE DEF fold
  <2>4. /\ h[1..0] = FirstOf(fold)
        /\ \A n \in 1..N : h[1..n] = NextOf(fold, h[1..(n - 1)], template[n])
    <3> HIDE DEF N
    <3> QED BY <1>1, <2>3, FoldSteps
  <2> QED BY <2>1, <2>2, <2>4
<1> HIDE DEF N
<1>4. 0 \in G
  BY <1>1, <1>3
<1>5. \A n \in 1..N : n - 1 \in G => n \in G
  BY <1>1, <1>3 DEF ScoreStep
<1> HIDE DEF G
<1>6. N \in G
  <2>1. \A n \in 0..N : n \in G
    BY <1>1, <1>4, <1>5, UpTo
  <2> QED BY <1>1, <2>1
<1> QED
  BY <1>1, <1>6, SpecificityIsScore DEF G, h

\* preferredCoverageRoute is a strict order of the known endpoints.
LEMMA PreferenceOrders ==
  ASSUME NEW a \in DOMAIN Templates, NEW b \in DOMAIN Templates, NEW c \in DOMAIN Templates
  PROVE  /\ a # b => Preferred(a, b) \/ Preferred(b, a)
         /\ ~(Preferred(a, b) /\ Preferred(b, a))
         /\ Preferred(a, b) /\ Preferred(b, c) => Preferred(a, c)
<1> DEFINE worth(r) == RouteSpecificity(Templates[r].segments)
<1>1. \A r \in DOMAIN Templates : r \in Nat /\ worth(r) \in Int
  <2> SUFFICES ASSUME NEW r \in DOMAIN Templates PROVE r \in Nat /\ worth(r) \in Int
    OBVIOUS
  <2>1. Templates \in Seq(ToSet(Templates))
    BY CoverageAssumption
  <2>2. DOMAIN Templates = 1..Len(Templates)
    BY <2>1
  <2>3. Templates[r].segments \in Seq(ToSet(Templates[r].segments))
    BY CoverageAssumption
  <2> QED BY <2>2, <2>3, SpecificityIsNumber
<1>2. \A r, s : Preferred(r, s) <=> worth(r) > worth(s) \/ (worth(r) = worth(s) /\ r < s)
  BY Zenon DEF Preferred
<1>3. /\ a \in Nat /\ b \in Nat /\ c \in Nat
      /\ worth(a) \in Int /\ worth(b) \in Int /\ worth(c) \in Int
  BY <1>1
<1> HIDE DEF worth
<1> QED
  BY <1>2, <1>3

Fits(route, call) ==
  /\ Templates[route].method = call.method
  /\ RouteMatches(Templates[route].segments, call.path)

\* The endpoints among the first n that match the call, and the one preferred to others.
Fitting(routes, call, n) == {routes[i] : i \in {j \in 1..n : Fits(routes[j], call)}}

IsPreferred(route, routes) ==
  route \in routes /\ \A other \in routes \ {route} : Preferred(route, other)

\* What the loop has found among routes.
BestAmong(best, routes) ==
  (routes = {} /\ best = 0) \/ (best # 0 /\ IsPreferred(best, routes))

LEMMA BestStepFinds ==
  ASSUME NEW routes \in SUBSET DOMAIN Templates, NEW best, BestAmong(best, routes),
         NEW route \in DOMAIN Templates, NEW call
  PROVE  BestAmong(BestStep(call, best, route),
                   IF Fits(route, call) THEN routes \cup {route} ELSE routes)
<1>1. CASE ~Fits(route, call)
  <2>1. BestStep(call, best, route) = best
    BY <1>1 DEF BestStep, Fits
  <2> QED BY <1>1, <2>1
<1>2. CASE Fits(route, call) /\ routes = {}
  <2>1. BestStep(call, best, route) = route
    BY <1>2 DEF BestStep, Fits, BestAmong, IsPreferred
  <2>2. route # 0
    BY CoverageAssumption DEF ToSet
  <2>3. IsPreferred(route, routes \cup {route})
    BY <1>2 DEF IsPreferred
  <2> QED BY <1>2, <2>1, <2>2, <2>3 DEF BestAmong
<1>3. CASE Fits(route, call) /\ routes # {}
  <2>1. best # 0 /\ best \in routes /\ \A other \in routes \ {best} : Preferred(best, other)
    BY <1>3 DEF BestAmong, IsPreferred
  <2>2. CASE Preferred(route, best)
    <3>1. BestStep(call, best, route) = route
      BY <1>3, <2>2 DEF BestStep, Fits
    <3>2. route # 0
      BY CoverageAssumption DEF ToSet
    <3>3. ASSUME NEW other \in (routes \cup {route}) \ {route} PROVE Preferred(route, other)
      <4>1. CASE other = best
        BY <2>2, <4>1
      <4>2. CASE other # best
        <5>1. Preferred(best, other) /\ other \in DOMAIN Templates /\ best \in DOMAIN Templates
          BY <2>1, <4>2
        <5> QED BY <2>2, <5>1, PreferenceOrders
      <4> QED BY <4>1, <4>2
    <3>4. IsPreferred(route, routes \cup {route})
      BY <3>3 DEF IsPreferred
    <3> QED BY <1>3, <3>1, <3>2, <3>4 DEF BestAmong
  <2>3. CASE ~Preferred(route, best)
    <3>1. BestStep(call, best, route) = best
      BY <2>1, <2>3 DEF BestStep
    <3>2. ASSUME NEW other \in (routes \cup {route}) \ {best} PROVE Preferred(best, other)
      <4>1. CASE other \in routes
        BY <2>1, <4>1
      <4>2. CASE other = route
        <5>1. best \in DOMAIN Templates /\ other # best
          BY <2>1
        <5> QED BY <2>3, <4>2, <5>1, PreferenceOrders
      <4> QED BY <4>1, <4>2
    <3>3. IsPreferred(best, routes \cup {route})
      BY <2>1, <3>2 DEF IsPreferred
    <3> QED BY <1>3, <2>1, <3>1, <3>3 DEF BestAmong
  <2> QED BY <2>2, <2>3
<1> QED
  BY <1>1, <1>2, <1>3

IsBestRoute(g, routes, call, S) ==
  g = [s \in SUBSET S |->
         IF s = {} THEN 0 ELSE BestStep(call, g[s \ {Max(s)}], routes[Max(s)])]

BestRoutes(routes, call) == CHOOSE g : IsBestRoute(g, routes, call, DOMAIN routes)

LEMMA BestRouteIsFold ==
  ASSUME NEW g, NEW routes, NEW call, NEW S
  PROVE  IsBestRoute(g, routes, call, S) <=> IsFold(g, BestFold(call), routes, S)
<1> DEFINE fold == BestFold(call)
<1>1. FirstOf(fold) = 0
  BY DEF FirstOf, BestFold
<1>2. \A value, x : NextOf(fold, value, x) = BestStep(call, value, x)
  BY DEF NextOf, BestFold
<1> HIDE DEF fold
<1> QED
  BY <1>1, <1>2 DEF IsBestRoute, IsFold, fold

LEMMA BestRouteIsLast ==
  ASSUME NEW routes, NEW call
  PROVE  BestRoute(routes, call) = BestRoutes(routes, call)[DOMAIN routes]
<1>1. BestRoute(routes, call)
        = FoldLeft(LAMBDA best, route : BestStep(call, best, route), 0, routes)
  BY Zenon DEF BestRoute, BestStep
<1>2. FoldLeft(LAMBDA best, route : BestStep(call, best, route), 0, routes)
        = BestRoutes(routes, call)[DOMAIN routes]
  BY DEF FoldLeft, MapThenFoldSet, BestRoutes, IsBestRoute
<1> QED
  BY <1>1, <1>2, Zenon

\* BestRoute finds the one preferred to all others that match, in whatever order it
\* meets them, and nothing if none matches.
LEMMA BestRouteIsBest ==
  ASSUME NEW routes \in Seq(DOMAIN Templates), NEW call
  PROVE  BestAmong(BestRoute(routes, call), {route \in ToSet(routes) : Fits(route, call)})
<1> DEFINE N == Len(routes)
           h == BestRoutes(routes, call)
           G == {n \in 0..N : BestAmong(h[1..n], Fitting(routes, call, n))}
<1>1. N \in Nat /\ DOMAIN routes = 1..N
  OBVIOUS
<1>2. IsFold(h, BestFold(call), routes, 1..N)
  <2>1. \E g : IsBestRoute(g, routes, call, 1..N)
    BY <1>1, FoldExists, BestRouteIsFold
  <2>2. IsBestRoute(BestRoutes(routes, call), routes, call, 1..N)
    BY <1>1, <2>1 DEF BestRoutes
  <2> QED BY <2>2, BestRouteIsFold
<1> HIDE DEF h
<1>3. /\ h[1..0] = 0
      /\ \A n \in 1..N : h[1..n] = BestStep(call, h[1..(n - 1)], routes[n])
  <2> DEFINE fold == BestFold(call)
  <2>1. FirstOf(fold) = 0
    BY DEF FirstOf, BestFold
  <2>2. \A value, x : NextOf(fold, value, x) = BestStep(call, value, x)
    BY DEF NextOf, BestFold
  <2>3. IsFold(h, fold, routes, 1..N)
    BY <1>2
  <2> HIDE DEF fold
  <2>4. /\ h[1..0] = FirstOf(fold)
        /\ \A n \in 1..N : h[1..n] = NextOf(fold, h[1..(n - 1)], routes[n])
    <3> HIDE DEF N
    <3> QED BY <1>1, <2>3, FoldSteps
  <2> QED BY <2>1, <2>2, <2>4
<1>4. \A n \in 1..N : routes[n] \in DOMAIN Templates
  OBVIOUS
<1> HIDE DEF N
<1>5. 0 \in G
  <2>1. Fitting(routes, call, 0) = {}
    BY DEF Fitting
  <2> QED BY <1>1, <1>3, <2>1 DEF BestAmong
<1>6. ASSUME NEW n \in 1..N, n - 1 \in G PROVE n \in G
  <2>1. 1..n = 1..(n - 1) \cup {n} /\ n - 1 \in Nat /\ 1..(n - 1) \subseteq 1..N /\ n \in 0..N
    BY <1>1
  <2>2. Fitting(routes, call, n)
          = IF Fits(routes[n], call) THEN Fitting(routes, call, n - 1) \cup {routes[n]}
            ELSE Fitting(routes, call, n - 1)
    BY <2>1 DEF Fitting
  <2>3. Fitting(routes, call, n - 1) \in SUBSET DOMAIN Templates
    BY <1>4, <2>1 DEF Fitting
  <2>4. BestAmong(h[1..(n - 1)], Fitting(routes, call, n - 1))
    BY <1>6
  <2>5. BestAmong(BestStep(call, h[1..(n - 1)], routes[n]), Fitting(routes, call, n))
    BY <1>4, <2>2, <2>3, <2>4, BestStepFinds
  <2> QED BY <1>3, <2>1, <2>5
<1> HIDE DEF G
<1>7. N \in G
  <2>1. \A n \in 0..N : n \in G
    BY <1>1, <1>5, <1>6, UpTo
  <2> QED BY <1>1, <2>1
<1>8. Fitting(routes, call, N) = {route \in ToSet(routes) : Fits(route, call)}
  BY <1>1 DEF Fitting, ToSet
<1> QED
  BY <1>1, <1>7, <1>8, BestRouteIsLast DEF G, h

IsRoutes(g, known, S) ==
  g = [s \in SUBSET S |->
         IF s = {} THEN <<>> ELSE RoutesStep(g[s \ {Max(s)}], known[Max(s)])]

DistinctRoutes(known) == CHOOSE g : IsRoutes(g, known, DOMAIN known)

LEMMA RoutesAreFold ==
  ASSUME NEW g, NEW known, NEW S
  PROVE  IsRoutes(g, known, S) <=> IsFold(g, RoutesFold, known, S)
<1>1. FirstOf(RoutesFold) = <<>>
  BY DEF FirstOf, RoutesFold
<1>2. \A value, x : NextOf(RoutesFold, value, x) = RoutesStep(value, x)
  BY DEF NextOf, RoutesFold
<1> QED
  BY <1>1, <1>2 DEF IsRoutes, IsFold

LEMMA RoutesAreLast ==
  ASSUME NEW known
  PROVE  Routes(known) = DistinctRoutes(known)[DOMAIN known]
BY DEF Routes, FoldLeft, MapThenFoldSet, DistinctRoutes, IsRoutes, RoutesStep

LEMMA RoutesStepKeeps ==
  ASSUME NEW E, NEW routes \in Seq(E), NEW route \in E
  PROVE  /\ RoutesStep(routes, route) \in Seq(E)
         /\ \A r : r \in ToSet(RoutesStep(routes, route)) <=> r \in ToSet(routes) \/ r = route
<1>1. CASE Contains(routes, route)
  <2>1. route \in ToSet(routes)
    BY <1>1 DEF Contains, ToSet
  <2> QED BY <1>1, <2>1 DEF RoutesStep
<1>2. CASE ~Contains(routes, route)
  <2>1. RoutesStep(routes, route) = Append(routes, route)
    BY <1>2 DEF RoutesStep
  <2>2. PICK longer : longer = Append(routes, route)
    OBVIOUS
  <2>3. /\ longer \in Seq(E) /\ Len(longer) = Len(routes) + 1
        /\ \A i \in 1..Len(routes) : longer[i] = routes[i]
        /\ longer[Len(routes) + 1] = route
    BY <2>2, AppendProperties
  <2>4. DOMAIN longer = 1..Len(routes) \cup {Len(routes) + 1} /\ DOMAIN routes = 1..Len(routes)
    BY <2>3
  <2>5. ToSet(longer) = ToSet(routes) \cup {route}
    BY <2>3, <2>4 DEF ToSet
  <2> QED BY <2>1, <2>2, <2>3, <2>5
<1> QED
  BY <1>1, <1>2

\* Taking repetitions out of the known endpoints loses none of them.
LEMMA RoutesAreKnown ==
  ASSUME NEW E, NEW known \in Seq(E)
  PROVE  Routes(known) \in Seq(E) /\ ToSet(Routes(known)) = ToSet(known)
<1> DEFINE N == Len(known)
           h == DistinctRoutes(known)
           G == {n \in 0..N : /\ h[1..n] \in Seq(E)
                              /\ ToSet(h[1..n]) = {known[i] : i \in 1..n}}
<1>1. N \in Nat /\ DOMAIN known = 1..N
  OBVIOUS
<1>2. IsFold(h, RoutesFold, known, 1..N)
  <2>1. \E g : IsRoutes(g, known, 1..N)
    BY <1>1, FoldExists, RoutesAreFold
  <2>2. IsRoutes(DistinctRoutes(known), known, 1..N)
    BY <1>1, <2>1 DEF DistinctRoutes
  <2> QED BY <2>2, RoutesAreFold
<1> HIDE DEF h
<1>3. /\ h[1..0] = <<>>
      /\ \A n \in 1..N : h[1..n] = RoutesStep(h[1..(n - 1)], known[n])
  <2>1. FirstOf(RoutesFold) = <<>>
    BY DEF FirstOf, RoutesFold
  <2>2. \A value, x : NextOf(RoutesFold, value, x) = RoutesStep(value, x)
    BY DEF NextOf, RoutesFold
  <2>3. /\ h[1..0] = FirstOf(RoutesFold)
        /\ \A n \in 1..N : h[1..n] = NextOf(RoutesFold, h[1..(n - 1)], known[n])
    <3> HIDE DEF N
    <3> QED BY <1>1, <1>2, FoldSteps
  <2> QED BY <2>1, <2>2, <2>3
<1>4. \A n \in 1..N : known[n] \in E
  OBVIOUS
<1> HIDE DEF N
<1>5. 0 \in G
  <2>1. <<>> \in Seq(E) /\ ToSet(<<>>) = {}
    BY DEF ToSet
  <2>2. {known[i] : i \in 1..0} = {}
    OBVIOUS
  <2>3. h[1..0] \in Seq(E) /\ ToSet(h[1..0]) = {known[i] : i \in 1..0}
    BY <1>3, <2>1, <2>2, Zenon
  <2>4. 0 \in 0..N
    BY <1>1
  <2> QED BY <2>3, <2>4, Zenon
<1>6. ASSUME NEW n \in 1..N, n - 1 \in G PROVE n \in G
  <2>1. 1..n = 1..(n - 1) \cup {n} /\ n \in 0..N
    BY <1>1
  <2>2. {known[i] : i \in 1..n} = {known[i] : i \in 1..(n - 1)} \cup {known[n]}
    BY <2>1
  <2>3. h[1..(n - 1)] \in Seq(E) /\ ToSet(h[1..(n - 1)]) = {known[i] : i \in 1..(n - 1)}
    BY <1>6
  <2>4. h[1..n] = RoutesStep(h[1..(n - 1)], known[n])
    BY <1>3
  <2>5. PICK routes : routes = h[1..(n - 1)]
    OBVIOUS
  <2>6. /\ RoutesStep(routes, known[n]) \in Seq(E)
        /\ ToSet(RoutesStep(routes, known[n])) = ToSet(routes) \cup {known[n]}
    <3>1. routes \in Seq(E) /\ known[n] \in E
      BY <1>4, <2>3, <2>5
    <3>2. PICK route \in E : route = known[n]
      BY <3>1
    <3>3. RoutesStep(routes, route) \in Seq(E)
      BY <3>1, RoutesStepKeeps
    <3>4. \A r : r \in ToSet(RoutesStep(routes, route)) <=> r \in ToSet(routes) \/ r = route
      BY <3>1, RoutesStepKeeps, Zenon
    <3>5. ToSet(RoutesStep(routes, route)) = ToSet(routes) \cup {route}
      <4> DEFINE A == ToSet(RoutesStep(routes, route))
                 B == ToSet(routes)
      <4> HIDE DEF A, B
      <4>1. \A r : r \in A <=> r \in B \/ r = route
        BY <3>4 DEF A, B
      <4>2. A = B \cup {route}
        BY <4>1
      <4> QED BY <4>2 DEF A, B
    <3> QED BY <3>2, <3>3, <3>5
  <2> QED BY <2>1, <2>2, <2>3, <2>4, <2>5, <2>6
<1> HIDE DEF G
<1>7. N \in G
  <2>1. \A n \in 0..N : n \in G
    BY <1>1, <1>5, <1>6, UpTo
  <2> QED BY <1>1, <2>1
<1>8. h[1..N] \in Seq(E) /\ ToSet(h[1..N]) = {known[i] : i \in 1..N}
  BY <1>7 DEF G
<1>9. Routes(known) = h[1..N]
  BY <1>1, RoutesAreLast DEF h
<1> QED
  BY <1>1, <1>8, <1>9 DEF ToSet

\* The owner of a call is the endpoint it is counted for.
LEMMA OwnersAreBest ==
  ASSUME NEW known \in Seq(DOMAIN Templates), NEW call, NEW best,
         best = BestRoute(Routes(known), call)
  PROVE  /\ best = 0 <=> Candidates(known, call) = {}
         /\ best # 0 => best \in ToSet(known) /\ best \in DOMAIN Templates
         /\ \A route \in DOMAIN Templates : Owners(known, call) = {route} <=> best = route
<1>1. Routes(known) \in Seq(DOMAIN Templates) /\ ToSet(Routes(known)) = ToSet(known)
  BY RoutesAreKnown
<1>2. Candidates(known, call) = {route \in ToSet(known) : Fits(route, call)}
  BY Zenon DEF Candidates, Fits
<1>3. BestAmong(best, Candidates(known, call))
  BY <1>1, <1>2, BestRouteIsBest
<1>4. ToSet(known) \subseteq DOMAIN Templates
  BY DEF ToSet
<1>5. Candidates(known, call) \subseteq ToSet(known)
  BY DEF Candidates
<1>6. 0 \notin DOMAIN Templates
  BY CoverageAssumption DEF ToSet
<1>7. CASE Candidates(known, call) = {}
  <2>1. best = 0
    BY <1>3, <1>7 DEF BestAmong, IsPreferred
  <2>2. Owners(known, call) = {}
    BY <1>7 DEF Owners
  <2> QED BY <1>6, <1>7, <2>1, <2>2
<1>8. CASE Candidates(known, call) # {}
  <2>1. /\ best # 0 /\ best \in Candidates(known, call)
        /\ \A other \in Candidates(known, call) \ {best} : Preferred(best, other)
    BY <1>3, <1>8 DEF BestAmong, IsPreferred
  <2>2. Owners(known, call) = {best}
    <3>1. best \in Owners(known, call)
      BY <2>1 DEF Owners
    <3>2. ASSUME NEW route \in Owners(known, call), route # best PROVE FALSE
      <4>1. route \in Candidates(known, call) /\ Preferred(route, best)
        BY <2>1, <3>2 DEF Owners
      <4>2. Preferred(best, route)
        BY <2>1, <3>2, <4>1
      <4>3. route \in DOMAIN Templates /\ best \in DOMAIN Templates
        BY <1>4, <1>5, <2>1, <4>1
      <4> QED BY <4>1, <4>2, <4>3, PreferenceOrders
    <3> QED BY <3>1, <3>2
  <2> QED BY <1>4, <1>5, <1>8, <2>1, <2>2
<1> QED
  BY <1>7, <1>8

-----------------------------------------------------------------------------
(* The report on the calls.  best[i] is the endpoint of the i-th call, 0 if  *)
(* it has none.                                                              *)

KeyOf(calls, i) == <<calls[i].method, calls[i].path>>

\* Of the first n calls: those of an endpoint, those without one that have a key, their
\* keys, and the paths of an endpoint.
OfRoute(best, n, route) == {i \in 1..n : best[i] = route}
OfKey(best, calls, n, key) == {i \in 1..n : best[i] = 0 /\ key = KeyOf(calls, i)}
Strangers(best, calls, n) == {KeyOf(calls, i) : i \in {j \in 1..n : best[j] = 0}}
PathsUpTo(best, calls, n, route) == {calls[i].path : i \in OfRoute(best, n, route)}

RouteTotal(best, calls, n, route) == TotalOf(calls, OfRoute(best, n, route))
KeyTotal(best, calls, n, key) == TotalOf(calls, OfKey(best, calls, n, key))

\* What the first n calls must keep to be counted.
WithinLimits(routes, best, calls, n) ==
  /\ \A i \in 1..n : calls[i].count >= 0
  /\ \A route \in routes : RouteTotal(best, calls, n, route) <= MaxCount
  /\ \A key \in Strangers(best, calls, n) : KeyTotal(best, calls, n, key) <= MaxCount

\* A sample of the paths, and whether it was cut.
Sampled(seen, cut, paths) ==
  /\ seen \subseteq paths /\ IsFiniteSet(seen)
  /\ Cardinality(seen) <= MaxPaths
  /\ cut => Cardinality(seen) = MaxPaths
  /\ cut <=> seen # paths

TallyIs(tally, best, calls, n) ==
  /\ tally = [error |-> "none",
              unknown |-> [key \in Strangers(best, calls, n) |-> KeyTotal(best, calls, n, key)],
              truncated |-> tally.truncated,
              hits |-> [route \in DOMAIN Templates |-> RouteTotal(best, calls, n, route)],
              paths |-> [route \in DOMAIN Templates |-> tally.paths[route]]]
  /\ \A route \in DOMAIN Templates :
       Sampled(tally.paths[route], route \in tally.truncated, PathsUpTo(best, calls, n, route))

Tallied(tally, routes, best, calls, n) ==
  IF WithinLimits(routes, best, calls, n) THEN TallyIs(tally, best, calls, n)
  ELSE tally.error # "none"

\* Calls with counts, N of them, and for each its endpoint among routes or 0.
Attributed(routes, best, calls, N) ==
  /\ N \in Nat /\ routes \subseteq DOMAIN Templates
  /\ \A i \in 1..N : calls[i].count \in Int /\ (best[i] = 0 \/ best[i] \in routes)

LEMMA AmountsCount ==
  ASSUME NEW routes, NEW best, NEW calls, NEW N, Attributed(routes, best, calls, N)
  PROVE  /\ Counts(calls, 1..N)
         /\ \A i \in 1..N : /\ Amount(calls[i]) \in Int
                            /\ calls[i].count >= 0 => Amount(calls[i]) >= 0
<1>1. N \in Nat /\ \A i \in 1..N : calls[i].count \in Int
  BY DEF Attributed
<1>2. \A i \in 1..N : /\ Amount(calls[i]) \in Int
                      /\ calls[i].count >= 0 => Amount(calls[i]) >= 0
  BY <1>1 DEF Amount
<1>3. IsFiniteSet(1..N)
  BY <1>1, FS_Interval
<1> QED
  BY <1>2, <1>3 DEF Counts

\* One call more adds its amount to one endpoint or to one key.
LEMMA RouteTotalSteps ==
  ASSUME NEW routes, NEW best, NEW calls, NEW N, Attributed(routes, best, calls, N),
         NEW n \in 1..N, NEW route
  PROVE  /\ RouteTotal(best, calls, n - 1, route) \in Int
         /\ RouteTotal(best, calls, n, route)
              = RouteTotal(best, calls, n - 1, route)
                  + (IF best[n] = route THEN Amount(calls[n]) ELSE 0)
         /\ PathsUpTo(best, calls, n, route)
              = IF best[n] = route THEN PathsUpTo(best, calls, n - 1, route) \cup {calls[n].path}
                ELSE PathsUpTo(best, calls, n - 1, route)
<1>1. N \in Nat /\ Counts(calls, 1..N) /\ Amount(calls[n]) \in Int
  BY AmountsCount DEF Attributed
<1> DEFINE before == OfRoute(best, n - 1, route)
           now == OfRoute(best, n, route)
<1>2. 1..n = 1..(n - 1) \cup {n} /\ n \notin 1..(n - 1) /\ 1..(n - 1) \subseteq 1..N
  BY <1>1
<1>3. /\ now = IF best[n] = route THEN before \cup {n} ELSE before
      /\ before \in SUBSET (1..N) /\ n \notin before
  BY <1>2 DEF OfRoute
<1>4. PathsUpTo(best, calls, n, route)
        = IF best[n] = route THEN PathsUpTo(best, calls, n - 1, route) \cup {calls[n].path}
          ELSE PathsUpTo(best, calls, n - 1, route)
  BY <1>3 DEF PathsUpTo
<1> HIDE DEF before, now
<1>5. TotalOf(calls, before) \in Int
  BY <1>1, <1>3, TotalType
<1>6. TotalOf(calls, before \cup {n}) = TotalOf(calls, before) + Amount(calls[n])
  BY <1>1, <1>3, TotalAdd
<1>7. TotalOf(calls, now) = TotalOf(calls, before) + (IF best[n] = route THEN Amount(calls[n]) ELSE 0)
  <2>1. CASE best[n] = route
    BY <1>3, <1>6, <2>1
  <2>2. CASE best[n] # route
    BY <1>3, <1>5, <2>2
  <2> QED BY <2>1, <2>2
<1> QED
  BY <1>4, <1>5, <1>7 DEF RouteTotal, before, now

LEMMA KeyTotalSteps ==
  ASSUME NEW routes, NEW best, NEW calls, NEW N, Attributed(routes, best, calls, N),
         NEW n \in 1..N, NEW key
  PROVE  /\ KeyTotal(best, calls, n - 1, key) \in Int
         /\ KeyTotal(best, calls, n, key)
              = KeyTotal(best, calls, n - 1, key)
                  + (IF best[n] = 0 /\ key = KeyOf(calls, n) THEN Amount(calls[n]) ELSE 0)
         /\ key \notin Strangers(best, calls, n - 1) => KeyTotal(best, calls, n - 1, key) = 0
<1>1. N \in Nat /\ Counts(calls, 1..N) /\ Amount(calls[n]) \in Int
  BY AmountsCount DEF Attributed
<1> DEFINE before == OfKey(best, calls, n - 1, key)
           now == OfKey(best, calls, n, key)
           adds == best[n] = 0 /\ key = KeyOf(calls, n)
<1>2. 1..n = 1..(n - 1) \cup {n} /\ n \notin 1..(n - 1) /\ 1..(n - 1) \subseteq 1..N
  BY <1>1
<1>3. /\ now = IF adds THEN before \cup {n} ELSE before
      /\ before \in SUBSET (1..N) /\ n \notin before
  BY <1>2 DEF OfKey
<1>4. key \notin Strangers(best, calls, n - 1) => before = {}
  BY DEF Strangers, OfKey
<1> HIDE DEF before, now, adds
<1>5. TotalOf(calls, before) \in Int
  BY <1>1, <1>3, TotalType
<1>6. TotalOf(calls, before \cup {n}) = TotalOf(calls, before) + Amount(calls[n])
  BY <1>1, <1>3, TotalAdd
<1>7. TotalOf(calls, now) = TotalOf(calls, before) + (IF adds THEN Amount(calls[n]) ELSE 0)
  <2>1. CASE adds
    BY <1>3, <1>6, <2>1
  <2>2. CASE ~adds
    BY <1>3, <1>5, <2>2
  <2> QED BY <2>1, <2>2
<1>8. key \notin Strangers(best, calls, n - 1) => TotalOf(calls, before) = 0
  BY <1>4, TotalOfNone
<1> QED
  BY <1>5, <1>7, <1>8 DEF KeyTotal, before, now, adds

LEMMA StrangersStep ==
  ASSUME NEW best, NEW calls, NEW n \in Nat \ {0}
  PROVE  Strangers(best, calls, n)
           = IF best[n] = 0 THEN Strangers(best, calls, n - 1) \cup {KeyOf(calls, n)}
             ELSE Strangers(best, calls, n - 1)
<1>1. 1..n = 1..(n - 1) \cup {n}
  OBVIOUS
<1> QED
  BY <1>1 DEF Strangers

\* Limits that calls have exceeded stay exceeded.
LEMMA LimitsStayExceeded ==
  ASSUME NEW routes, NEW best, NEW calls, NEW N, Attributed(routes, best, calls, N),
         NEW n \in 1..N, WithinLimits(routes, best, calls, n)
  PROVE  WithinLimits(routes, best, calls, n - 1)
<1>1. N \in Nat /\ n \in Nat \ {0} /\ 1..(n - 1) \subseteq 1..n /\ n \in 1..n
  BY DEF Attributed
<1>2. calls[n].count >= 0 /\ \A i \in 1..(n - 1) : calls[i].count >= 0
  BY <1>1 DEF WithinLimits
<1>3. Amount(calls[n]) \in Int /\ Amount(calls[n]) >= 0
  BY <1>2, AmountsCount
<1>4. ASSUME NEW route \in routes PROVE RouteTotal(best, calls, n - 1, route) <= MaxCount
  <2>1. /\ RouteTotal(best, calls, n - 1, route) \in Int
        /\ RouteTotal(best, calls, n, route)
             = RouteTotal(best, calls, n - 1, route)
                 + (IF best[n] = route THEN Amount(calls[n]) ELSE 0)
    BY RouteTotalSteps
  <2>2. RouteTotal(best, calls, n, route) <= MaxCount /\ MaxCount \in Nat
    BY CoverageAssumption DEF WithinLimits
  <2> QED BY <1>3, <2>1, <2>2
<1>5. ASSUME NEW key \in Strangers(best, calls, n - 1)
      PROVE  KeyTotal(best, calls, n - 1, key) <= MaxCount
  <2>1. /\ KeyTotal(best, calls, n - 1, key) \in Int
        /\ KeyTotal(best, calls, n, key)
             = KeyTotal(best, calls, n - 1, key)
                 + (IF best[n] = 0 /\ key = KeyOf(calls, n) THEN Amount(calls[n]) ELSE 0)
    BY KeyTotalSteps
  <2>2. key \in Strangers(best, calls, n)
    BY <1>1, StrangersStep
  <2>3. KeyTotal(best, calls, n, key) <= MaxCount /\ MaxCount \in Nat
    BY <2>2, CoverageAssumption DEF WithinLimits
  <2> QED BY <1>3, <2>1, <2>3
<1> QED
  BY <1>2, <1>4, <1>5 DEF WithinLimits

\* One call more keeps the limits if its endpoint, or its key, does.
LEMMA LimitsStep ==
  ASSUME NEW routes, NEW best, NEW calls, NEW N, Attributed(routes, best, calls, N),
         NEW n \in 1..N, WithinLimits(routes, best, calls, n - 1), calls[n].count >= 0
  PROVE  WithinLimits(routes, best, calls, n) <=>
           IF best[n] = 0 THEN KeyTotal(best, calls, n, KeyOf(calls, n)) <= MaxCount
           ELSE RouteTotal(best, calls, n, best[n]) <= MaxCount
<1>1. N \in Nat /\ n \in Nat \ {0} /\ 1..n = 1..(n - 1) \cup {n}
  BY DEF Attributed
<1>2. \A i \in 1..n : calls[i].count >= 0
  BY <1>1 DEF WithinLimits
<1>3. 0 \notin routes /\ (best[n] = 0 \/ best[n] \in routes)
  BY CoverageAssumption DEF Attributed
<1>4. ASSUME NEW route \in routes, route # best[n]
      PROVE  RouteTotal(best, calls, n, route) <= MaxCount
  <2>1. /\ RouteTotal(best, calls, n - 1, route) \in Int
        /\ RouteTotal(best, calls, n, route)
             = RouteTotal(best, calls, n - 1, route)
                 + (IF best[n] = route THEN Amount(calls[n]) ELSE 0)
    BY RouteTotalSteps
  <2>2. RouteTotal(best, calls, n - 1, route) <= MaxCount
    BY DEF WithinLimits
  <2>3. RouteTotal(best, calls, n, route) = RouteTotal(best, calls, n - 1, route)
    BY <1>4, <2>1
  <2> QED BY <2>2, <2>3
<1>5. ASSUME NEW key \in Strangers(best, calls, n), ~(best[n] = 0 /\ key = KeyOf(calls, n))
      PROVE  KeyTotal(best, calls, n, key) <= MaxCount
  <2>1. /\ KeyTotal(best, calls, n - 1, key) \in Int
        /\ KeyTotal(best, calls, n, key)
             = KeyTotal(best, calls, n - 1, key)
                 + (IF best[n] = 0 /\ key = KeyOf(calls, n) THEN Amount(calls[n]) ELSE 0)
    BY KeyTotalSteps
  <2>2. key \in Strangers(best, calls, n - 1)
    <3>1. CASE best[n] = 0
      <4>1. Strangers(best, calls, n) = Strangers(best, calls, n - 1) \cup {KeyOf(calls, n)}
        BY <1>1, <3>1, StrangersStep, Zenon
      <4> QED BY <1>5, <3>1, <4>1
    <3>2. CASE best[n] # 0
      <4>1. Strangers(best, calls, n) = Strangers(best, calls, n - 1)
        BY <1>1, <3>2, StrangersStep
      <4> QED BY <1>5, <4>1
    <3> QED BY <3>1, <3>2
  <2>3. KeyTotal(best, calls, n - 1, key) <= MaxCount
    BY <2>2 DEF WithinLimits
  <2>4. KeyTotal(best, calls, n, key) = KeyTotal(best, calls, n - 1, key)
    BY <1>5, <2>1
  <2> QED BY <2>3, <2>4
<1>6. CASE best[n] = 0
  <2>1. KeyOf(calls, n) \in Strangers(best, calls, n)
    BY <1>1, <1>6, StrangersStep
  <2> QED BY <1>2, <1>3, <1>4, <1>5, <1>6, <2>1 DEF WithinLimits
<1>7. CASE best[n] # 0
  BY <1>2, <1>3, <1>4, <1>5, <1>7 DEF WithinLimits
<1> QED
  BY <1>6, <1>7

\* A sample with one path more.
LEMMA SampleStep ==
  ASSUME NEW seen, NEW cut \in BOOLEAN, NEW paths, Sampled(seen, cut, paths), NEW path,
         NEW full \in BOOLEAN, full <=> Cardinality(seen) >= MaxPaths
  PROVE  Sampled(IF full THEN seen ELSE seen \cup {path},
                 cut \/ (full /\ path \notin seen), paths \cup {path})
<1>1. MaxPaths \in Nat \ {0} /\ Cardinality(seen) \in Nat /\ IsFiniteSet(seen)
  BY CoverageAssumption, FS_CardinalityType DEF Sampled
<1>2. CASE full
  <2>1. Cardinality(seen) = MaxPaths
    BY <1>1, <1>2 DEF Sampled
  <2> QED BY <1>2, <2>1 DEF Sampled
<1>3. CASE ~full
  <2>1. ~cut /\ seen = paths
    BY <1>1, <1>3 DEF Sampled
  <2>2. IsFiniteSet(seen \cup {path})
        /\ Cardinality(seen \cup {path})
             = (IF path \in seen THEN Cardinality(seen) ELSE Cardinality(seen) + 1)
    BY <1>1, FS_AddElement
  <2>3. Cardinality(seen \cup {path}) <= MaxPaths
    <3>1. Cardinality(seen) < MaxPaths
      BY <1>1, <1>3
    <3>2. PICK size : size = Cardinality(seen)
      OBVIOUS
    <3>3. PICK larger : larger = Cardinality(seen \cup {path})
      OBVIOUS
    <3>4. larger = size \/ larger = size + 1
      BY <2>2, <3>2, <3>3
    <3>5. larger <= MaxPaths
      BY <1>1, <3>1, <3>2, <3>4
    <3> QED BY <3>3, <3>5
  <2> QED BY <1>3, <2>1, <2>2, <2>3 DEF Sampled
<1> QED
  BY <1>2, <1>3

LEMMA UnknownIsTallied ==
  ASSUME NEW routes, NEW best, NEW calls, NEW N, Attributed(routes, best, calls, N),
         NEW n \in 1..N, NEW tally, TallyIs(tally, best, calls, n - 1),
         WithinLimits(routes, best, calls, n - 1), calls[n].count >= 0, best[n] = 0
  PROVE  Tallied(CountUnknown(tally, calls[n]), routes, best, calls, n)
<1> DEFINE key == KeyOf(calls, n)
           before == Strangers(best, calls, n - 1)
           now == Strangers(best, calls, n)
           old(k) == KeyTotal(best, calls, n - 1, k)
           new(k) == KeyTotal(best, calls, n, k)
           total == (IF key \in DOMAIN tally.unknown THEN tally.unknown[key] ELSE 0)
                      + Amount(calls[n])
<1>1. n \in Nat \ {0} /\ N \in Nat
  BY DEF Attributed
<1>2. now = before \cup {key}
  BY <1>1, StrangersStep
<1>3. \A k : /\ old(k) \in Int
             /\ new(k) = old(k) + (IF key = k THEN Amount(calls[n]) ELSE 0)
             /\ k \notin before => old(k) = 0
  BY KeyTotalSteps
<1>4. tally.unknown = [k \in before |-> old(k)] /\ tally.error = "none"
  BY DEF TallyIs
<1>5. Amount(calls[n]) \in Int
  BY <1>1, AmountsCount DEF Attributed
<1>6. WithinLimits(routes, best, calls, n) <=> new(key) <= MaxCount
  BY LimitsStep
<1>7. MaxCount \in Nat
  BY CoverageAssumption
<1>8. \A route \in DOMAIN Templates :
         /\ RouteTotal(best, calls, n, route) = RouteTotal(best, calls, n - 1, route)
         /\ PathsUpTo(best, calls, n, route) = PathsUpTo(best, calls, n - 1, route)
  <2> SUFFICES ASSUME NEW route \in DOMAIN Templates
               PROVE  /\ RouteTotal(best, calls, n, route) = RouteTotal(best, calls, n - 1, route)
                      /\ PathsUpTo(best, calls, n, route) = PathsUpTo(best, calls, n - 1, route)
    OBVIOUS
  <2>1. best[n] # route
    BY CoverageAssumption
  <2>2. /\ RouteTotal(best, calls, n - 1, route) \in Int
        /\ RouteTotal(best, calls, n, route)
             = RouteTotal(best, calls, n - 1, route)
                 + (IF best[n] = route THEN Amount(calls[n]) ELSE 0)
        /\ PathsUpTo(best, calls, n, route)
             = IF best[n] = route THEN PathsUpTo(best, calls, n - 1, route) \cup {calls[n].path}
               ELSE PathsUpTo(best, calls, n - 1, route)
    BY RouteTotalSteps
  <2>3. RouteTotal(best, calls, n, route) = RouteTotal(best, calls, n - 1, route)
    BY <2>1, <2>2
  <2> QED BY <2>1, <2>2, <2>3
<1>9. CountUnknown(tally, calls[n])
        = IF total > MaxCount THEN [tally EXCEPT !.error = "limitExceeded"]
          ELSE [tally EXCEPT !.unknown = WithCount(@, key, total)]
  BY DEF CountUnknown, KeyOf
<1>10. TallyIs(tally, best, calls, n - 1)
  OBVIOUS
<1> HIDE DEF key, before, now, old, new
<1>11. total = new(key)
  <2>1. CASE key \in before
    BY <1>3, <1>4, <2>1
  <2>2. CASE key \notin before
    BY <1>3, <1>4, <1>5, <2>2
  <2> QED BY <2>1, <2>2
<1> HIDE DEF total
<1>12. CASE total > MaxCount
  <2>1. ~WithinLimits(routes, best, calls, n)
    BY <1>3, <1>5, <1>6, <1>7, <1>11, <1>12
  <2>2. CountUnknown(tally, calls[n]).error # "none"
    <3>1. tally = [error |-> "none", unknown |-> tally.unknown, truncated |-> tally.truncated,
                   hits |-> tally.hits, paths |-> tally.paths]
      BY <1>10 DEF TallyIs
    <3>2. CountUnknown(tally, calls[n]) = [tally EXCEPT !.error = "limitExceeded"]
      BY <1>9, <1>12
    <3> QED BY <3>1, <3>2
  <2> QED BY <2>1, <2>2 DEF Tallied
<1>13. CASE ~(total > MaxCount)
  <2>1. WithinLimits(routes, best, calls, n)
    BY <1>3, <1>5, <1>6, <1>7, <1>11, <1>13
  <2>2. WithCount(tally.unknown, key, total) = [k \in now |-> new(k)]
    <3>1. \A k \in before : k # key => new(k) = old(k)
      BY <1>3
    <3>2. WithCount(tally.unknown, key, total)
            = [k \in now |-> IF k = key THEN total ELSE old(k)]
      BY <1>2, <1>4 DEF WithCount
    <3>3. \A k \in now : new(k) = IF k = key THEN total ELSE old(k)
      BY <1>2, <1>11, <3>1
    <3> QED BY <3>2, <3>3
  <2>3. PICK later : later = CountUnknown(tally, calls[n])
    OBVIOUS
  <2>4. PICK fresh : fresh = [k \in now |-> new(k)]
    OBVIOUS
  <2>5. later = [tally EXCEPT !.unknown = fresh]
    BY <1>9, <1>13, <2>2, <2>3, <2>4
  <2>6. /\ tally = [error |-> "none", unknown |-> tally.unknown, truncated |-> tally.truncated,
                    hits |-> tally.hits, paths |-> tally.paths]
        /\ tally.hits = [route \in DOMAIN Templates |-> RouteTotal(best, calls, n - 1, route)]
        /\ tally.paths = [route \in DOMAIN Templates |-> tally.paths[route]]
        /\ \A route \in DOMAIN Templates :
             Sampled(tally.paths[route], route \in tally.truncated, PathsUpTo(best, calls, n - 1, route))
    BY <1>10 DEF TallyIs
  <2>7. later = [error |-> "none", unknown |-> fresh, truncated |-> tally.truncated,
                 hits |-> tally.hits, paths |-> tally.paths]
    BY <2>5, <2>6
  <2>8. tally.hits = [route \in DOMAIN Templates |-> RouteTotal(best, calls, n, route)]
    BY <1>8, <2>6
  <2>9. later.paths = tally.paths /\ later.truncated = tally.truncated
    BY <2>7
  <2>10. later = [error |-> "none", unknown |-> fresh, truncated |-> later.truncated,
                  hits |-> [route \in DOMAIN Templates |-> RouteTotal(best, calls, n, route)],
                  paths |-> [route \in DOMAIN Templates |-> later.paths[route]]]
    BY <2>6, <2>7, <2>8, <2>9
  <2>11. \A route \in DOMAIN Templates :
            Sampled(later.paths[route], route \in later.truncated, PathsUpTo(best, calls, n, route))
    BY <1>8, <2>6, <2>9
  <2>12. TallyIs(later, best, calls, n)
    BY <2>4, <2>10, <2>11 DEF TallyIs, now, new
  <2> QED BY <2>1, <2>3, <2>12 DEF Tallied
<1> QED
  BY <1>12, <1>13


LEMMA HitIsTallied ==
  ASSUME NEW routes, NEW best, NEW calls, NEW N, Attributed(routes, best, calls, N),
         NEW n \in 1..N, NEW tally, TallyIs(tally, best, calls, n - 1),
         WithinLimits(routes, best, calls, n - 1), calls[n].count >= 0, best[n] # 0
  PROVE  Tallied(CountHit(tally, best[n], calls[n]), routes, best, calls, n)
<1> DEFINE own == best[n]
           call == calls[n]
           old(r) == RouteTotal(best, calls, n - 1, r)
           new(r) == RouteTotal(best, calls, n, r)
           oldPaths(r) == PathsUpTo(best, calls, n - 1, r)
           newPaths(r) == PathsUpTo(best, calls, n, r)
           full == Cardinality(tally.paths[own]) >= MaxPaths
           total == tally.hits[own] + Amount(call)
           paths == IF full THEN tally.paths[own] ELSE tally.paths[own] \cup {call.path}
           cuts == full /\ call.path \notin tally.paths[own]
           cut == IF cuts THEN tally.truncated \cup {own} ELSE tally.truncated
<1>1. n \in Nat \ {0} /\ N \in Nat /\ own \in routes /\ own \in DOMAIN Templates
  BY DEF Attributed
<1>2. \A r : /\ old(r) \in Int
             /\ new(r) = old(r) + (IF own = r THEN Amount(call) ELSE 0)
             /\ newPaths(r) = IF own = r THEN oldPaths(r) \cup {call.path} ELSE oldPaths(r)
  BY RouteTotalSteps
<1>3. Amount(call) \in Int
  BY <1>1, AmountsCount DEF Attributed
<1>4. WithinLimits(routes, best, calls, n) <=> new(own) <= MaxCount
  BY LimitsStep
<1>5. MaxCount \in Nat
  BY CoverageAssumption
<1>6. Strangers(best, calls, n) = Strangers(best, calls, n - 1)
  BY <1>1, StrangersStep
<1>7. ASSUME NEW key \in Strangers(best, calls, n)
      PROVE  KeyTotal(best, calls, n, key) = KeyTotal(best, calls, n - 1, key)
  <2>1. /\ KeyTotal(best, calls, n - 1, key) \in Int
        /\ KeyTotal(best, calls, n, key)
             = KeyTotal(best, calls, n - 1, key)
                 + (IF best[n] = 0 /\ key = KeyOf(calls, n) THEN Amount(calls[n]) ELSE 0)
    BY KeyTotalSteps
  <2>2. ~(best[n] = 0 /\ key = KeyOf(calls, n))
    OBVIOUS
  <2> QED BY <2>1, <2>2
<1>8. CountHit(tally, own, call)
        = IF total > MaxCount THEN [tally EXCEPT !.error = "limitExceeded"]
          ELSE [tally EXCEPT !.hits[own] = total, !.paths[own] = paths, !.truncated = cut]
  BY DEF CountHit
<1>9. /\ tally = [error |-> "none", unknown |-> tally.unknown, truncated |-> tally.truncated,
                  hits |-> tally.hits, paths |-> tally.paths]
      /\ tally.unknown = [key \in Strangers(best, calls, n - 1) |-> KeyTotal(best, calls, n - 1, key)]
      /\ tally.hits = [r \in DOMAIN Templates |-> old(r)]
      /\ tally.paths = [r \in DOMAIN Templates |-> tally.paths[r]]
      /\ \A r \in DOMAIN Templates : Sampled(tally.paths[r], r \in tally.truncated, oldPaths(r))
  BY DEF TallyIs
<1>10. Sampled(paths, (own \in tally.truncated) \/ cuts, newPaths(own))
  <2>1. PICK mark \in BOOLEAN : mark <=> own \in tally.truncated
    OBVIOUS
  <2>2. PICK isFull \in BOOLEAN : isFull <=> full
    OBVIOUS
  <2>3. Sampled(tally.paths[own], mark, oldPaths(own))
    BY <1>1, <1>9, <2>1 DEF Sampled
  <2>4. PICK seen : seen = tally.paths[own]
    OBVIOUS
  <2>5. Sampled(IF isFull THEN seen ELSE seen \cup {call.path},
                mark \/ (isFull /\ call.path \notin seen), oldPaths(own) \cup {call.path})
    <3>1. isFull <=> Cardinality(seen) >= MaxPaths
      BY <2>2, <2>4
    <3>2. PICK old2 : old2 = oldPaths(own)
      OBVIOUS
    <3>3. PICK path : path = call.path
      OBVIOUS
    <3>4. Sampled(seen, mark, old2)
      BY <2>3, <2>4, <3>2
    <3> HIDE DEF call, oldPaths, full, own
    <3>5. Sampled(IF isFull THEN seen ELSE seen \cup {path},
                  mark \/ (isFull /\ path \notin seen), old2 \cup {path})
      BY <3>1, <3>4, SampleStep
    <3> QED BY <3>2, <3>3, <3>5
  <2>6. newPaths(own) = oldPaths(own) \cup {call.path}
    BY <1>2
  <2>7. paths = IF isFull THEN seen ELSE seen \cup {call.path}
    BY <2>2, <2>4
  <2>8. cuts <=> isFull /\ call.path \notin seen
    BY <2>2, <2>4
  <2> HIDE DEF paths, cuts, newPaths, oldPaths, call, own, full
  <2> QED BY <2>1, <2>5, <2>6, <2>7, <2>8 DEF Sampled
<1>11. total = new(own)
  BY <1>1, <1>2, <1>9
<1>12. \A r \in DOMAIN Templates : r # own => old(r) = new(r) /\ oldPaths(r) = newPaths(r)
  BY <1>2
<1>13. \A r \in DOMAIN Templates : r # own => (r \in cut <=> r \in tally.truncated)
  OBVIOUS
<1>14. own \in cut <=> (own \in tally.truncated \/ cuts)
  OBVIOUS
<1> HIDE DEF own, call, old, new, oldPaths, newPaths, total, paths, cuts, cut, full
<1>15. CASE total > MaxCount
  <2>1. ~WithinLimits(routes, best, calls, n)
    BY <1>1, <1>2, <1>3, <1>4, <1>5, <1>11, <1>15
  <2>2. CountHit(tally, own, call).error # "none"
    BY <1>8, <1>9, <1>15
  <2> QED BY <2>1, <2>2 DEF Tallied, own, call
<1>16. CASE ~(total > MaxCount)
  <2>1. WithinLimits(routes, best, calls, n)
    BY <1>1, <1>2, <1>3, <1>4, <1>5, <1>11, <1>16
  <2>2. PICK later : later = CountHit(tally, own, call)
    OBVIOUS
  <2>3. later = [tally EXCEPT !.hits[own] = total, !.paths[own] = paths, !.truncated = cut]
    BY <1>8, <1>16, <2>2
  <2>4. later = [error |-> "none", unknown |-> tally.unknown, truncated |-> cut,
                 hits |-> [tally.hits EXCEPT ![own] = total],
                 paths |-> [tally.paths EXCEPT ![own] = paths]]
    <3>1. PICK u, t, h, p : u = tally.unknown /\ t = tally.truncated /\ h = tally.hits /\ p = tally.paths
      OBVIOUS
    <3>2. tally = [error |-> "none", unknown |-> u, truncated |-> t, hits |-> h, paths |-> p]
      BY <1>9, <3>1
    <3>3. later = [error |-> "none", unknown |-> u, truncated |-> cut,
                   hits |-> [h EXCEPT ![own] = total], paths |-> [p EXCEPT ![own] = paths]]
      BY <2>3, <3>2
    <3> QED BY <3>1, <3>3
  <2>5. [tally.hits EXCEPT ![own] = total] = [r \in DOMAIN Templates |-> new(r)]
    BY <1>1, <1>9, <1>11, <1>12
  <2>6. tally.unknown = [key \in Strangers(best, calls, n) |-> KeyTotal(best, calls, n, key)]
    BY <1>6, <1>7, <1>9
  <2>7. \A r \in DOMAIN Templates : later.paths[r] = IF r = own THEN paths ELSE tally.paths[r]
    BY <1>9, <2>4
  <2>8. later.paths = [r \in DOMAIN Templates |-> later.paths[r]]
    BY <1>9, <2>4
  <2>9. ASSUME NEW r \in DOMAIN Templates
        PROVE  Sampled(later.paths[r], r \in later.truncated, newPaths(r))
    <3>1. later.truncated = cut
      BY <2>4
    <3>2. CASE r = own
      BY <1>10, <1>14, <2>7, <3>1, <3>2 DEF Sampled
    <3>3. CASE r # own
      BY <1>9, <1>12, <1>13, <2>7, <3>1, <3>3 DEF Sampled
    <3> QED BY <3>2, <3>3
  <2>10. later = [error |-> "none",
                  unknown |-> [key \in Strangers(best, calls, n) |-> KeyTotal(best, calls, n, key)],
                  truncated |-> later.truncated,
                  hits |-> [r \in DOMAIN Templates |-> RouteTotal(best, calls, n, r)],
                  paths |-> [r \in DOMAIN Templates |-> later.paths[r]]]
    BY <2>4, <2>5, <2>6, <2>8 DEF new
  <2>11. TallyIs(later, best, calls, n)
    BY <2>9, <2>10 DEF TallyIs, newPaths
  <2> QED BY <2>1, <2>2, <2>11 DEF Tallied, own, call
<1> QED
  BY <1>15, <1>16

\* One call more, whether it is counted or refused.
LEMMA CallIsTallied ==
  ASSUME NEW routes, NEW best, NEW calls, NEW N, Attributed(routes, best, calls, N),
         NEW n \in 1..N, NEW seq, NEW tally, Tallied(tally, routes, best, calls, n - 1),
         best[n] = BestRoute(seq, calls[n])
  PROVE  Tallied(CountCall(seq, tally, calls[n]), routes, best, calls, n)
<1>1. CountCall(seq, tally, calls[n])
        = IF tally.error # "none" THEN tally
          ELSE IF calls[n].count < 0 THEN [tally EXCEPT !.error = "invalidInput"]
          ELSE IF best[n] = 0 THEN CountUnknown(tally, calls[n])
          ELSE CountHit(tally, best[n], calls[n])
  BY DEF CountCall
<1>2. CASE ~WithinLimits(routes, best, calls, n - 1)
  <2>1. tally.error # "none"
    BY <1>2 DEF Tallied
  <2>2. ~WithinLimits(routes, best, calls, n)
    BY <1>2, LimitsStayExceeded
  <2> QED BY <1>1, <2>1, <2>2 DEF Tallied
<1>3. CASE WithinLimits(routes, best, calls, n - 1)
  <2>1. TallyIs(tally, best, calls, n - 1)
    BY <1>3 DEF Tallied
  <2>2. /\ tally.error = "none"
        /\ tally = [error |-> "none", unknown |-> tally.unknown, truncated |-> tally.truncated,
                    hits |-> tally.hits, paths |-> tally.paths]
    BY <2>1 DEF TallyIs
  <2>3. CASE calls[n].count < 0
    <3>1. CountCall(seq, tally, calls[n]) = [tally EXCEPT !.error = "invalidInput"]
      BY <1>1, <2>2, <2>3
    <3>2. CountCall(seq, tally, calls[n]).error # "none"
      BY <2>2, <3>1
    <3>3. n \in 1..n /\ calls[n].count \in Int
      BY DEF Attributed
    <3>4. ~WithinLimits(routes, best, calls, n)
      BY <2>3, <3>3 DEF WithinLimits
    <3> QED BY <3>2, <3>4 DEF Tallied
  <2>4. CASE ~(calls[n].count < 0)
    <3>1. calls[n].count >= 0
      BY <2>4 DEF Attributed
    <3>2. CASE best[n] = 0
      <4>1. CountCall(seq, tally, calls[n]) = CountUnknown(tally, calls[n])
        BY <1>1, <2>2, <2>4, <3>2
      <4> QED BY <1>3, <2>1, <3>1, <3>2, <4>1, UnknownIsTallied
    <3>3. CASE best[n] # 0
      <4>1. CountCall(seq, tally, calls[n]) = CountHit(tally, best[n], calls[n])
        BY <1>1, <2>2, <2>4, <3>3
      <4> QED BY <1>3, <2>1, <3>1, <3>3, <4>1, HitIsTallied
    <3> QED BY <3>2, <3>3
  <2> QED BY <2>3, <2>4
<1> QED
  BY <1>2, <1>3

LEMMA NothingIsTallied ==
  ASSUME NEW routes, NEW best, NEW calls
  PROVE  Tallied(NoCalls, routes, best, calls, 0)
<1>1. 1..0 = {}
  OBVIOUS
<1>2. /\ Strangers(best, calls, 0) = {}
      /\ \A route : OfRoute(best, 0, route) = {} /\ PathsUpTo(best, calls, 0, route) = {}
  BY <1>1 DEF Strangers, OfRoute, PathsUpTo
<1>3. \A route : RouteTotal(best, calls, 0, route) = 0
  <2> SUFFICES ASSUME NEW route PROVE RouteTotal(best, calls, 0, route) = 0
    OBVIOUS
  <2>1. OfRoute(best, 0, route) = {}
    BY <1>2
  <2>2. TotalOf(calls, {}) = 0
    BY TotalOfNone
  <2> QED BY <2>1, <2>2, Zenon DEF RouteTotal
<1>4. WithinLimits(routes, best, calls, 0)
  BY <1>1, <1>2, <1>3, CoverageAssumption DEF WithinLimits
<1>5. IsFiniteSet({}) /\ Cardinality({}) = 0
  BY FS_EmptySet
<1>6. NoCalls = [error |-> "none", unknown |-> <<>>, truncated |-> {},
                 hits |-> [route \in DOMAIN Templates |-> 0],
                 paths |-> [route \in DOMAIN Templates |-> {}]]
  BY DEF NoCalls
<1>7. ASSUME NEW route \in DOMAIN Templates
      PROVE  Sampled(NoCalls.paths[route], route \in NoCalls.truncated,
                     PathsUpTo(best, calls, 0, route))
  BY <1>2, <1>5, <1>6, CoverageAssumption DEF Sampled
<1>8. NoCalls = [error |-> "none",
                 unknown |-> [key \in Strangers(best, calls, 0) |-> KeyTotal(best, calls, 0, key)],
                 truncated |-> NoCalls.truncated,
                 hits |-> [route \in DOMAIN Templates |-> RouteTotal(best, calls, 0, route)],
                 paths |-> [route \in DOMAIN Templates |-> NoCalls.paths[route]]]
  <2>1. [key \in Strangers(best, calls, 0) |-> KeyTotal(best, calls, 0, key)] = <<>>
    BY <1>2
  <2>2. [route \in DOMAIN Templates |-> RouteTotal(best, calls, 0, route)]
          = [route \in DOMAIN Templates |-> 0]
    BY <1>3
  <2>3. [route \in DOMAIN Templates |-> NoCalls.paths[route]] = NoCalls.paths
    BY <1>6
  <2> QED BY <1>6, <2>1, <2>2, <2>3
<1> QED
  BY <1>4, <1>7, <1>8 DEF Tallied, TallyIs

\* The fold of AnalyzeEndpointCoverage.
IsTally(g, routes, observed, S) ==
  g = [s \in SUBSET S |->
         IF s = {} THEN NoCalls ELSE CountCall(routes, g[s \ {Max(s)}], observed[Max(s)])]

Tallies(routes, observed) == CHOOSE g : IsTally(g, routes, observed, DOMAIN observed)

LEMMA TallyIsFold ==
  ASSUME NEW g, NEW routes, NEW observed, NEW S
  PROVE  IsTally(g, routes, observed, S) <=> IsFold(g, TallyFold(routes), observed, S)
<1> DEFINE fold == TallyFold(routes)
<1>1. FirstOf(fold) = NoCalls
  BY DEF FirstOf, TallyFold
<1>2. \A value, x : NextOf(fold, value, x) = CountCall(routes, value, x)
  BY DEF NextOf, TallyFold
<1> HIDE DEF fold
<1> QED
  BY <1>1, <1>2 DEF IsTally, IsFold, fold

LEMMA TallySteps ==
  ASSUME NEW E, NEW observed \in Seq(E), NEW routes
  PROVE  /\ Tallies(routes, observed)[1..0] = NoCalls
         /\ \A n \in 1..Len(observed) :
              Tallies(routes, observed)[1..n]
                = CountCall(routes, Tallies(routes, observed)[1..(n - 1)], observed[n])
<1> DEFINE fold == TallyFold(routes)
           h == Tallies(routes, observed)
<1>1. DOMAIN observed = 1..Len(observed) /\ Len(observed) \in Nat
  OBVIOUS
<1>2. IsFold(h, fold, observed, 1..Len(observed))
  <2>1. \E g : IsTally(g, routes, observed, 1..Len(observed))
    BY <1>1, FoldExists, TallyIsFold
  <2>2. IsTally(Tallies(routes, observed), routes, observed, 1..Len(observed))
    BY <1>1, <2>1 DEF Tallies
  <2> QED BY <2>2, TallyIsFold
<1>3. FirstOf(fold) = NoCalls
  BY DEF FirstOf, TallyFold
<1>4. \A value, x : NextOf(fold, value, x) = CountCall(routes, value, x)
  BY DEF NextOf, TallyFold
<1> HIDE DEF fold, h
<1>5. /\ h[1..0] = FirstOf(fold)
      /\ \A n \in 1..Len(observed) : h[1..n] = NextOf(fold, h[1..(n - 1)], observed[n])
  BY <1>1, <1>2, FoldSteps
<1> QED
  BY <1>3, <1>4, <1>5 DEF h

\* The tally of all calls.
LEMMA CallsAreTallied ==
  ASSUME NEW E, NEW observed \in Seq(E), NEW seq, NEW routes, NEW best,
         Attributed(routes, best, observed, Len(observed)),
         \A n \in 1..Len(observed) : best[n] = BestRoute(seq, observed[n])
  PROVE  Tallied(Tallies(seq, observed)[1..Len(observed)], routes, best, observed, Len(observed))
<1> DEFINE N == Len(observed)
           h == Tallies(seq, observed)
           G == {n \in 0..N : Tallied(h[1..n], routes, best, observed, n)}
<1>1. N \in Nat
  OBVIOUS
<1>2. h[1..0] = NoCalls /\ \A n \in 1..N : h[1..n] = CountCall(seq, h[1..(n - 1)], observed[n])
  BY TallySteps
<1>3. Attributed(routes, best, observed, N) /\ \A n \in 1..N : best[n] = BestRoute(seq, observed[n])
  OBVIOUS
<1> HIDE DEF N, h
<1>4. 0 \in G
  BY <1>1, <1>2, NothingIsTallied
<1>5. ASSUME NEW n \in 1..N, n - 1 \in G PROVE n \in G
  <2>1. Tallied(h[1..(n - 1)], routes, best, observed, n - 1)
    BY <1>5
  <2>2. Tallied(CountCall(seq, h[1..(n - 1)], observed[n]), routes, best, observed, n)
    BY <1>3, <2>1, CallIsTallied
  <2>3. n \in 0..N
    BY <1>1
  <2> QED BY <1>2, <2>2, <2>3
<1> HIDE DEF G
<1>6. N \in G
  <2>1. \A n \in 0..N : n \in G
    BY <1>1, <1>4, <1>5, UpTo
  <2> QED BY <1>1, <2>1
<1> QED
  BY <1>6 DEF G, N, h

LEMMA ReportIsTally ==
  ASSUME NEW known, NEW observed
  PROVE  AnalyzeEndpointCoverage(known, observed)
           = IF known # <<>> /\ Len(observed) > MaxEvaluations \div Len(known)
             THEN [NoCalls EXCEPT !.error = "limitExceeded"]
             ELSE Tallies(Routes(known), observed)[DOMAIN observed]
<1> DEFINE routes == Routes(known)
<1>1. FoldLeft(LAMBDA acc, call : CountCall(routes, acc, call), NoCalls, observed)
        = Tallies(routes, observed)[DOMAIN observed]
  <2> HIDE DEF routes
  <2> QED BY DEF FoldLeft, MapThenFoldSet, Tallies, IsTally
<1> QED
  BY <1>1, Zenon DEF AnalyzeEndpointCoverage

\* The guard divides instead of multiplying, which could overflow.
LEMMA DividingLimits ==
  ASSUME NEW k \in Nat, NEW n \in Nat
  PROVE  (k # 0 /\ n > MaxEvaluations \div k) <=> ~(k * n <= MaxEvaluations)
<1>1. MaxEvaluations \in Nat
  BY CoverageAssumption
<1>2. CASE k = 0
  BY <1>1, <1>2
<1>3. CASE k # 0
  <2>1. PICK q, r : /\ q = MaxEvaluations \div k /\ r = MaxEvaluations % k
    OBVIOUS
  <2>2. q \in Nat /\ r \in Nat /\ r < k /\ MaxEvaluations = k * q + r
    BY <1>1, <1>3, <2>1
  <2>3. CASE n > q
    <3>1. n >= q + 1
      BY <2>2, <2>3
    <3>2. k * n >= k * (q + 1)
      BY <2>2, <3>1
    <3>3. k * (q + 1) = k * q + k
      BY <2>2
    <3> QED BY <1>1, <1>3, <2>1, <2>2, <2>3, <3>2, <3>3
  <2>4. CASE ~(n > q)
    <3>1. k * n <= k * q
      BY <2>2, <2>4
    <3> QED BY <1>1, <1>3, <2>1, <2>2, <2>4, <3>1
  <2> QED BY <2>3, <2>4
<1> QED
  BY <1>2, <1>3

\* CoverageExact, for every table of endpoints and every limit: whatever calls with
\* counts are compared with whatever known endpoints, in any order and with any
\* repetitions, the comparison fails exactly if a limit is exceeded, and otherwise each
\* call counts once, for the endpoint preferred to all others that match it or under
\* its own path, and a sample of paths is marked as cut exactly if a path is missing
\* (coverage.go:102).
THEOREM CoverageIsExact ==
  ASSUME NEW CallSet, \A call \in CallSet : call.count \in Int,
         Asks("coverage") => /\ question.coverage.known \in Seq(DOMAIN Templates)
                             /\ question.coverage.observed \in Seq(CallSet)
  PROVE  CoverageExact
<1>1. SUFFICES ASSUME Asks("coverage") PROVE CoverageExact
  BY DEF CoverageExact
<1> DEFINE known == question.coverage.known
           observed == question.coverage.observed
           report == AnalyzeEndpointCoverage(known, observed)
<1>2. known \in Seq(DOMAIN Templates)
  BY <1>1
<1>3. observed \in Seq(CallSet)
  BY <1>1
<1> HIDE DEF known, observed, report
<1> DEFINE N == Len(observed)
           routes == ToSet(known)
           best == [i \in 1..N |-> BestRoute(Routes(known), observed[i])]
           tally == Tallies(Routes(known), observed)[1..N]
           exceeds == known # <<>> /\ N > MaxEvaluations \div Len(known)
           Of(route) == {i \in DOMAIN observed : Owners(known, observed[i]) = {route}}
           At(key) == {i \in DOMAIN observed :
                         /\ Candidates(known, observed[i]) = {}
                         /\ key = <<observed[i].method, observed[i].path>>}
           PathsOf(route) == {observed[i].path : i \in Of(route)}
           strangers == {<<observed[i].method, observed[i].path>> : i \in
                           {j \in DOMAIN observed : Candidates(known, observed[j]) = {}}}
<1>4. /\ N \in Nat /\ DOMAIN observed = 1..N /\ Len(known) \in Nat
      /\ known # <<>> <=> Len(known) # 0
      /\ \A i \in 1..N : observed[i].count \in Int
  <2>1. \A i \in 1..N : observed[i] \in CallSet
    BY <1>3
  <2> QED BY <1>2, <1>3, <2>1
<1>5. routes \subseteq DOMAIN Templates
  BY <1>2 DEF ToSet
<1>6. \A i \in 1..N : best[i] = BestRoute(Routes(known), observed[i])
  OBVIOUS
<1> HIDE DEF N, routes, best, tally
<1>7. \A i \in 1..N :
        /\ best[i] = 0 <=> Candidates(known, observed[i]) = {}
        /\ best[i] # 0 => best[i] \in routes
        /\ \A route \in DOMAIN Templates : Owners(known, observed[i]) = {route} <=> best[i] = route
  <2> SUFFICES ASSUME NEW i \in 1..N
               PROVE  /\ best[i] = 0 <=> Candidates(known, observed[i]) = {}
                      /\ best[i] # 0 => best[i] \in routes
                      /\ \A route \in DOMAIN Templates :
                           Owners(known, observed[i]) = {route} <=> best[i] = route
    OBVIOUS
  <2>1. PICK call, own : call = observed[i] /\ own = best[i]
    OBVIOUS
  <2>2. own = BestRoute(Routes(known), call)
    BY <1>6, <2>1
  <2>3. /\ own = 0 <=> Candidates(known, call) = {}
        /\ own # 0 => own \in ToSet(known) /\ own \in DOMAIN Templates
        /\ \A route \in DOMAIN Templates : Owners(known, call) = {route} <=> own = route
    BY <1>2, <2>2, OwnersAreBest
  <2> QED BY <2>1, <2>3 DEF routes
<1>8. Attributed(routes, best, observed, N)
  BY <1>4, <1>5, <1>7 DEF Attributed
<1>9. Tallied(tally, routes, best, observed, N)
  <2>1. /\ Attributed(routes, best, observed, Len(observed))
        /\ \A n \in 1..Len(observed) : best[n] = BestRoute(Routes(known), observed[n])
    BY <1>6, <1>8 DEF N
  <2>2. Tallied(Tallies(Routes(known), observed)[1..Len(observed)], routes, best, observed,
                Len(observed))
    BY <1>3, <2>1, CallsAreTallied
  <2> QED BY <2>2 DEF N, tally
<1>10. \A route \in DOMAIN Templates : Of(route) = OfRoute(best, N, route)
  BY <1>4, <1>7 DEF OfRoute
<1>11. \A key : At(key) = OfKey(best, observed, N, key)
  BY <1>4, <1>7 DEF OfKey, KeyOf
<1>12. strangers = Strangers(best, observed, N)
  BY <1>4, <1>7 DEF Strangers, KeyOf
<1>13. \A route \in DOMAIN Templates : PathsOf(route) = PathsUpTo(best, observed, N, route)
  <2> HIDE DEF Of
  <2> QED BY <1>10 DEF PathsUpTo
<1> HIDE DEF Of, At, strangers, PathsOf
<1>14. \A route \in DOMAIN Templates : TotalOf(observed, Of(route)) = RouteTotal(best, observed, N, route)
  BY <1>10, Zenon DEF RouteTotal
<1>15. \A key : TotalOf(observed, At(key)) = KeyTotal(best, observed, N, key)
  BY <1>11, Zenon DEF KeyTotal
<1>16. exceeds <=> ~(Len(known) * N <= MaxEvaluations)
  BY <1>4, DividingLimits
<1> HIDE DEF exceeds
<1>17. report = AnalyzeEndpointCoverage(known, observed)
  BY DEF report
<1>18. report = IF exceeds THEN [NoCalls EXCEPT !.error = "limitExceeded"] ELSE tally
  BY <1>4, <1>17, ReportIsTally DEF exceeds, tally, N
<1>19. exceeds => report.error # "none"
  BY <1>18 DEF NoCalls
<1>20. ~exceeds => report = tally
  BY <1>18
<1> HIDE DEF tally
<1>21. WithinLimits(routes, best, observed, N) <=>
         /\ \A i \in DOMAIN observed : observed[i].count >= 0
         /\ \A route \in routes : TotalOf(observed, Of(route)) <= MaxCount
         /\ \A key \in strangers : TotalOf(observed, At(key)) <= MaxCount
  BY <1>4, <1>5, <1>12, <1>14, <1>15 DEF WithinLimits
<1>22. tally.error = "none" <=> WithinLimits(routes, best, observed, N)
  BY <1>9 DEF Tallied, TallyIs
<1>23. report.error = "none" <=>
         /\ Len(known) * N <= MaxEvaluations
         /\ \A i \in DOMAIN observed : observed[i].count >= 0
         /\ \A route \in routes : TotalOf(observed, Of(route)) <= MaxCount
         /\ \A key \in strangers : TotalOf(observed, At(key)) <= MaxCount
  BY <1>16, <1>19, <1>20, <1>21, <1>22
<1>24. ASSUME report.error = "none"
       PROVE  /\ report.unknown = [key \in strangers |-> TotalOf(observed, At(key))]
              /\ \A route \in DOMAIN Templates :
                   /\ report.hits[route] = TotalOf(observed, Of(route))
                   /\ report.paths[route] \subseteq PathsOf(route)
                   /\ route \in report.truncated <=> report.paths[route] # PathsOf(route)
                   /\ Cardinality(report.paths[route]) <= MaxPaths
  <2>1. report = tally /\ WithinLimits(routes, best, observed, N)
    BY <1>19, <1>20, <1>22, <1>24
  <2>2. TallyIs(report, best, observed, N)
    BY <1>9, <2>1 DEF Tallied
  <2>3. /\ report.unknown = [key \in Strangers(best, observed, N) |-> KeyTotal(best, observed, N, key)]
        /\ report.hits = [route \in DOMAIN Templates |-> RouteTotal(best, observed, N, route)]
        /\ \A route \in DOMAIN Templates :
             Sampled(report.paths[route], route \in report.truncated,
                     PathsUpTo(best, observed, N, route))
    BY <2>2 DEF TallyIs
  <2>4. report.unknown = [key \in strangers |-> TotalOf(observed, At(key))]
    BY <1>12, <1>15, <2>3
  <2>5. \A route \in DOMAIN Templates : report.hits[route] = TotalOf(observed, Of(route))
    BY <1>14, <2>3
  <2>6. \A route \in DOMAIN Templates :
          /\ report.paths[route] \subseteq PathsOf(route)
          /\ route \in report.truncated <=> report.paths[route] # PathsOf(route)
          /\ Cardinality(report.paths[route]) <= MaxPaths
    BY <1>13, <2>3 DEF Sampled
  <2> QED BY <2>4, <2>5, <2>6
<1> QED
  BY <1>23, <1>24, Zenon
     DEF CoverageExact, TotalOf, Of, At, PathsOf, strangers, routes, N, known, observed, report

\* The coverage view shows what was called: the ring of observed calls is exact after
\* every history (tools_bridge.go:418), and so is every comparison of calls with the
\* known endpoints (coverage.go:102), whatever the limits are.
THEOREM CoverageReportIsExact ==
  ASSUME NEW Events, Asks("history") => question.history \in Seq(Events),
         NEW CallSet, \A call \in CallSet : call.count \in Int,
         Asks("coverage") => /\ question.coverage.known \in Seq(DOMAIN Templates)
                             /\ question.coverage.observed \in Seq(CallSet)
  PROVE  CoverageReportExact
BY ObservedCallsAreExact, CoverageIsExact DEF CoverageReportExact

-----------------------------------------------------------------------------
(* The matcher of a log line.  A part of the pattern "ends" where it stands  *)
(* before a place of a text.                                                 *)

\* The first k characters of the pattern stand in the text, up to its j-th character.
Ends(pattern, k, text, j) ==
  k <= j /\ \A x \in 1..k : text[j - k + x] = pattern[x]

\* m is the most, up to limit, of the pattern that ends there.
Longest(pattern, text, j, m, limit) ==
  /\ m \in 0..limit /\ Ends(pattern, m, text, j)
  /\ \A k \in 0..limit : Ends(pattern, k, text, j) => k <= m

\* The table, for the first n parts of the pattern: how much of it ends where each of
\* them ends, without being all of it.
TableIs(table, pattern, n) ==
  /\ n \in Nat /\ Len(table) = n /\ table \in Seq(Nat)
  /\ \A i \in 1..n : Longest(pattern, pattern, i, table[i], i - 1)

\* What ends where a part of the pattern ends, that itself ends in a text, ends there too,
\* and the other way round.
LEMMA EndsWithin ==
  ASSUME NEW pattern, NEW text, NEW j \in Nat, NEW m \in Nat, NEW k \in 0..m,
         Ends(pattern, m, text, j)
  PROVE  Ends(pattern, k, text, j) <=> Ends(pattern, k, pattern, m)
<1>1. m <= j /\ \A x \in 1..m : text[j - m + x] = pattern[x]
  BY DEF Ends
<1>2. ASSUME NEW x \in 1..k PROVE text[j - k + x] = pattern[m - k + x]
  <2>1. m - k + x \in 1..m /\ j - m + (m - k + x) = j - k + x
    OBVIOUS
  <2>2. text[j - m + (m - k + x)] = pattern[m - k + x]
    BY <1>1, <2>1
  <2> QED BY <2>1, <2>2
<1> QED
  BY <1>1, <1>2 DEF Ends

LEMMA EndsMore ==
  ASSUME NEW pattern, NEW text, NEW j \in Nat, NEW k \in Nat
  PROVE  Ends(pattern, k + 1, text, j + 1)
           <=> Ends(pattern, k, text, j) /\ text[j + 1] = pattern[k + 1]
<1>1. 1..k + 1 = 1..k \cup {k + 1}
  OBVIOUS
<1>2. /\ \A x \in 1..k : (j + 1) - (k + 1) + x = j - k + x
      /\ (j + 1) - (k + 1) + (k + 1) = j + 1
  OBVIOUS
<1> QED
  BY <1>1, <1>2 DEF Ends

LEMMA NothingEnds ==
  ASSUME NEW pattern, NEW text, NEW j \in Nat
  PROVE  Ends(pattern, 0, text, j)
BY DEF Ends

\* The function that MatchedAfter defines.
IsFall(g, pattern, prefix, char, n) ==
  g = [m \in 0..n |-> IF m > 0 /\ char # pattern[m + 1] THEN g[prefix[m]] ELSE m]

Falls(pattern, prefix, char) == CHOOSE g : IsFall(g, pattern, prefix, char, Len(prefix))

LEMMA MatchedAfterIsFall ==
  ASSUME NEW pattern, NEW prefix, NEW matched, NEW char
  PROVE  MatchedAfter(pattern, prefix, matched, char) = Falls(pattern, prefix, char)[matched]
BY DEF MatchedAfter, Falls, IsFall

LEMMA FallExists ==
  ASSUME NEW pattern, NEW prefix, NEW char, NEW N \in Nat,
         \A m \in 1..N : prefix[m] \in 0..(m - 1)
  PROVE  \E g : IsFall(g, pattern, prefix, char, N)
<1> DEFINE G == {n \in 0..N : \E g : IsFall(g, pattern, prefix, char, n)}
<1>1. 0 \in G
  <2>1. IsFall([m \in 0..0 |-> 0], pattern, prefix, char, 0)
    BY DEF IsFall
  <2> QED BY <2>1
<1>2. ASSUME NEW n \in 1..N, n - 1 \in G PROVE n \in G
  <2>1. PICK g : IsFall(g, pattern, prefix, char, n - 1)
    BY <1>2
  <2> DEFINE last == IF char # pattern[n + 1] THEN g[prefix[n]] ELSE n
             h == [m \in 0..n |-> IF m = n THEN last ELSE g[m]]
  <2>2. \A m \in 0..(n - 1) : g[m] = IF m > 0 /\ char # pattern[m + 1] THEN g[prefix[m]] ELSE m
    BY <2>1 DEF IsFall
  <2>3. ASSUME NEW m \in 0..n
        PROVE  h[m] = IF m > 0 /\ char # pattern[m + 1] THEN h[prefix[m]] ELSE m
    <3>1. m > 0 => prefix[m] \in 0..(m - 1) /\ prefix[m] \in 0..n /\ prefix[m] # n
      OBVIOUS
    <3>2. m > 0 => h[prefix[m]] = g[prefix[m]]
      BY <3>1
    <3>3. CASE m = n
      BY <3>2, <3>3
    <3>4. CASE m # n
      <4>1. m \in 0..(n - 1) /\ h[m] = g[m]
        BY <3>4
      <4> HIDE DEF h
      <4> QED BY <2>2, <3>2, <4>1
    <3> QED BY <3>3, <3>4
  <2>4. IsFall(h, pattern, prefix, char, n)
    <3> HIDE DEF last
    <3> QED BY <2>3 DEF IsFall
  <2>5. n \in 0..N
    OBVIOUS
  <2> QED BY <2>4, <2>5
<1> HIDE DEF G
<1>3. N \in G
  BY <1>1, <1>2, UpTo
<1> QED
  BY <1>3 DEF G

\* Falling back finds the most that can go on with the character, or nothing.
FallsTo(pattern, char, m, k) ==
  /\ k \in 0..m /\ Ends(pattern, k, pattern, m)
  /\ k = 0 \/ char = pattern[k + 1]
  /\ \A l \in 0..m : Ends(pattern, l, pattern, m) /\ char = pattern[l + 1] => l <= k

LEMMA FallIsLongest ==
  ASSUME NEW pattern, NEW prefix, NEW char, NEW N, TableIs(prefix, pattern, N),
         NEW matched \in 0..N
  PROVE  FallsTo(pattern, char, matched, MatchedAfter(pattern, prefix, matched, char))
<1> DEFINE g == Falls(pattern, prefix, char)
           B == {m \in 0..N : ~FallsTo(pattern, char, m, g[m])}
<1>1. N \in Nat /\ Len(prefix) = N
      /\ \A i \in 1..N : Longest(pattern, pattern, i, prefix[i], i - 1)
  BY DEF TableIs
<1>2. IsFall(g, pattern, prefix, char, N)
  <2>1. \A m \in 1..N : prefix[m] \in 0..(m - 1)
    BY <1>1 DEF Longest
  <2>2. \E f : IsFall(f, pattern, prefix, char, N)
    BY <1>1, <2>1, FallExists
  <2> QED BY <1>1, <2>2 DEF Falls
<1> HIDE DEF g
<1>3. SUFFICES ASSUME B # {} PROVE FALSE
  BY MatchedAfterIsFall DEF g
<1>4. PICK m \in B : \A n \in B : m <= n
  <2>1. B \in SUBSET Nat
    BY <1>1
  <2> HIDE DEF B
  <2> QED BY <1>3, <2>1, LeastNatural
<1>5. m \in 0..N /\ ~FallsTo(pattern, char, m, g[m])
  BY <1>4
<1>6. g[m] = IF m > 0 /\ char # pattern[m + 1] THEN g[prefix[m]] ELSE m
  BY <1>2, <1>5 DEF IsFall
<1>7. CASE ~(m > 0 /\ char # pattern[m + 1])
  <2>1. Ends(pattern, m, pattern, m)
    BY <1>1 DEF Ends
  <2>2. m \in Nat /\ g[m] = m
    BY <1>1, <1>5, <1>6, <1>7
  <2> QED BY <1>5, <1>7, <2>1, <2>2 DEF FallsTo
<1>8. CASE m > 0 /\ char # pattern[m + 1]
  <2> DEFINE p == prefix[m]
  <2>1. m \in 1..N /\ Longest(pattern, pattern, m, p, m - 1)
    BY <1>1, <1>5, <1>8
  <2>2. p \in 0..(m - 1) /\ Ends(pattern, p, pattern, m)
        /\ \A l \in 0..(m - 1) : Ends(pattern, l, pattern, m) => l <= p
    BY <2>1 DEF Longest
  <2> HIDE DEF p
  <2>3. FallsTo(pattern, char, p, g[p])
    <3>1. p \in 0..N /\ ~(m <= p)
      BY <1>1, <2>1, <2>2
    <3> QED BY <1>4, <3>1
  <2>4. PICK k : k = g[p]
    OBVIOUS
  <2>5. /\ k \in 0..p /\ Ends(pattern, k, pattern, p)
        /\ k = 0 \/ char = pattern[k + 1]
        /\ \A l \in 0..p : Ends(pattern, l, pattern, p) /\ char = pattern[l + 1] => l <= k
    BY <2>3, <2>4 DEF FallsTo
  <2>6. Ends(pattern, k, pattern, m) /\ k \in 0..m
    <3>1. p \in Nat /\ m \in Nat
      BY <1>1, <2>1, <2>2
    <3> QED BY <2>2, <2>5, <3>1, EndsWithin
  <2>7. ASSUME NEW l \in 0..m, Ends(pattern, l, pattern, m), char = pattern[l + 1] PROVE l <= k
    <3>1. l # m
      BY <1>8, <2>7
    <3>2. l \in 0..(m - 1) /\ l <= p
      BY <2>1, <2>2, <2>7, <3>1
    <3>3. l \in 0..p /\ p \in Nat /\ m \in Nat
      BY <2>1, <2>2, <3>2
    <3>4. Ends(pattern, l, pattern, p)
      BY <2>2, <2>7, <3>3, EndsWithin
    <3> QED BY <2>5, <2>7, <3>3, <3>4
  <2>8. g[m] = k
    BY <1>6, <1>8, <2>4 DEF p
  <2>9. FallsTo(pattern, char, m, k)
    BY <2>5, <2>6, <2>7 DEF FallsTo
  <2> QED BY <1>5, <2>8, <2>9
<1> QED
  BY <1>7, <1>8

\* One character more.
LEMMA AdvanceIsLongest ==
  ASSUME NEW pattern, NEW prefix, NEW N, TableIs(prefix, pattern, N), NEW text, NEW j \in Nat,
         NEW limit \in Nat, NEW matched \in 0..N, Longest(pattern, text, j, matched, limit)
  PROVE  Longest(pattern, text, j + 1, Advance(pattern, prefix, matched, text[j + 1]), limit + 1)
<1> DEFINE char == text[j + 1]
<1>1. PICK place : place = MatchedAfter(pattern, prefix, matched, char)
  OBVIOUS
<1>2. FallsTo(pattern, char, matched, place)
  BY <1>1, FallIsLongest
<1>3. /\ place \in 0..matched /\ Ends(pattern, place, pattern, matched)
      /\ place = 0 \/ char = pattern[place + 1]
      /\ \A l \in 0..matched :
           Ends(pattern, l, pattern, matched) /\ char = pattern[l + 1] => l <= place
  BY <1>2 DEF FallsTo
<1>4. /\ matched \in 0..limit /\ matched \in Nat /\ Ends(pattern, matched, text, j)
      /\ \A k \in 0..limit : Ends(pattern, k, text, j) => k <= matched
  BY DEF Longest
<1>5. PICK now : now = Advance(pattern, prefix, matched, char)
  OBVIOUS
<1>6. now = IF char = pattern[place + 1] THEN place + 1 ELSE place
  BY <1>1, <1>5 DEF Advance
<1>7. Ends(pattern, place, text, j)
  BY <1>3, <1>4, EndsWithin
<1>8. Ends(pattern, now, text, j + 1) /\ now \in 0..(limit + 1)
  <2>1. CASE char = pattern[place + 1]
    <3>1. place \in Nat /\ now = place + 1
      BY <1>3, <1>6, <2>1
    <3> QED BY <1>3, <1>4, <1>7, <2>1, <3>1, EndsMore
  <2>2. CASE char # pattern[place + 1]
    <3>1. now = 0
      BY <1>3, <1>6, <2>2
    <3> QED BY <3>1, NothingEnds
  <2> QED BY <2>1, <2>2
<1>9. ASSUME NEW k \in 0..(limit + 1), Ends(pattern, k, text, j + 1) PROVE k <= now
  <2>1. CASE k = 0
    BY <1>8, <2>1
  <2>2. CASE k # 0
    <3>1. k - 1 \in 0..limit /\ k - 1 \in Nat /\ (k - 1) + 1 = k
      BY <2>2
    <3>2. Ends(pattern, k - 1, text, j) /\ char = pattern[(k - 1) + 1]
      BY <1>9, <3>1, EndsMore
    <3>3. k - 1 <= matched /\ k - 1 \in 0..matched
      BY <1>4, <3>1, <3>2
    <3>4. Ends(pattern, k - 1, pattern, matched)
      BY <1>4, <3>2, <3>3, EndsWithin
    <3>5. k - 1 <= place
      BY <1>3, <3>2, <3>3, <3>4
    <3>6. CASE char = pattern[place + 1]
      BY <1>3, <1>6, <3>5, <3>6
    <3>7. CASE char # pattern[place + 1]
      <4>1. place = 0 /\ k - 1 = 0 /\ k - 1 = place
        BY <1>3, <3>1, <3>5, <3>7
      <4> QED BY <3>2, <3>7, <4>1
    <3> QED BY <3>6, <3>7
  <2> QED BY <2>1, <2>2
<1> QED
  BY <1>5, <1>8, <1>9 DEF Longest

\* One part more of the pattern.
LEMMA ExtendKeepsTable ==
  ASSUME NEW pattern, NEW table, NEW i \in Nat \ {0}, TableIs(table, pattern, i - 1)
  PROVE  TableIs(Extend(pattern, table, i), pattern, i)
<1>1. /\ Len(table) = i - 1 /\ table \in Seq(Nat)
      /\ \A n \in 1..(i - 1) : Longest(pattern, pattern, n, table[n], n - 1)
  BY DEF TableIs
<1>2. PICK last : last = IF i = 1 THEN 0 ELSE Advance(pattern, table, table[i - 1], pattern[i])
  OBVIOUS
<1>3. Longest(pattern, pattern, i, last, i - 1)
  <2>1. CASE i = 1
    <3>1. \A k \in 0..(i - 1) : k <= 0
      BY <2>1
    <3> QED BY <1>2, <2>1, <3>1, NothingEnds DEF Longest
  <2>2. CASE i # 1
    <3>1. i - 1 \in Nat /\ i - 1 \in 1..(i - 1) /\ i - 2 \in Nat /\ (i - 1) + 1 = i /\ (i - 2) + 1 = i - 1
      BY <2>2
    <3>2. Longest(pattern, pattern, i - 1, table[i - 1], i - 2)
      BY <1>1, <3>1
    <3>3. table[i - 1] \in 0..(i - 1)
      BY <3>1, <3>2 DEF Longest
    <3>4. Longest(pattern, pattern, (i - 1) + 1,
                  Advance(pattern, table, table[i - 1], pattern[(i - 1) + 1]), (i - 2) + 1)
      BY <3>1, <3>2, <3>3, AdvanceIsLongest
    <3> QED BY <1>2, <2>2, <3>1, <3>4
  <2> QED BY <2>1, <2>2
<1>4. last \in Nat
  BY <1>3 DEF Longest
<1>5. PICK longer : longer = Append(table, last)
  OBVIOUS
<1>6. /\ longer \in Seq(Nat) /\ Len(longer) = i /\ longer[i] = last
      /\ \A n \in 1..(i - 1) : longer[n] = table[n]
  BY <1>1, <1>4, <1>5, AppendProperties
<1>7. Extend(pattern, table, i) = longer
  <2>1. CASE i = 1
    <3>1. table = <<>>
      BY <1>1, <2>1
    <3> QED BY <1>2, <1>5, <2>1, <3>1 DEF Extend
  <2>2. CASE i # 1
    BY <1>2, <1>5, <2>2 DEF Extend
  <2> QED BY <2>1, <2>2
<1>8. \A n \in 1..i : n = i \/ n \in 1..(i - 1)
  OBVIOUS
<1>9. \A n \in 1..i : Longest(pattern, pattern, n, longer[n], n - 1)
  BY <1>1, <1>3, <1>6, <1>8
<1> QED
  BY <1>6, <1>7, <1>9 DEF TableIs

\* The fold of PrefixTable.
IsTable(g, pattern, places, S) ==
  g = [s \in SUBSET S |->
         IF s = {} THEN <<>> ELSE Extend(pattern, g[s \ {Max(s)}], places[Max(s)])]

Tables(pattern, places) == CHOOSE g : IsTable(g, pattern, places, DOMAIN places)

LEMMA TableIsFold ==
  ASSUME NEW g, NEW pattern, NEW places, NEW S
  PROVE  IsTable(g, pattern, places, S) <=> IsFold(g, TableFold(pattern), places, S)
<1> DEFINE fold == TableFold(pattern)
<1>1. FirstOf(fold) = <<>>
  BY DEF FirstOf, TableFold
<1>2. \A value, x : NextOf(fold, value, x) = Extend(pattern, value, x)
  BY DEF NextOf, TableFold
<1> HIDE DEF fold
<1> QED
  BY <1>1, <1>2 DEF IsTable, IsFold, fold

LEMMA PrefixTableIsLast ==
  ASSUME NEW pattern, NEW places, places = [i \in DOMAIN pattern |-> i]
  PROVE  PrefixTable(pattern) = Tables(pattern, places)[DOMAIN places]
<1>1. FoldLeft(LAMBDA table, i : Extend(pattern, table, i), <<>>, places)
        = Tables(pattern, places)[DOMAIN places]
  BY DEF FoldLeft, MapThenFoldSet, Tables, IsTable
<1> QED
  BY <1>1, Zenon DEF PrefixTable

\* What newFoldedLogLineMatcher computes, for every pattern.
LEMMA PrefixTableIsTable ==
  ASSUME NEW E, NEW pattern \in Seq(E)
  PROVE  TableIs(PrefixTable(pattern), pattern, Len(pattern))
<1> DEFINE N == Len(pattern)
           places == [i \in DOMAIN pattern |-> i]
           fold == TableFold(pattern)
           h == Tables(pattern, places)
           G == {n \in 0..N : TableIs(h[1..n], pattern, n)}
<1>1. N \in Nat /\ DOMAIN pattern = 1..N /\ DOMAIN places = 1..N /\ \A n \in 1..N : places[n] = n
  OBVIOUS
<1>2. PrefixTable(pattern) = h[DOMAIN places]
  BY PrefixTableIsLast
<1> HIDE DEF places
<1>3. IsFold(h, fold, places, 1..N)
  <2>1. \E g : IsTable(g, pattern, places, 1..N)
    BY <1>1, FoldExists, TableIsFold
  <2>2. IsTable(Tables(pattern, places), pattern, places, 1..N)
    BY <1>1, <2>1 DEF Tables
  <2> QED BY <2>2, TableIsFold
<1>4. FirstOf(fold) = <<>>
  BY DEF FirstOf, TableFold
<1>5. \A value, x : NextOf(fold, value, x) = Extend(pattern, value, x)
  BY DEF NextOf, TableFold
<1> HIDE DEF fold, h, N
<1>6. h[1..0] = FirstOf(fold) /\ \A n \in 1..N : h[1..n] = NextOf(fold, h[1..(n - 1)], places[n])
  BY <1>1, <1>3, FoldSteps
<1>7. h[1..0] = <<>> /\ \A n \in 1..N : h[1..n] = Extend(pattern, h[1..(n - 1)], n)
  BY <1>1, <1>4, <1>5, <1>6
<1>8. 0 \in G
  <2>1. TableIs(<<>>, pattern, 0)
    BY DEF TableIs
  <2> QED BY <1>1, <1>7, <2>1
<1>9. ASSUME NEW n \in 1..N, n - 1 \in G PROVE n \in G
  <2>1. TableIs(h[1..(n - 1)], pattern, n - 1) /\ n \in Nat \ {0} /\ n \in 0..N
    BY <1>1, <1>9
  <2>2. TableIs(Extend(pattern, h[1..(n - 1)], n), pattern, n)
    BY <2>1, ExtendKeepsTable
  <2> QED BY <1>7, <2>1, <2>2
<1> HIDE DEF G
<1>10. N \in G
  BY <1>1, <1>8, <1>9, UpTo
<1>11. TableIs(h[1..N], pattern, N)
  BY <1>10 DEF G
<1> QED
  BY <1>1, <1>2, <1>11 DEF N

\* What the matcher knows after n characters of a text: the pattern has ended, or the
\* most of it that ends there.
Matches(pattern, text, n, matched) ==
  IF \E j \in 0..n : Ends(pattern, Len(pattern), text, j) THEN matched = Len(pattern)
  ELSE matched # Len(pattern) /\ Longest(pattern, text, n, matched, Len(pattern))

LEMMA ConsumeMatches ==
  ASSUME NEW E, NEW pattern \in Seq(E), NEW prefix, TableIs(prefix, pattern, Len(pattern)),
         NEW text, NEW n \in Nat \ {0}, NEW matched, Matches(pattern, text, n - 1, matched)
  PROVE  Matches(pattern, text, n, Consume(pattern, prefix, matched, text[n]))
<1> DEFINE L == Len(pattern)
<1>1. L \in Nat /\ n - 1 \in Nat /\ (n - 1) + 1 = n /\ 0..n = 0..(n - 1) \cup {n}
  OBVIOUS
<1>2. CASE \E j \in 0..(n - 1) : Ends(pattern, L, text, j)
  <2>1. matched = L
    BY <1>2 DEF Matches
  <2>2. Consume(pattern, prefix, matched, text[n]) = L
    BY <2>1 DEF Consume
  <2> QED BY <1>1, <1>2, <2>2 DEF Matches
<1>3. CASE ~\E j \in 0..(n - 1) : Ends(pattern, L, text, j)
  <2>1. matched # L /\ Longest(pattern, text, n - 1, matched, L)
    BY <1>3 DEF Matches
  <2>2. matched \in 0..L /\ L - 1 \in Nat /\ (L - 1) + 1 = L
    BY <1>1, <2>1 DEF Longest
  <2>3. Longest(pattern, text, n - 1, matched, L - 1)
    <3>1. matched # L
      BY <2>1
    <3> HIDE DEF L
    <3>2. matched \in 0..(L - 1)
      BY <1>1, <2>2, <3>1
    <3>3. \A k \in 0..(L - 1) : k \in 0..L
      BY <1>1
    <3> QED BY <2>1, <3>2, <3>3 DEF Longest
  <2>4. PICK now : now = Advance(pattern, prefix, matched, text[n])
    OBVIOUS
  <2>5. Longest(pattern, text, n, now, L)
    <3>1. Longest(pattern, text, (n - 1) + 1, Advance(pattern, prefix, matched, text[(n - 1) + 1]),
                  (L - 1) + 1)
      <4>1. TableIs(prefix, pattern, L)
        OBVIOUS
      <4> HIDE DEF L
      <4> QED BY <1>1, <2>2, <2>3, <4>1, AdvanceIsLongest
    <3> QED BY <1>1, <2>2, <2>4, <3>1
  <2>6. Consume(pattern, prefix, matched, text[n]) = now
    BY <2>1, <2>4 DEF Consume
  <2>7. (\E j \in 0..n : Ends(pattern, L, text, j)) <=> Ends(pattern, L, text, n)
    <3> HIDE DEF L
    <3> QED BY <1>1, <1>3
  <2>8. Ends(pattern, L, text, n) <=> now = L
    <3> HIDE DEF L
    <3> QED BY <1>1, <2>5 DEF Longest
  <2> QED BY <2>5, <2>6, <2>7, <2>8 DEF Matches
<1> QED
  BY <1>2, <1>3

\* The fold of FoldedContains.
IsMatch(g, pattern, prefix, text, S) ==
  g = [s \in SUBSET S |->
         IF s = {} THEN 0 ELSE Consume(pattern, prefix, g[s \ {Max(s)}], text[Max(s)])]

MatchesOf(pattern, prefix, text) == CHOOSE g : IsMatch(g, pattern, prefix, text, DOMAIN text)

LEMMA MatchIsFold ==
  ASSUME NEW g, NEW pattern, NEW prefix, NEW text, NEW S
  PROVE  IsMatch(g, pattern, prefix, text, S) <=> IsFold(g, MatchFold(pattern, prefix), text, S)
<1> DEFINE fold == MatchFold(pattern, prefix)
<1>1. FirstOf(fold) = 0
  BY DEF FirstOf, MatchFold
<1>2. \A value, x : NextOf(fold, value, x) = Consume(pattern, prefix, value, x)
  BY DEF NextOf, MatchFold
<1> HIDE DEF fold
<1> QED
  BY <1>1, <1>2 DEF IsMatch, IsFold, fold

LEMMA ContainsIsLast ==
  ASSUME NEW query, NEW line
  PROVE  FoldedContains(query, line)
           <=> MatchesOf(Folded(query), PrefixTable(Folded(query)), Folded(line))[DOMAIN Folded(line)]
                 = Len(Folded(query))
<1> DEFINE pattern == Folded(query)
           text == Folded(line)
           prefix == PrefixTable(pattern)
<1>1. FoldLeft(LAMBDA matched, char : Consume(pattern, prefix, matched, char), 0, text)
        = MatchesOf(pattern, prefix, text)[DOMAIN text]
  <2> HIDE DEF pattern, text, prefix
  <2> QED BY DEF FoldLeft, MapThenFoldSet, MatchesOf, IsMatch
<1> QED
  BY <1>1, Zenon DEF FoldedContains

\* strings.Contains, said by characters.
LEMMA ContainsWhenEnds ==
  ASSUME NEW E, NEW pattern \in Seq(E), NEW text \in Seq(E)
  PROVE  ExactContains(pattern, text) <=> \E j \in 0..Len(text) : Ends(pattern, Len(pattern), text, j)
<1> DEFINE L == Len(pattern)
           M == Len(text)
<1>1. L \in Nat /\ M \in Nat
  OBVIOUS
<1>2. ASSUME NEW i \in 0..(M - L)
      PROVE  SubSeq(text, i + 1, i + L) = pattern <=> Ends(pattern, L, text, i + L)
  <2>1. PICK part : part = SubSeq(text, i + 1, i + L)
    OBVIOUS
  <2>2. /\ part \in Seq(E) /\ Len(part) = L /\ \A x \in 1..L : part[x] = text[i + x]
    <3>1. i \in Nat /\ i + L \in Int /\ i + L <= M /\ i + L - (i + 1) + 1 = L
      BY <1>1
    <3>2. /\ part = [x \in 1..L |-> text[i + x]]
          /\ \A x \in 1..L : i + x \in 1..M
      BY <1>1, <2>1, <3>1
    <3>3. \A x \in 1..M : text[x] \in E
      OBVIOUS
    <3> HIDE DEF L, M
    <3> QED BY <1>1, <3>2, <3>3
  <2>3. part = pattern <=> \A x \in 1..L : part[x] = pattern[x]
    <3>1. part = [x \in 1..L |-> part[x]]
      <4> HIDE DEF L
      <4> QED BY <2>2
    <3>2. pattern = [x \in 1..L |-> pattern[x]]
      OBVIOUS
    <3> HIDE DEF L
    <3> QED BY <3>1, <3>2
  <2>4. \A x \in 1..L : (i + L) - L + x = i + x
    BY <1>1
  <2> HIDE DEF L, M
  <2>5. Ends(pattern, L, text, i + L) <=> \A x \in 1..L : text[i + x] = pattern[x]
    BY <1>1, <2>4 DEF Ends
  <2> QED BY <2>1, <2>2, <2>3, <2>5
<1>3. ASSUME NEW j \in 0..M, Ends(pattern, L, text, j) PROVE j - L \in 0..(M - L) /\ (j - L) + L = j
  <2>1. L <= j
    BY <1>3 DEF Ends
  <2> HIDE DEF L, M
  <2> QED BY <1>1, <2>1
<1>4. \A i \in 0..(M - L) : i + L \in 0..M
  BY <1>1
<1> DEFINE Stands(i) == SubSeq(text, i + 1, i + L) = pattern
<1>5. ExactContains(pattern, text) <=> \E i \in 0..(M - L) : Stands(i)
  BY Zenon DEF ExactContains
<1>6. \A i \in 0..(M - L) : Stands(i) <=> Ends(pattern, L, text, i + L)
  BY <1>2
<1> HIDE DEF Stands, L, M
<1>7. ASSUME NEW i \in 0..(M - L), Stands(i) PROVE \E j \in 0..M : Ends(pattern, L, text, j)
  BY <1>4, <1>6, <1>7
<1>8. ASSUME NEW j \in 0..M, Ends(pattern, L, text, j) PROVE \E i \in 0..(M - L) : Stands(i)
  <2>1. PICK i : i = j - L
    OBVIOUS
  <2>2. i \in 0..(M - L) /\ i + L = j
    BY <1>3, <1>8, <2>1
  <2> QED BY <1>6, <1>8, <2>2
<1> QED
  BY <1>5, <1>7, <1>8 DEF L, M

\* The matcher of a log line that ignores the case skips no occurrence, also where the
\* identifier repeats itself: with the table of its prefixes it finds a line exactly if the
\* folded identifier stands in the folded line, for identifiers and lines of every length
\* (log_search.go:70-101).
THEOREM MatcherIsExact ==
  ASSUME NEW query \in Seq(DOMAIN LowerOf), NEW line \in Seq(DOMAIN LowerOf)
  PROVE  LineContains(query, line, FALSE) <=> ExactContains(Folded(query), Folded(line))
<1> DEFINE E == {LowerOf[c] : c \in DOMAIN LowerOf}
<1>1. PICK pattern : pattern = Folded(query)
  OBVIOUS
<1>2. PICK text : text = Folded(line)
  OBVIOUS
<1>3. PICK prefix : prefix = PrefixTable(pattern)
  OBVIOUS
<1>4. pattern \in Seq(E) /\ text \in Seq(E)
  <2>1. \A i \in 1..Len(query) : LowerOf[query[i]] \in E
    OBVIOUS
  <2>2. \A i \in 1..Len(line) : LowerOf[line[i]] \in E
    OBVIOUS
  <2>3. Folded(query) = [i \in 1..Len(query) |-> LowerOf[query[i]]]
        /\ Folded(line) = [i \in 1..Len(line) |-> LowerOf[line[i]]]
    BY DEF Folded
  <2> HIDE DEF E
  <2>4. Folded(query) \in Seq(E)
    BY <2>1, <2>3
  <2>5. Folded(line) \in Seq(E)
    BY <2>2, <2>3
  <2> QED BY <1>1, <1>2, <2>4, <2>5
<1> HIDE DEF E
<1> DEFINE N == Len(text)
           L == Len(pattern)
           fold == MatchFold(pattern, prefix)
           h == MatchesOf(pattern, prefix, text)
           G == {n \in 0..N : Matches(pattern, text, n, h[1..n])}
<1>5. N \in Nat /\ L \in Nat /\ DOMAIN text = 1..N
  BY <1>4
<1>6. TableIs(prefix, pattern, L)
  BY <1>3, <1>4, PrefixTableIsTable
<1>7. FoldedContains(query, line) <=> h[DOMAIN text] = L
  BY <1>1, <1>2, <1>3, ContainsIsLast
<1>8. IsFold(h, fold, text, 1..N)
  <2>1. \E g : IsMatch(g, pattern, prefix, text, 1..N)
    BY <1>5, FoldExists, MatchIsFold
  <2>2. IsMatch(MatchesOf(pattern, prefix, text), pattern, prefix, text, 1..N)
    BY <1>5, <2>1 DEF MatchesOf
  <2> QED BY <2>2, MatchIsFold
<1>9. FirstOf(fold) = 0
  BY DEF FirstOf, MatchFold
<1>10. \A value, x : NextOf(fold, value, x) = Consume(pattern, prefix, value, x)
  BY DEF NextOf, MatchFold
<1> HIDE DEF fold, h, N, L
<1>11. h[1..0] = 0 /\ \A n \in 1..N : h[1..n] = Consume(pattern, prefix, h[1..(n - 1)], text[n])
  <2>1. N \in Nat
    BY <1>5
  <2>2. h[1..0] = FirstOf(fold) /\ \A n \in 1..N : h[1..n] = NextOf(fold, h[1..(n - 1)], text[n])
    BY <1>8, <2>1, FoldSteps
  <2> QED BY <1>9, <1>10, <2>2
<1>12. 0 \in G
  <2>1. \A j \in 0..0 : j = 0
    OBVIOUS
  <2>2. (\E j \in 0..0 : Ends(pattern, L, text, j)) <=> L = 0
    BY <1>5, <2>1 DEF Ends
  <2>3. Longest(pattern, text, 0, 0, L)
    BY <1>5 DEF Longest, Ends
  <2>4. Matches(pattern, text, 0, 0)
    BY <2>2, <2>3 DEF Matches, L
  <2> QED BY <1>5, <1>11, <2>4
<1>13. ASSUME NEW n \in 1..N, n - 1 \in G PROVE n \in G
  <2>1. Matches(pattern, text, n - 1, h[1..(n - 1)]) /\ n \in Nat \ {0} /\ n \in 0..N
    BY <1>5, <1>13
  <2>2. Matches(pattern, text, n, Consume(pattern, prefix, h[1..(n - 1)], text[n]))
    BY <1>4, <1>6, <2>1, ConsumeMatches DEF L
  <2> QED BY <1>11, <2>1, <2>2
<1> HIDE DEF G
<1>14. N \in G
  BY <1>5, <1>12, <1>13, UpTo
<1>15. h[1..N] = L <=> \E j \in 0..N : Ends(pattern, L, text, j)
  <2>1. Matches(pattern, text, N, h[1..N])
    BY <1>14 DEF G
  <2> QED BY <2>1 DEF Matches, L
<1>16. ExactContains(pattern, text) <=> \E j \in 0..N : Ends(pattern, L, text, j)
  BY <1>4, ContainsWhenEnds DEF N, L
<1> QED
  BY <1>1, <1>2, <1>5, <1>7, <1>15, <1>16 DEF LineContains
=============================================================================
