------------------------- MODULE DiagnosticsLabProofs -------------------------
(***************************************************************************)
(* Theorems about PerformanceRunner, for every number of workers, samples, *)
(* stops and runs: no place of a phase is lost or taken twice, and a run   *)
(* that ends without being cancelled has every sample.  And about          *)
(* DiagnosticsLab, for every set of views and inputs and every number of   *)
(* user actions: what is displayed is current, work under way has an       *)
(* owner, and the workspace uses the runner as PerformanceRunner says.     *)
(***************************************************************************)
EXTENDS DiagnosticsLab, FiniteSetTheorems, SequenceTheorems, TLAPS

-----------------------------------------------------------------------------
(* The runner *)

Phases == {"warmup", "running"}
Counted == {w \in Workers : at[w] = "counted"}

\* The counters agree with where the workers are.
CountInv ==
  /\ main \in Phases => assigned = completed + Cardinality(InSample) /\ assigned <= Count
  /\ sent = warm + measured + given + Cardinality(Pending)
  /\ main = "start" => warm = 0 /\ measured = 0
  /\ main = "warmup" => warm = completed + Cardinality(Counted) /\ measured = 0
  /\ main = "running" => measured = completed + Cardinality(Counted) /\ warm = Warmup
  /\ main = "finished" /\ ~canceled => warm = Warmup /\ measured = SampleCount

\* Who has left: nobody is refused or leaves before every place is assigned,
\* unless the run is cancelled; one who gives a place back stays to take it.
\* What a sample asks of ready() has no deadline to sleep for.
LeaveInv ==
  /\ disposed => canceled
  /\ main \notin Phases => \A w \in Workers : at[w] = "off"
  /\ main \in Phases /\ ~canceled => assigned = Count \/ \E w \in Workers : at[w] # "off"
  /\ \A w \in Workers :
       at[w] = "refused" => canceled \/ (then[w] # "sample" /\ PhaseFinished)
  /\ \A w \in Workers : then[w] = "sample" => due[w] /\ at[w] # "sleeping"

RInv == RunnerTypeOK /\ CountInv /\ LeaveInv

-----------------------------------------------------------------------------

LEMMA WorkersFinite ==
  /\ IsFiniteSet(Workers) /\ 1 \in Workers /\ Concurrency \in Nat \ {0}
BY RunnerAssumption, FS_Interval DEF Workers

\* The sets whose sizes are counted are finite.
LEMMA SetsFinite ==
  /\ IsFiniteSet(InSample) /\ IsFiniteSet(Pending) /\ IsFiniteSet(Counted)
  /\ Cardinality(InSample) \in Nat /\ Cardinality(Pending) \in Nat
  /\ Cardinality(Counted) \in Nat
<1>1. /\ InSample \in SUBSET Workers /\ Pending \in SUBSET Workers
      /\ Counted \in SUBSET Workers
  BY DEF InSample, Pending, Counted
<1>2. IsFiniteSet(InSample) /\ IsFiniteSet(Pending) /\ IsFiniteSet(Counted)
  BY <1>1, WorkersFinite, FS_Subset
<1> QED
  BY <1>2, FS_CardinalityType

\* The number of workers of a phase that has samples.
LEMMA SmallerOfTwo ==
  ASSUME NEW a \in Nat, NEW b \in Nat
  PROVE  Min({a, b}) \in {a, b}
<1>1. \E x \in {a, b} : \A y \in {a, b} : x =< y
  BY SMT
<1> QED
  BY <1>1 DEF Min

\* pumpCancellations only moves requests from the queue to the backend.
LEMMA PumpMoves ==
  ASSUME NEW waiting \in SUBSET Workers, NEW under \in SUBSET Workers,
         Pump(waiting, under)
  PROVE  queued' \subseteq Workers /\ canceling' \subseteq Workers
BY DEF Pump, kSubset

LEMMA CountIsNat == Count \in Nat
BY RunnerAssumption DEF Count

\* Init establishes the invariant.
LEMMA InitRInv == RunnerInit => RInv
<1> SUFFICES ASSUME RunnerInit PROVE RInv
  OBVIOUS
<1>1. RunnerTypeOK
  BY DEF RunnerInit, RunnerTypeOK
<1>2. InSample = {} /\ Pending = {}
  BY DEF RunnerInit, InSample, Pending
<1>3. CountInv
  BY <1>2, FS_EmptySet DEF RunnerInit, CountInv, Phases
<1>4. LeaveInv
  BY DEF RunnerInit, LeaveInv, Phases
<1> QED
  BY <1>1, <1>3, <1>4 DEF RInv

-----------------------------------------------------------------------------
(* Steps that leave the counters alone *)

Counters == <<main, assigned, completed, warm, measured, sent, given>>

\* Such a step keeps CountInv when it moves no worker in or out of a sample and
\* takes no cancellation back.
LEMMA CountersRest ==
  ASSUME RInv, UNCHANGED Counters, canceled => canceled',
         InSample' = InSample, Pending' = Pending, Counted' = Counted,
         RunnerTypeOK'
  PROVE  CountInv'
<1>1. Count' = Count
  BY DEF Counters, Count
<1> QED
  BY <1>1, Zenon DEF RInv, CountInv, Counters, Phases

\* The steps of one worker, of an answer or of a timer.
LEMMA WorkerRests ==
  ASSUME RInv, NEW w \in Workers,
         \/ Ready(w) \/ AskToGoOn(w) \/ Leave(w) \/ Respond(w)
         \/ Outcome(w) \/ DiscardSample(w) \/ DeadlinePasses(w)
  PROVE  RInv'
<1> USE DEF RInv, RunnerTypeOK
<1>1. CASE Ready(w)
  <2>1. RunnerTypeOK'
    BY <1>1 DEF Ready, ReadyOutcome, progressVars, stopVars, cancelVars
  <2>2. InSample' = InSample /\ Pending' = Pending /\ Counted' = Counted
    <3>1. /\ \A v \in Workers : v # w => at'[v] = at[v]
          /\ then' = then /\ at[w] = "ready"
      BY <1>1 DEF Ready
    <3>2. at'[w] \in {"refused", "paused", "granted", "sleeping"}
      BY <1>1 DEF Ready, ReadyOutcome
    <3>3. then[w] = "sample" => at'[w] # "sleeping"
      BY <1>1 DEF Ready, ReadyOutcome, LeaveInv
    <3> QED BY <3>1, <3>2, <3>3 DEF InSample, Pending, Counted
  <2>3. CountInv'
    BY <1>1, <2>1, <2>2, CountersRest
       DEF Ready, Counters, progressVars, stopVars
  <2>4. LeaveInv'
    BY <1>1 DEF Ready, ReadyOutcome, LeaveInv, Phases, PhaseFinished, Count,
                progressVars, stopVars
  <2> QED BY <2>1, <2>3, <2>4
<1>2. CASE AskToGoOn(w)
  <2>1. RunnerTypeOK'
    BY <1>2 DEF AskToGoOn, Await, progressVars, stopVars, cancelVars
  <2>2. InSample' = InSample /\ Pending' = Pending /\ Counted' = Counted
    BY <1>2 DEF AskToGoOn, Await, InSample, Pending, Counted
  <2>3. CountInv'
    BY <1>2, <2>1, <2>2, CountersRest
       DEF AskToGoOn, Counters, progressVars, stopVars
  <2>4. LeaveInv'
    BY <1>2 DEF AskToGoOn, Await, LeaveInv, Phases, PhaseFinished, Count,
                progressVars, stopVars
  <2> QED BY <2>1, <2>3, <2>4
<1>3. CASE Leave(w)
  <2>1. RunnerTypeOK'
    BY <1>3 DEF Leave, progressVars, stopVars, cancelVars
  <2>2. InSample' = InSample /\ Pending' = Pending /\ Counted' = Counted
    BY <1>3 DEF Leave, InSample, Pending, Counted
  <2>3. CountInv'
    BY <1>3, <2>1, <2>2, CountersRest
       DEF Leave, Counters, progressVars, stopVars
  <2>4. LeaveInv'
    BY <1>3, CountIsNat, SetsFinite DEF Leave, LeaveInv, Phases, PhaseFinished, Count,
                progressVars, stopVars, CountInv
  <2> QED BY <2>1, <2>3, <2>4
<1>4. CASE Respond(w)
  <2>1. RunnerTypeOK'
    BY <1>4 DEF Respond, progressVars, stopVars, cancelVars
  <2>2. InSample' = InSample /\ Pending' = Pending /\ Counted' = Counted
    BY <1>4 DEF Respond, InSample, Pending, Counted
  <2>3. CountInv'
    BY <1>4, <2>1, <2>2, CountersRest
       DEF Respond, Counters, progressVars, stopVars
  <2>4. LeaveInv'
    BY <1>4 DEF Respond, LeaveInv, Phases, PhaseFinished, Count,
                progressVars, stopVars
  <2> QED BY <2>1, <2>3, <2>4
<1>5. CASE Outcome(w)
  <2>1. RunnerTypeOK'
    BY <1>5 DEF Outcome, Await, progressVars, stopVars, cancelVars
  <2>2. InSample' = InSample /\ Pending' = Pending /\ Counted' = Counted
    BY <1>5 DEF Outcome, Await, InSample, Pending, Counted
  <2>3. CountInv'
    BY <1>5, <2>1, <2>2, CountersRest
       DEF Outcome, Counters, progressVars, stopVars
  <2>4. LeaveInv'
    BY <1>5 DEF Outcome, Await, LeaveInv, Phases, PhaseFinished, Count,
                progressVars, stopVars
  <2> QED BY <2>1, <2>3, <2>4
<1>6. CASE DiscardSample(w)
  <2>1. RunnerTypeOK'
    BY <1>6 DEF DiscardSample, progressVars, stopVars, cancelVars
  <2>2. InSample' = InSample /\ Pending' = Pending /\ Counted' = Counted
    BY <1>6 DEF DiscardSample, InSample, Pending, Counted
  <2>3. CountInv'
    BY <1>6, <2>1, <2>2, CountersRest
       DEF DiscardSample, Counters, progressVars, stopVars
  <2>4. LeaveInv'
    BY <1>6 DEF DiscardSample, LeaveInv, Phases, PhaseFinished, Count,
                progressVars, stopVars
  <2> QED BY <2>1, <2>3, <2>4
<1>7. CASE DeadlinePasses(w)
  <2>1. RunnerTypeOK'
    BY <1>7 DEF DeadlinePasses, progressVars, stopVars, cancelVars
  <2>2. InSample' = InSample /\ Pending' = Pending /\ Counted' = Counted
    <3>1. /\ \A v \in Workers : v # w => at'[v] = at[v]
          /\ then' = then
          /\ at'[w] = at[w] \/ (at[w] = "sleeping" /\ at'[w] = "ready")
          /\ then[w] = "sample" => at[w] # "sleeping"
      BY <1>7 DEF DeadlinePasses, LeaveInv
    <3> QED BY <3>1 DEF InSample, Pending, Counted
  <2>3. CountInv'
    BY <1>7, <2>1, <2>2, CountersRest
       DEF DeadlinePasses, Counters, progressVars, stopVars
  <2>4. LeaveInv'
    BY <1>7 DEF DeadlinePasses, LeaveInv, Phases, PhaseFinished, Count,
                progressVars, stopVars
  <2> QED BY <2>1, <2>3, <2>4
<1> QED
  BY <1>1, <1>2, <1>3, <1>4, <1>5, <1>6, <1>7

\* What a stop does to the workers leaves their samples as they are.
LEMMA StopKeeps ==
  ASSUME RInv, RunnerTypeOK', UNCHANGED Counters, then' = then, due' = due,
         \A v \in Workers : \/ at'[v] = at[v]
                            \/ at[v] = "sleeping" /\ at'[v] = "ready"
                            \/ at[v] = "paused" /\ at'[v] = "ready"
                            \/ at[v] = "request" /\ at'[v] = "released",
         canceled => canceled', disposed' => disposed \/ canceled'
  PROVE  RInv'
<1>1. InSample' = InSample /\ Pending' = Pending /\ Counted' = Counted
  BY DEF RInv, LeaveInv, InSample, Pending, Counted
<1>2. CountInv'
  BY <1>1, CountersRest
<1>3. LeaveInv'
  BY DEF RInv, RunnerTypeOK, LeaveInv, Counters, Phases, PhaseFinished, Count
<1> QED
  BY <1>2, <1>3 DEF RInv

\* stop(), its answers and its end, and dispose(): they interrupt, release and
\* wake workers.
LEMMA StopRests ==
  ASSUME RInv,
         \/ Stop \/ StopEnds \/ Dispose
         \/ \E w \in Workers, accepted \in BOOLEAN : CancelAnswered(w, accepted)
  PROVE  RInv'
<1> USE DEF RInv, RunnerTypeOK
<1> DEFINE Moved(v) == \/ at'[v] = at[v]
                       \/ at[v] = "sleeping" /\ at'[v] = "ready"
                       \/ at[v] = "paused" /\ at'[v] = "ready"
                       \/ at[v] = "request" /\ at'[v] = "released"
<1>1. CASE Stop
  <2>1. RunnerTypeOK'
    <3>1. queued' \subseteq Workers /\ canceling' \subseteq Workers
      BY <1>1, PumpMoves DEF Stop
    <3> QED
      BY <1>1, <3>1 DEF Stop, Interrupted, progressVars
  <2>2. then' = then /\ \A v \in Workers : Moved(v)
    BY <1>1 DEF Stop, Interrupted
  <2>3. UNCHANGED <<Counters, canceled, disposed, due>>
    BY <1>1 DEF Stop, Counters, progressVars
  <2> QED BY <2>1, <2>2, <2>3, StopKeeps
<1>2. CASE StopEnds
  <2>1. RunnerTypeOK'
    BY <1>2 DEF StopEnds, Woken, Stopped, progressVars, cancelVars
  <2>2. then' = then /\ \A v \in Workers : Moved(v)
    BY <1>2 DEF StopEnds, Woken
  <2>3. UNCHANGED <<Counters, disposed, due>> /\ (canceled => canceled')
    BY <1>2 DEF StopEnds, Counters, progressVars
  <2> QED BY <2>1, <2>2, <2>3, StopKeeps
<1>3. CASE Dispose
  <2>1. RunnerTypeOK'
    <3>1. queued' \subseteq Workers /\ canceling' \subseteq Workers
      BY <1>3, PumpMoves DEF Dispose
    <3> QED
      BY <1>3, <3>1 DEF Dispose, Interrupted, Woken, Released, progressVars
  <2>2. then' = then /\ \A v \in Workers : Moved(v)
    BY <1>3 DEF Dispose, Interrupted, Woken, Released
  <2>3. UNCHANGED <<Counters, due>> /\ canceled'
    BY <1>3 DEF Dispose, Counters, progressVars
  <2> QED BY <2>1, <2>2, <2>3, StopKeeps
<1>4. CASE \E w \in Workers, accepted \in BOOLEAN : CancelAnswered(w, accepted)
  <2> PICK w \in Workers, accepted \in BOOLEAN : CancelAnswered(w, accepted)
    BY <1>4
  <2>1. RunnerTypeOK'
    <3>1. queued' \subseteq Workers /\ canceling' \subseteq Workers
      BY PumpMoves DEF CancelAnswered
    <3> QED
      BY <3>1 DEF CancelAnswered, Released, progressVars
  <2>2. then' = then /\ \A v \in Workers : Moved(v)
    BY DEF CancelAnswered, Released
  <2>3. UNCHANGED <<Counters, canceled, disposed, due>>
    BY DEF CancelAnswered, Counters, progressVars
  <2> QED BY <2>1, <2>2, <2>3, StopKeeps
<1> QED
  BY <1>1, <1>2, <1>3, <1>4

-----------------------------------------------------------------------------
(* Steps that count *)

LEMMA AssignKeeps ==
  ASSUME RInv, NEW w \in Workers, Assign(w)
  PROVE  RInv'
<1> USE DEF RInv, RunnerTypeOK
<1>1. RunnerTypeOK'
  BY DEF Assign, stopVars, cancelVars
<1>2. /\ InSample' = InSample \cup {w} /\ w \notin InSample
      /\ Pending' = Pending \cup {w} /\ w \notin Pending
      /\ Counted' = Counted
  <2>1. /\ \A v \in Workers : v # w => at'[v] = at[v]
        /\ then' = then /\ at[w] = "granted" /\ at'[w] = "request" /\ then[w] = "loop"
    BY DEF Assign
  <2> QED BY <2>1 DEF InSample, Pending, Counted
<1>3. /\ Cardinality(InSample') = Cardinality(InSample) + 1
      /\ Cardinality(Pending') = Cardinality(Pending) + 1
  BY <1>2, SetsFinite, FS_AddElement
<1>4. main \in Phases
  BY DEF Assign, LeaveInv
<1>5. CountInv'
  BY <1>2, <1>3, <1>4, SetsFinite, CountIsNat DEF Assign, CountInv, Count, Phases
<1>6. LeaveInv'
  BY <1>4 DEF Assign, LeaveInv, Phases, PhaseFinished, Count, stopVars
<1> QED
  BY <1>1, <1>5, <1>6

LEMMA CountSampleKeeps ==
  ASSUME RInv, NEW w \in Workers, CountSample(w)
  PROVE  RInv'
<1> USE DEF RInv, RunnerTypeOK
<1>1. RunnerTypeOK'
  BY DEF CountSample, stopVars, cancelVars
<1>2. /\ InSample' = InSample
      /\ Pending' = Pending \ {w} /\ w \in Pending
      /\ Counted' = Counted \cup {w} /\ w \notin Counted
  <2>1. /\ \A v \in Workers : v # w => at'[v] = at[v]
        /\ then' = then /\ at[w] = "granted" /\ at'[w] = "counted" /\ then[w] = "sample"
    BY DEF CountSample
  <2> QED BY <2>1 DEF InSample, Pending, Counted
<1>3. /\ Cardinality(Counted') = Cardinality(Counted) + 1
      /\ Cardinality(Pending') = Cardinality(Pending) - 1
  BY <1>2, SetsFinite, FS_AddElement, FS_RemoveElement
<1>4. main \in Phases
  BY DEF CountSample, LeaveInv
<1>5. CountInv'
  <2>1. CASE main = "warmup"
    BY <1>2, <1>3, <2>1, SetsFinite DEF CountSample, CountInv, Count, Phases
  <2>2. CASE main = "running"
    BY <1>2, <1>3, <2>2, SetsFinite DEF CountSample, CountInv, Count, Phases
  <2> QED BY <1>4, <2>1, <2>2 DEF Phases
<1>6. LeaveInv'
  BY <1>4 DEF CountSample, LeaveInv, Phases, PhaseFinished, Count, stopVars
<1> QED
  BY <1>1, <1>5, <1>6

LEMMA GiveBackKeeps ==
  ASSUME RInv, NEW w \in Workers, GiveBack(w)
  PROVE  RInv'
<1> USE DEF RInv, RunnerTypeOK
<1>1. main \in Phases
  BY DEF GiveBack, LeaveInv
<1>2. /\ \A v \in Workers : v # w => at'[v] = at[v] /\ then'[v] = then[v]
                                     /\ due'[v] = due[v]
      /\ at[w] = "given"
      /\ \/ at'[w] = "off"
         \/ at'[w] = "ready" /\ then'[w] = "delay"
      /\ then'[w] \in {then[w], "delay"}
  BY DEF GiveBack, Continue
<1>3. /\ InSample' = InSample \ {w} /\ w \in InSample
      /\ Pending' = Pending \ {w} /\ w \in Pending
      /\ Counted' = Counted
  BY <1>2 DEF InSample, Pending, Counted
<1>4. /\ Cardinality(InSample') = Cardinality(InSample) - 1
      /\ Cardinality(Pending') = Cardinality(Pending) - 1
      /\ Cardinality(InSample) > 0
  <2>1. /\ Cardinality(InSample') = Cardinality(InSample) - 1
        /\ Cardinality(Pending') = Cardinality(Pending) - 1
    BY <1>3, SetsFinite, FS_RemoveElement
  <2>2. Cardinality(InSample) # 0
    BY <1>3, SetsFinite, FS_EmptySet
  <2> QED BY <2>1, <2>2, SetsFinite
<1>5. assigned > 0
  BY <1>1, <1>4, SetsFinite DEF CountInv
<1>6. RunnerTypeOK'
  BY <1>5 DEF GiveBack, GivenBack, Continue, stopVars, cancelVars
<1>7. CountInv'
  BY <1>1, <1>3, <1>4, <1>5, SetsFinite, CountIsNat
     DEF GiveBack, GivenBack, CountInv, Count, Phases, stopVars
<1>8. ~canceled' => at'[w] = "ready"
  BY <1>1, <1>5, CountIsNat
     DEF GiveBack, GivenBack, Continue, CountInv, LeaveInv, Count, stopVars
<1>9. then'[w] = "sample" => due'[w] /\ at'[w] # "sleeping"
  BY <1>2 DEF GiveBack, Continue, LeaveInv
<1>10. UNCHANGED <<main, completed, canceled, disposed>>
  BY DEF GiveBack, stopVars
<1>11. LeaveInv'
  BY <1>1, <1>2, <1>8, <1>9, <1>10 DEF LeaveInv, Phases, PhaseFinished, Count
<1> QED
  BY <1>6, <1>7, <1>11

LEMMA CompleteKeeps ==
  ASSUME RInv, NEW w \in Workers, Complete(w)
  PROVE  RInv'
<1> USE DEF RInv, RunnerTypeOK
<1>1. main \in Phases
  BY DEF Complete, LeaveInv
<1>2. /\ \A v \in Workers : v # w =>
           /\ \/ at'[v] = at[v]
              \/ at[v] \in {"paused", "sleeping"} /\ at'[v] = "ready"
           /\ then'[v] = then[v] /\ due'[v] = due[v]
      /\ at[w] = "counted"
      /\ \/ at'[w] = "off" /\ (canceled \/ disposed \/ assigned' >= Count)
         \/ at'[w] = "ready" /\ then'[w] = "delay"
      /\ then'[w] = "sample" => then[w] = "sample" /\ due'[w] = due[w] /\ at'[w] = "off"
  BY DEF Complete, Continue, Woken, Interrupted
<1>3. /\ InSample' = InSample \ {w} /\ w \in InSample
      /\ Pending' = Pending
      /\ Counted' = Counted \ {w} /\ w \in Counted
  BY <1>2 DEF InSample, Pending, Counted, LeaveInv
<1>4. /\ Cardinality(InSample') = Cardinality(InSample) - 1
      /\ Cardinality(Counted') = Cardinality(Counted) - 1
  BY <1>3, SetsFinite, FS_RemoveElement
<1>5. RunnerTypeOK'
  <2>1. /\ UNCHANGED <<main, assigned, warm, measured, active, acknowledged, stopVars,
                       cancelVars, runs, sent, given>>
        /\ completed' = completed + 1
    BY DEF Complete
  <2> DEFINE places == IF completed' >= Count THEN Woken(Interrupted(at)) ELSE at
  <2>2. places \in [Workers -> {"off", "ready", "paused", "sleeping", "granted", "refused",
                               "request", "outcome", "released", "counted", "given"}]
    BY DEF Woken, Interrupted
  <2>3. Continue(w, places)
    BY DEF Complete
  <2> HIDE DEF places
  <2>4. /\ at' \in [Workers -> {"off", "ready", "paused", "sleeping", "granted", "refused",
                                "request", "outcome", "released", "counted", "given"}]
        /\ then' \in [Workers -> {"ramp", "loop", "delay", "sample"}]
        /\ due' \in [Workers -> BOOLEAN]
    BY <2>2, <2>3 DEF Continue
  <2> QED
    BY <2>1, <2>4 DEF stopVars, cancelVars
<1>6. CountInv'
  BY <1>1, <1>3, <1>4, SetsFinite, CountIsNat
     DEF Complete, CountInv, Count, Phases, stopVars
<1>7. /\ UNCHANGED <<main, assigned, canceled, disposed>>
      /\ completed' = completed + 1
  BY DEF Complete, stopVars
<1>8. ~canceled => assigned' = Count \/ at'[w] = "ready"
  BY <1>1, <1>2, <1>7, CountIsNat DEF CountInv, LeaveInv
<1>9. LeaveInv'
  BY <1>1, <1>2, <1>7, <1>8, CountIsNat DEF LeaveInv, Phases, PhaseFinished, Count
<1> QED
  BY <1>5, <1>6, <1>9

-----------------------------------------------------------------------------
(* Steps of the completion *)

\* Without workers no sample is under way.
LEMMA NobodyInSample ==
  ASSUME \A w \in Workers : at[w] = "off"
  PROVE  /\ InSample = {} /\ Pending = {} /\ Counted = {}
         /\ Cardinality(InSample) = 0 /\ Cardinality(Pending) = 0
         /\ Cardinality(Counted) = 0
<1>1. InSample = {} /\ Pending = {} /\ Counted = {}
  BY DEF InSample, Pending, Counted
<1> QED
  BY <1>1, FS_EmptySet

\* A phase that ends without being cancelled is complete.
LEMMA PhaseIsComplete ==
  ASSUME RInv, PhaseEnded, ~canceled
  PROVE  /\ assigned = Count /\ completed = Count
         /\ main = "warmup" => warm = Warmup /\ measured = 0
         /\ main = "running" => warm = Warmup /\ measured = SampleCount
<1>1. \A w \in Workers : at[w] = "off"
  BY DEF PhaseEnded
<1>2. Cardinality(InSample) = 0 /\ Cardinality(Counted) = 0
  BY <1>1, NobodyInSample
<1>3. assigned = Count /\ assigned = completed
  BY <1>1, <1>2, CountIsNat
     DEF RInv, RunnerTypeOK, CountInv, LeaveInv, PhaseEnded, Phases
<1> QED
  BY <1>2, <1>3 DEF RInv, RunnerTypeOK, CountInv, PhaseEnded, Phases, Count

\* runPhase starts with nothing assigned and a worker that is not off.
LEMMA RunPhaseKeeps ==
  ASSUME RInv, NEW phase \in Phases, NEW count \in Nat \ {0},
         RunPhase(phase, count),
         \A w \in Workers : at[w] = "off",
         count = IF phase = "warmup" THEN Warmup ELSE SampleCount,
         measured = 0, warm = IF phase = "warmup" THEN 0 ELSE Warmup
  PROVE  RInv'
<1> USE DEF RInv, RunnerTypeOK
<1>1. RunnerTypeOK'
  BY DEF RunPhase, stopVars, cancelVars, Phases
<1>2. \A w \in Workers : at'[w] \in {"ready", "off"} /\ then'[w] = "ramp"
  BY DEF RunPhase
<1>3. at'[1] = "ready"
  <2>1. 1 \in 1..Min({Concurrency, count})
    BY SmallerOfTwo, WorkersFinite
  <2> QED BY <2>1, WorkersFinite DEF RunPhase
<1>4. /\ InSample' = {} /\ Pending' = {} /\ Counted' = {}
  BY <1>2 DEF InSample, Pending, Counted
<1>5. Cardinality(Pending) = 0
  BY NobodyInSample
<1>6. CountInv'
  BY <1>4, <1>5, FS_EmptySet, RunnerAssumption
     DEF RunPhase, CountInv, Count, Phases
<1>7. LeaveInv'
  BY <1>2, <1>3, WorkersFinite DEF RunPhase, LeaveInv, Phases, stopVars
<1> QED
  BY <1>1, <1>6, <1>7

LEMMA CompletionKeeps ==
  ASSUME RInv, Begin \/ StartWarmup \/ StartMeasuring \/ Finish
  PROVE  RInv'
<1>1. CASE Begin
  <2>1. RunnerTypeOK'
    <3>1. /\ at' \in [Workers -> {"off"}] /\ then' \in [Workers -> {"ramp"}]
          /\ due' \in [Workers -> BOOLEAN]
      BY <1>1 DEF Begin
    <3>2. runs' \in Nat /\ stops' \in Nat
      BY <1>1 DEF Begin, RInv, RunnerTypeOK
    <3> QED
      BY <1>1, <3>1, <3>2 DEF Begin, RunnerTypeOK
  <2>2. InSample' = {} /\ Pending' = {}
    BY <1>1 DEF Begin, InSample, Pending
  <2>3. CountInv'
    BY <1>1, <2>2, FS_EmptySet DEF Begin, CountInv, Phases
  <2>4. LeaveInv'
    BY <1>1 DEF Begin, LeaveInv, Phases
  <2> QED BY <2>1, <2>3, <2>4 DEF RInv
<1>2. CASE StartWarmup
  BY <1>2, RunPhaseKeeps, RunnerAssumption
     DEF StartWarmup, RInv, CountInv, LeaveInv, Phases
<1>3. CASE StartMeasuring
  <2>1. CASE main = "warmup" /\ PhaseEnded
    BY <1>3, <2>1, PhaseIsComplete, RunPhaseKeeps, RunnerAssumption
       DEF StartMeasuring, PhaseEnded, Phases
  <2>2. CASE main = "start" /\ Warmup = 0
    BY <1>3, <2>2, RunPhaseKeeps, RunnerAssumption
       DEF StartMeasuring, RInv, CountInv, LeaveInv, Phases
  <2> QED BY <1>3, <2>1, <2>2 DEF StartMeasuring
<1>4. CASE Finish
  <2>1. RunnerTypeOK'
    BY <1>4 DEF Finish, RInv, RunnerTypeOK, progressVars, stopVars, cancelVars
  <2>2. InSample' = InSample /\ Pending' = Pending
    BY <1>4 DEF Finish, InSample, Pending
  <2>3. ~canceled => warm = Warmup /\ measured = SampleCount
    BY <1>4, PhaseIsComplete DEF Finish
  <2>4. CountInv'
    BY <1>4, <2>2, <2>3 DEF Finish, RInv, CountInv, Phases, progressVars, stopVars
  <2>5. LeaveInv'
    BY <1>4 DEF Finish, PhaseEnded, RInv, LeaveInv, Phases, stopVars
  <2> QED BY <2>1, <2>4, <2>5 DEF RInv
<1> QED
  BY <1>1, <1>2, <1>3, <1>4

-----------------------------------------------------------------------------

\* The invariant is inductive.
LEMMA NextRInv == RInv /\ [RunnerNext]_runnerVars => RInv'
<1> SUFFICES ASSUME RInv, [RunnerNext]_runnerVars PROVE RInv'
  OBVIOUS
<1>1. CASE UNCHANGED runnerVars
  BY <1>1 DEF runnerVars, progressVars, stopVars, cancelVars, RInv, RunnerTypeOK,
              CountInv, LeaveInv, InSample, Pending, Counted, Count, PhaseFinished,
              Phases
<1>2. CASE Begin \/ StartWarmup \/ StartMeasuring \/ Finish
  BY <1>2, CompletionKeeps
<1>3. CASE \/ Stop \/ StopEnds \/ Dispose
          \/ \E w \in Workers, accepted \in BOOLEAN : CancelAnswered(w, accepted)
  BY <1>3, StopRests
<1>4. CASE \E w \in Workers : WorkerStep(w) \/ Respond(w) \/ DeadlinePasses(w)
  <2> PICK w \in Workers : WorkerStep(w) \/ Respond(w) \/ DeadlinePasses(w)
    BY <1>4
  <2> QED
    BY WorkerRests, AssignKeeps, CountSampleKeeps, GiveBackKeeps, CompleteKeeps
       DEF WorkerStep
<1> QED
  BY <1>1, <1>2, <1>3, <1>4 DEF RunnerNext, RunStep

\* The places, the requests and the samples of every run add up, whatever is
\* stopped, resumed, answered late or disposed of (runPhase, sample).
THEOREM SamplesAddUp == RunnerSpec => []SamplesExact
<1>1. RInv => SamplesExact
  BY DEF RInv, CountInv, SamplesExact, Phases
<1> QED
  BY <1>1, InitRInv, NextRInv, PTL DEF RunnerSpec

\* Every variable of the runner keeps its type.
THEOREM RunnerTypeCorrect == RunnerSpec => []RunnerTypeOK
<1>1. RInv => RunnerTypeOK
  BY DEF RInv
<1> QED
  BY <1>1, InitRInv, NextRInv, PTL DEF RunnerSpec

-----------------------------------------------------------------------------
(* Stops *)

\* A stop begins when no continuation is left to run, and grants no worker
\* anything until it ends: when it succeeds no sample is about to be counted,
\* and no request is left that it did not find.
StopInv ==
  /\ stopping \/ canceled => \A w \in Workers : at[w] \notin {"granted", "counted"}
  /\ attempt => (stopping \/ canceled) /\ active \subseteq requests
  /\ canceled => active = {}

LEMMA InitStopInv == RunnerInit => StopInv
BY DEF RunnerInit, StopInv

\* Steps of one worker.
LEMMA WorkerKeepsStop ==
  ASSUME RInv, StopInv, NEW w \in Workers,
         WorkerStep(w) \/ Respond(w) \/ DeadlinePasses(w)
  PROVE  StopInv'
<1> USE DEF RInv, RunnerTypeOK, StopInv
<1>1. CASE Ready(w)
  BY <1>1 DEF Ready, ReadyOutcome, stopVars
<1>2. CASE AskToGoOn(w) \/ Leave(w) \/ Respond(w) \/ Outcome(w) \/ DiscardSample(w)
  BY <1>2 DEF AskToGoOn, Await, Leave, Respond, Outcome, DiscardSample, stopVars
<1>3. CASE Assign(w) \/ CountSample(w)
  BY <1>3 DEF Assign, CountSample, stopVars
<1>4. CASE GiveBack(w)
  BY <1>4 DEF GiveBack, Continue, stopVars
<1>5. CASE Complete(w)
  BY <1>5 DEF Complete, Continue, Woken, Interrupted, stopVars
<1>6. CASE DeadlinePasses(w)
  BY <1>6 DEF DeadlinePasses, stopVars
<1> QED
  BY <1>1, <1>2, <1>3, <1>4, <1>5, <1>6 DEF WorkerStep

LEMMA NextStopInv == RInv /\ StopInv /\ [RunnerNext]_runnerVars => StopInv'
<1> SUFFICES ASSUME RInv, StopInv, [RunnerNext]_runnerVars PROVE StopInv'
  OBVIOUS
<1> USE DEF RInv, RunnerTypeOK, StopInv
<1>1. CASE UNCHANGED runnerVars
  BY <1>1 DEF runnerVars, stopVars
<1>2. CASE Begin \/ Finish
  BY <1>2 DEF Begin, Finish, stopVars
<1>3. CASE StartWarmup \/ StartMeasuring
  BY <1>3 DEF StartWarmup, StartMeasuring, RunPhase, stopVars
<1>4. CASE \E w \in Workers : WorkerStep(w) \/ Respond(w) \/ DeadlinePasses(w)
  BY <1>4, WorkerKeepsStop
<1>5. CASE Stop
  BY <1>5 DEF Stop, Quiet, Runnable, Interrupted
<1>6. CASE StopEnds
  BY <1>6 DEF StopEnds, StopSettled, Stopped, Woken, LeaveInv
<1>7. CASE Dispose
  BY <1>7 DEF Dispose, Quiet, Runnable, Interrupted, Woken, Released
<1>8. CASE \E w \in Workers, accepted \in BOOLEAN : CancelAnswered(w, accepted)
  <2> PICK w \in Workers, accepted \in BOOLEAN : CancelAnswered(w, accepted)
    BY <1>8
  <2> QED
    BY DEF CancelAnswered, Released
<1> QED
  BY <1>1, <1>2, <1>3, <1>4, <1>5, <1>6, <1>7, <1>8 DEF RunnerNext, RunStep

Final ==
  main' # "start" =>
    /\ canceled => /\ active' = {} /\ sent' = sent
                   /\ warm' = warm /\ measured' = measured /\ canceled'
    /\ \A w \in acknowledged : at'[w] = "counted" => at[w] = "counted"

\* No step of a cancelled run sends, counts or keeps a request.
LEMMA StepIsFinal == RInv /\ StopInv /\ StopInv' /\ [RunnerNext]_runnerVars => Final
<1> SUFFICES ASSUME RInv, StopInv, StopInv', [RunnerNext]_runnerVars PROVE Final
  OBVIOUS
<1> USE DEF RInv, RunnerTypeOK
<1>1. ASSUME canceled, main' # "start"
      PROVE  /\ sent' = sent /\ warm' = warm /\ measured' = measured /\ canceled'
  <2>1. CASE \E w \in Workers : WorkerStep(w) \/ Respond(w) \/ DeadlinePasses(w)
    BY <1>1, <2>1 DEF StopInv, WorkerStep, Ready, AskToGoOn, Assign, Leave, Respond,
       Outcome, CountSample, DiscardSample, GiveBack, Complete, DeadlinePasses,
       progressVars, stopVars
  <2>2. CASE Stop \/ StopEnds \/ Dispose \/ UNCHANGED runnerVars
    BY <1>1, <2>2 DEF Stop, StopEnds, Dispose, runnerVars, progressVars, stopVars
  <2>3. CASE \E w \in Workers, accepted \in BOOLEAN : CancelAnswered(w, accepted)
    BY <1>1, <2>3 DEF CancelAnswered, progressVars
  <2>4. CASE Begin \/ StartWarmup \/ StartMeasuring \/ Finish
    BY <1>1, <2>4 DEF Begin, StartWarmup, StartMeasuring, Finish, RunPhase,
       progressVars, stopVars
  <2> QED BY <2>1, <2>2, <2>3, <2>4 DEF RunnerNext, RunStep
<1>2. ASSUME NEW v \in acknowledged, at'[v] = "counted", at[v] # "counted"
      PROVE  FALSE
  <2> v \in Workers
    OBVIOUS
  <2>1. CASE \E w \in Workers : WorkerStep(w) \/ Respond(w) \/ DeadlinePasses(w)
    <3> PICK w \in Workers : WorkerStep(w) \/ Respond(w) \/ DeadlinePasses(w)
      BY <2>1
    <3>1. CASE Ready(w)
      BY <1>2, <3>1 DEF Ready, ReadyOutcome
    <3>2. CASE CountSample(w)
      BY <1>2, <3>2 DEF CountSample, Countable
    <3>3. CASE GiveBack(w) \/ Complete(w)
      BY <1>2, <3>3 DEF GiveBack, Complete, Continue, Woken, Interrupted
    <3>4. CASE \/ AskToGoOn(w) \/ Assign(w) \/ Leave(w) \/ Outcome(w)
              \/ DiscardSample(w) \/ Respond(w) \/ DeadlinePasses(w)
      BY <1>2, <3>4 DEF AskToGoOn, Await, Assign, Leave, Outcome, DiscardSample,
         Respond, DeadlinePasses
    <3> QED BY <3>1, <3>2, <3>3, <3>4 DEF WorkerStep
  <2>2. CASE Stop \/ StopEnds \/ Dispose \/ UNCHANGED runnerVars
    BY <1>2, <2>2 DEF Stop, StopEnds, Dispose, Interrupted, Woken, Released, runnerVars
  <2>3. CASE \E w \in Workers, accepted \in BOOLEAN : CancelAnswered(w, accepted)
    BY <1>2, <2>3 DEF CancelAnswered, Released
  <2>4. CASE Begin \/ StartWarmup \/ StartMeasuring \/ Finish
    BY <1>2, <2>4 DEF Begin, StartWarmup, StartMeasuring, Finish, RunPhase
  <2> QED BY <2>1, <2>2, <2>3, <2>4 DEF RunnerNext, RunStep
<1> QED
  BY <1>1, <1>2 DEF Final, StopInv

\* A stop that succeeded and disposal are final, and an acknowledged request is
\* never counted (stop, dispose, sample).
THEOREM StopsAreFinal == RunnerSpec => StopIsFinal
<1>1. RInv /\ StopInv /\ RInv' /\ StopInv' /\ [RunnerNext]_runnerVars
        => [Final]_runnerVars
  BY StepIsFinal
<1>2. StopIsFinal <=> [][Final]_runnerVars
  BY DEF StopIsFinal, Final
<1> QED
  BY <1>1, <1>2, InitRInv, NextRInv, InitStopInv, NextStopInv, PTL DEF RunnerSpec

-----------------------------------------------------------------------------
(* The workspace *)

AllViews == Views \cup {"performance"}
Inputs == [AllViews -> Values]
Entries == [by : Nat \ {0}, value : Values, samples : Nat]
Operations == [id : Nat \ {0}, kind : Kinds, value : Values,
               signature : AllViews \X Inputs]

LabTypes ==
  /\ view \in AllViews /\ input \in Inputs
  /\ shown \in [Kinds -> Entries \cup {Empty}]
  /\ busy \in Kinds \cup {"no"}
  /\ sequence \in Nat /\ actions \in Nat
  /\ ops \subseteq Operations
  /\ performanceRun \in BOOLEAN /\ performanceCanceling \in BOOLEAN
  /\ mounted \in BOOLEAN
  /\ performanceHistory \in Seq(Entries) /\ Len(performanceHistory) <= MaxHistory
  /\ outdated \subseteq Nat \ {0}

\* An operation is the last one only while its inputs are those displayed and
\* the controls wait for it; it keeps the value it was started with.
OpsInv ==
  /\ \A op \in ops :
       /\ op.id <= sequence
       /\ op.value = op.signature[2][ViewOf(op.kind)]
       /\ op.id = sequence => mounted /\ op.signature = Signature /\ op.kind = busy
  /\ \A op, other \in ops : op.id = other.id => op = other
  /\ \A id \in outdated : id < sequence

\* What is displayed was computed with the inputs displayed, and what is kept
\* was not made stale and cannot be any more.
ShownInv ==
  /\ \A kind \in Kinds :
       shown[kind] # Empty => shown[kind].value = input[ViewOf(kind)]
  /\ \A n \in 1..Len(performanceHistory) :
       /\ performanceHistory[n].by <= sequence
       /\ performanceHistory[n].by \notin outdated
       /\ \A op \in ops : performanceHistory[n].by # op.id

\* The handle of a run is held exactly while the run can be stopped or disposed.
OwnedInv ==
  /\ mounted /\ busy # "no" => \E op \in ops : op.kind = busy /\ op.id = sequence
  /\ Going /\ ~disposed => performanceRun
  /\ performanceRun => /\ mounted /\ busy = "performance"
                       /\ ~disposed /\ main # "none"
  /\ performanceCanceling => busy = "performance"

LabInv == LabTypes /\ OpsInv /\ ShownInv /\ OwnedInv

-----------------------------------------------------------------------------

LEMMA KindFacts ==
  /\ "performance" \in Kinds /\ "no" \notin Kinds
  /\ "runtime" \in AllViews /\ "performance" \in AllViews
  /\ \A kind \in Kinds : ViewOf(kind) \in AllViews
  /\ \A kind \in Views : ViewOf(kind) = kind
  /\ ViewOf("performance") = "performance" /\ ViewOf("baseline") = "runtime"
BY LabAssumption DEF Kinds, AllViews, ViewOf

LEMMA HistoryFacts ==
  ASSUME LabTypes
  PROVE  /\ Len(performanceHistory) \in Nat
         /\ \A n \in 1..Len(performanceHistory) :
              /\ performanceHistory[n] \in Entries
              /\ performanceHistory[n].by \in Nat \ {0}
              /\ performanceHistory[n].value \in Values
<1>1. /\ Len(performanceHistory) \in Nat
      /\ \A n \in 1..Len(performanceHistory) : performanceHistory[n] \in Entries
  BY DEF LabTypes
<1>2. \A entry \in Entries : entry.by \in Nat \ {0} /\ entry.value \in Values
  BY DEF Entries
<1> QED
  BY <1>1, <1>2

LEMMA InitLabInv == Init => LabInv
<1> SUFFICES ASSUME Init PROVE LabInv
  OBVIOUS
<1>1. (CHOOSE v \in Values : TRUE) \in Values
  BY LabAssumption
<1>2. input \in Inputs
  BY <1>1 DEF Init, Inputs, AllViews
<1>3. LabTypes
  <2>1. shown \in [Kinds -> Entries \cup {Empty}] /\ view \in AllViews
    BY LabAssumption DEF Init, AllViews
  <2>2. performanceHistory \in Seq(Entries) /\ Len(performanceHistory) <= MaxHistory
    BY LabAssumption DEF Init
  <2>3. /\ busy \in Kinds \cup {"no"} /\ sequence \in Nat /\ actions \in Nat
        /\ ops \subseteq Operations /\ performanceRun \in BOOLEAN
        /\ performanceCanceling \in BOOLEAN /\ mounted \in BOOLEAN
        /\ outdated \subseteq Nat \ {0}
    BY DEF Init
  <2> QED BY <1>2, <2>1, <2>2, <2>3 DEF LabTypes
<1>4. OpsInv /\ ShownInv
  BY DEF Init, OpsInv, ShownInv
<1>5. OwnedInv
  BY DEF Init, RunnerInit, OwnedInv, Going
<1> QED
  BY <1>3, <1>4, <1>5 DEF LabInv

\* What a step of the run by itself leaves alone: it neither starts, disposes
\* of nor revives a run.
LEMMA RunStepOwnsNothing ==
  ASSUME RunStep
  PROVE  disposed' = disposed /\ (Going' => Going) /\ (main # "none" => main' # "none")
<1>1. CASE StartWarmup \/ StartMeasuring \/ Finish \/ StopEnds
  BY <1>1 DEF StartWarmup, StartMeasuring, RunPhase, PhaseEnded, Finish, StopEnds,
              stopVars, Going
<1>2. CASE \E w \in Workers : WorkerStep(w)
  BY <1>2 DEF WorkerStep, Ready, AskToGoOn, Assign, Leave, Outcome, CountSample,
              DiscardSample, GiveBack, Complete, stopVars, Going
<1>3. CASE \E w \in Workers : Respond(w) \/ DeadlinePasses(w)
  BY <1>3 DEF Respond, DeadlinePasses, stopVars, Going
<1>4. CASE \E w \in Workers, accepted \in BOOLEAN : CancelAnswered(w, accepted)
  BY <1>4 DEF CancelAnswered, Going
<1> QED
  BY <1>1, <1>2, <1>3, <1>4 DEF RunStep

\* cancelActivePerformanceOperation: no run is left that is not disposed of.
LEMMA DisposeRunEnds ==
  ASSUME OwnedInv, DisposeRun
  PROVE  ~(Going' /\ ~disposed')
<1>1. CASE performanceRun
  BY <1>1 DEF DisposeRun, Dispose
<1>2. CASE ~performanceRun
  BY <1>2 DEF DisposeRun, OwnedInv, Going, runnerVars, stopVars
<1> QED
  BY <1>1, <1>2

\* The operations that were under way are stale and none is the last one.
LEMMA OutdatedOps ==
  ASSUME LabInv, sequence' = sequence + 1, ops' = ops,
         outdated' = outdated \cup {op.id : op \in ops},
         performanceHistory' = performanceHistory
  PROVE  /\ OpsInv'
         /\ outdated' \subseteq Nat \ {0}
         /\ \A n \in 1..Len(performanceHistory') :
              /\ performanceHistory'[n].by <= sequence'
              /\ performanceHistory'[n].by \notin outdated'
              /\ \A op \in ops' : performanceHistory'[n].by # op.id
<1>1. \A op \in ops : op.id \in Nat \ {0} /\ op.id <= sequence
  BY DEF LabInv, LabTypes, OpsInv, Operations
<1>2. \A id \in outdated' : id \in Nat \ {0} /\ id < sequence'
  BY <1>1 DEF LabInv, LabTypes, OpsInv
<1>3. OpsInv'
  BY <1>1, <1>2 DEF LabInv, LabTypes, OpsInv
<1>4. \A n \in 1..Len(performanceHistory) :
        /\ performanceHistory[n].by \in Nat
        /\ performanceHistory[n].by <= sequence
        /\ performanceHistory[n].by \notin outdated
        /\ \A op \in ops : performanceHistory[n].by # op.id
  BY HistoryFacts DEF LabInv, ShownInv
<1>5. sequence \in Nat
  BY DEF LabInv, LabTypes
<1> QED
  BY <1>2, <1>3, <1>4, <1>5

\* invalidatePendingOperation, after an input, the view or the language changed.
LEMMA InvalidateKeeps ==
  ASSUME LabInv, Invalidate, ops' = ops, mounted' = mounted,
         performanceHistory' = performanceHistory,
         view' \in AllViews, input' \in Inputs, actions' \in Nat,
         shown' \in [Kinds -> Entries \cup {Empty}],
         \A kind \in Kinds :
           shown'[kind] # Empty => shown'[kind].value = input'[ViewOf(kind)]
  PROVE  LabInv'
<1>1. /\ OpsInv' /\ outdated' \subseteq Nat \ {0}
      /\ \A n \in 1..Len(performanceHistory') :
           /\ performanceHistory'[n].by <= sequence'
           /\ performanceHistory'[n].by \notin outdated'
           /\ \A op \in ops' : performanceHistory'[n].by # op.id
  BY OutdatedOps DEF Invalidate
<1>2. LabTypes'
  <2>1. /\ performanceRun' = FALSE /\ performanceCanceling' = FALSE /\ busy' = "no"
        /\ sequence' = sequence + 1
    BY DEF Invalidate
  <2>2. performanceRun' \in BOOLEAN /\ performanceCanceling' \in BOOLEAN
    BY <2>1
  <2> QED BY <1>1, <2>1, <2>2 DEF LabInv, LabTypes
<1>3. ShownInv'
  BY <1>1 DEF ShownInv
<1>4. OwnedInv'
  BY DisposeRunEnds DEF Invalidate, LabInv, OwnedInv
<1> QED
  BY <1>1, <1>2, <1>3, <1>4 DEF LabInv

LEMMA ChangeKeeps ==
  ASSUME LabInv, NEW value \in Values, Change(value)
  PROVE  LabInv'
<1> USE DEF LabInv, LabTypes
<1>1. input' \in Inputs /\ \A v \in AllViews : v # view => input'[v] = input[v]
  BY DEF Change, Inputs
<1>2. shown' = Cleared({kind \in Kinds : ViewOf(kind) = view})
  BY DEF Change
<1>3. /\ shown' \in [Kinds -> Entries \cup {Empty}]
      /\ \A kind \in Kinds :
           shown'[kind] # Empty => shown'[kind] = shown[kind] /\ ViewOf(kind) # view
  BY <1>2 DEF Cleared
<1>4. \A kind \in Kinds :
        shown'[kind] # Empty => shown'[kind].value = input'[ViewOf(kind)]
  BY <1>1, <1>3, KindFacts DEF ShownInv
<1>5. actions' \in Nat /\ mounted' = mounted /\ ops' = ops /\ view' = view
      /\ performanceHistory' = performanceHistory /\ Invalidate
  BY DEF Change, Act
<1> QED
  BY <1>1, <1>3, <1>4, <1>5, InvalidateKeeps

LEMMA SelectKeeps ==
  ASSUME LabInv, ChangeLocale \/ \E next \in Views : SelectView(next)
  PROVE  LabInv'
<1>1. /\ view' \in AllViews /\ input' = input /\ shown' = shown /\ ops' = ops
      /\ mounted' = mounted /\ performanceHistory' = performanceHistory
      /\ actions' \in Nat /\ Invalidate
  BY DEF ChangeLocale, SelectView, Act, AllViews, LabInv, LabTypes
<1>2. \A kind \in Kinds :
        shown'[kind] # Empty => shown'[kind].value = input'[ViewOf(kind)]
  BY <1>1 DEF LabInv, ShownInv
<1> QED
  BY <1>1, <1>2, InvalidateKeeps DEF LabInv, LabTypes

LEMMA UnmountKeeps == ASSUME LabInv, Unmount PROVE LabInv'
<1>1. /\ OpsInv' /\ outdated' \subseteq Nat \ {0}
      /\ \A n \in 1..Len(performanceHistory') :
           /\ performanceHistory'[n].by <= sequence'
           /\ performanceHistory'[n].by \notin outdated'
           /\ \A op \in ops' : performanceHistory'[n].by # op.id
  BY OutdatedOps DEF Unmount
<1>2. LabTypes'
  <2>1. mounted' \in BOOLEAN /\ performanceRun' \in BOOLEAN
    BY DEF Unmount
  <2> QED BY <1>1, <2>1 DEF Unmount, Act, LabInv, LabTypes
<1>3. ShownInv'
  BY <1>1 DEF Unmount, LabInv, ShownInv
<1>4. OwnedInv'
  BY DisposeRunEnds DEF Unmount, LabInv, OwnedInv
<1> QED
  BY <1>1, <1>2, <1>3, <1>4 DEF LabInv

-----------------------------------------------------------------------------
(* Operations begin and return *)

\* startOperation: the new operation is the last one.
LEMMA StartKeepsOps ==
  ASSUME LabInv, NEW kind \in Kinds, StartOperation(kind), mounted,
         view' = view, input' = input, mounted' = mounted, outdated' = outdated,
         performanceHistory' = performanceHistory
  PROVE  /\ OpsInv' /\ ops' \subseteq Operations
         /\ sequence' \in Nat /\ busy' = kind
         /\ \E op \in ops' : op.kind = kind /\ op.id = sequence'
         /\ \A n \in 1..Len(performanceHistory') :
              /\ performanceHistory'[n].by <= sequence'
              /\ performanceHistory'[n].by \notin outdated'
              /\ \A op \in ops' : performanceHistory'[n].by # op.id
<1> DEFINE new == Operation(kind)
<1>1. /\ new.id = sequence + 1 /\ new.kind = kind
      /\ new.value = input[ViewOf(kind)] /\ new.signature = <<view, input>>
      /\ new \in Operations
  BY KindFacts DEF Operation, Operations, Signature, LabInv, LabTypes, Inputs
<1>2. ops' = ops \cup {new} /\ sequence' = sequence + 1 /\ busy' = kind
  BY DEF StartOperation
<1> HIDE DEF new
<1>3. \A op \in ops : op.id \in Nat /\ op.id <= sequence
  BY DEF LabInv, LabTypes, OpsInv, Operations
<1>4. OpsInv'
  <2>1. \A op \in ops' :
          /\ op.id <= sequence'
          /\ op.value = op.signature[2][ViewOf(op.kind)]
          /\ op.id = sequence' =>
               mounted' /\ op.signature = Signature' /\ op.kind = busy'
    <3> SUFFICES ASSUME NEW op \in ops'
                 PROVE  /\ op.id <= sequence'
                        /\ op.value = op.signature[2][ViewOf(op.kind)]
                        /\ op.id = sequence' =>
                             mounted' /\ op.signature = Signature' /\ op.kind = busy'
      OBVIOUS
    <3>1. CASE op = new
      BY <1>1, <1>2, <3>1 DEF Signature, LabInv, LabTypes
    <3>2. CASE op \in ops
      BY <1>2, <1>3, <3>2 DEF LabInv, LabTypes, OpsInv
    <3> QED BY <1>2, <3>1, <3>2
  <2>2. \A op, other \in ops' : op.id = other.id => op = other
    BY <1>1, <1>2, <1>3 DEF LabInv, LabTypes, OpsInv
  <2>3. \A id \in outdated' : id < sequence'
    BY <1>2 DEF LabInv, LabTypes, OpsInv
  <2> QED BY <2>1, <2>2, <2>3 DEF OpsInv
<1>5. \A n \in 1..Len(performanceHistory) :
        /\ performanceHistory[n].by \in Nat
        /\ performanceHistory[n].by <= sequence
        /\ performanceHistory[n].by \notin outdated
        /\ \A op \in ops : performanceHistory[n].by # op.id
  BY HistoryFacts DEF LabInv, ShownInv
<1>6. sequence \in Nat /\ ops \subseteq Operations
  BY DEF LabInv, LabTypes
<1> QED
  BY <1>1, <1>2, <1>4, <1>5, <1>6

LEMMA CallKeeps == ASSUME LabInv, NEW kind \in Kinds, Call(kind) PROVE LabInv'
<1>1. /\ OpsInv' /\ ops' \subseteq Operations /\ sequence' \in Nat /\ busy' = kind
      /\ \E op \in ops' : op.kind = kind /\ op.id = sequence'
      /\ \A n \in 1..Len(performanceHistory') :
           /\ performanceHistory'[n].by <= sequence'
           /\ performanceHistory'[n].by \notin outdated'
           /\ \A op \in ops' : performanceHistory'[n].by # op.id
  BY StartKeepsOps DEF Call, Act
<1>2. LabTypes'
  BY <1>1 DEF Call, Act, LabInv, LabTypes
<1>3. ShownInv'
  BY <1>1 DEF Call, LabInv, ShownInv
<1>4. OwnedInv'
  BY <1>1 DEF Call, LabInv, OwnedInv, Going, runnerVars, stopVars
<1> QED
  BY <1>1, <1>2, <1>3, <1>4 DEF LabInv

LEMMA RunPerformanceKeeps == ASSUME LabInv, RunPerformance PROVE LabInv'
<1>1. /\ OpsInv' /\ ops' \subseteq Operations
      /\ sequence' \in Nat /\ busy' = "performance"
      /\ \E op \in ops' : op.kind = "performance" /\ op.id = sequence'
      /\ \A n \in 1..Len(performanceHistory') :
           /\ performanceHistory'[n].by <= sequence'
           /\ performanceHistory'[n].by \notin outdated'
           /\ \A op \in ops' : performanceHistory'[n].by # op.id
  BY StartKeepsOps, KindFacts DEF RunPerformance, Act
<1>2. shown' = Cleared({"performance"})
  BY DEF RunPerformance
<1>3. LabTypes'
  <2>1. performanceRun' \in BOOLEAN /\ performanceCanceling' \in BOOLEAN
    BY DEF RunPerformance
  <2>2. shown' \in [Kinds -> Entries \cup {Empty}]
    BY <1>2 DEF Cleared, LabInv, LabTypes
  <2> QED
    BY <1>1, <2>1, <2>2, KindFacts DEF RunPerformance, Act, LabInv, LabTypes
<1>4. ShownInv'
  BY <1>1, <1>2 DEF RunPerformance, LabInv, ShownInv, Cleared
<1>5. OwnedInv'
  BY <1>1 DEF RunPerformance, Begin, Act, OwnedInv
<1> QED
  BY <1>1, <1>3, <1>4, <1>5 DEF LabInv

\* An operation that returns is no longer one: the owner of the controls stays,
\* or the operation was the owner and they are enabled.
LEMMA ReturnKeepsOps ==
  ASSUME LabInv, NEW op \in ops, ops' = ops \ {op}, sequence' = sequence,
         view' = view, input' = input, mounted' = mounted, outdated' = outdated,
         busy' = IF IsCurrent(op) THEN "no" ELSE busy
  PROVE  /\ OpsInv' /\ ops' \subseteq Operations /\ busy' \in Kinds \cup {"no"}
         /\ mounted' /\ busy' # "no" =>
              \E other \in ops' : other.kind = busy' /\ other.id = sequence'
         /\ IsCurrent(op) => /\ op.id = sequence /\ busy = op.kind
                             /\ op.value = input[ViewOf(op.kind)]
                             /\ op.id \notin outdated
                             /\ \A other \in ops' : other.id # op.id
         /\ ~IsCurrent(op) => busy' = busy
<1>1. op \in Operations /\ op.id <= sequence
  BY DEF LabInv, LabTypes, OpsInv
<1>2. IsCurrent(op) => /\ op.id = sequence /\ op.signature = Signature
                       /\ busy = op.kind /\ op.value = input[ViewOf(op.kind)]
                       /\ op.id \notin outdated
                       /\ \A other \in ops' : other.id # op.id
  BY <1>1 DEF IsCurrent, Signature, LabInv, LabTypes, OpsInv
<1>3. ~IsCurrent(op) => op.id # sequence
  BY DEF IsCurrent, LabInv, OpsInv
<1>4. OpsInv'
  BY <1>2, <1>3 DEF LabInv, LabTypes, OpsInv, Signature
<1>5. mounted' /\ busy' # "no" =>
        \E other \in ops' : other.kind = busy' /\ other.id = sequence'
  BY <1>3 DEF LabInv, OwnedInv
<1> QED
  BY <1>2, <1>4, <1>5 DEF LabInv, LabTypes

LEMMA ReturnedKeeps ==
  ASSUME LabInv, NEW op \in ops, NEW ok \in BOOLEAN, Returned(op, ok)
  PROVE  LabInv'
<1>1. /\ OpsInv' /\ ops' \subseteq Operations /\ busy' \in Kinds \cup {"no"}
      /\ mounted' /\ busy' # "no" =>
           \E other \in ops' : other.kind = busy' /\ other.id = sequence'
      /\ IsCurrent(op) => busy = op.kind /\ op.value = input[ViewOf(op.kind)]
      /\ ~IsCurrent(op) => busy' = busy
  BY ReturnKeepsOps DEF Returned
<1> DEFINE results == IF op.kind = "baseline" THEN {"baseline", "runtime"} ELSE {op.kind}
<1>2. shown' = IF IsCurrent(op) /\ ok
               THEN [kind \in Kinds |-> IF kind \in results THEN Result(op, 0)
                                                            ELSE shown[kind]]
               ELSE shown
  BY DEF Returned
<1>3. Result(op, 0) \in Entries /\ Result(op, 0).value = op.value
  BY DEF LabInv, LabTypes, Operations, Entries, Result
<1>4. \A kind \in results : ViewOf(kind) = ViewOf(op.kind)
  BY DEF ViewOf
<1> HIDE DEF results
<1>5. shown' \in [Kinds -> Entries \cup {Empty}]
  BY <1>2, <1>3 DEF LabInv, LabTypes
<1>6. LabTypes'
  BY <1>1, <1>5 DEF Returned, LabInv, LabTypes
<1>7. \A kind \in Kinds :
        shown'[kind] # Empty => shown'[kind].value = input[ViewOf(kind)]
  BY <1>1, <1>2, <1>3, <1>4 DEF LabInv, ShownInv
<1>8. ShownInv'
  BY <1>7 DEF Returned, LabInv, ShownInv
<1>9. op.kind # "performance" /\ UNCHANGED runnerVars
      /\ UNCHANGED <<performanceRun, performanceCanceling, mounted>>
  BY DEF Returned
<1>10. OwnedInv'
  BY <1>1, <1>9 DEF LabInv, OwnedInv, Going, runnerVars, stopVars
<1> QED
  BY <1>1, <1>6, <1>8, <1>10 DEF LabInv

LEMMA ClearBaselineKeeps == ASSUME LabInv, ClearBaseline PROVE LabInv'
<1>1. shown' = Cleared({"baseline"})
  BY DEF ClearBaseline
<1>2. LabTypes'
  BY <1>1 DEF ClearBaseline, Act, LabInv, LabTypes, Cleared
<1>3. OpsInv'
  BY DEF ClearBaseline, LabInv, OpsInv, Signature
<1>4. ShownInv'
  BY <1>1 DEF ClearBaseline, LabInv, ShownInv, Cleared
<1>5. OwnedInv'
  BY DEF ClearBaseline, LabInv, OwnedInv, Going, runnerVars, stopVars
<1> QED
  BY <1>2, <1>3, <1>4, <1>5 DEF LabInv

-----------------------------------------------------------------------------
(* The performance test *)

\* What a counted sample shows belongs to the operation that is current.
LEMMA ProgressShows ==
  ASSUME LabInv, measured' \in Nat, ShowProgress
  PROVE  /\ shown' \in [Kinds -> Entries \cup {Empty}]
         /\ \A kind \in Kinds : shown'[kind] # shown[kind] =>
              \E op \in ops : /\ kind = "performance" /\ IsCurrent(op)
                              /\ shown'[kind] = Result(op, measured')
                              /\ op.kind = "performance"
<1> DEFINE current == {op \in ops : op.kind = "performance" /\ IsCurrent(op)}
<1>1. shown' = IF measured' > measured
               THEN [shown EXCEPT !["performance"] =
                       IF current = {} THEN @
                       ELSE Result(CHOOSE op \in current : TRUE, measured')]
               ELSE shown
  BY DEF ShowProgress
<1>2. \A op \in current : Result(op, measured') \in Entries
  BY DEF LabInv, LabTypes, Operations, Entries, Result
<1>3. current # {} => (CHOOSE op \in current : TRUE) \in current
  OBVIOUS
<1>4. \A op \in current : op \in ops /\ op.kind = "performance" /\ IsCurrent(op)
  OBVIOUS
<1> HIDE DEF current
<1>5. shown' \in [Kinds -> Entries \cup {Empty}]
  BY <1>1, <1>2, <1>3 DEF LabInv, LabTypes
<1>6. ASSUME NEW kind \in Kinds, shown'[kind] # shown[kind]
      PROVE  \E op \in current :
               kind = "performance" /\ shown'[kind] = Result(op, measured')
  <2>1. kind = "performance" /\ current # {}
    BY <1>1, <1>6 DEF LabInv, LabTypes
  <2>2. shown'[kind] = Result(CHOOSE op \in current : TRUE, measured')
    BY <1>1, <1>6, <2>1 DEF LabInv, LabTypes
  <2> QED BY <1>3, <2>1, <2>2
<1> QED
  BY <1>4, <1>5, <1>6

\* The result of a current operation has its inputs, and is not outdated.
LEMMA CurrentResult ==
  ASSUME LabInv, NEW op \in ops, IsCurrent(op), NEW samples
  PROVE  /\ Result(op, samples).by = op.id
         /\ Result(op, samples).value = input[ViewOf(op.kind)]
         /\ op.id = sequence /\ op.id \notin outdated /\ busy = op.kind
<1>1. op.id = sequence /\ op.signature[2] = input /\ busy = op.kind
  BY DEF IsCurrent, LabInv, OpsInv, Signature
<1>2. op.id \notin outdated /\ op.id \in Nat
  BY <1>1 DEF LabInv, LabTypes, OpsInv, Operations
<1>3. op.value = input[ViewOf(op.kind)]
  BY <1>1 DEF LabInv, OpsInv
<1> QED
  BY <1>1, <1>2, <1>3 DEF Result

LEMMA ProgressKeeps ==
  ASSUME LabInv, RInv', RunStep, ShowProgress
  PROVE  LabInv'
<1>1. measured' \in Nat
  BY DEF RInv, RunnerTypeOK
<1>2. /\ shown' \in [Kinds -> Entries \cup {Empty}]
      /\ \A kind \in Kinds : shown'[kind] # shown[kind] =>
           \E op \in ops : /\ kind = "performance" /\ IsCurrent(op)
                           /\ shown'[kind] = Result(op, measured')
                           /\ op.kind = "performance"
  BY <1>1, ProgressShows
<1>3. /\ UNCHANGED <<view, input, busy, sequence, ops, performanceRun,
                     performanceHistory, mounted, actions, outdated>>
      /\ performanceCanceling' \in BOOLEAN
      /\ performanceCanceling' => performanceCanceling
  BY DEF ShowProgress
<1>4. LabTypes'
  BY <1>2, <1>3 DEF LabInv, LabTypes
<1>5. OpsInv'
  BY <1>3 DEF LabInv, OpsInv, Signature
<1>6. \A kind \in Kinds :
        shown'[kind] # Empty => shown'[kind].value = input[ViewOf(kind)]
  BY <1>2, CurrentResult DEF LabInv, ShownInv
<1>7. ShownInv'
  BY <1>3, <1>6 DEF LabInv, ShownInv
<1>8. OwnedInv'
  BY <1>3, RunStepOwnsNothing DEF LabInv, OwnedInv
<1> QED
  BY <1>4, <1>5, <1>7, <1>8 DEF LabInv

\* The history with a new first entry, as long as it may be.
LEMMA HistoryGrows ==
  ASSUME LabTypes, NEW entry \in Entries,
         performanceHistory' =
           SubSeq(<<entry>> \o performanceHistory, 1,
                  Min({MaxHistory, Len(performanceHistory) + 1}))
  PROVE  /\ performanceHistory' \in Seq(Entries)
         /\ Len(performanceHistory') <= MaxHistory
         /\ \A n \in 1..Len(performanceHistory') :
              \/ performanceHistory'[n] = entry
              \/ \E k \in 1..Len(performanceHistory) :
                   performanceHistory'[n] = performanceHistory[k]
<1> DEFINE longer == <<entry>> \o performanceHistory
           size == Min({MaxHistory, Len(performanceHistory) + 1})
<1>1. performanceHistory \in Seq(Entries) /\ MaxHistory \in Nat \ {0}
  BY LabAssumption DEF LabTypes
<1>2. /\ longer \in Seq(Entries) /\ Len(longer) = Len(performanceHistory) + 1
      /\ Len(performanceHistory) \in Nat
      /\ \A n \in 1..Len(longer) :
           longer[n] = IF n = 1 THEN entry ELSE performanceHistory[n - 1]
  BY <1>1
<1>3. size \in {MaxHistory, Len(performanceHistory) + 1}
  BY <1>1, <1>2, SmallerOfTwo
<1>4. size <= MaxHistory /\ size <= Len(longer)
  <2>1. \E x \in {MaxHistory, Len(performanceHistory) + 1} :
          \A y \in {MaxHistory, Len(performanceHistory) + 1} : x <= y
    BY <1>1, <1>2, SMT
  <2> QED BY <1>2, <2>1 DEF Min
<1>5. performanceHistory' = SubSeq(longer, 1, size) /\ size \in Nat \ {0}
  BY <1>1, <1>2, <1>3
<1> HIDE DEF longer, size
<1>6. /\ performanceHistory' \in Seq(Entries) /\ Len(performanceHistory') = size
      /\ \A n \in 1..size : performanceHistory'[n] = longer[n]
  <2>1. size \in 1..Len(longer) /\ Len(longer) \in Nat
    BY <1>2, <1>4, <1>5
  <2>2. \A k \in 1..size : longer[k] \in Entries
    BY <1>2, <2>1
  <2>3. /\ SubSeq(longer, 1, size) \in Seq(Entries)
        /\ Len(SubSeq(longer, 1, size)) = IF 1 <= size THEN size - 1 + 1 ELSE 0
        /\ \A k \in 1..size - 1 + 1 : SubSeq(longer, 1, size)[k] = longer[1 + k - 1]
    BY <1>5, <2>2, SubSeqProperties
  <2>4. size - 1 + 1 = size /\ 1 <= size /\ \A k \in 1..size : 1 + k - 1 = k
    BY <1>5
  <2> QED BY <1>5, <2>3, <2>4, Zenon
<1> SUFFICES ASSUME NEW n \in 1..Len(performanceHistory')
             PROVE  \/ performanceHistory'[n] = entry
                    \/ \E k \in 1..Len(performanceHistory) :
                         performanceHistory'[n] = performanceHistory[k]
  BY <1>4, <1>6
<1>7. n \in 1..Len(longer) /\ performanceHistory'[n] = longer[n]
  BY <1>2, <1>4, <1>5, <1>6
<1>8. CASE n # 1
  <2>1. n - 1 \in 1..Len(performanceHistory)
    BY <1>2, <1>7, <1>8
  <2> QED BY <1>2, <1>7, <1>8, <2>1
<1> QED
  BY <1>2, <1>7, <1>8

LEMMA RunReturnedKeeps ==
  ASSUME LabInv, RInv, NEW op \in ops, RunReturned(op)
  PROVE  LabInv'
<1> DEFINE entry == Result(op, measured)
<1>1. /\ ops' = ops \ {op} /\ op.kind = "performance" /\ main = "finished"
      /\ UNCHANGED <<view, input, sequence, mounted, actions, outdated>>
      /\ UNCHANGED runnerVars
      /\ busy' = IF IsCurrent(op) THEN "no" ELSE busy
  BY DEF RunReturned
<1>2. /\ OpsInv' /\ ops' \subseteq Operations /\ busy' \in Kinds \cup {"no"}
      /\ mounted' /\ busy' # "no" =>
           \E other \in ops' : other.kind = busy' /\ other.id = sequence'
      /\ IsCurrent(op) => /\ op.id = sequence /\ busy = op.kind
                          /\ op.id \notin outdated
                          /\ \A other \in ops' : other.id # op.id
  BY <1>1, ReturnKeepsOps
<1>3. entry \in Entries /\ entry.by = op.id /\ entry.value = op.value
  BY DEF LabInv, LabTypes, Operations, Entries, Result, RInv, RunnerTypeOK
<1>4. CASE ~IsCurrent(op)
  <2>1. UNCHANGED <<busy, performanceRun, performanceCanceling, shown,
                    performanceHistory>>
    BY <1>4 DEF RunReturned
  <2>2. LabTypes'
    BY <1>1, <1>2, <2>1 DEF LabInv, LabTypes
  <2>3. ShownInv'
    BY <1>1, <2>1 DEF LabInv, ShownInv
  <2>4. OwnedInv'
    BY <1>1, <1>2, <2>1 DEF LabInv, OwnedInv, Going, runnerVars, stopVars
  <2> QED BY <1>2, <2>2, <2>3, <2>4 DEF LabInv
<1>5. CASE IsCurrent(op)
  <2>1. /\ busy' = "no" /\ performanceRun' = FALSE /\ performanceCanceling' = FALSE
        /\ shown' = [shown EXCEPT !["performance"] =
                       IF measured > 0 THEN entry ELSE Empty]
        /\ performanceHistory' =
             IF measured > 0
             THEN SubSeq(<<entry>> \o performanceHistory, 1,
                         Min({MaxHistory, Len(performanceHistory) + 1}))
             ELSE performanceHistory
    BY <1>5 DEF RunReturned
  <2> HIDE DEF entry
  <2>2. shown' \in [Kinds -> Entries \cup {Empty}]
    BY <1>3, <2>1 DEF LabInv, LabTypes
  <2>3. /\ performanceHistory' \in Seq(Entries)
        /\ Len(performanceHistory') <= MaxHistory
        /\ \A n \in 1..Len(performanceHistory') :
             \/ performanceHistory'[n] = entry
             \/ \E k \in 1..Len(performanceHistory) :
                  performanceHistory'[n] = performanceHistory[k]
    <3>1. CASE measured > 0
      BY <1>3, <2>1, <3>1, HistoryGrows DEF LabInv
    <3>2. CASE ~(measured > 0)
      BY <2>1, <3>2 DEF LabInv, LabTypes
    <3> QED BY <3>1, <3>2
  <2>4. performanceRun' \in BOOLEAN /\ performanceCanceling' \in BOOLEAN
    BY <2>1
  <2>5. LabTypes'
    BY <1>1, <1>2, <2>2, <2>3, <2>4 DEF LabInv, LabTypes
  <2>6. op.value = input["performance"] /\ ViewOf("performance") = "performance"
    BY <1>1, <1>5, CurrentResult, KindFacts DEF Result
  <2>7. \A kind \in Kinds :
          shown'[kind] # Empty => shown'[kind].value = input'[ViewOf(kind)]
    BY <1>1, <1>3, <2>1, <2>6 DEF LabInv, LabTypes, ShownInv
  <2>8. \A n \in 1..Len(performanceHistory') :
          /\ performanceHistory'[n].by <= sequence'
          /\ performanceHistory'[n].by \notin outdated'
          /\ \A other \in ops' : performanceHistory'[n].by # other.id
    <3> SUFFICES ASSUME NEW n \in 1..Len(performanceHistory')
                 PROVE  /\ performanceHistory'[n].by <= sequence'
                        /\ performanceHistory'[n].by \notin outdated'
                        /\ \A other \in ops' : performanceHistory'[n].by # other.id
      OBVIOUS
    <3>1. CASE performanceHistory'[n] = entry
      BY <1>1, <1>2, <1>3, <1>5, <3>1 DEF LabInv, LabTypes
    <3>2. CASE \E k \in 1..Len(performanceHistory) :
                 performanceHistory'[n] = performanceHistory[k]
      BY <1>1, <3>2 DEF LabInv, ShownInv
    <3> QED BY <2>3, <3>1, <3>2
  <2>9. ShownInv'
    BY <2>7, <2>8 DEF ShownInv
  <2>10. OwnedInv'
    BY <1>1, <2>1 DEF OwnedInv, Going, runnerVars
  <2> QED BY <1>2, <2>5, <2>9, <2>10 DEF LabInv
<1> QED
  BY <1>4, <1>5

LEMMA StopPerformanceKeeps == ASSUME LabInv, StopPerformance PROVE LabInv'
<1>1. /\ UNCHANGED <<view, input, shown, busy, sequence, ops, performanceRun,
                     performanceHistory, mounted, outdated>>
      /\ actions' \in Nat /\ performanceCanceling' \in BOOLEAN
      /\ busy = "performance" /\ main' = main /\ disposed' = disposed
  BY DEF StopPerformance, Act, Stop, LabInv, LabTypes
<1>2. LabTypes' /\ OpsInv' /\ ShownInv'
  BY <1>1 DEF LabInv, LabTypes, OpsInv, Signature, ShownInv
<1>3. OwnedInv'
  BY <1>1 DEF LabInv, OwnedInv, Going
<1> QED
  BY <1>2, <1>3 DEF LabInv

LEMMA LoadHistoryKeeps ==
  ASSUME LabInv, NEW n \in 1..Len(performanceHistory), LoadHistory(n)
  PROVE  LabInv'
<1> DEFINE entry == performanceHistory[n]
<1>1. entry \in Entries /\ entry.value \in Values
  BY HistoryFacts DEF LabInv
<1>2. /\ input' = [input EXCEPT !["performance"] = entry.value]
      /\ shown' = [shown EXCEPT !["performance"] = entry]
      /\ busy = "no" /\ actions' \in Nat /\ UNCHANGED runnerVars
      /\ UNCHANGED <<view, busy, sequence, ops, performanceRun, performanceCanceling,
                     performanceHistory, mounted, outdated>>
  BY DEF LoadHistory, Act, LabInv, LabTypes
<1> HIDE DEF entry
<1>3. input' \in Inputs /\ shown' \in [Kinds -> Entries \cup {Empty}]
  BY <1>1, <1>2 DEF LabInv, LabTypes, Inputs
<1>4. LabTypes'
  BY <1>2, <1>3 DEF LabInv, LabTypes
<1>5. \A op \in ops : op.kind # "no"
  BY KindFacts DEF LabInv, LabTypes, Operations
<1>6. OpsInv'
  BY <1>2, <1>5 DEF LabInv, OpsInv
<1>7. \A kind \in Kinds :
        kind # "performance" => ViewOf(kind) # "performance"
  BY LabAssumption DEF Kinds, ViewOf
<1>8. \A kind \in Kinds :
        shown'[kind] # Empty => shown'[kind].value = input'[ViewOf(kind)]
  BY <1>1, <1>2, <1>7, KindFacts DEF LabInv, LabTypes, Inputs, ShownInv
<1>9. ShownInv'
  BY <1>2, <1>8 DEF LabInv, ShownInv
<1>10. OwnedInv'
  BY <1>2 DEF LabInv, OwnedInv, Going, runnerVars, stopVars
<1> QED
  BY <1>4, <1>6, <1>9, <1>10 DEF LabInv

-----------------------------------------------------------------------------
(* The workspace and its run *)

\* Steps of the user that start nothing, and steps about the run.
InputStep ==
  \/ \E value \in Values : Change(value)
  \/ \E next \in Views : SelectView(next)
  \/ ChangeLocale \/ Unmount \/ ClearBaseline
TestStep ==
  \/ RunPerformance \/ StopPerformance \/ (RunStep /\ ShowProgress)
  \/ \E op \in ops : RunReturned(op)
  \/ \E n \in 1..Len(performanceHistory) : LoadHistory(n)

LEMMA StepCases ==
  [Next]_vars => \/ UNCHANGED vars
                 \/ InputStep \/ TestStep
                 \/ \E kind \in Kinds : Call(kind)
                 \/ \E op \in ops, ok \in BOOLEAN : Returned(op, ok)
BY Zenon DEF Next, InputStep, TestStep

\* Every step of the workspace is a step of the runner, or leaves it alone.
LEMMA LabStepsRun == [Next]_vars => [RunnerNext]_runnerVars
<1> SUFFICES ASSUME [Next]_vars PROVE [RunnerNext]_runnerVars
  OBVIOUS
<1>1. CASE UNCHANGED vars
  BY <1>1 DEF vars
<1>2. CASE Invalidate \/ Unmount
  BY <1>2 DEF Invalidate, Unmount, DisposeRun, RunnerNext
<1>3. CASE InputStep
  BY <1>2, <1>3 DEF InputStep, Change, SelectView, ChangeLocale, ClearBaseline
<1>4. CASE \E kind \in Kinds : Call(kind)
  BY <1>4 DEF Call
<1>5. CASE \E op \in ops, ok \in BOOLEAN : Returned(op, ok)
  BY <1>5 DEF Returned
<1>6. CASE TestStep
  BY <1>6 DEF TestStep, RunPerformance, StopPerformance, RunReturned, LoadHistory,
              RunnerNext
<1> QED
  BY <1>1, <1>3, <1>4, <1>5, <1>6, StepCases, Zenon

LEMMA NextLabInv == LabInv /\ RInv /\ [Next]_vars => LabInv' /\ RInv'
<1> SUFFICES ASSUME LabInv, RInv, [Next]_vars PROVE LabInv' /\ RInv'
  OBVIOUS
<1>1. RInv'
  BY LabStepsRun, NextRInv
<1>2. CASE UNCHANGED vars
  <2>1. UNCHANGED labVars /\ main' = main /\ disposed' = disposed
    BY <1>2 DEF vars, runnerVars, stopVars
  <2>2. LabTypes' /\ OpsInv'
    BY <2>1 DEF labVars, LabInv, LabTypes, OpsInv, Signature
  <2>3. ShownInv' /\ OwnedInv'
    BY <2>1 DEF labVars, LabInv, ShownInv, OwnedInv, Going
  <2> QED BY <1>1, <2>2, <2>3 DEF LabInv
<1>3. CASE InputStep
  BY <1>1, <1>3, ChangeKeeps, SelectKeeps, UnmountKeeps, ClearBaselineKeeps
     DEF InputStep
<1>4. CASE \E kind \in Kinds : Call(kind)
  BY <1>1, <1>4, CallKeeps
<1>5. CASE \E op \in ops, ok \in BOOLEAN : Returned(op, ok)
  BY <1>1, <1>5, ReturnedKeeps
<1>6. CASE TestStep
  BY <1>1, <1>6, RunPerformanceKeeps, StopPerformanceKeeps, ProgressKeeps,
     RunReturnedKeeps, LoadHistoryKeeps DEF TestStep
<1> QED
  BY <1>2, <1>3, <1>4, <1>5, <1>6, StepCases, Zenon

LEMMA InitLabAll == Init => LabInv /\ RInv
BY InitLabInv, InitRInv DEF Init

LEMMA AlwaysLabInv == Spec => [](LabInv /\ RInv)
BY InitLabAll, NextLabInv, PTL DEF Spec

\* The workspace uses the runner as PerformanceRunner says it is used: it calls
\* it when no run goes on, and stops and disposes of a run through its handle.
THEOREM LabRunsTheRunner == Spec => RunnerSpec
<1>1. Init => RunnerInit
  BY DEF Init
<1> QED
  BY <1>1, LabStepsRun, PTL DEF Spec, RunnerSpec

\* What is proved of the runner holds of the runs of the workspace.
THEOREM LabSamplesAddUp == Spec => []SamplesExact /\ StopIsFinal
BY LabRunsTheRunner, SamplesAddUp, StopsAreFinal, PTL

\* When the workspace disposes of a run nothing refuses it: a handle that is
\* held belongs to a run that goes on, once no continuation is left to run.
LEMMA HandleIsLive ==
  LabInv /\ performanceRun /\ Settled => Going /\ ~disposed
<1> SUFFICES ASSUME LabInv, performanceRun, Settled PROVE Going /\ ~disposed
  OBVIOUS
<1>1. /\ mounted /\ busy = "performance" /\ ~disposed /\ main # "none"
      /\ \E op \in ops : op.kind = "performance"
  BY DEF LabInv, OwnedInv
<1> QED
  BY <1>1 DEF Settled, Going

\* A busy workspace waits for an operation that will clear it, and a run that
\* still sends requests is the one the workspace can stop (startOperation,
\* finishOperation, invalidatePendingOperation, runURLPerformanceTest).
THEOREM LabWorkIsOwned == Spec => []WorkIsOwned
<1>1. LabInv /\ RInv => WorkIsOwned
  <2> SUFFICES ASSUME LabInv, RInv PROVE WorkIsOwned
    OBVIOUS
  <2>1. \A op \in ops : op.id \in 1..sequence /\ op.kind \in Kinds
    BY DEF LabInv, LabTypes, OpsInv, Operations
  <2>2. outdated \subseteq 1..sequence
    BY DEF LabInv, LabTypes, OpsInv
  <2>3. DOMAIN input = AllViews /\ \A v \in AllViews : input[v] \in Values
    BY DEF LabInv, LabTypes, Inputs
  <2>4. {performanceRun, performanceCanceling, mounted} \subseteq BOOLEAN
    BY DEF LabInv, LabTypes
  <2>5. LabTypeOK
    BY <2>1, <2>2, <2>3, <2>4 DEF LabTypeOK, LabInv, LabTypes, RInv, AllViews
  <2>6. mounted /\ busy # "no" => \E op \in ops : op.kind = busy /\ IsCurrent(op)
    BY DEF LabInv, OpsInv, OwnedInv, IsCurrent
  <2>7. /\ Going /\ ~disposed => mounted /\ performanceRun /\ busy = "performance"
        /\ performanceCanceling => busy = "performance"
    BY DEF LabInv, OwnedInv
  <2> QED BY <2>5, <2>6, <2>7 DEF WorkIsOwned
<1> QED
  BY <1>1, AlwaysLabInv, PTL

ShownStep ==
  /\ \A kind \in Kinds : shown'[kind] \notin {shown[kind], Empty} =>
       shown'[kind].by \notin outdated
  /\ \A kind \in Kinds : shown'[kind] # Empty =>
       shown'[kind].value = input'[ViewOf(kind)]
  /\ \A n \in 1..Len(performanceHistory') :
       performanceHistory'[n].by \notin outdated

\* What comes to be displayed is not outdated.
LEMMA NewIsNotOutdated ==
  ASSUME LabInv, RInv', Next, NEW kind \in Kinds,
         shown'[kind] \notin {shown[kind], Empty}
  PROVE  shown'[kind].by \notin outdated
<1>1. CASE \/ InputStep \/ RunPerformance \/ StopPerformance
          \/ \E other \in Kinds : Call(other)
  <2>1. shown' = shown \/ \E kinds : shown' = Cleared(kinds)
    BY <1>1 DEF InputStep, Change, SelectView, ChangeLocale, Unmount, ClearBaseline,
                RunPerformance, StopPerformance, Call
  <2> QED BY <2>1 DEF Cleared
<1>2. CASE \E op \in ops, ok \in BOOLEAN : Returned(op, ok)
  <2> PICK op \in ops, ok \in BOOLEAN : Returned(op, ok)
    BY <1>2
  <2>1. IsCurrent(op) /\ shown'[kind] = Result(op, 0)
    BY DEF Returned
  <2> QED BY <2>1, CurrentResult
<1>3. CASE RunStep /\ ShowProgress
  <2>1. measured' \in Nat
    BY DEF RInv, RunnerTypeOK
  <2>2. \E op \in ops : IsCurrent(op) /\ shown'[kind] = Result(op, measured')
    BY <1>3, <2>1, ProgressShows
  <2> QED BY <2>2, CurrentResult
<1>4. CASE \E op \in ops : RunReturned(op)
  <2> PICK op \in ops : RunReturned(op)
    BY <1>4
  <2>1. IsCurrent(op) /\ shown'[kind] = Result(op, measured)
    BY DEF RunReturned, LabInv, LabTypes
  <2> QED BY <2>1, CurrentResult
<1>5. CASE \E n \in 1..Len(performanceHistory) : LoadHistory(n)
  BY <1>5 DEF LoadHistory, LabInv, LabTypes, ShownInv
<1>6. CASE UNCHANGED vars
  BY <1>6 DEF vars, labVars
<1> QED
  BY <1>1, <1>2, <1>3, <1>4, <1>5, <1>6, StepCases, Zenon DEF TestStep

LEMMA OutdatedGrows == Next => outdated \subseteq outdated'
BY DEF Next, Change, SelectView, ChangeLocale, Unmount, ClearBaseline, RunPerformance,
       StopPerformance, Call, Returned, ShowProgress, RunReturned, LoadHistory,
       Invalidate

LEMMA StepShowsCurrent ==
  LabInv /\ RInv /\ LabInv' /\ RInv' /\ [Next]_vars => [ShownStep]_vars
<1> SUFFICES ASSUME LabInv, LabInv', RInv', Next PROVE ShownStep
  OBVIOUS
<1>1. \A kind \in Kinds : shown'[kind] \notin {shown[kind], Empty} =>
        shown'[kind].by \notin outdated
  BY NewIsNotOutdated
<1>2. \A kind \in Kinds : shown'[kind] # Empty =>
        shown'[kind].value = input'[ViewOf(kind)]
  BY DEF LabInv, ShownInv
<1>3. \A n \in 1..Len(performanceHistory') : performanceHistory'[n].by \notin outdated
  BY OutdatedGrows DEF LabInv, ShownInv
<1> QED
  BY <1>1, <1>2, <1>3 DEF ShownStep

\* No late answer repopulates the workspace: what comes to be displayed or is
\* kept as an earlier run was not made stale while it was computed, and a
\* result is displayed with its inputs (isCurrentOperation and its callers).
THEOREM LabShowsWhatIsCurrent == Spec => ShownIsCurrent
<1>1. ShownIsCurrent <=> [][ShownStep]_vars
  BY DEF ShownIsCurrent, ShownStep
<1> QED
  BY <1>1, AlwaysLabInv, StepShowsCurrent, PTL DEF Spec
=============================================================================
