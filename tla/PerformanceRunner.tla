-------------------------- MODULE PerformanceRunner ---------------------------
(***************************************************************************)
(* runPerformanceTest (features/performance/runner.ts): workers that send  *)
(* the samples of a warm-up phase and of a measured phase, and that can be *)
(* stopped, resumed when the backend refuses the stop, and disposed of.    *)
(*                                                                         *)
(* What runs between two awaits of a worker, of stop() or of the           *)
(* completion is one step.  Promise continuations run in any order here,   *)
(* but all of them before the next answer, timer or click (Quiet): the     *)
(* event loop of the renderer drains them first.  Time is a deadline that  *)
(* has passed or not.                                                      *)
(***************************************************************************)
EXTENDS Integers, FiniteSets, FiniteSetsExt

CONSTANTS
  Concurrency,   \* options.concurrency: workers of a phase
  Warmup,        \* options.warmupSamples
  SampleCount,
  MaxCancels,    \* cancellations under way at a time, 4 in the code
  MaxRuns,       \* bound: calls of runPerformanceTest
  MaxStops       \* bound: calls of stop() that begin an attempt, in all runs

ASSUME RunnerAssumption ==
  /\ Concurrency \in Nat \ {0} /\ Warmup \in Nat /\ SampleCount \in Nat \ {0}
  /\ MaxCancels \in Nat \ {0} /\ MaxRuns \in Nat /\ MaxStops \in Nat

Workers == 1..Concurrency

VARIABLES
  main,          \* the completion: none, start, warmup, running, finished
  at,            \* where each worker is
  then,          \* which await of the worker asked ready(), or its outcome
  due,           \* the deadline given to ready() has passed
  assigned, completed,   \* of the phase under way
  warm,          \* warmupCompleted
  measured,      \* summary.completedSamples
  active,        \* workers whose request is in the map
  acknowledged,  \* workers whose last request was acknowledged as cancelled
  stopping, canceled, disposed,
  attempt,       \* stopAttempt is not undefined
  requests,      \* the requests stop() found
  unanswered,    \* those whose cancellation it still awaits
  queued,        \* cancellationQueue
  canceling,     \* cancellations sent to the backend
  runs, stops,
  sent, given    \* history: requests sent, samples given back, in this run

progressVars == <<assigned, completed, warm, measured>>
stopVars == <<stopping, canceled, disposed, attempt, requests, unanswered, stops>>
cancelVars == <<queued, canceling>>
runnerVars == <<main, at, then, due, progressVars, active, acknowledged, stopVars,
                cancelVars, runs, sent, given>>

Going == main \notin {"none", "finished"}
Count == IF main = "warmup" THEN Warmup ELSE SampleCount
PhaseFinished == completed >= Count

-----------------------------------------------------------------------------
(* Promises that are settled have continuations to run. *)

Runnable(w) == at[w] \in {"ready", "granted", "refused", "outcome", "released",
                          "counted", "given"}
PhaseEnded == main \in {"warmup", "running"} /\ \A w \in Workers : at[w] = "off"
\* Between the phases the completion awaits ready() while a stop is under way.
MainRunnable ==
  \/ main = "start"
  \/ PhaseEnded /\ (main = "running" \/ canceled \/ ~stopping)
StopSettled == attempt /\ unanswered = {}

Quiet == /\ \A w \in Workers : ~Runnable(w)
         /\ ~MainRunnable /\ ~StopSettled

\* Mutant: a worker that waits for a stop to end is not woken.
NobodyWoken(places) == places

\* wake, interruptDelays
Woken(places) == [w \in Workers |-> IF places[w] = "paused" THEN "ready" ELSE places[w]]
Interrupted(places) ==
  [w \in Workers |-> IF places[w] = "sleeping" THEN "ready" ELSE places[w]]
\* release: the race of sample() ends with null.
Released(places, ws) ==
  [w \in Workers |-> IF w \in ws /\ places[w] = "request" THEN "released" ELSE places[w]]

\* pumpCancellations, which takes them in the order they came; here in any.
Pump(waiting, under) ==
  \E next \in kSubset(Min({Cardinality(waiting), MaxCancels - Cardinality(under)}), waiting) :
    /\ queued' = waiting \ next
    /\ canceling' = under \cup next

-----------------------------------------------------------------------------
(* Workers *)

\* The loop of ready(): what it returns or waits for.
ReadyOutcome(w) ==
  IF canceled \/ disposed \/ (then[w] # "sample" /\ PhaseFinished) THEN "refused"
  ELSE IF stopping THEN "paused"
  ELSE IF due[w] THEN "granted" ELSE "sleeping"

Ready(w) ==
  /\ at[w] = "ready"
  /\ at' = [at EXCEPT ![w] = ReadyOutcome(w)]
  /\ UNCHANGED <<main, then, due, progressVars, active, acknowledged, stopVars,
                 cancelVars, runs, sent, given>>

\* await ready(...) with a deadline of now, or one that a delay puts off.
Await(w, purpose, deadlines) ==
  /\ at' = [at EXCEPT ![w] = "ready"]
  /\ then' = [then EXCEPT ![w] = purpose]
  /\ \E d \in deadlines : due' = [due EXCEPT ![w] = d]

\* The ramp, or the delay after a sample, is over: the loop asks.  When it was
\* told to go on and finds the run stopping or cancelled, it asks again.
AskToGoOn(w) ==
  /\ at[w] = "granted" /\ then[w] # "sample"
  /\ then[w] = "loop" => stopping \/ canceled
  /\ Await(w, "loop", {TRUE})
  /\ UNCHANGED <<main, progressVars, active, acknowledged, stopVars, cancelVars,
                 runs, sent, given>>

Assign(w) ==
  /\ at[w] = "granted" /\ then[w] = "loop"
  /\ ~stopping /\ ~canceled
  /\ assigned < Count
  /\ at' = [at EXCEPT ![w] = "request"]
  /\ assigned' = assigned + 1
  /\ active' = active \cup {w}
  /\ acknowledged' = acknowledged \ {w}
  /\ sent' = sent + 1
  /\ UNCHANGED <<main, then, due, completed, warm, measured, stopVars, cancelVars,
                 runs, given>>

\* The worker has nothing left to do, or was refused.
Leave(w) ==
  /\ \/ at[w] = "granted" /\ then[w] = "loop" /\ ~stopping /\ ~canceled /\ assigned >= Count
     \/ at[w] = "refused" /\ then[w] # "sample"
  /\ at' = [at EXCEPT ![w] = "off"]
  /\ UNCHANGED <<main, then, due, progressVars, active, acknowledged, stopVars,
                 cancelVars, runs, sent, given>>

\* The backend answers analyze, with a result or an error.
Respond(w) ==
  /\ Quiet
  /\ at[w] = "request"
  /\ at' = [at EXCEPT ![w] = "outcome"]
  /\ UNCHANGED <<main, then, due, progressVars, active, acknowledged, stopVars,
                 cancelVars, runs, sent, given>>

\* The race is over.
Outcome(w) ==
  /\ at[w] \in {"outcome", "released"}
  /\ active' = active \ {w}
  /\ IF at[w] = "outcome"
     THEN Await(w, "sample", {TRUE})
     ELSE at' = [at EXCEPT ![w] = "given"] /\ UNCHANGED <<then, due>>
  /\ UNCHANGED <<main, progressVars, acknowledged, stopVars, cancelVars, runs,
                 sent, given>>

\* Mutant: an answer counts though its request was acknowledged as cancelled.
CountsAnyAnswer(w) == TRUE

\* sample() after its ready(): the response is counted, or given back.
Countable(w) == w \notin acknowledged

CountSample(w) ==
  /\ at[w] = "granted" /\ then[w] = "sample"
  /\ Countable(w)
  /\ at' = [at EXCEPT ![w] = "counted"]
  /\ IF main = "warmup" THEN warm' = warm + 1 /\ UNCHANGED measured
                        ELSE measured' = measured + 1 /\ UNCHANGED warm
  /\ UNCHANGED <<main, then, due, assigned, completed, active, acknowledged,
                 stopVars, cancelVars, runs, sent, given>>

DiscardSample(w) ==
  /\ \/ at[w] = "granted" /\ then[w] = "sample" /\ ~Countable(w)
     \/ at[w] = "refused" /\ then[w] = "sample"
  /\ at' = [at EXCEPT ![w] = "given"]
  /\ UNCHANGED <<main, then, due, progressVars, active, acknowledged, stopVars,
                 cancelVars, runs, sent, given>>

\* Mutant: the place of a discarded sample is not given back.
GiveBackNothing(w) == assigned

GivenBack(w) == assigned - 1

\* The worker after its sample: it leaves, or awaits the delay.
Continue(w, places) ==
  IF canceled \/ disposed \/ assigned' >= Count
  THEN at' = [places EXCEPT ![w] = "off"] /\ UNCHANGED <<then, due>>
  ELSE /\ at' = [places EXCEPT ![w] = "ready"]
       /\ then' = [then EXCEPT ![w] = "delay"]
       /\ \E d \in BOOLEAN : due' = [due EXCEPT ![w] = d]

GiveBack(w) ==
  /\ at[w] = "given"
  /\ assigned' = GivenBack(w)
  /\ given' = given + 1
  /\ Continue(w, at)
  /\ UNCHANGED <<main, completed, warm, measured, active, acknowledged, stopVars,
                 cancelVars, runs, sent>>

\* The last sample of the phase wakes the workers that sleep or wait.
Complete(w) ==
  /\ at[w] = "counted"
  /\ completed' = completed + 1
  /\ UNCHANGED assigned
  /\ Continue(w, IF completed' >= Count THEN Woken(Interrupted(at)) ELSE at)
  /\ UNCHANGED <<main, warm, measured, active, acknowledged, stopVars, cancelVars,
                 runs, sent, given>>

\* A ramp or a delay is over, also while the worker waits for a stop to end.
DeadlinePasses(w) ==
  /\ Quiet
  /\ at[w] \in {"sleeping", "paused"} /\ ~due[w]
  /\ due' = [due EXCEPT ![w] = TRUE]
  /\ at' = IF at[w] = "sleeping" THEN [at EXCEPT ![w] = "ready"] ELSE at
  /\ UNCHANGED <<main, then, progressVars, active, acknowledged, stopVars,
                 cancelVars, runs, sent, given>>

-----------------------------------------------------------------------------
(* The completion *)

\* A call of runPerformanceTest.  A run that is over leaves at most
\* cancellations whose answers nothing reads.
Begin ==
  /\ main \in {"none", "finished"} /\ Quiet
  /\ runs < MaxRuns
  /\ runs' = runs + 1
  /\ main' = "start"
  /\ at' = [w \in Workers |-> "off"]
  /\ then' = [w \in Workers |-> "ramp"]
  /\ due' = [w \in Workers |-> TRUE]
  /\ assigned' = 0 /\ completed' = 0 /\ warm' = 0 /\ measured' = 0
  /\ sent' = 0 /\ given' = 0
  /\ active' = {} /\ acknowledged' = {}
  /\ stopping' = FALSE /\ canceled' = FALSE /\ disposed' = FALSE
  /\ attempt' = FALSE /\ requests' = {} /\ unanswered' = {}
  /\ queued' = {} /\ canceling' = {}
  /\ UNCHANGED stops

\* runPhase starts its workers: the first sends at once, the others after the
\* ramp of a measured phase.
RunPhase(phase, count) ==
  /\ main' = phase
  /\ assigned' = 0 /\ completed' = 0
  /\ LET crew == 1..Min({Concurrency, count}) IN
     /\ at' = [w \in Workers |-> IF w \in crew THEN "ready" ELSE "off"]
     /\ then' = [w \in Workers |-> "ramp"]
     /\ \E d \in [Workers -> BOOLEAN] :
          /\ \A w \in Workers : phase = "warmup" \/ w = 1 \/ w \notin crew => d[w]
          /\ due' = d
  /\ UNCHANGED <<warm, measured, active, acknowledged, stopVars, cancelVars, runs,
                 sent, given>>

StartWarmup == main = "start" /\ Warmup > 0 /\ RunPhase("warmup", Warmup)

StartMeasuring ==
  /\ (main = "warmup" /\ PhaseEnded) \/ (main = "start" /\ Warmup = 0)
  /\ ~canceled /\ ~stopping
  /\ RunPhase("running", SampleCount)

\* The workers have returned: from the measured phase, or cancelled.
Finish ==
  /\ PhaseEnded
  /\ main = "running" \/ canceled
  /\ main' = "finished"
  /\ UNCHANGED <<at, then, due, progressVars, active, acknowledged, stopVars,
                 cancelVars, runs, sent, given>>

-----------------------------------------------------------------------------
(* stop() and dispose() *)

\* A click.  A call while an attempt is under way returns that attempt.
Stop ==
  /\ Quiet /\ Going
  /\ ~canceled /\ ~attempt
  /\ stops < MaxStops
  /\ stops' = stops + 1
  /\ stopping' = TRUE /\ attempt' = TRUE
  /\ requests' = active /\ unanswered' = active
  /\ at' = Interrupted(at)
  /\ Pump(queued \cup active, canceling)
  /\ UNCHANGED <<main, then, due, progressVars, active, acknowledged, canceled,
                 disposed, runs, sent, given>>

\* The backend says whether it cancelled a request, or fails.  A request that
\* stop() asked for and that was cancelled is acknowledged and released.
CancelAnswered(w, accepted) ==
  /\ Quiet
  /\ w \in canceling
  /\ Pump(queued, canceling \ {w})
  /\ unanswered' = unanswered \ {w}
  /\ IF accepted /\ w \in unanswered
     THEN /\ acknowledged' = acknowledged \cup {w}
          /\ at' = Released(at, {w})
          /\ active' = active \ {w}
     ELSE UNCHANGED <<acknowledged, at, active>>
  /\ UNCHANGED <<main, then, due, progressVars, stopping, canceled, disposed,
                 attempt, requests, stops, runs, sent, given>>

\* stop() succeeds when every request it found has ended: one that was
\* acknowledged was taken out of the map too.
Stopped == disposed \/ requests \cap active = {}

StopEnds ==
  /\ StopSettled
  /\ canceled' = (canceled \/ Stopped)
  /\ stopping' = FALSE /\ attempt' = FALSE
  /\ at' = Woken(at)
  /\ UNCHANGED <<main, then, due, progressVars, active, acknowledged, disposed,
                 requests, unanswered, stops, cancelVars, runs, sent, given>>

Dispose ==
  /\ Quiet /\ Going /\ ~disposed
  /\ disposed' = TRUE /\ canceled' = TRUE /\ stopping' = FALSE
  /\ at' = Released(Woken(Interrupted(at)), active)
  /\ active' = {}
  /\ Pump(queued \cup (active \ canceling), canceling)
  /\ UNCHANGED <<main, then, due, progressVars, acknowledged, attempt, requests,
                 unanswered, stops, runs, sent, given>>

-----------------------------------------------------------------------------

RunnerInit ==
  /\ main = "none"
  /\ at = [w \in Workers |-> "off"]
  /\ then = [w \in Workers |-> "ramp"]
  /\ due = [w \in Workers |-> TRUE]
  /\ assigned = 0 /\ completed = 0 /\ warm = 0 /\ measured = 0
  /\ sent = 0 /\ given = 0 /\ runs = 0 /\ stops = 0
  /\ active = {} /\ acknowledged = {}
  /\ stopping = FALSE /\ canceled = FALSE /\ disposed = FALSE
  /\ attempt = FALSE /\ requests = {} /\ unanswered = {}
  /\ queued = {} /\ canceling = {}

WorkerStep(w) ==
  \/ Ready(w) \/ AskToGoOn(w) \/ Assign(w) \/ Leave(w)
  \/ Outcome(w) \/ CountSample(w) \/ DiscardSample(w) \/ GiveBack(w) \/ Complete(w)

\* What the run does by itself, and what the backend and the timers do to it.
RunStep ==
  \/ StartWarmup \/ StartMeasuring \/ Finish \/ StopEnds
  \/ \E w \in Workers : WorkerStep(w)
  \/ \E w \in Workers : Respond(w) \/ DeadlinePasses(w)
  \/ \E w \in Workers, accepted \in BOOLEAN : CancelAnswered(w, accepted)

RunnerNext == Begin \/ RunStep \/ Stop \/ Dispose

RunnerSpec == RunnerInit /\ [][RunnerNext]_runnerVars

\* Promise continuations run, analyze returns (the backend bounds it with
\* timeoutMs), timers fire and the backend answers cancelToolOperation.
RunFairness ==
  /\ WF_runnerVars(StartWarmup \/ StartMeasuring \/ Finish \/ StopEnds)
  /\ \A w \in Workers :
       /\ WF_runnerVars(WorkerStep(w))
       /\ WF_runnerVars(Respond(w))
       /\ WF_runnerVars(DeadlinePasses(w))
       /\ WF_runnerVars(\E accepted \in BOOLEAN : CancelAnswered(w, accepted))

-----------------------------------------------------------------------------
(* Properties *)

RunnerTypeOK ==
  /\ main \in {"none", "start", "warmup", "running", "finished"}
  /\ at \in [Workers -> {"off", "ready", "paused", "sleeping", "granted", "refused",
                         "request", "outcome", "released", "counted", "given"}]
  /\ then \in [Workers -> {"ramp", "loop", "delay", "sample"}]
  /\ due \in [Workers -> BOOLEAN]
  /\ assigned \in Nat /\ completed \in Nat /\ warm \in Nat /\ measured \in Nat
  /\ sent \in Nat /\ given \in Nat /\ runs \in Nat /\ stops \in Nat
  /\ active \subseteq Workers /\ acknowledged \subseteq Workers
  /\ stopping \in BOOLEAN /\ canceled \in BOOLEAN
  /\ disposed \in BOOLEAN /\ attempt \in BOOLEAN
  /\ requests \subseteq Workers /\ unanswered \subseteq Workers
  /\ queued \subseteq Workers /\ canceling \subseteq Workers

\* Workers whose place is assigned, and neither complete nor given back.
InSample == {w \in Workers :
               \/ at[w] \in {"request", "outcome", "released", "counted", "given"}
               \/ then[w] = "sample" /\ at[w] \in {"ready", "paused", "granted", "refused"}}

\* Those of them whose sample is not counted yet.
Pending == {w \in InSample : at[w] # "counted"}

\* Every place of a phase is counted, being sampled or free again: samples that
\* are given back while others are counted neither lose a place nor take one
\* twice, no phase takes more than its count, and a run that ends without
\* being cancelled has every sample of both phases, whatever was stopped and
\* resumed on the way.  Every request sent is counted, given back or under way.
SamplesExact ==
  /\ main \in {"warmup", "running"} =>
       /\ assigned = completed + Cardinality(InSample)
       /\ assigned <= Count
  /\ sent = warm + measured + given + Cardinality(Pending)
  /\ main = "finished" /\ ~canceled => warm = Warmup /\ measured = SampleCount

\* A stop that succeeded, and disposal, are final: no request of the run is
\* left in the map or sent again, and nothing more is counted; and an answer
\* to a request that the backend acknowledged as cancelled is never counted.
StopIsFinal ==
  [][main' # "start" =>
       /\ canceled => /\ active' = {} /\ sent' = sent
                      /\ warm' = warm /\ measured' = measured /\ canceled'
       /\ \A w \in acknowledged : at'[w] = "counted" => at[w] = "counted"]_runnerVars

\* A run ends, stopped, resumed or left alone: no worker waits for a wake-up
\* that came before it waited, or for a place that nobody gives back.
RunEnds == []<>~Going
=============================================================================
