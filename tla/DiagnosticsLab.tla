---------------------------- MODULE DiagnosticsLab ----------------------------
(***************************************************************************)
(* The diagnostics workspace of the renderer                               *)
(* (native/features/diagnostics.ts), mounted with the views of the         *)
(* diagnostics or with the one of the performance test, whose run is       *)
(* PerformanceRunner.  A native call belongs to an operation; changing an  *)
(* input, the view or the language, and unmounting, make it stale.         *)
(*                                                                         *)
(* An event handler, with the render that ends it, is one step.  A new run *)
(* is confirmed in a modal dialog, so asking and confirming are one step.  *)
(***************************************************************************)
EXTENDS PerformanceRunner, Sequences

CONSTANTS
  Views,        \* views that call the backend: runtime and others
  Values,       \* what the inputs of a view can hold
  MaxHistory,   \* length of performanceHistory, 5 in the code
  MaxActions    \* bound: what the user does

ASSUME LabAssumption ==
  /\ "runtime" \in Views /\ {"baseline", "performance", "no"} \cap Views = {}
  /\ Values # {} /\ MaxHistory \in Nat \ {0} /\ MaxActions \in Nat

\* The results shown.  A metrics baseline is taken in the runtime view.
Kinds == Views \cup {"baseline", "performance"}
ViewOf(kind) == IF kind = "baseline" THEN "runtime" ELSE kind

VARIABLES
  view,         \* mode and threadMode
  input,        \* the inputs of each view
  shown,        \* the results displayed: 0, or the operation with its inputs
  busy,         \* the operation the controls are disabled for, or "no"
  sequence,     \* operationSequence
  ops,          \* operations whose call has not returned
  performanceRun,        \* the handle is set
  performanceCanceling,
  performanceHistory,
  mounted,
  actions,
  outdated      \* history: operations that were made stale under way

labVars == <<view, input, shown, busy, sequence, ops, performanceRun,
             performanceCanceling, performanceHistory, mounted, actions, outdated>>
vars == <<runnerVars, labVars>>

\* What is displayed: the operation, its inputs, and the samples of a run.
Result(op, samples) == [by |-> op.id, value |-> op.value, samples |-> samples]
Empty == [by |-> 0, value |-> 0, samples |-> 0]

\* No continuation is left to run: the completion of a run has one too.
Settled == Quiet /\ ~(main = "finished" /\ \E op \in ops : op.kind = "performance")

\* The user does something.
Act == /\ mounted /\ Settled
       /\ actions < MaxActions
       /\ actions' = actions + 1

-----------------------------------------------------------------------------
(* Operations *)

Signature == <<view, input>>

\* startOperation
Operation(kind) ==
  [id |-> sequence + 1, kind |-> kind, value |-> input[ViewOf(kind)],
   signature |-> Signature]

StartOperation(kind) ==
  /\ sequence' = sequence + 1
  /\ ops' = ops \cup {Operation(kind)}
  /\ busy' = kind

\* Mutant: inputs that are as they were make an operation current again.
HasItsInputs(op) == mounted /\ op.signature = Signature

\* isCurrentOperation
IsCurrent(op) == mounted /\ op.id = sequence /\ op.signature = Signature

\* Mutant: the run goes on when its operation is stale.
RunGoesOn == UNCHANGED runnerVars

\* cancelActivePerformanceOperation
DisposeRun == IF performanceRun THEN Dispose ELSE UNCHANGED runnerVars

\* invalidatePendingOperation
Invalidate ==
  /\ sequence' = sequence + 1
  /\ DisposeRun
  /\ performanceRun' = FALSE
  /\ performanceCanceling' = FALSE
  /\ busy' = "no"
  /\ outdated' = outdated \cup {op.id : op \in ops}

Cleared(kinds) == [kind \in Kinds |-> IF kind \in kinds THEN Empty ELSE shown[kind]]

\* handleControl for an input the calls of the view take: also when the value
\* is the one it had.  The inputs of a performance test are locked while busy.
Change(value) ==
  /\ Act
  /\ view = "performance" => busy = "no"
  /\ input' = [input EXCEPT ![view] = value]
  /\ shown' = Cleared({kind \in Kinds : ViewOf(kind) = view})
  /\ Invalidate
  /\ UNCHANGED <<view, ops, performanceHistory, mounted>>

\* selectMode, selectThreadMode
SelectView(next) ==
  /\ Act
  /\ view # "performance" /\ next # view
  /\ view' = next
  /\ Invalidate
  /\ UNCHANGED <<input, shown, ops, performanceHistory, mounted>>

\* subscribeLocale
ChangeLocale ==
  /\ Act
  /\ Invalidate
  /\ UNCHANGED <<view, input, shown, ops, performanceHistory, mounted>>

Unmount ==
  /\ Act
  /\ mounted' = FALSE
  /\ sequence' = sequence + 1
  /\ DisposeRun
  /\ performanceRun' = FALSE
  /\ outdated' = outdated \cup {op.id : op \in ops}
  /\ UNCHANGED <<view, input, shown, busy, ops, performanceCanceling,
                 performanceHistory>>

\* inspectRuntime, compareEnvironments, analyzeThreads, searchLogs,
\* analyzeCoverage, analyzeRecordedCoverage: their buttons are disabled while
\* the view is busy.
Call(kind) ==
  /\ Act
  /\ kind # "performance" /\ ViewOf(kind) = view
  /\ busy = "no"
  /\ StartOperation(kind)
  /\ UNCHANGED <<runnerVars, view, input, shown, performanceRun,
                 performanceCanceling, performanceHistory, mounted, outdated>>

\* The backend answers, and finishOperation.  A call that throws shows a notice.
\* A baseline is the snapshot of a result that is shown too.
Returned(op, ok) ==
  /\ Settled
  /\ op.kind # "performance"
  /\ ops' = ops \ {op}
  /\ LET results == IF op.kind = "baseline" THEN {"baseline", "runtime"} ELSE {op.kind}
     IN  shown' = IF IsCurrent(op) /\ ok
                  THEN [kind \in Kinds |->
                          IF kind \in results THEN Result(op, 0)
                                              ELSE shown[kind]]
                  ELSE shown
  /\ busy' = IF IsCurrent(op) THEN "no" ELSE busy
  /\ UNCHANGED <<runnerVars, view, input, sequence, performanceRun,
                 performanceCanceling, performanceHistory, mounted, actions, outdated>>

ClearBaseline ==
  /\ Act
  /\ shown["baseline"] # Empty
  /\ shown' = Cleared({"baseline"})
  /\ UNCHANGED <<runnerVars, view, input, busy, sequence, ops, performanceRun,
                 performanceCanceling, performanceHistory, mounted, outdated>>

-----------------------------------------------------------------------------
(* The performance test *)

\* runURLPerformanceTest, up to the await of the completion.
RunPerformance ==
  /\ Act
  /\ view = "performance" /\ busy = "no"
  /\ Begin
  /\ StartOperation("performance")
  /\ shown' = Cleared({"performance"})
  /\ performanceRun' = TRUE
  /\ performanceCanceling' = FALSE
  /\ UNCHANGED <<view, input, performanceHistory, mounted, outdated>>

\* onProgress, which a counted sample calls, and what stopURLPerformanceTest
\* does when stop() returns that the run goes on.
ShowProgress ==
  /\ shown' = IF measured' > measured
              THEN [shown EXCEPT !["performance"] =
                      LET current == {op \in ops : op.kind = "performance" /\ IsCurrent(op)}
                      IN  IF current = {} THEN @
                          ELSE Result(CHOOSE op \in current : TRUE, measured')]
              ELSE shown
  /\ performanceCanceling' =
       (performanceCanceling /\ (performanceRun /\ attempt /\ ~attempt' => canceled'))
  /\ UNCHANGED <<view, input, busy, sequence, ops, performanceRun,
                 performanceHistory, mounted, actions, outdated>>

\* The completion of the run resolves.
RunReturned(op) ==
  /\ op.kind = "performance" /\ main = "finished"
  /\ ops' = ops \ {op}
  /\ IF IsCurrent(op)
     THEN LET entry == Result(op, measured)
          IN  /\ busy' = "no"
              /\ performanceRun' = FALSE /\ performanceCanceling' = FALSE
              /\ shown' = [shown EXCEPT !["performance"] =
                             IF measured > 0 THEN entry ELSE Empty]
              /\ performanceHistory' =
                   IF measured > 0
                   THEN SubSeq(<<entry>> \o performanceHistory, 1,
                               Min({MaxHistory, Len(performanceHistory) + 1}))
                   ELSE performanceHistory
     ELSE UNCHANGED <<busy, performanceRun, performanceCanceling, shown,
                      performanceHistory>>
  /\ UNCHANGED <<runnerVars, view, input, sequence, mounted, actions, outdated>>

\* stopURLPerformanceTest
StopPerformance ==
  /\ Act
  /\ busy = "performance" /\ performanceRun /\ ~performanceCanceling
  /\ Stop
  /\ performanceCanceling' = TRUE
  /\ UNCHANGED <<view, input, shown, busy, sequence, ops, performanceRun,
                 performanceHistory, mounted, outdated>>

\* A click on an earlier run brings back its inputs with its result.
LoadHistory(n) ==
  /\ Act
  /\ busy = "no"
  /\ input' = [input EXCEPT !["performance"] = performanceHistory[n].value]
  /\ shown' = [shown EXCEPT !["performance"] = performanceHistory[n]]
  /\ UNCHANGED <<runnerVars, view, busy, sequence, ops, performanceRun,
                 performanceCanceling, performanceHistory, mounted, outdated>>

-----------------------------------------------------------------------------

\* mountDiagnosticsLab or mountPerformanceLab
Init ==
  /\ RunnerInit
  /\ view \in {"runtime", "performance"}
  /\ input \in [Views \cup {"performance"} -> {CHOOSE v \in Values : TRUE}]
  /\ shown = [kind \in Kinds |-> Empty]
  /\ busy = "no"
  /\ sequence = 0
  /\ ops = {}
  /\ performanceRun = FALSE /\ performanceCanceling = FALSE
  /\ performanceHistory = <<>>
  /\ mounted = TRUE
  /\ actions = 0
  /\ outdated = {}

Next ==
  \/ \E value \in Values : Change(value)
  \/ \E next \in Views : SelectView(next)
  \/ ChangeLocale
  \/ Unmount
  \/ \E kind \in Kinds : Call(kind)
  \/ \E op \in ops, ok \in BOOLEAN : Returned(op, ok)
  \/ ClearBaseline
  \/ RunPerformance
  \/ StopPerformance
  \/ RunStep /\ ShowProgress
  \/ \E op \in ops : RunReturned(op)
  \/ \E n \in 1..Len(performanceHistory) : LoadHistory(n)

\* Promise continuations run; analyze returns, which timeoutMs bounds; timers
\* fire and the backend answers cancelToolOperation.
Fairness ==
  /\ WF_vars((StartWarmup \/ StartMeasuring \/ Finish \/ StopEnds) /\ ShowProgress)
  /\ WF_vars(\E op \in ops : RunReturned(op))
  /\ \A w \in Workers :
       /\ WF_vars(WorkerStep(w) /\ ShowProgress)
       /\ WF_vars(Respond(w) /\ ShowProgress)
       /\ WF_vars(DeadlinePasses(w) /\ ShowProgress)
       /\ WF_vars((\E accepted \in BOOLEAN : CancelAnswered(w, accepted)) /\ ShowProgress)

Spec == Init /\ [][Next]_vars /\ Fairness

-----------------------------------------------------------------------------
(* Properties *)

LabTypeOK ==
  /\ RunnerTypeOK
  /\ view \in Views \cup {"performance"}
  /\ DOMAIN input = Views \cup {"performance"}
  /\ \A v \in DOMAIN input : input[v] \in Values
  /\ DOMAIN shown = Kinds
  /\ busy \in Kinds \cup {"no"}
  /\ sequence \in Nat /\ outdated \subseteq 1..sequence
  /\ \A op \in ops : op.id \in 1..sequence /\ op.kind \in Kinds
  /\ {performanceRun, performanceCanceling, mounted} \subseteq BOOLEAN
  /\ Len(performanceHistory) <= MaxHistory

\* A late answer never repopulates the workspace: what comes to be displayed,
\* or is kept as an earlier run, was computed by an operation that nothing made
\* stale while it was under way, and a result is displayed with its inputs.
ShownIsCurrent ==
  [][/\ \A kind \in Kinds : shown'[kind] \notin {shown[kind], Empty} =>
          shown'[kind].by \notin outdated
     /\ \A kind \in Kinds : shown'[kind] # Empty =>
          shown'[kind].value = input'[ViewOf(kind)]
     /\ \A n \in 1..Len(performanceHistory') :
          performanceHistory'[n].by \notin outdated]_vars

\* Work under way has an owner and controls have work to wait for: a busy
\* workspace waits for an operation that will clear it, and a run that still
\* sends requests is the one the workspace can stop.
WorkIsOwned ==
  /\ LabTypeOK
  /\ mounted /\ busy # "no" => \E op \in ops : op.kind = busy /\ IsCurrent(op)
  /\ Going /\ ~disposed => mounted /\ performanceRun /\ busy = "performance"
  /\ performanceCanceling => busy = "performance"
=============================================================================
