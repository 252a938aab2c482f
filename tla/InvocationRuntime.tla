------------------------- MODULE InvocationRuntime -------------------------
(***************************************************************************)
(* The invocation runtime of the Go sidecar (internal/canbridge/           *)
(* invocation_runtime.go): admission of calls to two bounded lanes, the    *)
(* serial queue of collection persistence, delivery of responses, and      *)
(* Close, which seals admission and drains what was accepted.              *)
(*                                                                         *)
(* One step is one critical section of runtime.mu or queue.mu, or one      *)
(* unlocked step of a goroutine between two of them.  Every call is        *)
(* dispatched by a goroutine of its own, the weakest assumption on the     *)
(* callers: cmd/validex-backend dispatches from a single loop.             *)
(***************************************************************************)
EXTENDS Integers, Sequences, FiniteSets, FiniteSetsExt

CONSTANTS
  Calls,           \* invocations, each dispatched at most once
  NoCall,          \* "the serial worker runs nothing"
  Lane,            \* Lane[c]: how the method of c is scheduled
  Size,            \* Size[c]: bytes of the arguments of c
  MaxCalls,        \* MaxCalls[l]: in-flight calls lane l admits
  MaxBytes,        \* MaxBytes[l]: argument bytes lane l admits
  SerialMaxCalls,  \* entries the serial queue holds
  SerialMaxBytes,  \* argument bytes the serial queue holds
  Closers          \* goroutines that call Close

AdmissionLanes == {"concurrent", "cancellation"}

ASSUME CallsAssumption ==
  /\ IsFiniteSet(Calls)
  /\ NoCall \notin Calls
  /\ Lane \in [Calls -> AdmissionLanes \cup {"serial"}]
  /\ Size \in [Calls -> Nat]

ASSUME LimitsAssumption ==
  /\ MaxCalls \in [AdmissionLanes -> Nat \ {0}]
  /\ MaxBytes \in [AdmissionLanes -> Nat \ {0}]
  /\ SerialMaxCalls \in Nat \ {0}
  /\ SerialMaxBytes \in Nat \ {0}

VARIABLES
  pc,                   \* where the goroutine working on each call stands
  answered,             \* calls whose response the deliver callback took
  inFlight,             \* inFlight[l]: calls lane l has admitted and not released
  bytes,                \* bytes[l]: their argument bytes
  concurrentCalls,      \* WaitGroup of admitted calls
  deliveryCalls,        \* WaitGroup of running deliver callbacks
  closed,               \* runtime.closed
  canceled,             \* the runtime context has been cancelled
  queueCreated,         \* runtime.serialQueue # nil
  queueClosed,          \* queue.closed
  entries,              \* queue.entries
  queuedBytes,          \* queue.queuedBytes
  worker,               \* where queue.run stands
  serving,              \* the call queue.run executes
  accepted,             \* history: serial calls in the order enqueue took them
  closer,               \* where each Close call stands
  drained,              \* WaitGroups whose waiter has closed its channel
  closeErr,             \* the drains that timed out
  persistenceCanceled,  \* the collection persistence context is cancelled
  bridgeUp              \* Shutdown(bridge) has not run

callVars   == <<pc, answered>>
laneVars   == <<inFlight, bytes, concurrentCalls>>
queueVars  == <<queueCreated, queueClosed, entries, queuedBytes, worker,
                serving, accepted>>
closeVars  == <<closed, canceled, closer, drained, closeErr,
                persistenceCanceled, bridgeUp>>
vars == <<callVars, laneVars, deliveryCalls, queueVars, closeVars>>

Serial == {c \in Calls : Lane[c] = "serial"}

\* Calls that hold a place of their lane: from acquire to releaseConcurrent.
Holding == {"running", "responding", "delivering", "releasing"}
Holders(l) == {c \in Calls : Lane[c] = l /\ pc[c] \in Holding}

BytesOf(S) == MapThenSumSet(LAMBDA c : Size[c], S)

Become(c, state) == pc' = [pc EXCEPT ![c] = state]

-----------------------------------------------------------------------------
(* Dispatch, under runtime.mu *)

RefuseClosed(c) ==
  /\ pc[c] = "new"
  /\ closed
  /\ Become(c, "refused")
  /\ UNCHANGED <<answered, laneVars, deliveryCalls, queueVars, closeVars>>

\* A serial method takes the queue, creating it at its first use, and leaves
\* runtime.mu before it enqueues.
TakeQueue(c) ==
  /\ pc[c] = "new"
  /\ ~closed
  /\ Lane[c] = "serial"
  /\ queueCreated' = TRUE
  /\ Become(c, "enqueueing")
  /\ UNCHANGED <<answered, laneVars, deliveryCalls, queueClosed, entries,
                 queuedBytes, worker, serving, accepted, closeVars>>

HasRoom(c) ==
  /\ inFlight[Lane[c]] < MaxCalls[Lane[c]]
  /\ Size[c] <= MaxBytes[Lane[c]] - bytes[Lane[c]]

Admit(c) ==
  /\ pc[c] = "new"
  /\ ~closed
  /\ Lane[c] \in AdmissionLanes
  /\ HasRoom(c)
  /\ inFlight' = [inFlight EXCEPT ![Lane[c]] = @ + 1]
  /\ bytes' = [bytes EXCEPT ![Lane[c]] = @ + Size[c]]
  /\ concurrentCalls' = concurrentCalls + 1
  /\ Become(c, "running")
  /\ UNCHANGED <<answered, deliveryCalls, queueVars, closeVars>>

RefuseFull(c) ==
  /\ pc[c] = "new"
  /\ ~closed
  /\ Lane[c] \in AdmissionLanes
  /\ ~HasRoom(c)
  /\ Become(c, "refused")
  /\ UNCHANGED <<answered, laneVars, deliveryCalls, queueVars, closeVars>>

-----------------------------------------------------------------------------
(* The serial queue, under queue.mu *)

QueueHasRoom(c) ==
  /\ Len(entries) < SerialMaxCalls
  /\ queuedBytes + Size[c] <= SerialMaxBytes

\* Mutant: the waiting worker is never signalled.
NotWoken == worker

\* wake.Signal and wake.Broadcast: only queue.run waits on the condition.
Woken == IF worker = "waiting" THEN "ready" ELSE worker

\* The first accepted call also starts queue.run.
Enqueue(c) ==
  /\ pc[c] = "enqueueing"
  /\ ~queueClosed
  /\ QueueHasRoom(c)
  /\ entries' = Append(entries, c)
  /\ queuedBytes' = queuedBytes + Size[c]
  /\ accepted' = Append(accepted, c)
  /\ worker' = IF worker = "unstarted" THEN "ready" ELSE Woken
  /\ Become(c, "queued")
  /\ UNCHANGED <<answered, laneVars, deliveryCalls, queueCreated, queueClosed,
                 serving, closeVars>>

EnqueueClosed(c) ==
  /\ pc[c] = "enqueueing"
  /\ queueClosed
  /\ Become(c, "refused")
  /\ UNCHANGED <<answered, laneVars, deliveryCalls, queueVars, closeVars>>

\* A full queue answers with the method's busy result.
EnqueueFull(c) ==
  /\ pc[c] = "enqueueing"
  /\ ~queueClosed
  /\ ~QueueHasRoom(c)
  /\ Become(c, "responding")
  /\ UNCHANGED <<answered, laneVars, deliveryCalls, queueVars, closeVars>>

WorkerWaits ==
  /\ worker = "ready"
  /\ entries = <<>>
  /\ ~queueClosed
  /\ worker' = "waiting"
  /\ UNCHANGED <<callVars, laneVars, deliveryCalls, queueCreated, queueClosed,
                 entries, queuedBytes, serving, accepted, closeVars>>

\* Mutant: the budget is not given back.
WorkerTakesKeepingBytes ==
  /\ worker = "ready"
  /\ entries # <<>>
  /\ worker' = "serving"
  /\ serving' = Head(entries)
  /\ entries' = Tail(entries)
  /\ Become(Head(entries), "running")
  /\ UNCHANGED <<answered, laneVars, deliveryCalls, queueCreated, queueClosed,
                 queuedBytes, accepted, closeVars>>

\* Mutant: off by one in the case that resets the slice to nil.
WorkerTakesLosingLast ==
  /\ worker = "ready"
  /\ entries # <<>>
  /\ worker' = "serving"
  /\ serving' = Head(entries)
  /\ entries' = IF Len(entries) <= 2 THEN <<>> ELSE Tail(entries)
  /\ queuedBytes' = queuedBytes - Size[Head(entries)]
  /\ Become(Head(entries), "running")
  /\ UNCHANGED <<answered, laneVars, deliveryCalls, queueCreated, queueClosed,
                 accepted, closeVars>>

\* The bytes leave the budget when the call is taken, before it executes.
WorkerTakes ==
  /\ worker = "ready"
  /\ entries # <<>>
  /\ worker' = "serving"
  /\ serving' = Head(entries)
  /\ entries' = Tail(entries)
  /\ queuedBytes' = queuedBytes - Size[Head(entries)]
  /\ Become(Head(entries), "running")
  /\ UNCHANGED <<answered, laneVars, deliveryCalls, queueCreated, queueClosed,
                 accepted, closeVars>>

WorkerExits ==
  /\ worker = "ready"
  /\ entries = <<>>
  /\ queueClosed
  /\ worker' = "exited"
  /\ UNCHANGED <<callVars, laneVars, deliveryCalls, queueCreated, queueClosed,
                 entries, queuedBytes, serving, accepted, closeVars>>

-----------------------------------------------------------------------------
(* execute and deliverResponse *)

\* The handler returns, fails or panics: each way execute goes on to deliver.
HandlerReturns(c) ==
  /\ pc[c] = "running"
  /\ Become(c, "responding")
  /\ UNCHANGED <<answered, laneVars, deliveryCalls, queueVars, closeVars>>

\* What follows deliverResponse: releaseConcurrent for an admitted call, the
\* worker's loop for the call it serves, the end of Dispatch for a busy one.
Finish(c) ==
  /\ Become(c, IF Lane[c] \in AdmissionLanes THEN "releasing" ELSE "settled")
  /\ worker' = IF c = serving THEN "ready" ELSE worker
  /\ serving' = IF c = serving THEN NoCall ELSE serving
  /\ UNCHANGED <<laneVars, queueCreated, queueClosed, entries, queuedBytes,
                 accepted, closeVars>>

\* Under runtime.mu: a closed runtime drops the response.
DropResponse(c) ==
  /\ pc[c] = "responding"
  /\ closed
  /\ Finish(c)
  /\ UNCHANGED <<answered, deliveryCalls>>

\* Mutant: the closed check is dropped.
BeginDeliveryAnytime(c) ==
  /\ pc[c] = "responding"
  /\ deliveryCalls' = deliveryCalls + 1
  /\ Become(c, "delivering")
  /\ UNCHANGED <<answered, laneVars, queueVars, closeVars>>

BeginDelivery(c) ==
  /\ pc[c] = "responding"
  /\ ~closed
  /\ deliveryCalls' = deliveryCalls + 1
  /\ Become(c, "delivering")
  /\ UNCHANGED <<answered, laneVars, queueVars, closeVars>>

\* The deliver callback has run, outside runtime.mu.
EndDelivery(c) ==
  /\ pc[c] = "delivering"
  /\ deliveryCalls' = deliveryCalls - 1
  /\ answered' = answered \cup {c}
  /\ Finish(c)

\* Mutant: concurrentCalls.Done is forgotten.
ReleaseWithoutDone(c) ==
  /\ pc[c] = "releasing"
  /\ inFlight' = [inFlight EXCEPT ![Lane[c]] = @ - 1]
  /\ bytes' = [bytes EXCEPT ![Lane[c]] = @ - Size[c]]
  /\ Become(c, "settled")
  /\ UNCHANGED <<answered, concurrentCalls, deliveryCalls, queueVars, closeVars>>

Release(c) ==
  /\ pc[c] = "releasing"
  /\ inFlight' = [inFlight EXCEPT ![Lane[c]] = @ - 1]
  /\ bytes' = [bytes EXCEPT ![Lane[c]] = @ - Size[c]]
  /\ concurrentCalls' = concurrentCalls - 1
  /\ Become(c, "settled")
  /\ UNCHANGED <<answered, deliveryCalls, queueVars, closeVars>>

-----------------------------------------------------------------------------
(* Close *)

Reach(k, state) == closer' = [closer EXCEPT ![k] = state]

Closing == \E k \in Closers : closer[k] \notin {"idle", "blocked"}

\* closeOnce admits one caller, which seals the runtime.
BeginClose(k) ==
  /\ closer[k] = "idle"
  /\ ~Closing
  /\ closed' = TRUE
  /\ Reach(k, "canceling")
  /\ UNCHANGED <<callVars, laneVars, deliveryCalls, queueVars, canceled,
                 drained, closeErr, persistenceCanceled, bridgeUp>>

\* sync.Once keeps every other caller until the first one has finished.
AwaitClose(k) ==
  /\ closer[k] = "idle"
  /\ Closing
  /\ Reach(k, "blocked")
  /\ UNCHANGED <<callVars, laneVars, deliveryCalls, queueVars, closed,
                 canceled, drained, closeErr, persistenceCanceled, bridgeUp>>

\* Mutant: the persistence context derives from the runtime context.
CancelEverything(k) ==
  /\ closer[k] = "canceling"
  /\ canceled' = TRUE
  /\ persistenceCanceled' = TRUE
  /\ Reach(k, IF queueCreated THEN "sealingQueue" ELSE "drainingConcurrent")
  /\ UNCHANGED <<callVars, laneVars, deliveryCalls, queueVars, closed,
                 drained, closeErr, bridgeUp>>

\* Mutant: the runtime context is not cancelled.
CancelNothing(k) ==
  /\ closer[k] = "canceling"
  /\ Reach(k, IF queueCreated THEN "sealingQueue" ELSE "drainingConcurrent")
  /\ UNCHANGED <<callVars, laneVars, deliveryCalls, queueVars, closed, canceled,
                 drained, closeErr, persistenceCanceled, bridgeUp>>

\* runtime.cancel().  queueCreated is the serialQueue read when sealing: no
\* Dispatch creates a queue once the runtime is closed.
CancelRuntime(k) ==
  /\ closer[k] = "canceling"
  /\ canceled' = TRUE
  /\ Reach(k, IF queueCreated THEN "sealingQueue" ELSE "drainingConcurrent")
  /\ UNCHANGED <<callVars, laneVars, deliveryCalls, queueVars, closed,
                 drained, closeErr, persistenceCanceled, bridgeUp>>

\* Mutant: an empty queue is taken for a drained one.
SealQueueIfEmpty(k) ==
  /\ closer[k] = "sealingQueue"
  /\ queueClosed' = TRUE
  /\ worker' = Woken
  /\ Reach(k, IF entries = <<>> THEN "drainingConcurrent" ELSE "drainingSerial")
  /\ UNCHANGED <<callVars, laneVars, deliveryCalls, queueCreated, entries,
                 queuedBytes, serving, accepted, closed, canceled, drained,
                 closeErr, persistenceCanceled, bridgeUp>>

\* Mutant: closing does not wake the worker.
SealQueueSilently(k) ==
  /\ closer[k] = "sealingQueue"
  /\ queueClosed' = TRUE
  /\ Reach(k, IF worker = "unstarted" THEN "drainingConcurrent"
              ELSE "drainingSerial")
  /\ UNCHANGED <<callVars, laneVars, deliveryCalls, queueCreated, entries,
                 queuedBytes, worker, serving, accepted, closed, canceled,
                 drained, closeErr, persistenceCanceled, bridgeUp>>

\* closeAndDrain under queue.mu; done is nil when no worker was started.
SealQueue(k) ==
  /\ closer[k] = "sealingQueue"
  /\ queueClosed' = TRUE
  /\ worker' = Woken
  /\ Reach(k, IF worker = "unstarted" THEN "drainingConcurrent"
              ELSE "drainingSerial")
  /\ UNCHANGED <<callVars, laneVars, deliveryCalls, queueCreated, entries,
                 queuedBytes, serving, accepted, closed, canceled, drained,
                 closeErr, persistenceCanceled, bridgeUp>>

SerialDrained(k) ==
  /\ closer[k] = "drainingSerial"
  /\ worker = "exited"
  /\ Reach(k, "drainingConcurrent")
  /\ UNCHANGED <<callVars, laneVars, deliveryCalls, queueVars, closed,
                 canceled, drained, closeErr, persistenceCanceled, bridgeUp>>

SerialDrainTimesOut(k) ==
  /\ closer[k] = "drainingSerial"
  /\ persistenceCanceled' = TRUE
  /\ closeErr' = closeErr \cup {"serial"}
  /\ Reach(k, "drainingConcurrent")
  /\ UNCHANGED <<callVars, laneVars, deliveryCalls, queueVars, closed,
                 canceled, drained, bridgeUp>>

\* The goroutine that waits for concurrentCalls and closes concurrentDone.
ConcurrentCallsDone ==
  /\ \E k \in Closers : closer[k] \notin {"idle", "blocked", "canceling"}
  /\ "concurrent" \notin drained
  /\ concurrentCalls = 0
  /\ drained' = drained \cup {"concurrent"}
  /\ UNCHANGED <<callVars, laneVars, deliveryCalls, queueVars, closed,
                 canceled, closer, closeErr, persistenceCanceled, bridgeUp>>

ConcurrentDrained(k) ==
  /\ closer[k] = "drainingConcurrent"
  /\ "concurrent" \in drained
  /\ Reach(k, "drainingDelivery")
  /\ UNCHANGED <<callVars, laneVars, deliveryCalls, queueVars, closed,
                 canceled, drained, closeErr, persistenceCanceled, bridgeUp>>

\* Mutant: the concurrent drain has no deadline.
ConcurrentDrainNeverTimesOut(k) == closer[k] = "drainingConcurrent" /\ FALSE

\* The drain deadline passes, or the context given to Close is done.
ConcurrentDrainTimesOut(k) ==
  /\ closer[k] = "drainingConcurrent"
  /\ closeErr' = closeErr \cup {"concurrent"}
  /\ Reach(k, "drainingDelivery")
  /\ UNCHANGED <<callVars, laneVars, deliveryCalls, queueVars, closed,
                 canceled, drained, persistenceCanceled, bridgeUp>>

\* The goroutine that waits for deliveryCalls, started after the drain above.
DeliveryCallsDone ==
  /\ \E k \in Closers : closer[k] \in {"drainingDelivery", "shuttingDown",
                                       "returned"}
  /\ "delivery" \notin drained
  /\ deliveryCalls = 0
  /\ drained' = drained \cup {"delivery"}
  /\ UNCHANGED <<callVars, laneVars, deliveryCalls, queueVars, closed,
                 canceled, closer, closeErr, persistenceCanceled, bridgeUp>>

DeliveryDrained(k) ==
  /\ closer[k] = "drainingDelivery"
  /\ "delivery" \in drained
  /\ Reach(k, "shuttingDown")
  /\ UNCHANGED <<callVars, laneVars, deliveryCalls, queueVars, closed,
                 canceled, drained, closeErr, persistenceCanceled, bridgeUp>>

\* Same deadline: after a concurrent timeout this one fires at once, even
\* with no delivery running, when the waiting goroutine has not run yet.
DeliveryDrainTimesOut(k) ==
  /\ closer[k] = "drainingDelivery"
  /\ closeErr' = closeErr \cup {"delivery"}
  /\ Reach(k, "shuttingDown")
  /\ UNCHANGED <<callVars, laneVars, deliveryCalls, queueVars, closed,
                 canceled, drained, persistenceCanceled, bridgeUp>>

\* Shutdown(bridge), which also stops collection persistence.
ShutdownBridge(k) ==
  /\ closer[k] = "shuttingDown"
  /\ bridgeUp' = FALSE
  /\ persistenceCanceled' = TRUE
  /\ Reach(k, "returned")
  /\ UNCHANGED <<callVars, laneVars, deliveryCalls, queueVars, closed,
                 canceled, drained, closeErr>>

\* closeDone is closed: the callers sync.Once kept return closeErr.
CloseUnblocks(k) ==
  /\ closer[k] = "blocked"
  /\ \E o \in Closers : closer[o] = "returned"
  /\ Reach(k, "returned")
  /\ UNCHANGED <<callVars, laneVars, deliveryCalls, queueVars, closed,
                 canceled, drained, closeErr, persistenceCanceled, bridgeUp>>

-----------------------------------------------------------------------------

\* NewInvocationRuntime has returned: the bridge is up, no queue exists.
Init ==
  /\ pc = [c \in Calls |-> "new"]
  /\ answered = {}
  /\ inFlight = [l \in AdmissionLanes |-> 0]
  /\ bytes = [l \in AdmissionLanes |-> 0]
  /\ concurrentCalls = 0
  /\ deliveryCalls = 0
  /\ closed = FALSE
  /\ canceled = FALSE
  /\ queueCreated = FALSE
  /\ queueClosed = FALSE
  /\ entries = <<>>
  /\ queuedBytes = 0
  /\ worker = "unstarted"
  /\ serving = NoCall
  /\ accepted = <<>>
  /\ closer = [k \in Closers |-> "idle"]
  /\ drained = {}
  /\ closeErr = {}
  /\ persistenceCanceled = FALSE
  /\ bridgeUp = TRUE

Dispatch(c) ==
  RefuseClosed(c) \/ TakeQueue(c) \/ Admit(c) \/ RefuseFull(c)

\* The steps of the code itself, which nothing but the scheduler delays.
CallStep(c) ==
  \/ Enqueue(c) \/ EnqueueClosed(c) \/ EnqueueFull(c)
  \/ DropResponse(c) \/ BeginDelivery(c) \/ EndDelivery(c) \/ Release(c)

WorkerStep == WorkerWaits \/ WorkerTakes \/ WorkerExits

DrainTimesOut(k) ==
  SerialDrainTimesOut(k) \/ ConcurrentDrainTimesOut(k) \/ DeliveryDrainTimesOut(k)

CloseStep(k) ==
  \/ CancelRuntime(k) \/ SealQueue(k) \/ SerialDrained(k)
  \/ ConcurrentDrained(k) \/ DeliveryDrained(k) \/ ShutdownBridge(k)
  \/ CloseUnblocks(k)

WaiterStep == ConcurrentCallsDone \/ DeliveryCallsDone

\* A runtime with nothing to do, and a closed one, stand still.
Next ==
  \/ \E c \in Calls : Dispatch(c) \/ CallStep(c) \/ HandlerReturns(c)
  \/ WorkerStep
  \/ \E k \in Closers : BeginClose(k) \/ AwaitClose(k) \/ CloseStep(k)
                        \/ DrainTimesOut(k)
  \/ WaiterStep

Spec == Init /\ [][Next]_vars

\* Goroutines that are ready run; mutexes are held for bounded work only.
\* Nothing is assumed of callers, handlers or timers.
RuntimeFairness ==
  /\ \A c \in Calls : WF_vars(CallStep(c))
  /\ WF_vars(WorkerStep)
  /\ \A k \in Closers : WF_vars(CloseStep(k))
  /\ WF_vars(WaiterStep)

FairSpec == Spec /\ RuntimeFairness

-----------------------------------------------------------------------------
(* Properties *)

PcStates == {"new", "refused", "enqueueing", "queued", "settled"} \cup Holding
WorkerStates == {"unstarted", "ready", "waiting", "serving", "exited"}
CloserStates == {"idle", "blocked", "canceling", "sealingQueue",
  "drainingSerial", "drainingConcurrent", "drainingDelivery", "shuttingDown",
  "returned"}

\* Every variable stays in its type (the state of the runtime, the queue and
\* the callers of Close).
TypeOK ==
  /\ pc \in [Calls -> PcStates]
  /\ answered \subseteq Calls
  /\ inFlight \in [AdmissionLanes -> Int]
  /\ bytes \in [AdmissionLanes -> Int]
  /\ concurrentCalls \in Int
  /\ deliveryCalls \in Int
  /\ closed \in BOOLEAN
  /\ canceled \in BOOLEAN
  /\ queueCreated \in BOOLEAN
  /\ queueClosed \in BOOLEAN
  /\ entries \in Seq(Serial)
  /\ queuedBytes \in Int
  /\ worker \in WorkerStates
  /\ serving \in Serial \cup {NoCall}
  /\ accepted \in Seq(Serial)
  /\ closer \in [Closers -> CloserStates]
  /\ drained \subseteq {"concurrent", "delivery"}
  /\ closeErr \subseteq {"serial", "concurrent", "delivery"}
  /\ persistenceCanceled \in BOOLEAN
  /\ bridgeUp \in BOOLEAN

\* Each counter is the number of calls it stands for, through refusals,
\* failures and Close: a lane counts the calls between acquire and
\* releaseConcurrent, the WaitGroups those running and those delivering.  No
\* lane goes over its limit.
CallsCounted ==
  /\ \A l \in AdmissionLanes :
       /\ inFlight[l] = Cardinality(Holders(l))
       /\ inFlight[l] <= MaxCalls[l]
  /\ concurrentCalls = Cardinality({c \in Calls \ Serial : pc[c] \in Holding})
  /\ deliveryCalls = Cardinality({c \in Calls : pc[c] = "delivering"})

\* Each byte budget is what the calls that hold it brought, and is respected:
\* lanes until release, the serial queue until the worker takes the call.
BytesCounted ==
  /\ \A l \in AdmissionLanes :
       /\ bytes[l] = BytesOf(Holders(l))
       /\ bytes[l] <= MaxBytes[l]
  /\ queuedBytes = BytesOf({c \in Calls : pc[c] = "queued"})
  /\ queuedBytes <= SerialMaxBytes

\* A WaitGroup seen at zero stays at zero: no handler and no delivery starts
\* once Close has found none running (sync.WaitGroup forbids an Add that races
\* with Wait, and Close shuts the bridge down on that observation).
DrainedForGood ==
  /\ "concurrent" \in drained => concurrentCalls = 0
  /\ "delivery" \in drained => deliveryCalls = 0

\* Serial calls run one at a time in acceptance order: the first n calls the
\* queue accepted have started, all but the last of them are settled, and the
\* queue holds the others in the same order.  Nothing accepted is lost.
Started(c) == pc[c] \in {"running", "responding", "delivering", "settled"}

SerialInOrder ==
  \E n \in 0..Len(accepted) :
    /\ entries = SubSeq(accepted, n + 1, Len(accepted))
    /\ \A i \in 1..Len(accepted) : Started(accepted[i]) <=> i <= n
    /\ \A i \in 1..(n - 1) : pc[accepted[i]] = "settled"
    /\ serving # NoCall => n > 0 /\ serving = accepted[n]

\* A Close that reports no timeout leaves nothing behind: once it has shut the
\* bridge down no admitted call and no delivery runs, every accepted serial
\* call has executed and the worker is gone.
CleanClose ==
  (~bridgeUp /\ closeErr = {}) =>
    /\ \A c \in Calls \ Serial : pc[c] \notin Holding
    /\ \A c \in Calls : pc[c] # "delivering"
    /\ \A i \in 1..Len(accepted) : pc[accepted[i]] = "settled"
    /\ worker \in {"unstarted", "exited"}

\* Close cancels the persistence context under an accepted save only after it
\* has recorded that the persistence drain timed out.
SavesKeepTheirContext ==
  persistenceCanceled =>
    \/ "serial" \in closeErr
    \/ \A i \in 1..Len(accepted) : pc[accepted[i]] = "settled"

CallersReturn == \A k \in Closers : closer[k] # "idle" ~> closer[k] = "returned"

\* The drain timers alone bound Close: every caller gets its return even when
\* handlers never finish.
TimersFire == \A k \in Closers : WF_vars(DrainTimesOut(k))
TimersBoundClose == TimersFire => CallersReturn

\* Cancellation alone unblocks Close: with handlers that stop only when their
\* context is cancelled (serial ones finish by themselves) and timers that
\* never fire, every caller of Close returns.
HandlersHonourCancel ==
  /\ \A c \in Calls \ Serial : WF_vars(canceled /\ HandlerReturns(c))
  /\ \A c \in Serial : WF_vars(HandlerReturns(c))
CancelUnblocksClose == HandlersHonourCancel => CallersReturn

\* Either is enough for Close to return to every caller, also to the second one,
\* which waits in sync.Once (invocation_runtime.go:342).
CloseReturns == TimersBoundClose /\ CancelUnblocksClose

\* Every dispatched call comes to an end, refused or settled, when handlers
\* return: the worker misses no wake-up and Close strands no queued call.
HandlersReturn == \A c \in Calls : WF_vars(HandlerReturns(c))
CallsSettle ==
  HandlersReturn =>
    \A c \in Calls : pc[c] # "new" ~> pc[c] \in {"refused", "settled"}

\* The serial worker does not outlive a closed runtime, unless a serial
\* handler never returns.
WorkerStops ==
  (\A c \in Serial : WF_vars(HandlerReturns(c))) =>
    (closed ~> worker \in {"unstarted", "exited"})

\* No wake-up of the queue is missed, by a call or by its worker
\* (invocation_runtime.go:503).
NothingStranded == CallsSettle /\ WorkerStops
=============================================================================
