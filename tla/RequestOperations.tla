------------------------- MODULE RequestOperations -------------------------
(***************************************************************************)
(* The long-running operations of the bridge (internal/canbridge/          *)
(* bridge.go, tools_bridge.go): requests, which share a few slots, tool    *)
(* operations and OpenAPI imports; their cancellation by ID, and the       *)
(* sessions that Startup and Shutdown begin and end around them.           *)
(*                                                                         *)
(* One step is one critical section of b.mu, one operation on the slot     *)
(* channel or the cancellation of one context.  What an operation sends,   *)
(* and every check of its input, is left out: it changes no shared state.  *)
(***************************************************************************)
EXTENDS Integers, FiniteSets

CONSTANTS
  Operations,    \* calls of SendRequest, a tool or ImportOpenAPI, each once
  Kind,          \* Kind[o]: "request", "tool" or "import"
  Key,           \* Key[o]: the map and the ID it registers under
  NoOperation,   \* no operation is registered
  Cancellers,    \* calls of CancelRequest or CancelToolOperation, each once
  MaxSlots,      \* maxConcurrentHTTPRequests
  MaxSessions    \* bound: contexts handed out, that of newBridge included

Keys == {Key[o] : o \in Operations}
Requests == {o \in Operations : Kind[o] = "request"}

ASSUME OperationsAssumption ==
  /\ IsFiniteSet(Operations)
  /\ Kind \in [Operations -> {"request", "tool", "import"}]
  /\ DOMAIN Key = Operations
  /\ NoOperation \notin Operations
  /\ MaxSlots \in Nat \ {0}
  /\ MaxSessions \in Nat \ {0}

VARIABLES
  pc,          \* where each operation stands
  session,     \* session[o]: the lifecycle context o derives its own from
  canceled,    \* operations whose own context was cancelled or timed out
  cancels,     \* b.cancels and b.toolCancels
  slots,       \* len(b.requestSlots)
  writtenIn,   \* history: the session o left an observed call or a spec in, or 0
  lookup,      \* lookup[x]: the operation canceller x has found and not yet cancelled
  canceller,   \* where each canceller stands
  current,     \* b.lifecycleCtx: the last context handed out
  ended,       \* the cancelled lifecycle contexts
  up,          \* b.ctx # nil
  state,       \* b.lifecycleState
  lifecycle,   \* what Startup or Shutdown, under lifecycleMu, does next
  listed       \* requestCancels and toolCancels of the Shutdown under way

operationVars == <<pc, session, canceled, cancels, slots, writtenIn>>
cancellerVars == <<lookup, canceller>>
lifecycleVars == <<current, ended, up, state, lifecycle, listed>>
vars == <<operationVars, cancellerVars, lifecycleVars>>

\* The context of o is done: cancelled, timed out or that of an ended session.
ContextDone(o) == o \in canceled \/ session[o] \in ended

Become(o, s) == pc' = [pc EXCEPT ![o] = s]

Unregister(o) == [cancels EXCEPT ![Key[o]] = IF @ = o THEN NoOperation ELSE @]

-----------------------------------------------------------------------------
(* SendRequest and the tools *)

\* operationContext, or runtimeContext of an import, which needs a runtime.
Begin(o) ==
  /\ pc[o] = "new"
  /\ session' = [session EXCEPT ![o] = current]
  /\ Become(o, IF Kind[o] = "import" /\ ~up THEN "refused" ELSE "begun")
  /\ UNCHANGED <<canceled, cancels, slots, writtenIn, cancellerVars, lifecycleVars>>

\* An ID that is in use is refused.
RefuseRunning(o) ==
  /\ pc[o] = "begun"
  /\ Kind[o] # "import"
  /\ cancels[Key[o]] # NoOperation
  /\ Become(o, "refused")
  /\ UNCHANGED <<session, canceled, cancels, slots, writtenIn, cancellerVars,
                 lifecycleVars>>

Register(o) ==
  /\ pc[o] = "begun"
  /\ Kind[o] # "import"
  /\ cancels[Key[o]] = NoOperation
  /\ cancels' = [cancels EXCEPT ![Key[o]] = o]
  /\ Become(o, IF Kind[o] = "request" THEN "waiting" ELSE "executing")
  /\ UNCHANGED <<session, canceled, slots, writtenIn, cancellerVars, lifecycleVars>>

\* The select of acquireRequestSlot may take a slot although the context is done.
AcquireSlot(o) ==
  /\ pc[o] = "waiting"
  /\ slots < MaxSlots
  /\ slots' = slots + 1
  /\ Become(o, "executing")
  /\ UNCHANGED <<session, canceled, cancels, writtenIn, cancellerVars,
                 lifecycleVars>>

\* Mutant: the slot is waited for without the context.
NeverGiveUp(o) == pc[o] = "waiting" /\ FALSE

GiveUp(o) ==
  /\ pc[o] = "waiting"
  /\ ContextDone(o)
  /\ Become(o, "ending")
  /\ UNCHANGED <<session, canceled, cancels, slots, writtenIn, cancellerVars,
                 lifecycleVars>>

\* Mutant: the slot is released only after a response.
FailKeepingSlot(o) ==
  /\ pc[o] = "executing"
  /\ Become(o, "ending")
  /\ UNCHANGED <<session, canceled, cancels, slots, writtenIn, cancellerVars,
                 lifecycleVars>>

\* Execution ends without anything to record: a tool, or an error of a request.
ExecutionEnds(o) ==
  /\ pc[o] = "executing"
  /\ Become(o, IF Kind[o] = "request" THEN "releasing" ELSE "ending")
  /\ UNCHANGED <<session, canceled, cancels, slots, writtenIn, cancellerVars,
                 lifecycleVars>>

\* A response arrives; recordObservedCallForContext looks at the session before
\* it takes b.mu, and no longer there.
Responds(o) ==
  /\ pc[o] = "executing"
  /\ Kind[o] = "request"
  /\ Become(o, "responded")
  /\ UNCHANGED <<session, canceled, cancels, slots, writtenIn, cancellerVars,
                 lifecycleVars>>

CheckSession(o) ==
  /\ pc[o] = "responded"
  /\ Become(o, IF session[o] \in ended THEN "releasing" ELSE "recording")
  /\ UNCHANGED <<session, canceled, cancels, slots, writtenIn, cancellerVars,
                 lifecycleVars>>

\* Mutant: the session is not compared under b.mu.
RecordAnyway(o) ==
  /\ pc[o] = "recording"
  /\ writtenIn' = [writtenIn EXCEPT ![o] = current]
  /\ Become(o, "releasing")
  /\ UNCHANGED <<session, canceled, cancels, slots, cancellerVars, lifecycleVars>>

Record(o) ==
  /\ pc[o] = "recording"
  /\ writtenIn' = [writtenIn EXCEPT ![o] = IF session[o] = current THEN current ELSE @]
  /\ Become(o, "releasing")
  /\ UNCHANGED <<session, canceled, cancels, slots, cancellerVars, lifecycleVars>>

\* The deferred calls of SendRequest run last to first: the slot, then the ID.
ReleaseSlot(o) ==
  /\ pc[o] = "releasing"
  /\ slots' = slots - 1
  /\ Become(o, "ending")
  /\ UNCHANGED <<session, canceled, cancels, writtenIn, cancellerVars,
                 lifecycleVars>>

\* Mutant: whoever has the ID by now is removed.
EndDeletingKey(o) ==
  /\ pc[o] = "ending"
  /\ cancels' = [cancels EXCEPT ![Key[o]] = NoOperation]
  /\ canceled' = canceled \cup {o}
  /\ Become(o, "done")
  /\ UNCHANGED <<session, slots, writtenIn, cancellerVars, lifecycleVars>>

\* The ID may belong to a later operation: a Shutdown has replaced the maps.
End(o) ==
  /\ pc[o] = "ending"
  /\ cancels' = Unregister(o)
  /\ canceled' = canceled \cup {o}
  /\ Become(o, "done")
  /\ UNCHANGED <<session, slots, writtenIn, cancellerVars, lifecycleVars>>

\* cacheOpenAPISpecForContext, after the dialog and the parser.
Import(o) ==
  /\ pc[o] = "begun"
  /\ Kind[o] = "import"
  /\ writtenIn' = [writtenIn EXCEPT ![o] =
       IF up /\ session[o] = current /\ current \notin ended THEN current ELSE @]
  /\ Become(o, "done")
  /\ UNCHANGED <<session, canceled, cancels, slots, cancellerVars, lifecycleVars>>

\* The deadline of a request passes.
TimesOut(o) ==
  /\ Kind[o] = "request"
  /\ pc[o] \notin {"new", "refused", "done"}
  /\ o \notin canceled
  /\ canceled' = canceled \cup {o}
  /\ UNCHANGED <<pc, session, cancels, slots, writtenIn, cancellerVars,
                 lifecycleVars>>

-----------------------------------------------------------------------------
(* CancelRequest and CancelToolOperation: the ID is looked up under b.mu, the *)
(* operation found is cancelled after it is unlocked.                         *)

Look(x, k) ==
  /\ canceller[x] = "new"
  /\ lookup' = [lookup EXCEPT ![x] = cancels[k]]
  /\ canceller' = [canceller EXCEPT ![x] = IF cancels[k] = NoOperation
                                          THEN "returned" ELSE "canceling"]
  /\ UNCHANGED <<operationVars, lifecycleVars>>

CancelFound(x) ==
  /\ canceller[x] = "canceling"
  /\ canceled' = canceled \cup {lookup[x]}
  /\ lookup' = [lookup EXCEPT ![x] = NoOperation]
  /\ canceller' = [canceller EXCEPT ![x] = "returned"]
  /\ UNCHANGED <<pc, session, cancels, slots, writtenIn, lifecycleVars>>

-----------------------------------------------------------------------------
(* Startup and Shutdown, under lifecycleMu *)

BeginStartup ==
  /\ lifecycle = "idle"
  /\ current < MaxSessions
  /\ current' = current + 1
  /\ up' = TRUE
  /\ lifecycle' = "replacing"
  /\ UNCHANGED <<operationVars, cancellerVars, ended, state, listed>>

\* The previous context is cancelled after b.mu is unlocked.
EndStartup ==
  /\ lifecycle = "replacing"
  /\ ended' = ended \cup {current - 1}
  /\ state' = "running"
  /\ lifecycle' = "idle"
  /\ UNCHANGED <<operationVars, cancellerVars, current, up, listed>>

\* The context given to Startup is cancelled: InvocationRuntime.close.
RuntimeCanceled ==
  /\ up
  /\ current \notin ended
  /\ ended' = ended \cup {current}
  /\ UNCHANGED <<operationVars, cancellerVars, current, up, state, lifecycle, listed>>

\* The maps are emptied: what is registered from now on is not in the lists.
BeginShutdown ==
  /\ lifecycle = "idle"
  /\ state # "stopped"
  /\ listed' = {cancels[k] : k \in Keys} \ {NoOperation}
  /\ cancels' = [k \in Keys |-> NoOperation]
  /\ up' = FALSE
  /\ lifecycle' = "cancelingSession"
  /\ UNCHANGED <<pc, session, canceled, slots, writtenIn, cancellerVars, current,
                 ended, state>>

\* Mutant: only the operations listed are cancelled.
CancelListedOnly ==
  /\ lifecycle = "cancelingSession"
  /\ lifecycle' = "cancelingOperations"
  /\ UNCHANGED <<operationVars, cancellerVars, current, ended, up, state, listed>>

CancelSession ==
  /\ lifecycle = "cancelingSession"
  /\ ended' = ended \cup {current}
  /\ lifecycle' = "cancelingOperations"
  /\ UNCHANGED <<operationVars, cancellerVars, current, up, state, listed>>

EndShutdown ==
  /\ lifecycle = "cancelingOperations"
  /\ canceled' = canceled \cup listed
  /\ listed' = {}
  /\ state' = "stopped"
  /\ lifecycle' = "idle"
  /\ UNCHANGED <<pc, session, cancels, slots, writtenIn, cancellerVars, current,
                 ended, up>>

-----------------------------------------------------------------------------

\* newBridge: a context that no runtime has given, and no runtime.
Init ==
  /\ pc = [o \in Operations |-> "new"]
  /\ session = [o \in Operations |-> 1]
  /\ canceled = {}
  /\ cancels = [k \in Keys |-> NoOperation]
  /\ slots = 0
  /\ writtenIn = [o \in Operations |-> 0]
  /\ lookup = [x \in Cancellers |-> NoOperation]
  /\ canceller = [x \in Cancellers |-> "new"]
  /\ current = 1
  /\ ended = {}
  /\ up = FALSE
  /\ state = "created"
  /\ lifecycle = "idle"
  /\ listed = {}

\* The steps of an operation that only the scheduler and the slots delay.
Proceed(o) ==
  \/ RefuseRunning(o) \/ Register(o) \/ AcquireSlot(o) \/ GiveUp(o)
  \/ CheckSession(o) \/ Record(o) \/ ReleaseSlot(o) \/ End(o)

ExecutionReturns(o) == ExecutionEnds(o) \/ Responds(o) \/ Import(o)

Lifecycle ==
  \/ BeginStartup \/ EndStartup \/ RuntimeCanceled
  \/ BeginShutdown \/ CancelSession \/ EndShutdown

Next ==
  \/ \E o \in Operations : Begin(o) \/ Proceed(o) \/ ExecutionReturns(o) \/ TimesOut(o)
  \/ \E x \in Cancellers : CancelFound(x) \/ \E k \in Keys : Look(x, k)
  \/ Lifecycle

Spec == Init /\ [][Next]_vars

\* Goroutines that are ready run, and what an operation executes returns once
\* its context is done.  Nothing is assumed of servers, timers or callers.
FairSpec ==
  /\ Spec
  /\ \A o \in Operations :
       /\ WF_vars(Proceed(o))
       /\ WF_vars(ContextDone(o) /\ ExecutionReturns(o))

-----------------------------------------------------------------------------
(* Properties *)

Registered == {"waiting", "executing", "responded", "recording", "releasing", "ending"}
HoldingSlot == {"executing", "responded", "recording", "releasing"}

\* Every variable stays in its type; the slot channel never over- or underflows.
TypeOK ==
  /\ pc \in [Operations -> {"new", "begun", "refused", "done"} \cup Registered]
  /\ session \in [Operations -> Nat]
  /\ canceled \subseteq Operations
  /\ cancels \in [Keys -> Operations \cup {NoOperation}]
  /\ slots \in 0..MaxSlots
  /\ writtenIn \in [Operations -> Nat]
  /\ lookup \in [Cancellers -> Operations \cup {NoOperation}]
  /\ canceller \in [Cancellers -> {"new", "canceling", "returned"}]
  /\ current \in Nat \ {0}
  /\ ended \subseteq Nat
  /\ up \in BOOLEAN
  /\ state \in {"created", "running", "stopped"}
  /\ lifecycle \in {"idle", "replacing", "cancelingSession", "cancelingOperations"}
  /\ listed \subseteq Operations

\* The slots taken are those of the requests between acquireRequestSlot and
\* releaseRequestSlot, whatever ends them and however often the bridge is
\* restarted meanwhile: no error path leaks a slot or gives one back twice.
SlotsExact == slots = Cardinality({o \in Requests : pc[o] \in HoldingSlot})

\* A registered operation that is not cancelled can be cancelled by its ID: its
\* entry is its own, and no other operation that ends removes it.  Only while
\* Shutdown is about to cancel the operation itself is the entry missing.
LiveIsCancellable ==
  \A o \in Operations :
    (pc[o] \in Registered /\ ~ContextDone(o)) =>
      \/ cancels[Key[o]] = o
      \/ lifecycle = "cancelingSession" /\ o \in listed

\* Once Shutdown is over every operation that is still under way has a context
\* that is done, those included that captured it before and register after it.
StoppedIsQuiet ==
  (state = "stopped" /\ ~up) =>
    \A o \in Operations : pc[o] \notin {"new", "refused", "done"} => ContextDone(o)

\* What an operation leaves behind, an observed call or a cached spec, it
\* leaves in the session it began in, not in a later one it outlived.
WritesOwnSession ==
  \A o \in Operations : writtenIn[o] # 0 => writtenIn[o] = session[o]

\* An operation whose context is done comes to an end, a request in the queue
\* too, although the requests that have the slots may never finish.
CanceledEnds ==
  \A o \in Operations :
    (pc[o] # "new" /\ ContextDone(o)) ~> pc[o] \in {"refused", "done"}
=============================================================================
