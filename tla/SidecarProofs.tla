--------------------------- MODULE SidecarProofs ---------------------------
(***************************************************************************)
(* Theorems about the sidecar, for every set of calls, assignment of lanes *)
(* and sizes, limits of client and runtime, length of the response queue   *)
(* and number of Close callers.  The invocation runtime is part of the     *)
(* sidecar's specification, and its theorems come first: they hold of      *)
(* InvocationRuntime alone, and the sidecar's step uses their lemmas.      *)
(***************************************************************************)
EXTENDS Sidecar, FiniteSetTheorems, SequenceTheorems, TLAPS

-----------------------------------------------------------------------------
(* Types.  entries holds serial calls only because a call reaches the queue *)
(* by way of "enqueueing", so the states a lane allows are part of it.      *)

PcOfLane ==
  /\ \A c \in Calls : pc[c] \in {"enqueueing", "queued"} => c \in Serial
  /\ \A c \in Calls : pc[c] = "releasing" => c \notin Serial

WellTyped == TypeOK /\ PcOfLane

LEMMA LaneOfCall ==
  ASSUME NEW c \in Calls
  PROVE  /\ Lane[c] \in AdmissionLanes <=> c \notin Serial
         /\ Size[c] \in Nat
         /\ c # NoCall
BY CallsAssumption DEF Serial, AdmissionLanes

LEMMA InitType == Init => WellTyped
<1> SUFFICES ASSUME Init PROVE WellTyped
  OBVIOUS
<1>1. entries \in Seq(Serial) /\ accepted \in Seq(Serial)
  BY DEF Init
<1>2. pc \in [Calls -> PcStates] /\ PcOfLane
  BY DEF Init, PcStates, PcOfLane
<1>3. closer \in [Closers -> CloserStates] /\ worker \in WorkerStates
  BY DEF Init, CloserStates, WorkerStates
<1>4. inFlight \in [AdmissionLanes -> Int] /\ bytes \in [AdmissionLanes -> Int]
  BY DEF Init
<1>5. /\ answered \subseteq Calls
      /\ concurrentCalls \in Int /\ deliveryCalls \in Int /\ queuedBytes \in Int
      /\ serving \in Serial \cup {NoCall}
  BY DEF Init
<1>6. /\ closed \in BOOLEAN /\ canceled \in BOOLEAN /\ queueCreated \in BOOLEAN
      /\ queueClosed \in BOOLEAN /\ persistenceCanceled \in BOOLEAN
      /\ bridgeUp \in BOOLEAN /\ drained = {} /\ closeErr = {}
  BY DEF Init
<1> QED
  BY <1>1, <1>2, <1>3, <1>4, <1>5, <1>6 DEF WellTyped, TypeOK

\* Each step of a call keeps the types.
LEMMA CallType ==
  ASSUME WellTyped, NEW c \in Calls,
         Dispatch(c) \/ CallStep(c) \/ HandlerReturns(c)
  PROVE  WellTyped'
<1> USE LaneOfCall
    DEF WellTyped, TypeOK, PcOfLane, PcStates, Holding, WorkerStates, Become,
        callVars, laneVars, queueVars, closeVars
<1>1. CASE RefuseClosed(c) \/ RefuseFull(c)
  BY <1>1, ZenonT(40) DEF RefuseClosed, RefuseFull
<1>2. CASE TakeQueue(c)
  BY <1>2 DEF TakeQueue, Serial
<1>3. CASE Admit(c)
  BY <1>3 DEF Admit
<1>4. CASE Enqueue(c)
  BY <1>4 DEF Enqueue, Woken
<1>5. CASE EnqueueClosed(c) \/ EnqueueFull(c)
  BY <1>5, ZenonT(40) DEF EnqueueClosed, EnqueueFull
<1>6. CASE DropResponse(c)
  BY <1>6 DEF DropResponse, Finish
<1>7. CASE BeginDelivery(c)
  BY <1>7 DEF BeginDelivery
<1>8. CASE EndDelivery(c)
  BY <1>8 DEF EndDelivery, Finish
<1>9. CASE Release(c)
  BY <1>9 DEF Release
<1>10. CASE HandlerReturns(c)
  BY <1>10 DEF HandlerReturns
<1> QED
  BY <1>1, <1>2, <1>3, <1>4, <1>5, <1>6, <1>7, <1>8, <1>9, <1>10
  DEF Dispatch, CallStep

LEMMA WorkerType ==
  ASSUME WellTyped, WorkerStep
  PROVE  WellTyped'
<1> USE LaneOfCall
    DEF WellTyped, TypeOK, PcOfLane, PcStates, Holding, WorkerStates, Become,
        callVars, laneVars, queueVars, closeVars
<1>1. CASE WorkerWaits \/ WorkerExits
  BY <1>1 DEF WorkerWaits, WorkerExits
<1>2. CASE WorkerTakes
  <2>1. Head(entries) \in Serial /\ Tail(entries) \in Seq(Serial)
    BY <1>2 DEF WorkerTakes
  <2>2. Head(entries) \in Calls
    BY <2>1 DEF Serial
  <2> QED
    BY <1>2, <2>1, <2>2 DEF WorkerTakes
<1> QED
  BY <1>1, <1>2 DEF WorkerStep

LEMMA CloseType ==
  ASSUME WellTyped, NEW k \in Closers,
         BeginClose(k) \/ AwaitClose(k) \/ CloseStep(k) \/ DrainTimesOut(k)
  PROVE  WellTyped'
<1> USE DEF WellTyped, TypeOK, PcOfLane, WorkerStates, CloserStates, Reach,
            callVars, laneVars, queueVars, closeVars
<1>1. CASE BeginClose(k) \/ AwaitClose(k)
  BY <1>1, ZenonT(40) DEF BeginClose, AwaitClose
<1>2. CASE CancelRuntime(k) \/ SealQueue(k)
  BY <1>2, ZenonT(40) DEF CancelRuntime, SealQueue, Woken
<1>3. CASE SerialDrained(k) \/ ConcurrentDrained(k) \/ DeliveryDrained(k)
  BY <1>3, ZenonT(40) DEF SerialDrained, ConcurrentDrained, DeliveryDrained
<1>4. CASE ShutdownBridge(k) \/ CloseUnblocks(k)
  BY <1>4, ZenonT(40) DEF ShutdownBridge, CloseUnblocks
<1>5. CASE DrainTimesOut(k)
  BY <1>5, ZenonT(40) DEF DrainTimesOut, SerialDrainTimesOut, ConcurrentDrainTimesOut,
              DeliveryDrainTimesOut
<1> QED
  BY <1>1, <1>2, <1>3, <1>4, <1>5 DEF CloseStep

LEMMA NextType == WellTyped /\ [Next]_vars => WellTyped'
<1> SUFFICES ASSUME WellTyped, [Next]_vars PROVE WellTyped'
  OBVIOUS
<1>1. CASE WaiterStep
  BY <1>1 DEF WaiterStep, ConcurrentCallsDone, DeliveryCallsDone, WellTyped,
              TypeOK, PcOfLane, callVars, laneVars, queueVars
<1>2. CASE UNCHANGED vars
  BY <1>2 DEF vars, callVars, laneVars, queueVars, closeVars, WellTyped,
              TypeOK, PcOfLane
<1> QED
  BY <1>1, <1>2, CallType, WorkerType, CloseType DEF Next

LEMMA AlwaysWellTyped == Spec => []WellTyped
BY InitType, NextType, PTL DEF Spec

\* The state of the runtime is always well typed.
THEOREM TypeCorrect == Spec => []TypeOK
<1>1. WellTyped => TypeOK
  BY DEF WellTyped
<1> QED
  BY <1>1, AlwaysWellTyped, PTL
-----------------------------------------------------------------------------
(* The serial queue.  The calls it accepted are, in order: settled ones, the *)
(* one the worker serves (or the last it served) and those still queued.     *)

Taken == Len(accepted) - Len(entries)
Busy == {"running", "responding", "delivering"}

QueueOrder ==
  /\ Len(entries) <= Len(accepted)
  /\ \A i \in 1..Len(entries) : entries[i] = accepted[Taken + i]
  /\ \A i, j \in 1..Len(accepted) : accepted[i] = accepted[j] => i = j

QueuePc ==
  /\ \A i \in 1..Len(accepted) : i > Taken => pc[accepted[i]] = "queued"
  /\ \A i \in 1..Len(accepted) : i < Taken => pc[accepted[i]] = "settled"
  /\ Taken > 0 => \/ serving = NoCall /\ pc[accepted[Taken]] = "settled"
                  \/ serving = accepted[Taken] /\ pc[serving] \in Busy
  /\ Taken = 0 => serving = NoCall

WorkerState ==
  /\ worker = "serving" <=> serving # NoCall
  /\ worker = "unstarted" => accepted = <<>>
  /\ worker = "exited" => queueClosed /\ entries = <<>>

QueueInv == QueueOrder /\ QueuePc /\ WorkerState

LEMMA InitQueue == Init => QueueInv
BY DEF Init, QueueInv, QueueOrder, QueuePc, WorkerState, Taken

LEMMA Lengths ==
  ASSUME WellTyped, QueueInv
  PROVE  /\ Len(entries) \in Nat /\ Len(accepted) \in Nat /\ Taken \in Nat
         /\ Taken <= Len(accepted)
         /\ \A i \in 1..Len(accepted) : accepted[i] \in Serial
                                        /\ accepted[i] \in Calls
                                        /\ accepted[i] # NoCall
<1>1. entries \in Seq(Serial) /\ accepted \in Seq(Serial)
  BY DEF WellTyped, TypeOK
<1>2. \A i \in 1..Len(accepted) : accepted[i] \in Serial
  BY <1>1
<1>3. Serial \subseteq Calls
  BY DEF Serial
<1> QED
  BY <1>1, <1>2, <1>3, LaneOfCall DEF QueueInv, QueueOrder, Taken

\* A call that is neither queued, settled nor served was never accepted.
LEMMA NotAccepted ==
  ASSUME WellTyped, QueueInv, NEW c \in Calls, c # serving,
         pc[c] \notin {"queued", "settled"}
  PROVE  \A i \in 1..Len(accepted) : accepted[i] # c
<1> SUFFICES ASSUME NEW i \in 1..Len(accepted), accepted[i] = c PROVE FALSE
  OBVIOUS
<1>1. i > Taken \/ i < Taken \/ i = Taken
  BY Lengths
<1> QED
  BY <1>1, Lengths DEF QueueInv, QueuePc

\* A step of a call that was never accepted leaves the queue as it is.
LEMMA StrangerStep ==
  ASSUME WellTyped, QueueInv, NEW c \in Calls, NEW s, Become(c, s),
         c # serving, pc[c] \notin {"queued", "settled"},
         UNCHANGED <<queueClosed, entries, accepted, worker, serving>>
  PROVE  QueueInv'
<1>1. \A i \in 1..Len(accepted) : pc'[accepted[i]] = pc[accepted[i]]
  BY NotAccepted, Lengths DEF Become, WellTyped, TypeOK
<1>2. Taken' = Taken
  BY DEF Taken
<1>3. QueueOrder' /\ WorkerState'
  BY <1>2 DEF QueueInv, QueueOrder, WorkerState
<1>4. QueuePc'
  BY <1>1, <1>2, Lengths DEF QueueInv, QueuePc
<1> QED
  BY <1>3, <1>4 DEF QueueInv

\* The served call goes on, or ends and frees the worker.
LEMMA ServingStep ==
  ASSUME WellTyped, QueueInv, NEW c \in Calls, c = serving, NEW s, Become(c, s),
         UNCHANGED <<queueClosed, entries, accepted>>,
         \/ s \in Busy /\ UNCHANGED <<worker, serving>>
         \/ s = "settled" /\ worker' = "ready" /\ serving' = NoCall
  PROVE  QueueInv'
<1>1. Taken > 0 /\ c = accepted[Taken] /\ c # NoCall
  BY Lengths, LaneOfCall DEF QueueInv, QueuePc
<1>2. \A i \in 1..Len(accepted) : i # Taken => accepted[i] # c
  BY <1>1, Lengths DEF QueueInv, QueueOrder
<1>3. \A i \in 1..Len(accepted) : i # Taken => pc'[accepted[i]] = pc[accepted[i]]
  BY <1>2, Lengths DEF Become, WellTyped, TypeOK
<1>4. pc'[c] = s
  BY DEF Become, WellTyped, TypeOK
<1>5. Taken' = Taken
  BY DEF Taken
<1>6. QueueOrder'
  BY <1>5 DEF QueueInv, QueueOrder
<1>7. QueuePc'
  BY <1>1, <1>3, <1>4, <1>5, Lengths DEF QueueInv, QueuePc
<1>8. WorkerState'
  BY <1>1 DEF QueueInv, WorkerState
<1> QED
  BY <1>6, <1>7, <1>8 DEF QueueInv

LEMMA EnqueueStep ==
  ASSUME WellTyped, QueueInv, NEW c \in Calls, Enqueue(c)
  PROVE  QueueInv'
<1>1. /\ pc[c] = "enqueueing" /\ c \in Serial
      /\ entries' = Append(entries, c) /\ accepted' = Append(accepted, c)
      /\ pc' = [pc EXCEPT ![c] = "queued"] /\ UNCHANGED serving /\ ~queueClosed
  BY DEF Enqueue, Become, WellTyped, PcOfLane
<1>2. entries \in Seq(Serial) /\ accepted \in Seq(Serial)
  BY DEF WellTyped, TypeOK
<1>3. c # serving
  BY <1>1, LaneOfCall, Lengths DEF QueueInv, QueuePc, Busy
<1>4. \A i \in 1..Len(accepted) : accepted[i] # c
  BY <1>1, <1>3, NotAccepted
<1>5. Len(entries') = Len(entries) + 1 /\ Len(accepted') = Len(accepted) + 1
  BY <1>1, <1>2
<1>6. Taken' = Taken
  BY <1>5, Lengths DEF Taken
<1>7. /\ \A i \in 1..Len(accepted) : accepted'[i] = accepted[i]
      /\ accepted'[Len(accepted) + 1] = c
      /\ \A i \in 1..Len(entries) : entries'[i] = entries[i]
      /\ entries'[Len(entries) + 1] = c
  BY <1>1, <1>2
<1>8. QueueOrder'
  <2>1. \A i \in 1..Len(entries') : entries'[i] = accepted'[Taken' + i]
    <3> SUFFICES ASSUME NEW i \in 1..Len(entries')
                 PROVE  entries'[i] = accepted'[Taken' + i]
      OBVIOUS
    <3>1. CASE i = Len(entries) + 1
      BY <3>1, <1>6, <1>7, Lengths DEF Taken
    <3>2. CASE i \in 1..Len(entries)
      <4>1. Taken + i \in 1..Len(accepted)
        BY <3>2, Lengths DEF Taken
      <4> QED
        BY <3>2, <4>1, <1>6, <1>7 DEF QueueInv, QueueOrder
    <3> QED
      BY <3>1, <3>2, <1>5, Lengths
  <2>2. \A i, j \in 1..Len(accepted') : accepted'[i] = accepted'[j] => i = j
    BY <1>4, <1>5, <1>7, Lengths DEF QueueInv, QueueOrder
  <2> QED
    BY <2>1, <2>2, <1>5, Lengths DEF QueueInv, QueueOrder
<1>9. QueuePc'
  <2>1. \A i \in 1..Len(accepted) : pc'[accepted'[i]] = pc[accepted[i]]
    BY <1>1, <1>4, <1>7, Lengths
  <2>2. pc'[c] = "queued" /\ (serving # NoCall => pc'[serving] = pc[serving])
    BY <1>1, <1>3 DEF WellTyped, TypeOK
  <2> QED
    BY <1>1, <1>5, <1>6, <1>7, <2>1, <2>2, Lengths DEF QueueInv, QueuePc
<1>10. WorkerState'
  <2>1. worker' = IF worker \in {"unstarted", "waiting"} THEN "ready" ELSE worker
    BY DEF Enqueue, Woken
  <2> QED
    BY <2>1, <1>1 DEF QueueInv, WorkerState, Enqueue, closeVars
<1> QED
  BY <1>8, <1>9, <1>10 DEF QueueInv

LEMMA TakeStep ==
  ASSUME WellTyped, QueueInv, WorkerTakes
  PROVE  QueueInv' /\ pc[Head(entries)] = "queued"
<1> DEFINE c == Head(entries)
<1>1. /\ worker = "ready" /\ entries # <<>> /\ serving' = c
      /\ entries' = Tail(entries) /\ UNCHANGED accepted
      /\ pc' = [pc EXCEPT ![c] = "running"] /\ worker' = "serving"
  BY DEF WorkerTakes, Become
<1>2. entries \in Seq(Serial) /\ accepted \in Seq(Serial)
  BY DEF WellTyped, TypeOK
<1>3. serving = NoCall
  BY <1>1 DEF QueueInv, WorkerState
<1>4. /\ Len(entries') = Len(entries) - 1 /\ Len(entries) > 0
      /\ \A i \in 1..Len(entries') : entries'[i] = entries[i + 1]
      /\ c = entries[1]
  BY <1>1, <1>2
<1>5. Taken' = Taken + 1 /\ Taken + 1 <= Len(accepted)
  BY <1>1, <1>4, Lengths DEF Taken
<1>6. c = accepted[Taken + 1] /\ Taken + 1 \in 1..Len(accepted)
  BY <1>4, <1>5, Lengths DEF QueueInv, QueueOrder
<1>7. pc[c] = "queued" /\ c \in Calls /\ c # NoCall
  BY <1>6, Lengths DEF QueueInv, QueuePc
<1>8. \A i \in 1..Len(accepted) : i # Taken + 1 => accepted[i] # c
  BY <1>6 DEF QueueInv, QueueOrder
<1>9. /\ pc'[c] = "running"
      /\ \A i \in 1..Len(accepted) : i # Taken + 1 =>
           pc'[accepted[i]] = pc[accepted[i]]
  BY <1>1, <1>7, <1>8, Lengths DEF WellTyped, TypeOK
<1>10. QueueOrder'
  <2>1. \A i \in 1..Len(entries') : entries'[i] = accepted'[Taken' + i]
    <3> SUFFICES ASSUME NEW i \in 1..Len(entries')
                 PROVE  entries'[i] = accepted'[Taken' + i]
      OBVIOUS
    <3>1. i + 1 \in 1..Len(entries) /\ i \in Int
      BY <1>4, Lengths
    <3>2. entries[i + 1] = accepted[Taken + (i + 1)]
      BY <3>1 DEF QueueInv, QueueOrder
    <3>3. Taken + (i + 1) = Taken' + i
      BY <1>5, <3>1, Lengths
    <3> QED
      BY <1>1, <1>4, <3>2, <3>3
  <2> QED
    BY <2>1, <1>1, <1>4, Lengths DEF QueueInv, QueueOrder
<1>11. QueuePc'
  <2>1. \A i \in 1..Len(accepted) : i < Taken + 1 => pc[accepted[i]] = "settled"
    BY <1>3, Lengths DEF QueueInv, QueuePc
  <2>2. \A i \in 1..Len(accepted') : i > Taken' => pc'[accepted'[i]] = "queued"
    BY <1>1, <1>5, <1>9, Lengths DEF QueueInv, QueuePc
  <2>3. \A i \in 1..Len(accepted') : i < Taken' => pc'[accepted'[i]] = "settled"
    BY <2>1, <1>1, <1>5, <1>9, Lengths
  <2>4. serving' = accepted'[Taken'] /\ pc'[serving'] \in Busy /\ Taken' > 0
    BY <1>1, <1>5, <1>6, <1>9, Lengths DEF Busy
  <2> QED
    BY <2>2, <2>3, <2>4 DEF QueuePc
<1>12. WorkerState'
  BY <1>1, <1>7 DEF WorkerState
<1> QED
  BY <1>7, <1>10, <1>11, <1>12 DEF QueueInv

\* The steps of calls that touch the queue or a served call.
LEMMA CallQueue ==
  ASSUME WellTyped, QueueInv, NEW c \in Calls,
         Dispatch(c) \/ CallStep(c) \/ HandlerReturns(c)
  PROVE  QueueInv'
<1>1. serving # NoCall => pc[serving] \in Busy
  BY Lengths DEF QueueInv, QueuePc
<1>2. c # NoCall
  BY LaneOfCall
<1> DEFINE Kept == UNCHANGED <<queueClosed, entries, accepted, worker, serving>>
<1>3. CASE Dispatch(c)
  <2>1. pc[c] = "new" /\ Kept /\ \E s : Become(c, s)
    BY <1>3 DEF Dispatch, RefuseClosed, TakeQueue, Admit, RefuseFull, queueVars
  <2> QED
    BY <2>1, <1>1, <1>2, StrangerStep DEF Busy
<1>4. CASE Enqueue(c)
  BY <1>4, EnqueueStep
<1>5. CASE EnqueueClosed(c) \/ EnqueueFull(c)
  <2>1. pc[c] = "enqueueing" /\ Kept /\ \E s : Become(c, s)
    BY <1>5 DEF EnqueueClosed, EnqueueFull, queueVars
  <2> QED
    BY <2>1, <1>1, <1>2, StrangerStep DEF Busy
<1>6. CASE HandlerReturns(c) \/ BeginDelivery(c)
  <2>1. pc[c] \in Busy /\ Kept /\ \E s \in Busy : Become(c, s)
    BY <1>6 DEF HandlerReturns, BeginDelivery, queueVars, Busy
  <2> QED
    BY <2>1, StrangerStep, ServingStep DEF Busy
<1>7. CASE DropResponse(c) \/ EndDelivery(c)
  <2>1. /\ pc[c] \in Busy /\ Finish(c)
        /\ UNCHANGED <<queueClosed, entries, accepted>>
    BY <1>7 DEF DropResponse, EndDelivery, Finish, Busy
  <2>2. CASE c # serving
    BY <2>1, <2>2, StrangerStep DEF Finish, Busy
  <2>3. CASE c = serving
    <3>1. c \in Serial
      BY <2>3, <1>2 DEF WellTyped, TypeOK
    <3>2. Become(c, "settled") /\ worker' = "ready" /\ serving' = NoCall
      BY <2>1, <2>3, <3>1, LaneOfCall DEF Finish
    <3> QED
      BY <2>1, <2>3, <3>2, ServingStep
  <2> QED
    BY <2>2, <2>3
<1>8. CASE Release(c)
  <2>1. pc[c] = "releasing" /\ Kept /\ \E s : Become(c, s)
    BY <1>8 DEF Release, queueVars
  <2> QED
    BY <2>1, <1>1, <1>2, StrangerStep DEF Busy
<1> QED
  BY <1>3, <1>4, <1>5, <1>6, <1>7, <1>8 DEF CallStep

\* Steps that leave the calls and the sequences alone.
LEMMA QueueKept ==
  ASSUME QueueInv, UNCHANGED <<pc, entries, accepted, serving>>, WorkerState'
  PROVE  QueueInv'
<1>1. Taken' = Taken
  BY DEF Taken
<1> QED
  BY <1>1 DEF QueueInv, QueueOrder, QueuePc

LEMMA NextQueue == WellTyped /\ QueueInv /\ [Next]_vars => QueueInv'
<1> SUFFICES ASSUME WellTyped, QueueInv, [Next]_vars PROVE QueueInv'
  OBVIOUS
<1>1. CASE WorkerWaits \/ WorkerExits
  <2>1. UNCHANGED <<pc, entries, accepted, serving, queueClosed>>
    BY <1>1 DEF WorkerWaits, WorkerExits, callVars
  <2>2. WorkerState'
    BY <1>1, <2>1 DEF WorkerWaits, WorkerExits, QueueInv, WorkerState
  <2> QED
    BY <2>1, <2>2, QueueKept
<1>2. ASSUME NEW k \in Closers, SealQueue(k) PROVE QueueInv'
  <2>1. /\ UNCHANGED <<pc, entries, accepted, serving>> /\ queueClosed' = TRUE
        /\ worker' = IF worker = "waiting" THEN "ready" ELSE worker
    BY <1>2 DEF SealQueue, callVars, Woken
  <2>2. WorkerState'
    BY <2>1 DEF QueueInv, WorkerState
  <2> QED
    BY <2>1, <2>2, QueueKept
<1>3. ASSUME NEW k \in Closers, ~SealQueue(k),
             BeginClose(k) \/ AwaitClose(k) \/ CloseStep(k) \/ DrainTimesOut(k)
      PROVE  UNCHANGED <<pc, entries, accepted, serving, queueClosed, worker>>
  BY <1>3 DEF BeginClose, AwaitClose, CloseStep, CancelRuntime,
    SerialDrained, ConcurrentDrained, DeliveryDrained, ShutdownBridge,
    CloseUnblocks, DrainTimesOut, SerialDrainTimesOut, ConcurrentDrainTimesOut,
    DeliveryDrainTimesOut, callVars, queueVars
<1>4. CASE WaiterStep \/ UNCHANGED vars
  BY <1>4, QueueKept DEF WaiterStep, ConcurrentCallsDone, DeliveryCallsDone,
    vars, callVars, queueVars, QueueInv, WorkerState
<1>5. ASSUME UNCHANGED <<pc, entries, accepted, serving, queueClosed, worker>>
      PROVE  QueueInv'
  BY <1>5, QueueKept DEF QueueInv, WorkerState
<1> QED
  BY <1>1, <1>2, <1>3, <1>4, <1>5, CallQueue, TakeStep DEF Next, WorkerStep

LEMMA AlwaysQueueInv == Spec => [](WellTyped /\ QueueInv)
BY InitType, NextType, InitQueue, NextQueue, PTL DEF Spec

\* Persistence calls are accepted, started and finished in one order.
THEOREM SerialOrder == Spec => []SerialInOrder
<1>1. WellTyped /\ QueueInv => SerialInOrder
  <2> SUFFICES ASSUME WellTyped, QueueInv PROVE SerialInOrder
    OBVIOUS
  <2>1. Taken \in 0..Len(accepted)
    BY Lengths
  <2>2. entries = SubSeq(accepted, Taken + 1, Len(accepted))
    <3>1. entries \in Seq(Serial) /\ accepted \in Seq(Serial)
      BY DEF WellTyped, TypeOK
    <3>2. /\ Len(SubSeq(accepted, Taken + 1, Len(accepted))) = Len(entries)
          /\ SubSeq(accepted, Taken + 1, Len(accepted)) \in Seq(Serial)
      BY <3>1, <2>1, Lengths DEF Taken
    <3>3. \A i \in 1..Len(entries) :
            SubSeq(accepted, Taken + 1, Len(accepted))[i] = accepted[Taken + i]
      BY <3>1, <2>1, Lengths DEF Taken
    <3>4. \A i \in 1..Len(entries) :
            entries[i] = SubSeq(accepted, Taken + 1, Len(accepted))[i]
      BY <3>3 DEF QueueInv, QueueOrder
    <3> QED
      BY <3>1, <3>2, <3>4, SeqEqual
  <2>3. \A i \in 1..Len(accepted) : Started(accepted[i]) <=> i <= Taken
    BY Lengths DEF QueueInv, QueuePc, Started, Busy
  <2>4. \A i \in 1..(Taken - 1) : pc[accepted[i]] = "settled"
    BY Lengths DEF QueueInv, QueuePc
  <2>5. serving # NoCall => Taken > 0 /\ serving = accepted[Taken]
    BY Lengths DEF QueueInv, QueuePc
  <2> QED
    BY <2>1, <2>2, <2>3, <2>4, <2>5 DEF SerialInOrder
<1> QED
  BY <1>1, AlwaysQueueInv, PTL

-----------------------------------------------------------------------------
(* Counters.  A step moves one call, so the sets the counters stand for     *)
(* gain it, lose it or stay; cardinality follows.                           *)

Admitted == {c \in Calls \ Serial : pc[c] \in Holding}
Delivering == {c \in Calls : pc[c] = "delivering"}

LaneCounts ==
  /\ \A l \in AdmissionLanes :
       /\ inFlight[l] = Cardinality(Holders(l))
       /\ inFlight[l] <= MaxCalls[l]
  /\ concurrentCalls = Cardinality(Admitted)

DeliveryCount == deliveryCalls = Cardinality(Delivering)

LEMMA CountsSplit == CallsCounted <=> LaneCounts /\ DeliveryCount
BY DEF CallsCounted, LaneCounts, DeliveryCount, Admitted, Delivering

LEMMA FiniteCounts ==
  /\ \A l \in AdmissionLanes : IsFiniteSet(Holders(l))
  /\ IsFiniteSet(Admitted)
  /\ IsFiniteSet(Delivering)
<1>1. \A S : S \subseteq Calls => IsFiniteSet(S)
  BY CallsAssumption, FS_Subset
<1>2. \A l \in AdmissionLanes : Holders(l) \subseteq Calls
  BY DEF Holders
<1> QED
  BY <1>1, <1>2 DEF Admitted, Delivering

LEMMA InitCounts == Init => LaneCounts /\ DeliveryCount
<1> SUFFICES ASSUME Init PROVE LaneCounts /\ DeliveryCount
  OBVIOUS
<1>1. \A l \in AdmissionLanes : Holders(l) = {}
  BY DEF Init, Holders, Holding
<1>2. Admitted = {} /\ Delivering = {}
  BY DEF Init, Admitted, Delivering, Holding
<1>3. \A l \in AdmissionLanes : MaxCalls[l] \in Nat
  BY LimitsAssumption
<1>4. \A l \in AdmissionLanes : inFlight[l] = 0
  BY DEF Init
<1>5. Cardinality({}) = 0
  BY FS_EmptySet
<1>6. concurrentCalls = 0 /\ deliveryCalls = 0
  BY DEF Init
<1> QED
  BY <1>1, <1>2, <1>3, <1>4, <1>5, <1>6 DEF LaneCounts, DeliveryCount

\* A call that keeps its place, or never takes one, moves no lane counter.
LEMMA PlaceKept ==
  ASSUME WellTyped, LaneCounts, NEW c \in Calls, NEW s, Become(c, s),
         c \in Serial \/ (pc[c] \in Holding <=> s \in Holding),
         UNCHANGED laneVars
  PROVE  LaneCounts'
<1>1. \A l \in AdmissionLanes : Holders(l)' = Holders(l)
  <2> SUFFICES ASSUME NEW l \in AdmissionLanes, NEW d \in Calls, Lane[d] = l
               PROVE  pc'[d] \in Holding <=> pc[d] \in Holding
    BY DEF Holders
  <2>1. d \notin Serial
    BY LaneOfCall
  <2> QED
    BY <2>1 DEF Become, WellTyped, TypeOK
<1>2. Admitted' = Admitted
  <2> SUFFICES ASSUME NEW d \in Calls \ Serial
               PROVE  pc'[d] \in Holding <=> pc[d] \in Holding
    BY DEF Admitted, Serial
  <2> QED
    BY DEF Become, WellTyped, TypeOK
<1> QED
  BY <1>1, <1>2 DEF LaneCounts, laneVars

\* A call that neither enters nor leaves the callback moves no delivery count.
LEMMA NotDelivering ==
  ASSUME WellTyped, DeliveryCount, NEW c \in Calls, NEW s, Become(c, s),
         pc[c] # "delivering", s # "delivering", UNCHANGED deliveryCalls
  PROVE  DeliveryCount'
<1>1. Delivering' = Delivering
  BY DEF Delivering, Become, WellTyped, TypeOK
<1> QED
  BY <1>1 DEF DeliveryCount

LEMMA AdmitCounts ==
  ASSUME WellTyped, LaneCounts, NEW c \in Calls, Admit(c)
  PROVE  LaneCounts'
<1> DEFINE m == Lane[c]
<1>1. m \in AdmissionLanes /\ c \notin Serial /\ pc[c] = "new"
  BY LaneOfCall DEF Admit
<1>2. pc' = [pc EXCEPT ![c] = "running"] /\ pc \in [Calls -> PcStates]
  BY DEF Admit, Become, WellTyped, TypeOK
<1>3. c \notin Holders(m) /\ c \notin Admitted
  BY <1>1 DEF Holders, Admitted, Holding
<1>4. Holders(m)' = Holders(m) \cup {c}
  BY <1>2 DEF Holders, Holding
<1>5. \A l \in AdmissionLanes : l # m => Holders(l)' = Holders(l)
  BY <1>2 DEF Holders
<1>6. Admitted' = Admitted \cup {c}
  BY <1>1, <1>2 DEF Admitted, Holding, Serial
<1>7. Cardinality(Holders(m)') = Cardinality(Holders(m)) + 1
  BY <1>1, <1>3, <1>4, FiniteCounts, FS_AddElement
<1>8. Cardinality(Admitted') = Cardinality(Admitted) + 1
  BY <1>3, <1>6, FiniteCounts, FS_AddElement
<1>9. inFlight' = [inFlight EXCEPT ![m] = @ + 1] /\ inFlight[m] < MaxCalls[m]
      /\ concurrentCalls' = concurrentCalls + 1
      /\ inFlight \in [AdmissionLanes -> Int]
  BY DEF Admit, HasRoom, WellTyped, TypeOK
<1>10. MaxCalls[m] \in Nat
  BY <1>1, LimitsAssumption
<1>11. concurrentCalls' = Cardinality(Admitted')
  BY <1>8, <1>9 DEF LaneCounts
<1>12. ASSUME NEW l \in AdmissionLanes
       PROVE  inFlight'[l] = Cardinality(Holders(l)') /\ inFlight'[l] <= MaxCalls[l]
  <2>1. CASE l = m
    BY <2>1, <1>7, <1>9, <1>10 DEF LaneCounts
  <2>2. CASE l # m
    BY <2>2, <1>5, <1>9 DEF LaneCounts
  <2> QED
    BY <2>1, <2>2
<1> QED
  BY <1>11, <1>12 DEF LaneCounts

LEMMA ReleaseCounts ==
  ASSUME WellTyped, LaneCounts, NEW c \in Calls, Release(c)
  PROVE  LaneCounts'
<1> DEFINE m == Lane[c]
<1>1. m \in AdmissionLanes /\ c \notin Serial /\ pc[c] = "releasing"
  BY LaneOfCall DEF Release, WellTyped, PcOfLane
<1>2. pc' = [pc EXCEPT ![c] = "settled"] /\ pc \in [Calls -> PcStates]
  BY DEF Release, Become, WellTyped, TypeOK
<1>3. c \in Holders(m) /\ c \in Admitted
  BY <1>1 DEF Holders, Admitted, Holding
<1>4. Holders(m)' = Holders(m) \ {c}
  BY <1>2 DEF Holders, Holding
<1>5. \A l \in AdmissionLanes : l # m => Holders(l)' = Holders(l)
  BY <1>2 DEF Holders
<1>6. Admitted' = Admitted \ {c}
  BY <1>1, <1>2 DEF Admitted, Holding, Serial
<1>7. Cardinality(Holders(m)') = Cardinality(Holders(m)) - 1
  BY <1>1, <1>3, <1>4, FiniteCounts, FS_RemoveElement
<1>8. Cardinality(Admitted') = Cardinality(Admitted) - 1
  BY <1>3, <1>6, FiniteCounts, FS_RemoveElement
<1>9. inFlight' = [inFlight EXCEPT ![m] = @ - 1]
      /\ concurrentCalls' = concurrentCalls - 1
      /\ inFlight \in [AdmissionLanes -> Int]
  BY DEF Release, WellTyped, TypeOK
<1>10. MaxCalls[m] \in Nat
  BY <1>1, LimitsAssumption
<1>11. concurrentCalls' = Cardinality(Admitted')
  BY <1>8, <1>9 DEF LaneCounts
<1>12. ASSUME NEW l \in AdmissionLanes
       PROVE  inFlight'[l] = Cardinality(Holders(l)') /\ inFlight'[l] <= MaxCalls[l]
  <2>1. CASE l = m
    BY <2>1, <1>1, <1>7, <1>9, <1>10 DEF LaneCounts
  <2>2. CASE l # m
    BY <2>2, <1>5, <1>9 DEF LaneCounts
  <2> QED
    BY <2>1, <2>2
<1> QED
  BY <1>11, <1>12 DEF LaneCounts
\* The callback starts or ends for one call.
LEMMA BeginCounts ==
  ASSUME WellTyped, DeliveryCount, NEW c \in Calls, BeginDelivery(c)
  PROVE  DeliveryCount'
<1>1. Delivering' = Delivering \cup {c} /\ c \notin Delivering
  BY DEF BeginDelivery, Become, Delivering, WellTyped, TypeOK
<1>2. Cardinality(Delivering') = Cardinality(Delivering) + 1
  BY <1>1, FiniteCounts, FS_AddElement
<1> QED
  BY <1>2 DEF DeliveryCount, BeginDelivery

LEMMA EndCounts ==
  ASSUME WellTyped, DeliveryCount, NEW c \in Calls, EndDelivery(c)
  PROVE  DeliveryCount'
<1>1. Delivering' = Delivering \ {c} /\ c \in Delivering
  BY DEF EndDelivery, Finish, Become, Delivering, WellTyped, TypeOK
<1>2. Cardinality(Delivering') = Cardinality(Delivering) - 1
  BY <1>1, FiniteCounts, FS_RemoveElement
<1> QED
  BY <1>2 DEF DeliveryCount, EndDelivery

LEMMA CallCounts ==
  ASSUME WellTyped, LaneCounts, DeliveryCount, NEW c \in Calls,
         Dispatch(c) \/ CallStep(c) \/ HandlerReturns(c)
  PROVE  LaneCounts' /\ DeliveryCount'
<1> USE LaneOfCall DEF Holding
<1>1. CASE RefuseClosed(c) \/ RefuseFull(c)
  <2>1. Become(c, "refused") /\ pc[c] = "new" /\ UNCHANGED <<laneVars, deliveryCalls>>
    BY <1>1 DEF RefuseClosed, RefuseFull
  <2> QED
    BY <2>1, PlaceKept, NotDelivering
<1>2. CASE TakeQueue(c)
  <2>1. Become(c, "enqueueing") /\ pc[c] = "new"
        /\ UNCHANGED <<laneVars, deliveryCalls>>
    BY <1>2 DEF TakeQueue
  <2> QED
    BY <2>1, PlaceKept, NotDelivering
<1>3. CASE Admit(c)
  <2>1. Become(c, "running") /\ pc[c] = "new" /\ UNCHANGED deliveryCalls
    BY <1>3 DEF Admit
  <2> QED
    BY <1>3, <2>1, AdmitCounts, NotDelivering
<1>4. CASE Enqueue(c) \/ EnqueueClosed(c) \/ EnqueueFull(c)
  <2>1. /\ \E s \in {"queued", "refused", "responding"} : Become(c, s)
        /\ pc[c] = "enqueueing"
        /\ UNCHANGED <<laneVars, deliveryCalls>>
    BY <1>4 DEF Enqueue, EnqueueClosed, EnqueueFull
  <2>2. c \in Serial
    BY <2>1 DEF WellTyped, PcOfLane
  <2> QED
    BY <2>1, <2>2, PlaceKept, NotDelivering
<1>5. CASE HandlerReturns(c)
  <2>1. Become(c, "responding") /\ pc[c] = "running"
        /\ UNCHANGED <<laneVars, deliveryCalls>>
    BY <1>5 DEF HandlerReturns
  <2> QED
    BY <2>1, PlaceKept, NotDelivering
<1>6. CASE DropResponse(c)
  <2>1. /\ \E s \in {"releasing", "settled"} :
             Become(c, s) /\ (c \in Serial \/ s = "releasing")
        /\ pc[c] = "responding"
        /\ UNCHANGED <<laneVars, deliveryCalls>>
    BY <1>6 DEF DropResponse, Finish
  <2> QED
    BY <2>1, PlaceKept, NotDelivering
<1>7. CASE BeginDelivery(c)
  <2>1. Become(c, "delivering") /\ pc[c] = "responding" /\ UNCHANGED laneVars
    BY <1>7 DEF BeginDelivery
  <2> QED
    BY <1>7, <2>1, PlaceKept, BeginCounts
<1>8. CASE EndDelivery(c)
  <2>1. /\ \E s \in {"releasing", "settled"} :
             Become(c, s) /\ (c \in Serial \/ s = "releasing")
        /\ pc[c] = "delivering"
        /\ UNCHANGED laneVars
    BY <1>8 DEF EndDelivery, Finish
  <2> QED
    BY <1>8, <2>1, PlaceKept, EndCounts
<1>9. CASE Release(c)
  <2>1. Become(c, "settled") /\ pc[c] = "releasing" /\ UNCHANGED deliveryCalls
    BY <1>9 DEF Release
  <2> QED
    BY <1>9, <2>1, ReleaseCounts, NotDelivering
<1> QED
  BY <1>1, <1>2, <1>3, <1>4, <1>5, <1>6, <1>7, <1>8, <1>9
  DEF Dispatch, CallStep

LEMMA SameCounts ==
  ASSUME LaneCounts, DeliveryCount, UNCHANGED <<pc, laneVars, deliveryCalls>>
  PROVE  LaneCounts' /\ DeliveryCount'
BY DEF LaneCounts, DeliveryCount, Holders, Admitted, Delivering, laneVars

LEMMA NextCounts ==
  WellTyped /\ QueueInv /\ LaneCounts /\ DeliveryCount /\ [Next]_vars
    => LaneCounts' /\ DeliveryCount'
<1> SUFFICES ASSUME WellTyped, QueueInv, LaneCounts, DeliveryCount,
                    [Next]_vars
             PROVE  LaneCounts' /\ DeliveryCount'
  OBVIOUS
<1>1. CASE WorkerTakes
  <2>1. Head(entries) \in Serial
    BY <1>1 DEF WorkerTakes, WellTyped, TypeOK
  <2>2. Head(entries) \in Calls
    BY <2>1 DEF Serial
  <2>3. Become(Head(entries), "running") /\ UNCHANGED <<laneVars, deliveryCalls>>
    BY <1>1 DEF WorkerTakes
  <2> QED
    BY <1>1, <2>1, <2>2, <2>3, PlaceKept, NotDelivering, TakeStep
<1>2. CASE WorkerWaits \/ WorkerExits \/ WaiterStep \/ UNCHANGED vars
  BY <1>2, SameCounts
  DEF WorkerWaits, WorkerExits, WaiterStep, ConcurrentCallsDone,
      DeliveryCallsDone, vars, callVars
<1>3. ASSUME NEW k \in Closers,
             BeginClose(k) \/ AwaitClose(k) \/ CloseStep(k) \/ DrainTimesOut(k)
      PROVE  UNCHANGED <<pc, laneVars, deliveryCalls>>
  BY <1>3 DEF BeginClose, AwaitClose, CloseStep, CancelRuntime, SealQueue,
    SerialDrained, ConcurrentDrained, DeliveryDrained, ShutdownBridge,
    CloseUnblocks, DrainTimesOut, SerialDrainTimesOut, ConcurrentDrainTimesOut,
    DeliveryDrainTimesOut, callVars
<1> QED
  BY <1>1, <1>2, <1>3, SameCounts, CallCounts DEF Next, WorkerStep

LEMMA AlwaysCounts == Spec => [](LaneCounts /\ DeliveryCount)
BY InitCounts, NextCounts, InitType, InitQueue, AlwaysQueueInv, PTL DEF Spec

\* Every counter of the runtime is the number of calls it stands for, and no
\* lane exceeds its limit.
THEOREM CountersExact == Spec => []CallsCounted
BY AlwaysCounts, CountsSplit, PTL

-----------------------------------------------------------------------------
(* Byte budgets.  BytesOf is a fold of the community modules, a recursive    *)
(* function over subsets: what holds of it is shown by a counterexample that *)
(* has no smaller one.                                                       *)

Chosen(s) == CHOOSE c \in s : TRUE

\* g is the sum over every subset of S.
IsTotal(g, S) ==
  g = [s \in SUBSET S |->
         IF s = {} THEN 0 ELSE Size[Chosen(s)] + g[s \ {Chosen(s)}]]
Total(S) == CHOOSE g : IsTotal(g, S)

LEMMA BytesAreTotal == ASSUME NEW S PROVE BytesOf(S) = Total(S)[S]
BY DEF BytesOf, MapThenSumSet, MapThenFoldSet, Total, IsTotal, Chosen

LEMMA ChosenIsMember == ASSUME NEW s, s # {} PROVE Chosen(s) \in s
BY DEF Chosen

\* A set of sets of calls has one of which it has no smaller subset: what holds
\* of a set when it holds of its smaller subsets has no counterexample.
LEMMA LeastSubset ==
  ASSUME NEW B \in SUBSET SUBSET Calls, B # {}
  PROVE  \E T \in B : \A U \in SUBSET T : U # T => U \notin B
<1>1. IsWellFoundedOn(StrictSubsetOrdering(Calls), SUBSET Calls)
  <2>1. FiniteSubsetsOf(Calls) = SUBSET Calls
    BY FS_FiniteSubsetsOfFinite, CallsAssumption
  <2> QED BY <2>1, FS_StrictSubsetOrderingWellFounded, Zenon
<1>2. PICK T \in B : \A U \in B : ~(<<U, T>> \in StrictSubsetOrdering(Calls))
  BY <1>1, WFMin
<1>3. ASSUME NEW U \in SUBSET T, U # T, U \in B PROVE FALSE
  <2>1. <<U, T>> \in (SUBSET Calls) \X (SUBSET Calls)
    BY <1>3
  <2>2. <<U, T>> \in StrictSubsetOrdering(Calls)
    BY <1>3, <2>1 DEF StrictSubsetOrdering
  <2> QED BY <1>2, <1>3, <2>2
<1> QED
  BY <1>3

\* What a sum is, and that the sums of a set contain those of its subsets.
LEMMA TotalValues ==
  ASSUME NEW S, NEW g, IsTotal(g, S)
  PROVE  /\ g[{}] = 0
         /\ \A s \in SUBSET S : s # {} => g[s] = Size[Chosen(s)] + g[s \ {Chosen(s)}]
BY DEF IsTotal

LEMMA TotalRestricts ==
  ASSUME NEW S, NEW g, IsTotal(g, S), NEW R \in SUBSET S
  PROVE  IsTotal([s \in SUBSET R |-> g[s]], R)
<1> DEFINE h == [s \in SUBSET R |-> g[s]]
<1>1. ASSUME NEW s \in SUBSET R
      PROVE  h[s] = IF s = {} THEN 0 ELSE Size[Chosen(s)] + h[s \ {Chosen(s)}]
  <2>1. s \in SUBSET S /\ s \ {Chosen(s)} \in SUBSET R /\ h[s] = g[s]
        /\ h[s \ {Chosen(s)}] = g[s \ {Chosen(s)}]
    OBVIOUS
  <2> QED BY <2>1, TotalValues
<1> QED
  BY <1>1 DEF IsTotal

LEMMA TotalIsUnique ==
  ASSUME NEW S \in SUBSET Calls, NEW g, NEW h, IsTotal(g, S), IsTotal(h, S)
  PROVE  g = h
<1> DEFINE B == {s \in SUBSET S : g[s] # h[s]}
<1>1. SUFFICES ASSUME B # {} PROVE FALSE
  <2>1. /\ g = [s \in SUBSET S |-> g[s]]
        /\ h = [s \in SUBSET S |-> h[s]]
    BY DEF IsTotal
  <2>2. (\A s \in SUBSET S : g[s] = h[s]) => g = h
    BY <2>1
  <2> QED BY <2>2
<1>2. PICK T \in B : \A U \in SUBSET T : U # T => U \notin B
  <2>1. B \in SUBSET SUBSET Calls
    OBVIOUS
  <2> QED BY <1>1, <2>1, LeastSubset
<1>3. T # {} /\ T \in SUBSET S
  BY <1>2, TotalValues
<1>4. Chosen(T) \in T
  BY <1>3, ChosenIsMember
<1>5. g[T \ {Chosen(T)}] = h[T \ {Chosen(T)}]
  <2>1. T \ {Chosen(T)} \in SUBSET T /\ T \ {Chosen(T)} # T /\ T \ {Chosen(T)} \in SUBSET S
    BY <1>3, <1>4
  <2> QED BY <1>2, <2>1
<1> QED
  BY <1>2, <1>3, <1>5, TotalValues

\* Every set of calls has a sum.
LEMMA TotalExists ==
  ASSUME NEW S \in SUBSET Calls
  PROVE  \E g : IsTotal(g, S)
<1> DEFINE B == {s \in SUBSET Calls : ~\E g : IsTotal(g, s)}
<1>1. SUFFICES ASSUME B # {} PROVE FALSE
  OBVIOUS
<1>2. PICK T \in B : \A U \in SUBSET T : U # T => U \notin B
  BY <1>1, LeastSubset
<1>3. T \in SUBSET Calls /\ ~\E g : IsTotal(g, T)
  BY <1>2
<1>4. \A U \in SUBSET T : U # T => U \in SUBSET Calls /\ IsTotal(Total(U), U)
  <2> SUFFICES ASSUME NEW U \in SUBSET T, U # T
               PROVE  U \in SUBSET Calls /\ IsTotal(Total(U), U)
    OBVIOUS
  <2>1. \E g : IsTotal(g, U)
    BY <1>2, <1>3
  <2> QED BY <1>3, <2>1 DEF Total
<1> DEFINE rest(s) == s \ {Chosen(s)}
           g == [s \in SUBSET T |->
                   IF s = {} THEN 0
                   ELSE IF s = T THEN Size[Chosen(T)] + Total(rest(T))[rest(T)]
                   ELSE Total(s)[s]]
<1>5. ASSUME NEW s \in SUBSET T
      PROVE  g[s] = IF s = {} THEN 0 ELSE Size[Chosen(s)] + g[rest(s)]
  <2>1. CASE s = {}
    BY <2>1
  <2>2. CASE s # {}
    <3>1. Chosen(s) \in s /\ rest(s) \in SUBSET s /\ rest(s) # s /\ rest(s) \in SUBSET T
          /\ rest(s) # T
      BY <2>2, ChosenIsMember
    <3>2. IsTotal(Total(rest(s)), rest(s))
      BY <1>4, <3>1
    <3>3. g[rest(s)] = Total(rest(s))[rest(s)]
      <4>1. CASE rest(s) = {}
        BY <3>2, <4>1, TotalValues
      <4>2. CASE rest(s) # {}
        BY <3>1, <4>2
      <4> QED BY <4>1, <4>2
    <3>4. CASE s = T
      BY <2>2, <3>3, <3>4
    <3>5. CASE s # T
      <4>1. IsTotal(Total(s), s) /\ s \in SUBSET Calls
        BY <1>4, <3>5
      <4>2. Total(s)[s] = Size[Chosen(s)] + Total(s)[rest(s)]
        <5>1. s \in SUBSET s
          OBVIOUS
        <5> QED BY <2>2, <4>1, <5>1, TotalValues
      <4>3. [r \in SUBSET rest(s) |-> Total(s)[r]] = Total(rest(s))
        <5>1. IsTotal([r \in SUBSET rest(s) |-> Total(s)[r]], rest(s))
          BY <3>1, <4>1, TotalRestricts
        <5>2. rest(s) \in SUBSET Calls
          BY <3>1, <4>1
        <5> HIDE DEF rest
        <5> QED BY <3>2, <5>1, <5>2, TotalIsUnique
      <4>4. Total(s)[rest(s)] = Total(rest(s))[rest(s)]
        <5>1. rest(s) \in SUBSET rest(s)
          OBVIOUS
        <5> HIDE DEF rest
        <5>2. [r \in SUBSET rest(s) |-> Total(s)[r]][rest(s)] = Total(s)[rest(s)]
          BY <5>1
        <5> QED BY <4>3, <5>2
      <4>5. g[s] = Total(s)[s]
        BY <2>2, <3>5
      <4> QED BY <2>2, <3>3, <4>2, <4>4, <4>5
    <3> QED BY <3>4, <3>5
  <2> QED BY <2>1, <2>2
<1>6. IsTotal(g, T)
  BY <1>5 DEF IsTotal
<1> QED
  BY <1>3, <1>6

\* The sum over S is that of all calls, taken at S.
LEMMA BytesOfSubset ==
  ASSUME NEW S \in SUBSET Calls
  PROVE  BytesOf(S) = Total(Calls)[S] /\ IsTotal(Total(Calls), Calls)
<1>1. IsTotal(Total(S), S) /\ IsTotal(Total(Calls), Calls)
  <2>1. \A R \in SUBSET Calls : \E g : IsTotal(g, R)
    BY TotalExists
  <2> QED BY <2>1 DEF Total
<1>2. [s \in SUBSET S |-> Total(Calls)[s]] = Total(S)
  <2>1. IsTotal([s \in SUBSET S |-> Total(Calls)[s]], S)
    BY <1>1, TotalRestricts
  <2> QED BY <1>1, <2>1, TotalIsUnique
<1>3. [s \in SUBSET S |-> Total(Calls)[s]][S] = Total(Calls)[S]
  OBVIOUS
<1> QED
  BY <1>1, <1>2, <1>3, BytesAreTotal

\* The bytes of no calls, of some calls, and of one more call.
LEMMA BytesOfNone == BytesOf({}) = 0
BY BytesOfSubset, TotalValues

LEMMA BytesStep ==
  ASSUME NEW S \in SUBSET Calls, S # {}
  PROVE  /\ Chosen(S) \in S
         /\ BytesOf(S) = Size[Chosen(S)] + BytesOf(S \ {Chosen(S)})
<1>1. S \ {Chosen(S)} \in SUBSET Calls
  OBVIOUS
<1>2. Total(Calls)[S] = Size[Chosen(S)] + Total(Calls)[S \ {Chosen(S)}]
  BY BytesOfSubset, TotalValues
<1> QED
  BY <1>1, <1>2, BytesOfSubset, ChosenIsMember

LEMMA BytesType ==
  ASSUME NEW S \in SUBSET Calls
  PROVE  BytesOf(S) \in Nat
<1> DEFINE B == {s \in SUBSET Calls : BytesOf(s) \notin Nat}
<1>1. SUFFICES ASSUME B # {} PROVE FALSE
  OBVIOUS
<1>2. PICK T \in B : \A U \in SUBSET T : U # T => U \notin B
  <2>1. B \in SUBSET SUBSET Calls
    OBVIOUS
  <2> HIDE DEF B
  <2> QED BY <1>1, <2>1, LeastSubset
<1>3. T \in SUBSET Calls /\ BytesOf(T) \notin Nat /\ T # {}
  <2>1. T = {} => BytesOf(T) = 0
    BY BytesOfNone, Zenon
  <2> QED BY <1>2, <2>1
<1>4. /\ Chosen(T) \in T
      /\ BytesOf(T) = Size[Chosen(T)] + BytesOf(T \ {Chosen(T)})
  BY <1>3, BytesStep
<1>5. BytesOf(T \ {Chosen(T)}) \in Nat
  BY <1>2, <1>3, <1>4
<1>6. Size[Chosen(T)] \in Nat
  BY <1>3, <1>4, CallsAssumption
<1> QED
  BY <1>3, <1>4, <1>5, <1>6

LEMMA BytesRemove ==
  ASSUME NEW S \in SUBSET Calls, NEW c \in S
  PROVE  BytesOf(S) = Size[c] + BytesOf(S \ {c})
<1> DEFINE B == {s \in SUBSET Calls :
                   \E d \in s : BytesOf(s) # Size[d] + BytesOf(s \ {d})}
<1>1. SUFFICES ASSUME B # {} PROVE FALSE
  OBVIOUS
<1>2. PICK T \in B : \A U \in SUBSET T : U # T => U \notin B
  <2>1. B \in SUBSET SUBSET Calls
    OBVIOUS
  <2> HIDE DEF B
  <2> QED BY <1>1, <2>1, LeastSubset
<1>3. PICK d \in T : BytesOf(T) # Size[d] + BytesOf(T \ {d})
  BY <1>2
<1> DEFINE e == Chosen(T)
<1>4. T \in SUBSET Calls /\ e \in T /\ BytesOf(T) = Size[e] + BytesOf(T \ {e})
  BY <1>2, <1>3, BytesStep
<1> HIDE DEF e
<1>5. d # e
  BY <1>3, <1>4
<1>6. BytesOf(T \ {e}) = Size[d] + BytesOf((T \ {e}) \ {d})
  BY <1>2, <1>4, <1>5
<1>7. BytesOf(T \ {d}) = Size[e] + BytesOf((T \ {d}) \ {e})
  BY <1>2, <1>4, <1>5
<1>8. BytesOf((T \ {e}) \ {d}) = BytesOf((T \ {d}) \ {e})
  <2>1. (T \ {e}) \ {d} = (T \ {d}) \ {e}
    OBVIOUS
  <2> QED BY <2>1, Zenon
<1>9. /\ Size[d] \in Nat /\ Size[e] \in Nat
      /\ BytesOf((T \ {d}) \ {e}) \in Nat
  <2>1. (T \ {d}) \ {e} \in SUBSET Calls
    BY <1>4
  <2> QED BY <1>4, <2>1, BytesType, CallsAssumption
<1> QED
  BY <1>3, <1>4, <1>6, <1>7, <1>8, <1>9

LEMMA BytesAdd ==
  ASSUME NEW S \in SUBSET Calls, NEW c \in Calls, c \notin S
  PROVE  BytesOf(S \cup {c}) = BytesOf(S) + Size[c]
<1>1. BytesOf(S \cup {c}) = Size[c] + BytesOf((S \cup {c}) \ {c})
  BY BytesRemove
<1>2. BytesOf((S \cup {c}) \ {c}) = BytesOf(S)
  <2>1. (S \cup {c}) \ {c} = S
    OBVIOUS
  <2> QED BY <2>1, Zenon
<1>3. Size[c] \in Nat /\ BytesOf(S) \in Nat
  BY BytesType, CallsAssumption
<1> QED
  BY <1>1, <1>2, <1>3

LaneBytes ==
  \A l \in AdmissionLanes : bytes[l] = BytesOf(Holders(l)) /\ bytes[l] <= MaxBytes[l]

Queued == {c \in Calls : pc[c] = "queued"}
QueueBytes == queuedBytes = BytesOf(Queued) /\ queuedBytes <= SerialMaxBytes

LEMMA BytesSplit == BytesCounted <=> LaneBytes /\ QueueBytes
BY DEF BytesCounted, LaneBytes, QueueBytes, Queued

LEMMA InitBytes == Init => LaneBytes /\ QueueBytes
<1> SUFFICES ASSUME Init PROVE LaneBytes /\ QueueBytes
  OBVIOUS
<1>1. (\A l \in AdmissionLanes : Holders(l) = {}) /\ Queued = {}
  BY DEF Init, Holders, Holding, Queued
<1>2. (\A l \in AdmissionLanes : MaxBytes[l] \in Nat) /\ SerialMaxBytes \in Nat
  BY LimitsAssumption
<1>3. (\A l \in AdmissionLanes : bytes[l] = 0) /\ queuedBytes = 0
  BY DEF Init
<1> QED
  BY <1>1, <1>2, <1>3, BytesOfNone DEF LaneBytes, QueueBytes

\* A call that keeps its place, or never takes one, moves no lane budget.
LEMMA LaneBytesKept ==
  ASSUME WellTyped, LaneBytes, NEW c \in Calls, NEW s, Become(c, s),
         c \in Serial \/ (pc[c] \in Holding <=> s \in Holding),
         UNCHANGED bytes
  PROVE  LaneBytes'
<1>1. \A l \in AdmissionLanes : Holders(l)' = Holders(l)
  <2> SUFFICES ASSUME NEW l \in AdmissionLanes, NEW d \in Calls, Lane[d] = l
               PROVE  pc'[d] \in Holding <=> pc[d] \in Holding
    BY DEF Holders
  <2>1. d \notin Serial
    BY LaneOfCall
  <2> QED
    BY <2>1 DEF Become, WellTyped, TypeOK
<1> QED
  BY <1>1 DEF LaneBytes

\* A call that neither enters nor leaves the queue moves no queue budget.
LEMMA QueueBytesKept ==
  ASSUME WellTyped, QueueBytes, NEW c \in Calls, NEW s, Become(c, s),
         pc[c] # "queued", s # "queued", UNCHANGED queuedBytes
  PROVE  QueueBytes'
<1>1. Queued' = Queued
  BY DEF Queued, Become, WellTyped, TypeOK
<1> QED
  BY <1>1 DEF QueueBytes

LEMMA AdmitBytes ==
  ASSUME WellTyped, LaneBytes, NEW c \in Calls, Admit(c)
  PROVE  LaneBytes'
<1> DEFINE m == Lane[c]
<1>1. m \in AdmissionLanes /\ c \notin Serial /\ pc[c] = "new" /\ Size[c] \in Nat
  BY LaneOfCall DEF Admit
<1>2. pc' = [pc EXCEPT ![c] = "running"] /\ pc \in [Calls -> PcStates]
  BY DEF Admit, Become, WellTyped, TypeOK
<1>3. c \notin Holders(m) /\ Holders(m) \in SUBSET Calls
  BY <1>1 DEF Holders, Holding
<1>4. Holders(m)' = Holders(m) \cup {c}
  BY <1>2 DEF Holders, Holding
<1>5. \A l \in AdmissionLanes : l # m => Holders(l)' = Holders(l)
  BY <1>2 DEF Holders
<1>6. BytesOf(Holders(m)') = BytesOf(Holders(m)) + Size[c]
  BY <1>3, <1>4, BytesAdd
<1>7. /\ bytes' = [bytes EXCEPT ![m] = @ + Size[c]]
      /\ Size[c] <= MaxBytes[m] - bytes[m]
      /\ bytes \in [AdmissionLanes -> Int]
  BY DEF Admit, HasRoom, WellTyped, TypeOK
<1>8. MaxBytes[m] \in Nat
  BY <1>1, LimitsAssumption
<1> SUFFICES ASSUME NEW l \in AdmissionLanes
             PROVE  bytes'[l] = BytesOf(Holders(l)') /\ bytes'[l] <= MaxBytes[l]
  BY DEF LaneBytes
<1>9. CASE l = m
  BY <1>1, <1>6, <1>7, <1>8, <1>9 DEF LaneBytes
<1>10. CASE l # m
  BY <1>5, <1>7, <1>10 DEF LaneBytes
<1> QED
  BY <1>9, <1>10

LEMMA ReleaseBytes ==
  ASSUME WellTyped, LaneBytes, NEW c \in Calls, Release(c)
  PROVE  LaneBytes'
<1> DEFINE m == Lane[c]
<1>1. m \in AdmissionLanes /\ pc[c] = "releasing" /\ Size[c] \in Nat
  BY LaneOfCall DEF Release, WellTyped, PcOfLane
<1>2. pc' = [pc EXCEPT ![c] = "settled"] /\ pc \in [Calls -> PcStates]
  BY DEF Release, Become, WellTyped, TypeOK
<1>3. c \in Holders(m) /\ Holders(m) \in SUBSET Calls
      /\ Holders(m) \ {c} \in SUBSET Calls
  BY <1>1 DEF Holders, Holding
<1>4. Holders(m)' = Holders(m) \ {c}
  BY <1>2 DEF Holders, Holding
<1>5. \A l \in AdmissionLanes : l # m => Holders(l)' = Holders(l)
  BY <1>2 DEF Holders
<1>6. BytesOf(Holders(m)) = Size[c] + BytesOf(Holders(m)')
      /\ BytesOf(Holders(m)') \in Nat
  BY <1>3, <1>4, BytesRemove, BytesType
<1>7. bytes' = [bytes EXCEPT ![m] = @ - Size[c]] /\ bytes \in [AdmissionLanes -> Int]
  BY DEF Release, WellTyped, TypeOK
<1>8. MaxBytes[m] \in Nat
  BY <1>1, LimitsAssumption
<1> SUFFICES ASSUME NEW l \in AdmissionLanes
             PROVE  bytes'[l] = BytesOf(Holders(l)') /\ bytes'[l] <= MaxBytes[l]
  BY DEF LaneBytes
<1>9. CASE l = m
  BY <1>1, <1>6, <1>7, <1>8, <1>9 DEF LaneBytes
<1>10. CASE l # m
  BY <1>5, <1>7, <1>10 DEF LaneBytes
<1> QED
  BY <1>9, <1>10

LEMMA EnqueueBytes ==
  ASSUME WellTyped, QueueBytes, NEW c \in Calls, Enqueue(c)
  PROVE  QueueBytes'
<1>1. Queued' = Queued \cup {c} /\ c \notin Queued /\ Queued \in SUBSET Calls
  BY DEF Enqueue, Become, Queued, WellTyped, TypeOK
<1>2. BytesOf(Queued') = BytesOf(Queued) + Size[c]
  BY <1>1, BytesAdd
<1>3. queuedBytes' = queuedBytes + Size[c] /\ queuedBytes + Size[c] <= SerialMaxBytes
  BY DEF Enqueue, QueueHasRoom
<1> QED
  BY <1>2, <1>3 DEF QueueBytes

\* The worker gives the budget of the call it takes back.
LEMMA TakeBytes ==
  ASSUME WellTyped, QueueInv, QueueBytes, WorkerTakes
  PROVE  QueueBytes'
<1> DEFINE c == Head(entries)
<1>1. c \in Calls /\ pc[c] = "queued"
  <2>1. c \in Serial
    BY DEF WorkerTakes, WellTyped, TypeOK
  <2> QED BY <2>1, TakeStep DEF Serial
<1>2. pc' = [pc EXCEPT ![c] = "running"] /\ pc \in [Calls -> PcStates]
      /\ queuedBytes' = queuedBytes - Size[c]
  BY DEF WorkerTakes, Become, WellTyped, TypeOK
<1> HIDE DEF c
<1>3. Queued' = Queued \ {c} /\ c \in Queued /\ Queued \in SUBSET Calls
      /\ Queued \ {c} \in SUBSET Calls
  BY <1>1, <1>2 DEF Queued
<1>4. BytesOf(Queued) = Size[c] + BytesOf(Queued') /\ BytesOf(Queued') \in Nat
  BY <1>3, BytesRemove, BytesType
<1>5. Size[c] \in Nat /\ SerialMaxBytes \in Nat
  BY <1>1, LaneOfCall, LimitsAssumption
<1> QED
  BY <1>2, <1>4, <1>5 DEF QueueBytes

LEMMA CallBytes ==
  ASSUME WellTyped, LaneBytes, QueueBytes, NEW c \in Calls,
         Dispatch(c) \/ CallStep(c) \/ HandlerReturns(c)
  PROVE  LaneBytes' /\ QueueBytes'
<1> USE LaneOfCall DEF Holding
<1>1. CASE RefuseClosed(c) \/ RefuseFull(c) \/ TakeQueue(c)
  <2>1. /\ \E s \in {"refused", "enqueueing"} : Become(c, s)
        /\ pc[c] = "new" /\ UNCHANGED <<bytes, queuedBytes>>
    BY <1>1 DEF RefuseClosed, RefuseFull, TakeQueue, laneVars, queueVars
  <2> QED
    BY <2>1, LaneBytesKept, QueueBytesKept
<1>2. CASE Admit(c)
  <2>1. Become(c, "running") /\ pc[c] = "new" /\ UNCHANGED queuedBytes
    BY <1>2 DEF Admit, queueVars
  <2> QED
    BY <1>2, <2>1, AdmitBytes, QueueBytesKept
<1>3. CASE Enqueue(c)
  <2>1. Become(c, "queued") /\ pc[c] = "enqueueing" /\ UNCHANGED bytes
    BY <1>3 DEF Enqueue, laneVars
  <2> QED
    BY <1>3, <2>1, LaneBytesKept, EnqueueBytes
<1>4. CASE EnqueueClosed(c) \/ EnqueueFull(c)
  <2>1. /\ \E s \in {"refused", "responding"} : Become(c, s)
        /\ pc[c] = "enqueueing" /\ UNCHANGED <<bytes, queuedBytes>>
    BY <1>4 DEF EnqueueClosed, EnqueueFull, laneVars, queueVars
  <2>2. c \in Serial
    BY <2>1 DEF WellTyped, PcOfLane
  <2> QED
    BY <2>1, <2>2, LaneBytesKept, QueueBytesKept
<1>5. CASE HandlerReturns(c) \/ BeginDelivery(c)
  <2>1. /\ \E s \in {"responding", "delivering"} : Become(c, s)
        /\ pc[c] \in {"running", "responding"} /\ UNCHANGED <<bytes, queuedBytes>>
    BY <1>5 DEF HandlerReturns, BeginDelivery, laneVars, queueVars
  <2> QED
    BY <2>1, LaneBytesKept, QueueBytesKept
<1>6. CASE DropResponse(c) \/ EndDelivery(c)
  <2>1. /\ \E s \in {"releasing", "settled"} :
             Become(c, s) /\ (c \in Serial \/ s = "releasing")
        /\ pc[c] \in {"responding", "delivering"} /\ UNCHANGED <<bytes, queuedBytes>>
    BY <1>6 DEF DropResponse, EndDelivery, Finish, laneVars
  <2> QED
    BY <2>1, LaneBytesKept, QueueBytesKept
<1>7. CASE Release(c)
  <2>1. Become(c, "settled") /\ pc[c] = "releasing" /\ UNCHANGED queuedBytes
    BY <1>7 DEF Release, queueVars
  <2> QED
    BY <1>7, <2>1, ReleaseBytes, QueueBytesKept
<1> QED
  BY <1>1, <1>2, <1>3, <1>4, <1>5, <1>6, <1>7 DEF Dispatch, CallStep

LEMMA SameBytes ==
  ASSUME LaneBytes, QueueBytes, UNCHANGED <<pc, bytes, queuedBytes>>
  PROVE  LaneBytes' /\ QueueBytes'
BY DEF LaneBytes, QueueBytes, Holders, Queued

LEMMA NextBytes ==
  WellTyped /\ QueueInv /\ LaneBytes /\ QueueBytes /\ [Next]_vars
    => LaneBytes' /\ QueueBytes'
<1> SUFFICES ASSUME WellTyped, QueueInv, LaneBytes, QueueBytes, [Next]_vars
             PROVE  LaneBytes' /\ QueueBytes'
  OBVIOUS
<1>1. CASE WorkerTakes
  <2>1. Head(entries) \in Serial /\ Head(entries) \in Calls
    BY <1>1 DEF WorkerTakes, WellTyped, TypeOK, Serial
  <2>2. Become(Head(entries), "running") /\ UNCHANGED bytes
    BY <1>1 DEF WorkerTakes, laneVars
  <2> QED
    BY <1>1, <2>1, <2>2, LaneBytesKept, TakeBytes
<1>2. CASE WorkerWaits \/ WorkerExits \/ WaiterStep \/ UNCHANGED vars
  BY <1>2, SameBytes
  DEF WorkerWaits, WorkerExits, WaiterStep, ConcurrentCallsDone,
      DeliveryCallsDone, vars, callVars, laneVars, queueVars
<1>3. ASSUME NEW k \in Closers,
             BeginClose(k) \/ AwaitClose(k) \/ CloseStep(k) \/ DrainTimesOut(k)
      PROVE  UNCHANGED <<pc, bytes, queuedBytes>>
  BY <1>3 DEF BeginClose, AwaitClose, CloseStep, CancelRuntime, SealQueue,
    SerialDrained, ConcurrentDrained, DeliveryDrained, ShutdownBridge,
    CloseUnblocks, DrainTimesOut, SerialDrainTimesOut, ConcurrentDrainTimesOut,
    DeliveryDrainTimesOut, callVars, laneVars, queueVars
<1> QED
  BY <1>1, <1>2, <1>3, SameBytes, CallBytes DEF Next, WorkerStep

\* Each byte budget is the bytes of the calls that hold it, for every size of
\* every call, and no budget is exceeded (acquire, releaseConcurrent, enqueue).
THEOREM BudgetsExact == Spec => []BytesCounted
<1>1. Spec => [](LaneBytes /\ QueueBytes)
  BY InitBytes, NextBytes, InitType, InitQueue, AlwaysQueueInv, PTL DEF Spec
<1> QED
  BY <1>1, BytesSplit, PTL

-----------------------------------------------------------------------------
(* Close.  One caller is past sync.Once; each phase it has left behind tells *)
(* what it observed there or which timeout it recorded.                      *)

AfterDelivery == {"shuttingDown", "returned"}
AfterConcurrent == AfterDelivery \cup {"drainingDelivery"}
AfterSerial == AfterConcurrent \cup {"drainingConcurrent"}
AfterSeal == AfterSerial \cup {"drainingSerial"}
Past == AfterSeal \cup {"canceling", "sealingQueue"}

OneCloser ==
  /\ \A k \in Closers : closer[k] \in Past => closed
  /\ closed => \E k \in Closers : closer[k] \in Past
  /\ \A k, j \in Closers :
       closer[k] \in Past \ {"returned"} /\ closer[j] \in Past => j = k
  /\ ~bridgeUp <=> \E k \in Closers : closer[k] = "returned"

QueueLife ==
  /\ \A c \in Calls : pc[c] = "enqueueing" => queueCreated
  /\ worker # "unstarted" => queueCreated
  /\ queueClosed => closed
  /\ \A k \in Closers : closer[k] \in AfterSeal => (queueCreated => queueClosed)
  /\ \A k \in Closers : closer[k] \in AfterSerial =>
       "serial" \in closeErr \/ worker \in {"unstarted", "exited"}
  /\ persistenceCanceled => "serial" \in closeErr \/ ~bridgeUp

DrainLife ==
  /\ \A k \in Closers : closer[k] \in AfterConcurrent =>
       "concurrent" \in closeErr \/ "concurrent" \in drained
  /\ \A k \in Closers : closer[k] \in AfterDelivery =>
       "delivery" \in closeErr \/ "delivery" \in drained
  /\ drained # {} => closed
  /\ DrainedForGood

CloseInv == OneCloser /\ QueueLife /\ DrainLife

LEMMA InitClose == Init => CloseInv
BY DEF Init, CloseInv, OneCloser, QueueLife, DrainLife, DrainedForGood, Past,
       AfterSeal, AfterSerial, AfterConcurrent, AfterDelivery

LEMMA CallClose ==
  ASSUME WellTyped, QueueInv, LaneCounts, DeliveryCount, CloseInv,
         NEW c \in Calls, Dispatch(c) \/ CallStep(c) \/ HandlerReturns(c)
  PROVE  CloseInv'
<1>1. UNCHANGED closeVars
  BY DEF Dispatch, CallStep, RefuseClosed, TakeQueue, Admit, RefuseFull, Enqueue,
     EnqueueClosed, EnqueueFull, DropResponse, BeginDelivery, EndDelivery,
     Release, HandlerReturns, Finish
<1>2. OneCloser'
  BY <1>1 DEF CloseInv, OneCloser, closeVars
<1>3. /\ UNCHANGED queueClosed
      /\ queueCreated' = queueCreated \/ (~closed /\ queueCreated')
      /\ pc' \in [Calls -> PcStates]
      /\ \A d \in Calls : pc'[d] = "enqueueing" => pc[d] = "enqueueing" \/ queueCreated'
      /\ queueCreated => queueCreated'
  BY CallType
  DEF Dispatch, CallStep, RefuseClosed, TakeQueue, Admit, RefuseFull, Enqueue,
     EnqueueClosed, EnqueueFull, DropResponse, BeginDelivery, EndDelivery,
     Release, HandlerReturns, Finish, Become, WellTyped, TypeOK, queueVars
<1>4. \/ UNCHANGED worker
      \/ worker \notin {"unstarted", "exited"} /\ worker' = "ready"
      \/ pc[c] = "enqueueing" /\ ~queueClosed
  BY LaneOfCall
  DEF Dispatch, CallStep, RefuseClosed, TakeQueue, Admit, RefuseFull, Enqueue,
     EnqueueClosed, EnqueueFull, DropResponse, BeginDelivery, EndDelivery,
     Release, HandlerReturns, Finish, queueVars, QueueInv, WorkerState
<1>5. QueueLife'
  BY <1>1, <1>3, <1>4
  DEF CloseInv, OneCloser, QueueLife, closeVars, Past, AfterSeal, AfterSerial,
      AfterConcurrent, AfterDelivery
<1>6. "concurrent" \in drained => concurrentCalls' = 0
  <2> SUFFICES ASSUME "concurrent" \in drained PROVE concurrentCalls' = 0
    OBVIOUS
  <2>1. closed /\ concurrentCalls = 0
    BY DEF CloseInv, DrainLife, DrainedForGood
  <2>2. Admitted = {}
    BY <2>1, FiniteCounts, FS_EmptySet DEF LaneCounts
  <2>3. ~Release(c) /\ ~Admit(c)
    BY <2>1, <2>2, LaneOfCall
    DEF Release, Admit, Admitted, Holding, WellTyped, PcOfLane
  <2> QED
    BY <2>1, <2>3
    DEF Dispatch, CallStep, RefuseClosed, TakeQueue, RefuseFull, Enqueue,
     EnqueueClosed, EnqueueFull, DropResponse, BeginDelivery, EndDelivery,
     HandlerReturns, Finish, laneVars
<1>7. "delivery" \in drained => deliveryCalls' = 0
  <2> SUFFICES ASSUME "delivery" \in drained PROVE deliveryCalls' = 0
    OBVIOUS
  <2>1. closed /\ deliveryCalls = 0
    BY DEF CloseInv, DrainLife, DrainedForGood
  <2>2. Delivering = {}
    BY <2>1, FiniteCounts, FS_EmptySet DEF DeliveryCount
  <2>3. ~BeginDelivery(c) /\ ~EndDelivery(c)
    BY <2>1, <2>2 DEF BeginDelivery, EndDelivery, Delivering
  <2> QED
    BY <2>1, <2>3
    DEF Dispatch, CallStep, RefuseClosed, TakeQueue, RefuseFull, Enqueue, Admit,
     EnqueueClosed, EnqueueFull, DropResponse, Release, HandlerReturns
<1>8. DrainLife'
  BY <1>1, <1>6, <1>7 DEF CloseInv, DrainLife, DrainedForGood, closeVars
<1> QED
  BY <1>2, <1>5, <1>8 DEF CloseInv

LEMMA WorkerClose ==
  ASSUME WellTyped, QueueInv, CloseInv, WorkerStep
  PROVE  CloseInv'
<1>1. UNCHANGED <<closeVars, laneVars, deliveryCalls, queueCreated, queueClosed>>
  BY DEF WorkerStep, WorkerWaits, WorkerTakes, WorkerExits
<1>2. OneCloser' /\ DrainLife'
  BY <1>1 DEF CloseInv, OneCloser, DrainLife, DrainedForGood, closeVars, laneVars
<1>3. worker = "ready" /\ \A d \in Calls : pc'[d] = "enqueueing" => pc[d] = "enqueueing"
  BY DEF WorkerStep, WorkerWaits, WorkerTakes, WorkerExits, Become, callVars,
         WellTyped, TypeOK
<1>4. QueueLife'
  BY <1>1, <1>3 DEF CloseInv, QueueLife, closeVars
<1> QED
  BY <1>2, <1>4 DEF CloseInv

LEMMA WaiterClose ==
  ASSUME WellTyped, CloseInv, WaiterStep
  PROVE  CloseInv'
<1>1. UNCHANGED <<pc, laneVars, deliveryCalls, queueCreated, queueClosed, worker,
                  closed, closer, closeErr, persistenceCanceled, bridgeUp>>
  BY DEF WaiterStep, ConcurrentCallsDone, DeliveryCallsDone, callVars, queueVars
<1>2. OneCloser' /\ QueueLife'
  BY <1>1 DEF CloseInv, OneCloser, QueueLife
<1>3. closed
  <2>1. PICK k \in Closers : closer[k] \notin {"idle", "blocked", "canceling"}
    BY DEF WaiterStep, ConcurrentCallsDone, DeliveryCallsDone
  <2>2. closer[k] \in Past
    BY <2>1 DEF WellTyped, TypeOK, CloserStates, Past, AfterSeal, AfterSerial,
                AfterConcurrent, AfterDelivery
  <2> QED
    BY <2>2 DEF CloseInv, OneCloser
<1>4. /\ drained \subseteq drained'
      /\ "concurrent" \in drained' => "concurrent" \in drained \/ concurrentCalls = 0
      /\ "delivery" \in drained' => "delivery" \in drained \/ deliveryCalls = 0
  BY DEF WaiterStep, ConcurrentCallsDone, DeliveryCallsDone
<1>5. DrainLife'
  BY <1>1, <1>3, <1>4 DEF CloseInv, DrainLife, DrainedForGood, laneVars
<1> QED
  BY <1>2, <1>5 DEF CloseInv

\* The steps of Close move one caller and keep what the others observed.
LEMMA CloserClose ==
  ASSUME WellTyped, QueueInv, CloseInv, NEW k \in Closers,
         BeginClose(k) \/ AwaitClose(k) \/ CloseStep(k) \/ DrainTimesOut(k)
  PROVE  CloseInv'
<1> USE DEF Past, AfterSeal, AfterSerial, AfterConcurrent, AfterDelivery
<1>1. /\ UNCHANGED <<pc, laneVars, deliveryCalls, queueCreated, drained>>
      /\ closer \in [Closers -> CloserStates]
      /\ closeErr \subseteq closeErr'
  BY DEF BeginClose, AwaitClose, CloseStep, CancelRuntime, SealQueue,
    SerialDrained, ConcurrentDrained, DeliveryDrained, ShutdownBridge,
    CloseUnblocks, DrainTimesOut, SerialDrainTimesOut, ConcurrentDrainTimesOut,
    DeliveryDrainTimesOut, callVars, queueVars, WellTyped, TypeOK
<1>2. OneCloser'
  <2> USE <1>1 DEF CloseInv, OneCloser, Reach, CloserStates
  <2>1. CASE BeginClose(k)
    BY <2>1 DEF BeginClose, Closing
  <2>2. CASE AwaitClose(k)
    BY <2>2 DEF AwaitClose
  <2>3. CASE CancelRuntime(k) \/ SealQueue(k)
    BY <2>3 DEF CancelRuntime, SealQueue
  <2>4. CASE SerialDrained(k) \/ ConcurrentDrained(k) \/ DeliveryDrained(k)
    BY <2>4 DEF SerialDrained, ConcurrentDrained, DeliveryDrained
  <2>5. CASE ShutdownBridge(k)
    BY <2>5 DEF ShutdownBridge
  <2>6. CASE CloseUnblocks(k)
    BY <2>6 DEF CloseUnblocks
  <2>7. CASE DrainTimesOut(k)
    BY <2>7 DEF DrainTimesOut, SerialDrainTimesOut, ConcurrentDrainTimesOut,
                DeliveryDrainTimesOut
  <2> QED
    BY <2>1, <2>2, <2>3, <2>4, <2>5, <2>6, <2>7 DEF CloseStep
<1>3. QueueLife'
  <2> USE <1>1 DEF CloseInv, OneCloser, QueueLife, Reach, CloserStates
  <2>1. CASE BeginClose(k) \/ AwaitClose(k)
    BY <2>1 DEF BeginClose, AwaitClose, queueVars
  <2>2. CASE CancelRuntime(k)
    BY <2>2 DEF CancelRuntime, queueVars
  <2>3. CASE SealQueue(k)
    BY <2>3 DEF SealQueue, Woken
  <2>4. CASE SerialDrained(k) \/ ConcurrentDrained(k) \/ DeliveryDrained(k)
    BY <2>4 DEF SerialDrained, ConcurrentDrained, DeliveryDrained, queueVars
  <2>5. CASE ShutdownBridge(k)
    BY <2>5 DEF ShutdownBridge, queueVars
  <2>6. CASE CloseUnblocks(k)
    BY <2>6 DEF CloseUnblocks, queueVars
  <2>7. CASE DrainTimesOut(k)
    BY <2>7 DEF DrainTimesOut, SerialDrainTimesOut, ConcurrentDrainTimesOut,
                DeliveryDrainTimesOut, queueVars
  <2> QED
    BY <2>1, <2>2, <2>3, <2>4, <2>5, <2>6, <2>7 DEF CloseStep
<1>4. DrainLife'
  <2> USE <1>1 DEF CloseInv, OneCloser, DrainLife, DrainedForGood, Reach,
                   CloserStates, laneVars
  <2>1. CASE BeginClose(k) \/ AwaitClose(k)
    BY <2>1 DEF BeginClose, AwaitClose
  <2>2. CASE CancelRuntime(k) \/ SealQueue(k) \/ SerialDrained(k)
    BY <2>2 DEF CancelRuntime, SealQueue, SerialDrained
  <2>3. CASE ConcurrentDrained(k) \/ DeliveryDrained(k) \/ ShutdownBridge(k)
    BY <2>3 DEF ConcurrentDrained, DeliveryDrained, ShutdownBridge
  <2>4. CASE CloseUnblocks(k)
    BY <2>4 DEF CloseUnblocks
  <2>5. CASE DrainTimesOut(k)
    BY <2>5 DEF DrainTimesOut, SerialDrainTimesOut, ConcurrentDrainTimesOut,
                DeliveryDrainTimesOut
  <2> QED
    BY <2>1, <2>2, <2>3, <2>4, <2>5 DEF CloseStep
<1> QED
  BY <1>2, <1>3, <1>4 DEF CloseInv

IInv == WellTyped /\ QueueInv /\ LaneCounts /\ DeliveryCount /\ CloseInv

LEMMA NextClose == IInv /\ [Next]_vars => CloseInv'
<1> SUFFICES ASSUME IInv, [Next]_vars PROVE CloseInv'
  OBVIOUS
<1>1. CASE UNCHANGED vars
  BY <1>1 DEF vars, callVars, laneVars, queueVars, closeVars, IInv, CloseInv,
    OneCloser, QueueLife, DrainLife, DrainedForGood
<1> QED
  BY <1>1, CallClose, WorkerClose, WaiterClose, CloserClose DEF Next, IInv

LEMMA AlwaysIInv == Spec => []IInv
<1>1. Init => IInv
  BY InitType, InitQueue, InitCounts, InitClose DEF IInv
<1>2. IInv /\ [Next]_vars => IInv'
  BY NextType, NextQueue, NextCounts, NextClose DEF IInv
<1> QED
  BY <1>1, <1>2, PTL DEF Spec

\* A WaitGroup that Close has seen at zero never counts again.
THEOREM DrainsHold == Spec => []DrainedForGood
<1>1. IInv => DrainedForGood
  BY DEF IInv, CloseInv, DrainLife
<1> QED
  BY <1>1, AlwaysIInv, PTL

\* What the queue accepted is settled once its worker is gone.
LEMMA WorkerGone ==
  ASSUME IInv, worker \in {"unstarted", "exited"}
  PROVE  \A i \in 1..Len(accepted) : pc[accepted[i]] = "settled"
<1>1. serving = NoCall /\ (accepted = <<>> \/ entries = <<>>)
  BY DEF IInv, QueueInv, WorkerState
<1>2. CASE accepted = <<>>
  BY <1>2
<1>3. CASE entries = <<>>
  <2>1. Taken = Len(accepted)
    BY <1>3, Lengths DEF IInv, Taken
  <2> QED
    BY <1>1, <2>1, Lengths DEF IInv, QueueInv, QueuePc
<1> QED
  BY <1>1, <1>2, <1>3

LEMMA CloseIsClean == IInv => CleanClose
<1> SUFFICES ASSUME IInv, ~bridgeUp, closeErr = {} PROVE CleanClose
  BY DEF CleanClose
<1>1. PICK k \in Closers : closer[k] = "returned"
  BY DEF IInv, CloseInv, OneCloser
<1>2. /\ "concurrent" \in drained /\ "delivery" \in drained
      /\ worker \in {"unstarted", "exited"}
  BY <1>1 DEF IInv, CloseInv, QueueLife, DrainLife, AfterSerial,
              AfterConcurrent, AfterDelivery
<1>3. concurrentCalls = 0 /\ deliveryCalls = 0
  BY <1>2 DEF IInv, CloseInv, DrainLife, DrainedForGood
<1>4. Admitted = {} /\ Delivering = {}
  BY <1>3, FiniteCounts, FS_EmptySet DEF IInv, LaneCounts, DeliveryCount
<1> QED
  BY <1>2, <1>4, WorkerGone DEF CleanClose, Admitted, Delivering

\* A Close without an error has drained every call, delivery and save.
THEOREM CloseLeavesNothing == Spec => []CleanClose
BY CloseIsClean, AlwaysIInv, PTL

\* No accepted save loses its persistence context before Close has reported
\* that the drain timed out.
THEOREM SavesProtected == Spec => []SavesKeepTheirContext
<1>1. IInv => SavesKeepTheirContext
  <2> SUFFICES ASSUME IInv, persistenceCanceled, "serial" \notin closeErr
               PROVE  \A i \in 1..Len(accepted) : pc[accepted[i]] = "settled"
    BY DEF SavesKeepTheirContext
  <2>1. PICK k \in Closers : closer[k] = "returned"
    BY DEF IInv, CloseInv, OneCloser, QueueLife
  <2>2. worker \in {"unstarted", "exited"}
    BY <2>1 DEF IInv, CloseInv, QueueLife, AfterSerial, AfterConcurrent,
                AfterDelivery
  <2> QED
    BY <2>2, WorkerGone
<1> QED
  BY <1>1, AlwaysIInv, PTL

-----------------------------------------------------------------------------
(* The parts of the invariant *)

Flags ==
  /\ stopped \in BOOLEAN
  /\ child \in BOOLEAN
  /\ electron \in BOOLEAN
  /\ stdinEnded \in BOOLEAN
  /\ signaled \in BOOLEAN
  /\ serverDone \in BOOLEAN

Places ==
  /\ status \in [Calls -> {"new", "notSent", "pending", "answered", "lost", "gone"}]
  /\ shutdown \in {"no", "ending", "terminating", "killing", "returned"}
  /\ process \in {"up", "exited", "killed"}
  /\ loop \in {"selecting", "dispatching", "refusing", "closing", "awaitingWriter"}
  /\ inHand \in Calls \cup {NoCall}
  /\ writer \in {"selecting", "done", "failed"}
  /\ serveErr \subseteq {"read", "write", "close", "writer"}
  /\ written \subseteq Calls

PipeTypes ==
  /\ stdin \in Seq(Calls)
  /\ stdout \in Seq(Calls)
  /\ responses \in Seq(Calls)
  /\ Len(responses) <= QueueSize

OfLane(l) == {c \in Pending : Lane[c] = l}

Admissions ==
  /\ admitted = [l \in ClientLanes |-> Cardinality(OfLane(l))]
  /\ admittedBytes = [l \in ClientLanes |-> BytesOf(OfLane(l))]

\* Where a frame is: in the pipe, in the hands of serve, or with the runtime.
Held == IF loop \in {"dispatching", "refusing"} THEN inHand ELSE NoCall
Sent == {c \in Calls : status[c] \notin {"new", "notSent"}}

Distinct(s) == \A i, j \in 1..Len(s) : s[i] = s[j] => i = j

Frames ==
  /\ Distinct(stdin)
  /\ \A i \in 1..Len(stdin) :
       pc[stdin[i]] = "new" /\ stdin[i] \in Sent /\ stdin[i] # Held
  /\ loop \in {"dispatching", "refusing"} => inHand \in Calls /\ inHand \in Sent
  /\ loop = "refusing" => pc[inHand] = "refused"
  /\ \A c \in Calls : pc[c] = "enqueueing" => loop = "dispatching" /\ inHand = c
  /\ \A c \in Calls : pc[c] # "new" => c \in Sent

\* The calls that have been given their answer: it was put into the response
\* queue, unless the queue was full when the context was done.
Answers == {c \in Calls : c \in answered \/ (pc[c] = "refused" /\ c # Held)}

AnswersOnce ==
  /\ \A c \in answered : pc[c] \in {"releasing", "settled"}
  /\ Distinct(responses)
  /\ \A i \in 1..Len(responses) : responses[i] \in Answers \ written
  /\ written \subseteq Answers
  /\ Distinct(stdout)
  /\ \A i \in 1..Len(stdout) : stdout[i] \in written

Connected == electron /\ process = "up"

Trust ==
  Connected =>
    /\ ~stopped
    /\ \A c \in Calls : status[c] \notin {"lost", "gone"}
    /\ \A c \in Calls : status[c] = "answered" => c \in written
    /\ \A i \in 1..Len(stdout) : status[stdout[i]] = "pending"

\* No step so far makes serve end otherwise than by the end of its input.
Sound == ~signaled /\ writer # "failed" /\ closeErr = {}

Flushing ==
  /\ serverDone => signaled \/ writer = "failed" \/ loop = "awaitingWriter"
  /\ loop = "awaitingWriter" => closer[Serve] = "returned"
  /\ Sound => \A c \in Answers : c \in written \/ \E i \in 1..Len(responses) : responses[i] = c
  /\ writer = "done" => serverDone /\ (Sound => responses = <<>>)
  /\ process = "exited" /\ serveErr = {} =>
       loop = "awaitingWriter" /\ writer = "done" /\ closeErr = {}

SInv ==
  Flags /\ Places /\ PipeTypes /\ Admissions /\ Frames /\ AnswersOnce /\ Trust /\ Flushing

-----------------------------------------------------------------------------
(* The steps *)

\* A call the runtime has accepted goes on to another state.
Advances(c, s) ==
  /\ pc' = [pc EXCEPT ![c] = s]
  /\ s \notin {"new", "enqueueing"}
  /\ pc[c] \notin {"new", "refused", "settled"}
  /\ s = "refused" => pc[c] = "enqueueing"
  /\ pc[c] = "releasing" => s = "settled"

Moves(c, s) == Advances(c, s) /\ answered' = answered

ClientCall == \E c \in Calls : Invoke(c) \/ InvokeRefused(c) \/ WriteFails(c)
Rejection == StdinFails \/ Exited
Waiting == BeginShutdown \/ ShutdownSeesExit \/ GraceEnds
LoopEnds == SignalSeen \/ WriterSeen \/ EndOfInput
ServeEnds == WriterStops \/ WriterTimesOut
ContextDone == WriterCancels \/ SignalArrives
Delivers == \E c \in Calls : Deliver(c)
RuntimeRuns == RuntimeStep \/ \E c \in Calls : HandlerEnds(c)
CloseRuns == CloseRuntime \/ DrainEnds
Struck == Interrupt \/ Crash

LEMMA SystemStepCases ==
  ASSUME SystemNext
  PROVE  \/ ClientCall \/ AcceptResponse \/ Rejection \/ Waiting
         \/ TakeFrame \/ DispatchFrame \/ DispatchReturns \/ AnswerRefused
         \/ LoopEnds \/ CloseRuns \/ CancelServer \/ ServeEnds
         \/ WriteResponse \/ WriteResponseFails \/ ContextDone \/ StopWriter
         \/ Delivers \/ RuntimeRuns \/ Struck \/ ElectronDies
BY Zenon DEF SystemNext, ClientStep, LoopStep, WriterStep, ClientCall, Rejection,
  Waiting, LoopEnds, ServeEnds, ContextDone, Delivers, RuntimeRuns, CloseRuns,
  Struck

LEMMA ServeCloses == Serve \in Closers /\ Closers = {Serve}
BY SidecarAssumption

\* Every step of the system is one of the runtime or leaves it alone: what serve
\* dispatches is a call.
LEMMA SystemRunsRuntime == Frames /\ [SystemNext]_systemVars => [Next]_vars
<1> SUFFICES ASSUME Frames, SystemNext PROVE Next \/ UNCHANGED vars
  BY DEF systemVars
<1>1. CASE \/ ClientCall \/ AcceptResponse \/ Rejection \/ Waiting
  BY <1>1 DEF ClientCall, Invoke, InvokeRefused, WriteFails, AcceptResponse, Rejection,
    StdinFails, Exited, Waiting, BeginShutdown, ShutdownSeesExit, GraceEnds
<1>2. CASE TakeFrame \/ DispatchReturns \/ AnswerRefused \/ LoopEnds
  BY <1>2 DEF TakeFrame, DispatchReturns, AnswerRefused, LoopEnds, SignalSeen,
    WriterSeen, EndOfInput, LeaveLoop
<1>3. CASE CancelServer \/ ServeEnds
  BY <1>3 DEF CancelServer, ServeEnds, WriterStops, WriterTimesOut, Exit
<1>4. CASE WriteResponse \/ WriteResponseFails \/ ContextDone \/ StopWriter
  BY <1>4 DEF WriteResponse, WriteResponseFails, ContextDone, WriterCancels,
    SignalArrives, StopWriter
<1>5. CASE Struck \/ ElectronDies
  BY <1>5 DEF Struck, Interrupt, Crash, ElectronDies
<1>6. CASE CloseRuns
  BY <1>6, ServeCloses, Zenon DEF CloseRuns, CloseRuntime, DrainEnds, Next
<1>7. CASE RuntimeRuns
  BY <1>7, Zenon DEF RuntimeRuns, RuntimeStep, HandlerEnds, Next, CallStep
<1>8. CASE Delivers
  BY <1>8, Zenon DEF Delivers, Deliver, Next, CallStep
<1>9. CASE DispatchFrame
  <2>1. inHand \in Calls
    BY <1>9 DEF DispatchFrame, Frames
  <2> QED
    BY <1>9, <2>1, Zenon DEF DispatchFrame, Next
<1> QED
  BY <1>1, <1>2, <1>3, <1>4, <1>5, <1>6, <1>7, <1>8, <1>9, SystemStepCases, Zenon

LEMMA RuntimeMoves ==
  ASSUME IInv, RuntimeRuns
  PROVE  UNCHANGED <<pc, answered>> \/ \E c \in Calls, s \in PcStates : Moves(c, s)
<1>1. ASSUME NEW c \in Calls, NEW s \in PcStates, Become(c, s),
             answered' = answered, s \notin {"new", "enqueueing"},
             pc[c] \notin {"new", "refused", "settled"},
             s = "refused" => pc[c] = "enqueueing",
             pc[c] = "releasing" => s = "settled"
      PROVE  \E d \in Calls, t \in PcStates : Moves(d, t)
  BY <1>1 DEF Become, Moves, Advances
<1> HIDE DEF Moves
<1>2. ASSUME NEW c \in Calls,
             Enqueue(c) \/ EnqueueClosed(c) \/ EnqueueFull(c) \/ DropResponse(c)
               \/ BeginDelivery(c) \/ Release(c) \/ HandlerReturns(c)
      PROVE  \E d \in Calls, t \in PcStates : Moves(d, t)
  <2> USE DEF PcStates, Holding
  <2>1. CASE Enqueue(c)
    BY <2>1, <1>1 DEF Enqueue
  <2>2. CASE EnqueueClosed(c) \/ EnqueueFull(c)
    BY <2>2, <1>1 DEF EnqueueClosed, EnqueueFull
  <2>3. CASE DropResponse(c)
    BY <2>3, <1>1 DEF DropResponse, Finish
  <2>4. CASE BeginDelivery(c) \/ HandlerReturns(c)
    BY <2>4, <1>1 DEF BeginDelivery, HandlerReturns
  <2>5. CASE Release(c)
    BY <2>5, <1>1 DEF Release
  <2> QED
    BY <1>2, <2>1, <2>2, <2>3, <2>4, <2>5
<1>3. CASE WorkerTakes
  <2>1. Head(entries) \in Calls /\ pc[Head(entries)] = "queued"
    BY <1>3, TakeStep DEF IInv, WellTyped, TypeOK, WorkerTakes, Serial
  <2> QED
    BY <1>3, <1>1, <2>1 DEF WorkerTakes, PcStates, Holding
<1>4. CASE WorkerWaits \/ WorkerExits \/ WaiterStep
  BY <1>4 DEF WorkerWaits, WorkerExits, WaiterStep, ConcurrentCallsDone,
    DeliveryCallsDone, callVars
<1> QED
  BY <1>2, <1>3, <1>4, Zenon DEF RuntimeRuns, RuntimeStep, HandlerEnds, WorkerStep

LEMMA DeliverMoves ==
  ASSUME WellTyped, NEW c \in Calls, Deliver(c)
  PROVE  /\ EnqueueResponse(c) /\ pc[c] = "delivering" /\ answered' = answered \cup {c}
         /\ \E s \in PcStates : Advances(c, s) /\ s \in {"releasing", "settled"}
         /\ UNCHANGED <<clientVars, pipeVars, serveVars>>
<1>1. /\ EnqueueResponse(c) /\ pc[c] = "delivering" /\ answered' = answered \cup {c}
      /\ UNCHANGED <<clientVars, pipeVars, serveVars>>
      /\ pc' = [pc EXCEPT ![c] = IF Lane[c] \in AdmissionLanes THEN "releasing" ELSE "settled"]
  BY Zenon DEF Deliver, EndDelivery, Finish, Become
<1>2. CASE Lane[c] \in AdmissionLanes
  BY <1>1, <1>2 DEF Advances, PcStates, Holding
<1>3. CASE Lane[c] \notin AdmissionLanes
  BY <1>1, <1>3 DEF Advances, PcStates, Holding
<1> QED
  BY <1>1, <1>2, <1>3

LEMMA CloseMoves == ASSUME CloseRuns PROVE UNCHANGED <<pc, answered>>
<1>1. ASSUME NEW k, BeginClose(k) \/ CloseStep(k) \/ DrainTimesOut(k)
      PROVE  UNCHANGED <<pc, answered>>
  BY <1>1 DEF BeginClose, CloseStep, CancelRuntime, SealQueue,
    SerialDrained, ConcurrentDrained, DeliveryDrained, ShutdownBridge,
    CloseUnblocks, DrainTimesOut, SerialDrainTimesOut, ConcurrentDrainTimesOut,
    DeliveryDrainTimesOut, callVars
<1> QED
  BY <1>1, Zenon DEF CloseRuns, CloseRuntime, DrainEnds

\* What Dispatch makes of the frame in hand.
LEMMA DispatchMoves ==
  ASSUME NEW c \in Calls, Dispatch(c)
  PROVE  /\ pc[c] = "new" /\ answered' = answered
         /\ \E s \in {"refused", "enqueueing", "running"} : pc' = [pc EXCEPT ![c] = s]
BY DEF Dispatch, RefuseClosed, TakeQueue, Admit, RefuseFull, Become

\* What the client knows of its calls changes with its own steps only.
LEMMA ClientAlone ==
  ASSUME SystemNext, ~(ClientCall \/ AcceptResponse \/ Rejection \/ ElectronDies)
  PROVE  UNCHANGED <<status, admitted, admittedBytes, stopped, electron>>
<1>1. CASE Waiting
  BY <1>1, ZenonT(30) DEF Waiting, BeginShutdown, ShutdownSeesExit, GraceEnds
<1>2. CASE TakeFrame \/ DispatchFrame \/ DispatchReturns \/ AnswerRefused \/ LoopEnds
  BY <1>2, ZenonT(30) DEF TakeFrame, DispatchFrame, DispatchReturns, AnswerRefused, LoopEnds,
    SignalSeen, WriterSeen, EndOfInput, LeaveLoop, clientVars
<1>3. CASE CloseRuns \/ CancelServer \/ ServeEnds
  BY <1>3, ZenonT(30) DEF CloseRuns, CloseRuntime, DrainEnds, CancelServer, ServeEnds,
    WriterStops, WriterTimesOut, Exit, clientVars
<1>4. CASE WriteResponse \/ WriteResponseFails \/ ContextDone \/ StopWriter
  BY <1>4, ZenonT(30) DEF WriteResponse, WriteResponseFails, ContextDone, WriterCancels,
    SignalArrives, StopWriter, clientVars
<1>5. CASE Delivers \/ RuntimeRuns \/ Struck
  BY <1>5, ZenonT(30) DEF Delivers, Deliver, RuntimeRuns, RuntimeStep, HandlerEnds, Struck,
    Interrupt, Crash, clientVars
<1> QED
  BY <1>1, <1>2, <1>3, <1>4, <1>5, SystemStepCases, Zenon

\* Which steps move which part of the system.
LEMMA RuntimeAlone ==
  ASSUME SystemNext, ~(DispatchFrame \/ Delivers \/ RuntimeRuns)
  PROVE  UNCHANGED <<pc, answered>>
<1> USE DEF vars, callVars
<1>1. CASE ClientCall \/ AcceptResponse \/ Rejection \/ Waiting
  BY <1>1, ZenonT(30) DEF ClientCall, Invoke, InvokeRefused, WriteFails, AcceptResponse, Rejection,
    StdinFails, Exited, Waiting, BeginShutdown, ShutdownSeesExit, GraceEnds
<1>2. CASE TakeFrame \/ DispatchReturns \/ AnswerRefused \/ LoopEnds
  BY <1>2, ZenonT(30) DEF TakeFrame, DispatchReturns, AnswerRefused, LoopEnds, SignalSeen,
    WriterSeen, EndOfInput, LeaveLoop
<1>3. CASE CancelServer \/ ServeEnds \/ Struck \/ ElectronDies
  BY <1>3, ZenonT(30) DEF CancelServer, ServeEnds, WriterStops, WriterTimesOut, Exit, Struck,
    Interrupt, Crash, ElectronDies
<1>4. CASE WriteResponse \/ WriteResponseFails \/ ContextDone \/ StopWriter
  BY <1>4, ZenonT(30) DEF WriteResponse, WriteResponseFails, ContextDone, WriterCancels,
    SignalArrives, StopWriter
<1> QED
  BY <1>1, <1>2, <1>3, <1>4, CloseMoves, SystemStepCases, Zenon

LEMMA HandAlone ==
  ASSUME SystemNext,
         ~(TakeFrame \/ DispatchReturns \/ AnswerRefused \/ LoopEnds \/ CancelServer)
  PROVE  UNCHANGED <<loop, inHand>>
<1> USE DEF serveVars
<1>1. CASE ClientCall \/ AcceptResponse \/ Rejection \/ Waiting
  BY <1>1, ZenonT(30) DEF ClientCall, Invoke, InvokeRefused, WriteFails, AcceptResponse, Rejection,
    StdinFails, Exited, Waiting, BeginShutdown, ShutdownSeesExit, GraceEnds
<1>2. CASE DispatchFrame \/ CloseRuns \/ Delivers \/ RuntimeRuns
  BY <1>2, ZenonT(30) DEF DispatchFrame, CloseRuns, CloseRuntime, DrainEnds, Delivers, Deliver,
    RuntimeRuns, RuntimeStep, HandlerEnds
<1>3. CASE ServeEnds \/ Struck \/ ElectronDies
  BY <1>3, ZenonT(30) DEF ServeEnds, WriterStops, WriterTimesOut, Exit, Struck, Interrupt,
    Crash, ElectronDies
<1>4. CASE WriteResponse \/ WriteResponseFails \/ ContextDone \/ StopWriter
  BY <1>4, ZenonT(30) DEF WriteResponse, WriteResponseFails, ContextDone, WriterCancels,
    SignalArrives, StopWriter
<1> QED
  BY <1>1, <1>2, <1>3, <1>4, SystemStepCases, Zenon

LEMMA StdinAlone ==
  ASSUME SystemNext, ~(ClientCall \/ TakeFrame \/ ElectronDies)
  PROVE  UNCHANGED stdin
<1> USE DEF pipeVars
<1>1. CASE AcceptResponse \/ Rejection \/ Waiting
  BY <1>1, ZenonT(30) DEF AcceptResponse, Rejection, StdinFails, Exited, Waiting, BeginShutdown,
    ShutdownSeesExit, GraceEnds
<1>2. CASE DispatchFrame \/ DispatchReturns \/ AnswerRefused \/ LoopEnds \/ CloseRuns
  BY <1>2, ZenonT(30) DEF DispatchFrame, DispatchReturns, AnswerRefused, LoopEnds, SignalSeen,
    WriterSeen, EndOfInput, LeaveLoop, CloseRuns, CloseRuntime, DrainEnds
<1>3. CASE CancelServer \/ ServeEnds \/ Delivers \/ RuntimeRuns \/ Struck
  BY <1>3, ZenonT(30) DEF CancelServer, ServeEnds, WriterStops, WriterTimesOut, Exit, Delivers,
    Deliver, RuntimeRuns, RuntimeStep, HandlerEnds, Struck, Interrupt, Crash
<1>4. CASE WriteResponse \/ WriteResponseFails \/ ContextDone \/ StopWriter
  BY <1>4, ZenonT(30) DEF WriteResponse, WriteResponseFails, ContextDone, WriterCancels,
    SignalArrives, StopWriter
<1> QED
  BY <1>1, <1>2, <1>3, <1>4, SystemStepCases, Zenon

LEMMA ResponsesAlone ==
  ASSUME SystemNext, ~(AnswerRefused \/ Delivers \/ WriteResponse \/ WriteResponseFails)
  PROVE  UNCHANGED <<responses, written>>
<1> USE DEF writerVars
<1>1. CASE ClientCall \/ AcceptResponse \/ Rejection \/ Waiting
  BY <1>1, ZenonT(30) DEF ClientCall, Invoke, InvokeRefused, WriteFails, AcceptResponse, Rejection,
    StdinFails, Exited, Waiting, BeginShutdown, ShutdownSeesExit, GraceEnds
<1>2. CASE TakeFrame \/ DispatchFrame \/ DispatchReturns \/ LoopEnds \/ CloseRuns
  BY <1>2, ZenonT(30) DEF TakeFrame, DispatchFrame, DispatchReturns, LoopEnds, SignalSeen,
    WriterSeen, EndOfInput, LeaveLoop, CloseRuns, CloseRuntime, DrainEnds
<1>3. CASE CancelServer \/ ServeEnds \/ RuntimeRuns \/ Struck \/ ElectronDies
  BY <1>3, ZenonT(30) DEF CancelServer, ServeEnds, WriterStops, WriterTimesOut, Exit,
    RuntimeRuns, RuntimeStep, HandlerEnds, Struck, Interrupt, Crash, ElectronDies
<1>4. CASE ContextDone \/ StopWriter
  BY <1>4, ZenonT(30) DEF ContextDone, WriterCancels, SignalArrives, StopWriter
<1> QED
  BY <1>1, <1>2, <1>3, <1>4, SystemStepCases, Zenon

LEMMA StdoutAlone ==
  ASSUME SystemNext, ~(AcceptResponse \/ WriteResponse \/ ElectronDies)
  PROVE  UNCHANGED stdout
<1> USE DEF pipeVars
<1>1. CASE ClientCall \/ Rejection \/ Waiting
  BY <1>1, ZenonT(30) DEF ClientCall, Invoke, InvokeRefused, WriteFails, Rejection, StdinFails,
    Exited, Waiting, BeginShutdown, ShutdownSeesExit, GraceEnds
<1>2. CASE TakeFrame \/ DispatchFrame \/ DispatchReturns \/ AnswerRefused \/ LoopEnds \/ CloseRuns
  BY <1>2, ZenonT(30) DEF TakeFrame, DispatchFrame, DispatchReturns, AnswerRefused, LoopEnds,
    SignalSeen, WriterSeen, EndOfInput, LeaveLoop, CloseRuns, CloseRuntime, DrainEnds
<1>3. CASE CancelServer \/ ServeEnds \/ Delivers \/ RuntimeRuns \/ Struck
  BY <1>3, ZenonT(30) DEF CancelServer, ServeEnds, WriterStops, WriterTimesOut, Exit, Delivers,
    Deliver, RuntimeRuns, RuntimeStep, HandlerEnds, Struck, Interrupt, Crash
<1>4. CASE WriteResponseFails \/ ContextDone \/ StopWriter
  BY <1>4, ZenonT(30) DEF WriteResponseFails, ContextDone, WriterCancels, SignalArrives,
    StopWriter
<1> QED
  BY <1>1, <1>2, <1>3, <1>4, SystemStepCases, Zenon

-----------------------------------------------------------------------------
(* Types *)

LEMMA InitSystemTypes == SystemInit => Flags /\ Places /\ PipeTypes
<1>1. SystemInit => Flags
  BY Zenon DEF SystemInit, Flags
<1>2. SystemInit => Places /\ PipeTypes
  BY SidecarAssumption, CallsAssumption DEF SystemInit, Places, PipeTypes
<1> QED
  BY <1>1, <1>2

LEMMA NextFlags == ASSUME Flags, SystemNext PROVE Flags'
<1> USE DEF Flags
<1>1. CASE ClientCall
  BY <1>1, ZenonT(30) DEF ClientCall, Invoke, InvokeRefused, WriteFails, serveVars, writerVars,
    pipeVars
<1>2. CASE AcceptResponse
  BY <1>2, ZenonT(30) DEF AcceptResponse, writerVars
<1>3. CASE Rejection
  BY <1>3, ZenonT(30) DEF Rejection, StdinFails, Exited, serveVars, writerVars, pipeVars
<1>4. CASE Waiting
  BY <1>4, ZenonT(30) DEF Waiting, BeginShutdown, ShutdownSeesExit, GraceEnds, serveVars,
    writerVars, pipeVars
<1>5. CASE TakeFrame
  BY <1>5, ZenonT(30) DEF TakeFrame, clientVars, writerVars
<1>6. CASE DispatchFrame \/ DispatchReturns \/ AnswerRefused
  BY <1>6, ZenonT(30) DEF DispatchFrame, DispatchReturns, AnswerRefused, EnqueueResponse, clientVars,
    serveVars, writerVars, pipeVars
<1>7. CASE LoopEnds
  BY <1>7, ZenonT(30) DEF LoopEnds, SignalSeen, WriterSeen, EndOfInput, LeaveLoop, clientVars, writerVars,
    pipeVars
<1>8. CASE CloseRuns
  BY <1>8, ZenonT(30) DEF CloseRuns, CloseRuntime, DrainEnds, clientVars, serveVars, writerVars, pipeVars
<1>9. CASE CancelServer \/ ServeEnds
  BY <1>9, ZenonT(30) DEF CancelServer, ServeEnds, WriterStops, WriterTimesOut, Exit, clientVars,
    writerVars, pipeVars
<1>10. CASE WriteResponse \/ WriteResponseFails
  BY <1>10, ZenonT(30) DEF WriteResponse, WriteResponseFails, clientVars, serveVars, pipeVars
<1>11. CASE ContextDone \/ StopWriter
  BY <1>11, ZenonT(30) DEF ContextDone, WriterCancels, SignalArrives, StopWriter,
    clientVars, serveVars, pipeVars
<1>12. CASE Delivers \/ RuntimeRuns
  BY <1>12, ZenonT(30) DEF Delivers, Deliver, EnqueueResponse, RuntimeRuns, RuntimeStep, HandlerEnds,
    clientVars, serveVars, writerVars, pipeVars
<1>13. CASE Struck
  BY <1>13, ZenonT(30) DEF Struck, Interrupt, Crash, clientVars, writerVars, pipeVars
<1>14. CASE ElectronDies
  BY <1>14, ZenonT(30) DEF ElectronDies, serveVars, writerVars
<1> QED
  BY <1>1, <1>2, <1>3, <1>4, <1>5, <1>6, <1>7, <1>8, <1>9, <1>10, <1>11, <1>12,
     <1>13, <1>14, SystemStepCases, Zenon

LEMMA NextPlaces ==
  ASSUME Places, PipeTypes, Frames, AnswersOnce, SystemNext
  PROVE  Places'
<1> USE DEF Places
<1>1. CASE ClientCall
  <2> PICK c \in Calls : Invoke(c) \/ InvokeRefused(c) \/ WriteFails(c)
    BY <1>1 DEF ClientCall
  <2>1. CASE Invoke(c)
    BY <2>1 DEF Invoke, serveVars, writerVars
  <2>2. CASE InvokeRefused(c)
    BY <2>2 DEF InvokeRefused, serveVars, writerVars
  <2>3. CASE WriteFails(c)
    BY <2>3 DEF WriteFails, Settle, serveVars, writerVars
  <2> QED
    BY <2>1, <2>2, <2>3
<1>2. CASE AcceptResponse
  BY <1>2 DEF AcceptResponse, Settle, writerVars
<1>3. CASE Rejection
  BY <1>3 DEF Rejection, StdinFails, Exited, Settle, serveVars, writerVars, pipeVars
<1>4. CASE Waiting
  BY <1>4 DEF Waiting, BeginShutdown, ShutdownSeesExit, GraceEnds, serveVars,
    writerVars, pipeVars
<1>5. CASE TakeFrame
  <2>1. Head(stdin) \in Calls
    BY <1>5 DEF TakeFrame, PipeTypes
  <2> QED
    BY <1>5, <2>1 DEF TakeFrame, clientVars, writerVars
<1>6. CASE DispatchFrame \/ DispatchReturns \/ AnswerRefused
  BY <1>6 DEF DispatchFrame, DispatchReturns, AnswerRefused, EnqueueResponse, clientVars,
    serveVars, writerVars, pipeVars
<1>7. CASE LoopEnds
  BY <1>7 DEF LoopEnds, SignalSeen, WriterSeen, EndOfInput, LeaveLoop, clientVars, writerVars,
    pipeVars
<1>8. CASE CloseRuns
  BY <1>8 DEF CloseRuns, CloseRuntime, DrainEnds, clientVars, serveVars, writerVars, pipeVars
<1>9. CASE CancelServer \/ ServeEnds
  BY <1>9 DEF CancelServer, ServeEnds, WriterStops, WriterTimesOut, Exit, clientVars,
    writerVars, pipeVars
<1>10. CASE WriteResponse
  <2>1. Head(responses) \in Calls
    BY <1>10 DEF WriteResponse, PipeTypes
  <2> QED
    BY <1>10, <2>1 DEF WriteResponse, clientVars, serveVars
<1>11. CASE WriteResponseFails \/ ContextDone \/ StopWriter
  BY <1>11 DEF WriteResponseFails, ContextDone, WriterCancels, SignalArrives, StopWriter,
    clientVars, serveVars, pipeVars
<1>12. CASE Delivers \/ RuntimeRuns
  BY <1>12 DEF Delivers, Deliver, EnqueueResponse, RuntimeRuns, RuntimeStep, HandlerEnds,
    clientVars, serveVars, writerVars, pipeVars
<1>13. CASE Struck
  BY <1>13 DEF Struck, Interrupt, Crash, clientVars, writerVars, pipeVars
<1>14. CASE ElectronDies
  BY <1>14 DEF ElectronDies, serveVars, writerVars
<1> QED
  BY <1>1, <1>2, <1>3, <1>4, <1>5, <1>6, <1>7, <1>8, <1>9, <1>10, <1>11, <1>12,
     <1>13, <1>14, SystemStepCases, Zenon

\* How each step changes the pipes and the response queue.
LEMMA Appended ==
  ASSUME NEW s \in Seq(Calls), NEW c \in Calls
  PROVE  /\ Append(s, c) \in Seq(Calls) /\ Len(Append(s, c)) = Len(s) + 1
         /\ \A i \in 1..Len(s) : Append(s, c)[i] = s[i]
         /\ Append(s, c)[Len(s) + 1] = c
OBVIOUS

LEMMA Shortened ==
  ASSUME NEW s \in Seq(Calls), s # <<>>
  PROVE  /\ Head(s) \in Calls /\ Head(s) = s[1] /\ Len(s) \in Nat \ {0}
         /\ Tail(s) \in Seq(Calls) /\ Len(Tail(s)) = Len(s) - 1
         /\ \A i \in 1..Len(Tail(s)) : Tail(s)[i] = s[i + 1] /\ i + 1 \in 1..Len(s)
OBVIOUS

LEMMA Cut ==
  ASSUME NEW s \in Seq(Calls), NEW n \in 0..Len(s)
  PROVE  /\ SubSeq(s, 1, n) \in Seq(Calls) /\ Len(SubSeq(s, 1, n)) = n
         /\ \A i \in 1..n : SubSeq(s, 1, n)[i] = s[i] /\ i \in 1..Len(s)
OBVIOUS

LEMMA QueueGrows ==
  ASSUME PipeTypes, NEW c \in Calls, EnqueueResponse(c)
  PROVE  responses' \in Seq(Calls) /\ Len(responses') <= QueueSize
<1>1. responses \in Seq(Calls) /\ Len(responses) \in Nat /\ QueueSize \in Nat
  BY SidecarAssumption DEF PipeTypes
<1>2. CASE Len(responses) < QueueSize /\ responses' = Append(responses, c)
  BY <1>1, <1>2, Appended
<1>3. CASE UNCHANGED responses
  BY <1>3 DEF PipeTypes
<1> QED
  BY <1>2, <1>3 DEF EnqueueResponse

LEMMA NextPipeTypes ==
  ASSUME Places, PipeTypes, Frames, SystemNext
  PROVE  PipeTypes'
<1> USE DEF PipeTypes
<1>1. CASE ClientCall
  <2> PICK c \in Calls : Invoke(c) \/ InvokeRefused(c) \/ WriteFails(c)
    BY <1>1 DEF ClientCall
  <2>1. CASE Invoke(c)
    <3>1. Append(stdin, c) \in Seq(Calls)
      BY Appended
    <3> QED
      BY <2>1, <3>1, Zenon DEF Invoke, writerVars
  <2>2. CASE InvokeRefused(c) \/ WriteFails(c)
    BY <2>2 DEF InvokeRefused, WriteFails, writerVars, pipeVars
  <2> QED
    BY <2>1, <2>2
<1>2. CASE AcceptResponse
  BY <1>2 DEF AcceptResponse, writerVars
<1>3. CASE Rejection \/ Waiting
  BY <1>3 DEF Rejection, StdinFails, Exited, Waiting, BeginShutdown, ShutdownSeesExit,
    GraceEnds, writerVars, pipeVars
<1>4. CASE TakeFrame
  BY <1>4 DEF TakeFrame, writerVars
<1>5. CASE DispatchFrame \/ DispatchReturns \/ LoopEnds \/ CloseRuns
  BY <1>5 DEF DispatchFrame, DispatchReturns, LoopEnds, SignalSeen, WriterSeen,
    EndOfInput, LeaveLoop, CloseRuns, CloseRuntime, DrainEnds, writerVars, pipeVars
<1>6. CASE AnswerRefused
  <2>1. inHand \in Calls /\ EnqueueResponse(inHand)
    BY <1>6 DEF AnswerRefused, Frames
  <2> QED
    BY <1>6, <2>1, QueueGrows, Zenon DEF AnswerRefused, pipeVars
<1>7. CASE Delivers
  BY <1>7, QueueGrows, Zenon DEF Delivers, Deliver, pipeVars
<1>8. CASE CancelServer \/ ServeEnds \/ ContextDone \/ StopWriter
  BY <1>8 DEF CancelServer, ServeEnds, WriterStops, WriterTimesOut, Exit, ContextDone,
    WriterCancels, SignalArrives, StopWriter, writerVars, pipeVars
<1>9. CASE WriteResponse \/ WriteResponseFails
  <2>1. responses # <<>> /\ responses' = Tail(responses)
    BY <1>9 DEF WriteResponse, WriteResponseFails
  <2>2. Head(responses) \in Calls /\ responses' \in Seq(Calls)
        /\ Len(responses') <= QueueSize
    BY <2>1, Shortened, SidecarAssumption
  <2>3. stdin' = stdin /\ stdout' \in {stdout, Append(stdout, Head(responses))}
    BY <1>9, Zenon DEF WriteResponse, WriteResponseFails, pipeVars
  <2>4. stdout' \in Seq(Calls)
    BY <2>2, <2>3, Appended
  <2> QED
    BY <2>2, <2>3, <2>4
<1>10. CASE RuntimeRuns \/ Struck
  BY <1>10 DEF RuntimeRuns, RuntimeStep, HandlerEnds, Struck, Interrupt, Crash,
    writerVars, pipeVars
<1>11. CASE ElectronDies
  BY <1>11, Cut DEF ElectronDies, writerVars
<1> QED
  BY <1>1, <1>2, <1>3, <1>4, <1>5, <1>6, <1>7, <1>8, <1>9, <1>10, <1>11,
     SystemStepCases, Zenon

-----------------------------------------------------------------------------
(* The client's counters *)

LEMMA LanesOfClient ==
  /\ \A c \in Calls : Lane[c] \in ClientLanes /\ Size[c] \in Nat
  /\ \A l : OfLane(l) \in SUBSET Calls /\ IsFiniteSet(OfLane(l))
  /\ \A l : Cardinality(OfLane(l)) \in Nat /\ BytesOf(OfLane(l)) \in Nat
<1>1. \A c \in Calls : Lane[c] \in ClientLanes /\ Size[c] \in Nat
  BY CallsAssumption DEF ClientLanes
<1>2. ASSUME NEW l PROVE OfLane(l) \in SUBSET Calls /\ IsFiniteSet(OfLane(l))
  <2>1. OfLane(l) \in SUBSET Calls
    BY DEF OfLane, Pending
  <2> QED
    BY <2>1, CallsAssumption, FS_Subset
<1>3. ASSUME NEW l PROVE Cardinality(OfLane(l)) \in Nat /\ BytesOf(OfLane(l)) \in Nat
  BY <1>2, BytesType, FS_CardinalityType
<1> QED
  BY <1>1, <1>2, <1>3

LEMMA InitAdmissions == SystemInit => Admissions
<1> SUFFICES ASSUME SystemInit PROVE Admissions
  OBVIOUS
<1>1. \A l : OfLane(l) = {}
  BY DEF SystemInit, OfLane, Pending
<1>2. Cardinality({}) = 0 /\ BytesOf({}) = 0
  BY FS_EmptySet, BytesOfNone
<1> QED
  BY <1>1, <1>2 DEF SystemInit, Admissions

LEMMA SameAdmissions ==
  ASSUME Admissions, \A c \in Calls : status[c] = "pending" <=> status'[c] = "pending",
         UNCHANGED <<admitted, admittedBytes>>
  PROVE  Admissions'
<1>1. ASSUME NEW l PROVE OfLane(l)' = OfLane(l)
  BY DEF OfLane, Pending
<1> QED
  BY <1>1 DEF Admissions

LEMMA InvokeAdmits ==
  ASSUME Places, Admissions, NEW c \in Calls, Invoke(c)
  PROVE  Admissions'
<1>1. /\ status[c] = "new" /\ status' = [status EXCEPT ![c] = "pending"]
      /\ admitted' = [admitted EXCEPT ![Lane[c]] = @ + 1]
      /\ admittedBytes' = [admittedBytes EXCEPT ![Lane[c]] = @ + Size[c]]
  BY DEF Invoke
<1>2. OfLane(Lane[c])' = OfLane(Lane[c]) \cup {c} /\ c \notin OfLane(Lane[c])
  BY <1>1 DEF OfLane, Pending, Places
<1>3. \A l : l # Lane[c] => OfLane(l)' = OfLane(l)
  BY <1>1 DEF OfLane, Pending, Places
<1>4. Cardinality(OfLane(Lane[c]) \cup {c}) = Cardinality(OfLane(Lane[c])) + 1
  BY <1>2, LanesOfClient, FS_AddElement
<1>5. BytesOf(OfLane(Lane[c]) \cup {c}) = BytesOf(OfLane(Lane[c])) + Size[c]
  BY <1>2, LanesOfClient, BytesAdd
<1>6. \A l \in ClientLanes :
        admitted'[l] = Cardinality(OfLane(l)') /\ admittedBytes'[l] = BytesOf(OfLane(l)')
  BY <1>1, <1>2, <1>3, <1>4, <1>5, LanesOfClient DEF Admissions
<1>7. /\ admitted' = [l \in ClientLanes |-> admitted'[l]]
      /\ admittedBytes' = [l \in ClientLanes |-> admittedBytes'[l]]
  BY <1>1 DEF Admissions
<1> QED
  BY <1>6, <1>7 DEF Admissions

LEMMA SettleReturns ==
  ASSUME Places, Admissions, NEW S \in SUBSET Pending, NEW s, s # "pending", Settle(S, s),
         S = Pending \/ \E c \in Pending : S = {c}
  PROVE  Admissions'
<1> DEFINE Of(l) == {c \in S : Lane[c] = l}
<1>1. /\ status' = [c \in Calls |-> IF c \in S THEN s ELSE status[c]]
      /\ admitted' = [l \in ClientLanes |-> admitted[l] - Cardinality(Of(l))]
      /\ admittedBytes' = [l \in ClientLanes |-> admittedBytes[l] - BytesOf(Of(l))]
  BY DEF Settle
<1>2. \A l : OfLane(l)' = OfLane(l) \ Of(l) /\ Of(l) \subseteq OfLane(l)
  BY <1>1 DEF OfLane, Pending
<1>3. ASSUME NEW l \in ClientLanes
      PROVE  /\ Cardinality(OfLane(l)) - Cardinality(Of(l)) = Cardinality(OfLane(l) \ Of(l))
             /\ BytesOf(OfLane(l)) - BytesOf(Of(l)) = BytesOf(OfLane(l) \ Of(l))
  <2>0. Cardinality({}) = 0 /\ BytesOf({}) = 0
    BY FS_EmptySet, BytesOfNone
  <2>1. CASE S = Pending
    <3>1. Of(l) = OfLane(l) /\ OfLane(l) \ Of(l) = {}
      BY <2>1 DEF OfLane
    <3> HIDE DEF Of
    <3>2. /\ Cardinality(Of(l)) = Cardinality(OfLane(l)) /\ BytesOf(Of(l)) = BytesOf(OfLane(l))
          /\ Cardinality(OfLane(l) \ Of(l)) = 0 /\ BytesOf(OfLane(l) \ Of(l)) = 0
      BY <2>0, <3>1, Zenon
    <3>3. Cardinality(OfLane(l)) \in Nat /\ BytesOf(OfLane(l)) \in Nat
      BY LanesOfClient
    <3> QED
      BY <3>2, <3>3
  <2>2. ASSUME NEW c \in Pending, S = {c}, Lane[c] # l
        PROVE  Of(l) = {} /\ OfLane(l) \ Of(l) = OfLane(l)
    BY <2>2
  <2>3. ASSUME NEW c \in Pending, S = {c}, Lane[c] = l
        PROVE  /\ Of(l) = {c} /\ c \in OfLane(l) /\ c \in Calls
               /\ Cardinality({c}) = 1 /\ BytesOf({c}) = Size[c]
               /\ Cardinality(OfLane(l) \ {c}) = Cardinality(OfLane(l)) - 1
               /\ BytesOf(OfLane(l)) = Size[c] + BytesOf(OfLane(l) \ {c})
               /\ Size[c] \in Nat /\ BytesOf(OfLane(l) \ {c}) \in Nat
    <3>1. Of(l) = {c} /\ c \in OfLane(l) /\ c \in Calls
      BY <2>3 DEF OfLane, Pending
    <3>2. Cardinality({c}) = 1
      BY FS_Singleton
    <3>3. BytesOf({c}) = Size[c] + BytesOf({c} \ {c}) /\ {c} \ {c} = {}
      BY <3>1, BytesRemove
    <3>4. BytesOf({c} \ {c}) = 0
      BY <3>3, <2>0, Zenon
    <3>5. Cardinality(OfLane(l) \ {c}) = Cardinality(OfLane(l)) - 1
      BY <3>1, LanesOfClient, FS_RemoveElement
    <3>6. BytesOf(OfLane(l)) = Size[c] + BytesOf(OfLane(l) \ {c})
      BY <3>1, LanesOfClient, BytesRemove
    <3>7. OfLane(l) \ {c} \in SUBSET Calls
      BY LanesOfClient
    <3>8. BytesOf(OfLane(l) \ {c}) \in Nat
      BY <3>7, BytesType
    <3> QED
      BY <3>1, <3>2, <3>3, <3>4, <3>5, <3>6, <3>8, LanesOfClient
  <2> HIDE DEF Of
  <2>4. CASE \E c \in Pending : S = {c}
    <3> PICK c \in Pending : S = {c}
      BY <2>4
    <3>1. CASE Lane[c] # l
      BY <3>1, <2>2, <2>0, LanesOfClient
    <3>2. CASE Lane[c] = l
      <4>1. /\ Cardinality(Of(l)) = 1 /\ BytesOf(Of(l)) = Size[c]
            /\ Cardinality(OfLane(l) \ Of(l)) = Cardinality(OfLane(l) \ {c})
            /\ BytesOf(OfLane(l) \ Of(l)) = BytesOf(OfLane(l) \ {c})
        BY <3>2, <2>3, Zenon
      <4>2. Cardinality(OfLane(l)) \in Nat /\ BytesOf(OfLane(l)) \in Nat
        BY LanesOfClient
      <4>3. /\ Cardinality(OfLane(l) \ {c}) = Cardinality(OfLane(l)) - 1
            /\ BytesOf(OfLane(l)) = Size[c] + BytesOf(OfLane(l) \ {c})
            /\ Size[c] \in Nat /\ BytesOf(OfLane(l) \ {c}) \in Nat
        BY <3>2, <2>3
      <4> QED
        BY <4>1, <4>2, <4>3
    <3> QED
      BY <3>1, <3>2
  <2> QED
    BY <2>1, <2>4
<1> HIDE DEF Of
<1>4. \A l \in ClientLanes :
        /\ admitted[l] - Cardinality(Of(l)) = Cardinality(OfLane(l)')
        /\ admittedBytes[l] - BytesOf(Of(l)) = BytesOf(OfLane(l)')
  BY <1>2, <1>3, Zenon DEF Admissions
<1> QED
  BY <1>1, <1>4 DEF Admissions

LEMMA NextAdmissions ==
  ASSUME Places, Admissions, SystemNext
  PROVE  Admissions'
<1>1. CASE ClientCall
  <2> PICK c \in Calls : Invoke(c) \/ InvokeRefused(c) \/ WriteFails(c)
    BY <1>1 DEF ClientCall
  <2>1. CASE InvokeRefused(c)
    BY <2>1, SameAdmissions DEF InvokeRefused, Places
  <2>2. CASE WriteFails(c)
    BY <2>2, SettleReturns DEF WriteFails
  <2> QED
    BY <2>1, <2>2, InvokeAdmits
<1>2. CASE AcceptResponse
  <2>1. \/ Head(stdout) \in Pending /\ Settle({Head(stdout)}, "answered")
        \/ Settle(Pending, "lost")
    BY <1>2 DEF AcceptResponse
  <2> QED
    BY <2>1, SettleReturns
<1>3. CASE Rejection
  BY <1>3, SettleReturns DEF Rejection, StdinFails, Exited
<1>4. CASE ElectronDies
  <2>1. \A l : OfLane(l)' = {}
    BY <1>4 DEF ElectronDies, OfLane, Pending
  <2>2. Cardinality({}) = 0 /\ BytesOf({}) = 0
    BY FS_EmptySet, BytesOfNone
  <2> QED
    BY <1>4, <2>1, <2>2 DEF ElectronDies, Admissions
<1>5. CASE ~(ClientCall \/ AcceptResponse \/ Rejection \/ ElectronDies)
  <2>1. UNCHANGED <<status, admitted, admittedBytes>>
    BY <1>5, ClientAlone
  <2> QED
    BY <2>1, SameAdmissions
<1> QED
  BY <1>1, <1>2, <1>3, <1>4, <1>5

-----------------------------------------------------------------------------
(* Frames *)

LEMMA HandTyped ==
  ASSUME Places, PipeTypes, Frames
  PROVE  /\ \A i \in 1..Len(stdin) : stdin[i] \in Calls
         /\ \A i \in 1..Len(responses) : responses[i] \in Calls
         /\ \A i \in 1..Len(stdout) : stdout[i] \in Calls
         /\ Held \in Calls <=> loop \in {"dispatching", "refusing"}
BY CallsAssumption DEF Places, PipeTypes, Frames, Held

LEMMA SentStays ==
  ASSUME Places, SystemNext
  PROVE  Sent \subseteq Sent'
<1>1. CASE ClientCall
  BY <1>1 DEF ClientCall, Invoke, InvokeRefused, WriteFails, Settle, Sent, Places
<1>2. CASE AcceptResponse \/ Rejection \/ ElectronDies
  BY <1>2 DEF AcceptResponse, Rejection, StdinFails, Exited, ElectronDies, Settle, Sent
<1> QED
  BY <1>1, <1>2, ClientAlone DEF Sent

LEMMA InitFrames == SystemInit => Frames
BY DEF SystemInit, Init, Frames, Distinct

\* The hands of serve keep what they hold, or stay empty.
LEMMA FramesKept ==
  ASSUME Places, PipeTypes, Frames, Sent \subseteq Sent',
         UNCHANGED <<pc, stdin>>,
         \/ UNCHANGED <<loop, inHand>>
         \/ /\ loop \notin {"dispatching", "refusing"}
            /\ loop' \notin {"dispatching", "refusing"}
  PROVE  Frames'
<1>1. \A c \in Calls : c = Held' <=> c = Held
  BY CallsAssumption DEF Held
<1>2. \A i \in 1..Len(stdin) : stdin[i] \in Calls
  BY HandTyped
<1>3. \A i \in 1..Len(stdin) : pc[stdin[i]] = "new" /\ stdin[i] \in Sent' /\ stdin[i] # Held'
  BY <1>1, <1>2 DEF Frames
<1> HIDE DEF Sent
<1> QED
  BY <1>3 DEF Frames, Distinct

LEMMA InvokeFrames ==
  ASSUME Places, PipeTypes, Frames, NEW c \in Calls, Invoke(c),
         Sent \subseteq Sent'
  PROVE  Frames'
<1>1. /\ stdin' = Append(stdin, c) /\ UNCHANGED <<pc, loop, inHand>>
      /\ c \notin Sent /\ c \in Sent'
  BY DEF Invoke, vars, callVars, serveVars, Sent, Places
<1>2. Held' = Held
  BY <1>1 DEF Held
<1>3. pc[c] = "new" /\ c # Held /\ \A i \in 1..Len(stdin) : stdin[i] # c
  BY <1>1, CallsAssumption DEF Frames, Held
<1>4. stdin \in Seq(Calls) /\ Len(stdin) \in Nat
  BY DEF PipeTypes
<1>5. /\ Len(stdin') = Len(stdin) + 1 /\ stdin'[Len(stdin) + 1] = c
      /\ \A i \in 1..Len(stdin) : stdin'[i] = stdin[i]
  BY <1>1, <1>4, Appended
<1>6. \A i \in 1..Len(stdin) : stdin[i] \in Calls
  BY HandTyped
<1> HIDE DEF Sent
<1>7. Distinct(stdin')
  BY <1>3, <1>4, <1>5 DEF Distinct, Frames
<1>8. \A i \in 1..Len(stdin') : pc'[stdin'[i]] = "new" /\ stdin'[i] \in Sent' /\ stdin'[i] # Held'
  BY <1>1, <1>2, <1>3, <1>4, <1>5, <1>6 DEF Frames
<1> QED
  BY <1>1, <1>7, <1>8 DEF Frames

LEMMA TakeFrames ==
  ASSUME Places, PipeTypes, Frames, TakeFrame, Sent \subseteq Sent'
  PROVE  Frames'
<1>1. /\ loop = "selecting" /\ loop' = "dispatching" /\ inHand' = Head(stdin)
      /\ stdin # <<>> /\ stdin' = Tail(stdin) /\ UNCHANGED pc
  BY DEF TakeFrame, vars, callVars
<1>2. stdin \in Seq(Calls)
  BY DEF PipeTypes
<1>3. /\ Head(stdin) \in Calls /\ Head(stdin) = stdin[1] /\ Len(stdin) \in Nat \ {0}
      /\ Len(stdin') = Len(stdin) - 1
      /\ \A i \in 1..Len(stdin') : stdin'[i] = stdin[i + 1] /\ i + 1 \in 1..Len(stdin)
  BY <1>1, <1>2, Shortened
<1>4. \A i \in 1..Len(stdin) : stdin[i] \in Calls
  BY HandTyped
<1> HIDE DEF Sent
<1>5. Distinct(stdin') /\ \A i \in 1..Len(stdin') : stdin'[i] # Head(stdin)
  BY <1>3 DEF Distinct, Frames
<1>6. Held' = Head(stdin)
  BY <1>1 DEF Held
<1>7. \A i \in 1..Len(stdin') : pc'[stdin'[i]] = "new" /\ stdin'[i] \in Sent' /\ stdin'[i] # Held'
  BY <1>1, <1>3, <1>4, <1>5, <1>6 DEF Frames
<1>8. Head(stdin) \in Sent' /\ \A c \in Calls : pc[c] # "enqueueing"
  BY <1>1, <1>3 DEF Frames
<1> QED
  BY <1>1, <1>3, <1>5, <1>7, <1>8 DEF Frames

\* Dispatch hands the call over to the runtime or keeps it in hand.
LEMMA DispatchFrames ==
  ASSUME WellTyped, Places, PipeTypes, Frames, DispatchFrame,
         Sent \subseteq Sent'
  PROVE  Frames'
<1>1. /\ loop = "dispatching" /\ inHand \in Calls /\ Dispatch(inHand)
      /\ UNCHANGED <<loop, inHand, stdin>>
  BY DEF DispatchFrame, serveVars, pipeVars, Frames
<1>2. PICK s : pc' = [pc EXCEPT ![inHand] = s]
  BY <1>1, DispatchMoves
<1>3. Held' = Held /\ Held = inHand
  BY <1>1 DEF Held
<1>4. \A i \in 1..Len(stdin) : stdin[i] \in Calls
  BY HandTyped
<1>5. \A c \in Calls : c # inHand => pc'[c] = pc[c]
  BY <1>2 DEF WellTyped, TypeOK
<1> HIDE DEF Sent
<1>6. \A i \in 1..Len(stdin) : pc'[stdin[i]] = "new" /\ stdin[i] \in Sent' /\ stdin[i] # Held'
  BY <1>3, <1>4, <1>5 DEF Frames
<1> QED
  BY <1>1, <1>5, <1>6 DEF Frames, Distinct

\* What Dispatch has returned from is not on its way to the serial queue.
LEMMA ReturnedCall ==
  ASSUME IInv, NEW c \in Calls, Dispatched(c)
  PROVE  pc[c] \notin {"new", "enqueueing"}
<1>1. ASSUME NEW i \in 1..Len(accepted) PROVE pc[accepted[i]] \notin {"new", "enqueueing"}
  BY <1>1, Lengths DEF IInv, QueueInv, QueuePc, Busy
<1>2. c \notin Serial => pc[c] # "enqueueing"
  BY DEF IInv, WellTyped, PcOfLane
<1> QED
  BY <1>1, <1>2 DEF Dispatched

LEMMA ReturnFrames ==
  ASSUME IInv, Places, PipeTypes, Frames, DispatchReturns,
         Sent \subseteq Sent'
  PROVE  Frames'
<1>1. /\ loop = "dispatching" /\ inHand \in Calls /\ Dispatched(inHand)
      /\ loop' = (IF pc[inHand] = "refused" THEN "refusing" ELSE "selecting")
      /\ UNCHANGED <<pc, inHand, stdin>>
  BY DEF DispatchReturns, vars, callVars, pipeVars, Frames
<1>2. \A c \in Calls : c = Held' => c = Held
  BY <1>1, CallsAssumption DEF Held
<1>3. \A i \in 1..Len(stdin) : stdin[i] \in Calls
  BY HandTyped
<1> HIDE DEF Sent
<1>4. \A i \in 1..Len(stdin) : pc'[stdin[i]] = "new" /\ stdin[i] \in Sent' /\ stdin[i] # Held'
  BY <1>1, <1>2, <1>3 DEF Frames
<1>5. \A c \in Calls : pc[c] # "enqueueing"
  BY <1>1, ReturnedCall DEF Frames
<1> QED
  BY <1>1, <1>4, <1>5 DEF Frames, Distinct

LEMMA AnswerFrames ==
  ASSUME Places, PipeTypes, Frames, AnswerRefused, Sent \subseteq Sent'
  PROVE  Frames'
<1>1. loop = "refusing" /\ loop' = "selecting" /\ UNCHANGED <<pc, inHand, stdin>>
  BY DEF AnswerRefused, vars, callVars, pipeVars
<1>2. \A i \in 1..Len(stdin) : stdin[i] \in Calls
  BY HandTyped
<1>3. Held' = NoCall
  BY <1>1 DEF Held
<1> HIDE DEF Sent
<1>4. \A i \in 1..Len(stdin) : pc'[stdin[i]] = "new" /\ stdin[i] \in Sent' /\ stdin[i] # Held'
  BY <1>1, <1>2, <1>3, CallsAssumption DEF Frames
<1> QED
  BY <1>1, <1>4 DEF Frames, Distinct

LEMMA AdvanceFrames ==
  ASSUME WellTyped, Places, PipeTypes, Frames, NEW c \in Calls, NEW s, Advances(c, s),
         UNCHANGED <<loop, inHand, stdin>>, Sent \subseteq Sent'
  PROVE  Frames'
<1>1. /\ pc[c] \notin {"new", "refused"} /\ s # "enqueueing" /\ pc'[c] = s
      /\ \A d \in Calls : d # c => pc'[d] = pc[d]
  BY DEF Advances, WellTyped, TypeOK
<1>2. Held' = Held
  BY DEF Held
<1>3. \A i \in 1..Len(stdin) : stdin[i] \in Calls
  BY HandTyped
<1> HIDE DEF Sent
<1>4. \A i \in 1..Len(stdin) : pc'[stdin[i]] = "new" /\ stdin[i] \in Sent' /\ stdin[i] # Held'
  BY <1>1, <1>2, <1>3 DEF Frames
<1> QED
  BY <1>1, <1>4 DEF Frames, Distinct

LEMMA NextFrames ==
  ASSUME IInv, Places, PipeTypes, Frames, SystemNext
  PROVE  Frames'
<1>0. (Sent \subseteq Sent') /\ WellTyped
  BY SentStays DEF IInv
<1>1. CASE ClientCall
  <2> PICK c \in Calls : Invoke(c) \/ InvokeRefused(c) \/ WriteFails(c)
    BY <1>1 DEF ClientCall
  <2>1. CASE InvokeRefused(c) \/ WriteFails(c)
    <3>1. UNCHANGED <<pc, stdin, loop, inHand>>
      BY <2>1, ZenonT(30) DEF InvokeRefused, WriteFails, vars, callVars, pipeVars, serveVars
    <3> QED
      BY <1>0, <3>1, FramesKept
  <2> QED
    BY <1>0, <2>1, InvokeFrames
<1>2. CASE LoopEnds \/ CancelServer
  <2>1. /\ loop \in {"selecting", "closing"} /\ loop' \in {"closing", "awaitingWriter"}
        /\ UNCHANGED <<pc, stdin>>
    BY <1>2, ZenonT(30) DEF LoopEnds, SignalSeen, WriterSeen, EndOfInput, LeaveLoop,
      CancelServer, vars, callVars, pipeVars
  <2> QED
    BY <1>0, <2>1, FramesKept
<1>3. CASE ~(\/ ClientCall \/ TakeFrame \/ DispatchFrame \/ DispatchReturns \/ AnswerRefused
             \/ LoopEnds \/ CancelServer \/ Delivers \/ RuntimeRuns \/ ElectronDies)
  <2>1. UNCHANGED <<pc, stdin, loop, inHand>>
    BY <1>3, RuntimeAlone, HandAlone, StdinAlone
  <2> QED
    BY <1>0, <2>1, FramesKept
<1>4. CASE Delivers
  <2> PICK c \in Calls : Deliver(c)
    BY <1>4 DEF Delivers
  <2>1. (\E s \in PcStates : Advances(c, s)) /\ UNCHANGED <<loop, inHand, stdin>>
    BY <1>0, DeliverMoves DEF pipeVars, serveVars
  <2> QED
    BY <1>0, <2>1, AdvanceFrames
<1>5. CASE RuntimeRuns
  <2>1. UNCHANGED <<loop, inHand, stdin>>
    BY <1>5, ZenonT(30) DEF RuntimeRuns, RuntimeStep, HandlerEnds, pipeVars, serveVars
  <2> QED
    BY <1>0, <1>5, <2>1, RuntimeMoves, AdvanceFrames, FramesKept DEF Moves
<1>6. CASE ElectronDies
  <2>1. UNCHANGED <<pc, loop, inHand>> /\ Sent' = Calls
    BY <1>6 DEF ElectronDies, vars, callVars, serveVars, Sent
  <2>2. PICK n \in 0..Len(stdin) : stdin' = SubSeq(stdin, 1, n)
    BY <1>6 DEF ElectronDies
  <2>3. Len(stdin') = n /\ \A i \in 1..n : stdin'[i] = stdin[i] /\ i \in 1..Len(stdin)
    BY <2>2, Cut DEF PipeTypes
  <2>4. Held' = Held /\ \A i \in 1..Len(stdin) : stdin[i] \in Calls
    BY <2>1, HandTyped DEF Held
  <2> HIDE DEF Sent
  <2>5. /\ Distinct(stdin')
        /\ \A i \in 1..Len(stdin') : pc'[stdin'[i]] = "new" /\ stdin'[i] \in Sent' /\ stdin'[i] # Held'
    BY <2>1, <2>3, <2>4 DEF Distinct, Frames
  <2> QED
    BY <2>1, <2>5 DEF Frames
<1> QED
  BY <1>0, <1>1, <1>2, <1>3, <1>4, <1>5, <1>6, TakeFrames, DispatchFrames, ReturnFrames,
     AnswerFrames, Zenon

-----------------------------------------------------------------------------
(* Answers *)

LEMMA InitAnswers == SystemInit => AnswersOnce
BY DEF SystemInit, Init, AnswersOnce, Distinct

AnsweredEnds == \A c \in answered : pc[c] \in {"releasing", "settled"}

LEMMA NextAnsweredEnds ==
  ASSUME IInv, Frames, AnsweredEnds, SystemNext
  PROVE  AnsweredEnds'
<1>1. WellTyped /\ answered \subseteq Calls
  BY DEF IInv, WellTyped, TypeOK
<1>2. CASE Delivers
  <2> PICK c \in Calls : Deliver(c)
    BY <1>2 DEF Delivers
  <2>1. PICK s \in {"releasing", "settled"} : Advances(c, s)
    BY <1>1, DeliverMoves
  <2>2. answered' = answered \cup {c}
    BY <1>1, DeliverMoves
  <2> QED
    BY <1>1, <2>1, <2>2 DEF Advances, AnsweredEnds, WellTyped, TypeOK
<1>3. CASE RuntimeRuns
  <2>1. CASE UNCHANGED <<pc, answered>>
    BY <2>1 DEF AnsweredEnds
  <2>2. ASSUME NEW c \in Calls, NEW s \in PcStates, Moves(c, s) PROVE AnsweredEnds'
    BY <1>1, <2>2 DEF Moves, Advances, AnsweredEnds, WellTyped, TypeOK
  <2> QED
    BY <1>3, <2>1, <2>2, RuntimeMoves
<1>4. CASE DispatchFrame
  <2>1. inHand \in Calls /\ Dispatch(inHand)
    BY <1>4 DEF DispatchFrame, Frames
  <2>2. PICK s : pc' = [pc EXCEPT ![inHand] = s]
    BY <2>1, DispatchMoves
  <2>3. pc[inHand] = "new" /\ answered' = answered
    BY <2>1, DispatchMoves
  <2> QED
    BY <1>1, <2>2, <2>3 DEF AnsweredEnds, WellTyped, TypeOK
<1> QED
  BY <1>2, <1>3, <1>4, RuntimeAlone DEF AnsweredEnds

\* Only the loop, for a call refused, and the deliver callback answer.
LEMMA AnswersSame ==
  ASSUME IInv, Places, PipeTypes, Frames, SystemNext, ~(AnswerRefused \/ Delivers)
  PROVE  Answers' = Answers
<1>0. pc \in [Calls -> PcStates]
  BY DEF IInv, WellTyped, TypeOK
<1>1. ASSUME UNCHANGED <<pc, answered>>,
             \A c \in Calls : pc[c] = "refused" => (c = Held' <=> c = Held)
      PROVE  Answers' = Answers
  BY <1>1 DEF Answers
<1>2. CASE TakeFrame
  <2>1. /\ loop = "selecting" /\ loop' = "dispatching" /\ inHand' = Head(stdin)
        /\ stdin # <<>> /\ UNCHANGED <<pc, answered>>
    BY <1>2 DEF TakeFrame, vars, callVars
  <2>2. Head(stdin) = stdin[1] /\ 1 \in 1..Len(stdin)
    BY <2>1, Shortened DEF PipeTypes
  <2>3. Held' = Head(stdin) /\ Held = NoCall /\ pc[Head(stdin)] = "new"
    BY <2>1, <2>2 DEF Held, Frames
  <2> QED
    BY <1>1, <2>1, <2>3, CallsAssumption
<1>3. CASE DispatchReturns
  <2>1. /\ loop = "dispatching" /\ UNCHANGED <<pc, answered, inHand>>
        /\ loop' = (IF pc[inHand] = "refused" THEN "refusing" ELSE "selecting")
    BY <1>3 DEF DispatchReturns, vars, callVars
  <2> QED
    BY <1>1, <2>1, CallsAssumption DEF Held
<1>4. CASE LoopEnds \/ CancelServer
  <2>1. /\ loop \in {"selecting", "closing"} /\ loop' \in {"closing", "awaitingWriter"}
        /\ UNCHANGED <<pc, answered>>
    BY <1>4, ZenonT(30) DEF LoopEnds, SignalSeen, WriterSeen, EndOfInput, LeaveLoop,
      CancelServer, vars, callVars
  <2> QED
    BY <1>1, <2>1 DEF Held
<1>5. CASE DispatchFrame
  <2>1. inHand \in Calls /\ Dispatch(inHand) /\ Held = inHand /\ Held' = inHand
    BY <1>5 DEF DispatchFrame, Frames, Held, serveVars
  <2>2. PICK s : pc' = [pc EXCEPT ![inHand] = s]
    BY <2>1, DispatchMoves
  <2>3. answered' = answered /\ pc[inHand] = "new"
    BY <2>1, DispatchMoves
  <2> QED
    BY <1>0, <2>1, <2>2, <2>3 DEF Answers
<1>6. CASE RuntimeRuns
  <2>0. UNCHANGED <<loop, inHand>>
    BY <1>6, ZenonT(30) DEF RuntimeRuns, RuntimeStep, HandlerEnds, serveVars
  <2>1. Held' = Held
    BY <2>0 DEF Held
  <2>2. ASSUME NEW c \in Calls, NEW s \in PcStates, Moves(c, s) PROVE Answers' = Answers
    <3>1. /\ answered' = answered /\ pc[c] # "refused" /\ pc'[c] = s
          /\ \A d \in Calls : d # c => pc'[d] = pc[d]
          /\ s = "refused" => pc[c] = "enqueueing"
      BY <1>0, <2>2 DEF Moves, Advances
    <3>2. s = "refused" => c = Held
      BY <3>1 DEF Frames, Held
    <3> QED
      BY <2>1, <3>1, <3>2 DEF Answers
  <2> QED
    BY <1>1, <1>6, <2>1, <2>2, RuntimeMoves
<1>7. CASE ~(\/ TakeFrame \/ DispatchReturns \/ AnswerRefused \/ LoopEnds \/ CancelServer
             \/ DispatchFrame \/ Delivers \/ RuntimeRuns)
  <2>1. Held' = Held /\ UNCHANGED <<pc, answered>>
    BY <1>7, HandAlone, RuntimeAlone DEF Held
  <2> QED
    BY <1>1, <2>1
<1> QED
  BY <1>2, <1>3, <1>4, <1>5, <1>6, <1>7

Answering(c) ==
  c \in Calls \ Answers /\ Answers' = Answers \cup {c} /\ EnqueueResponse(c)

LEMMA RefusedIsAnswered ==
  ASSUME Places, Frames, AnswersOnce, AnswerRefused
  PROVE  Answering(inHand)
<1>1. /\ loop = "refusing" /\ loop' = "selecting" /\ EnqueueResponse(inHand)
      /\ UNCHANGED <<pc, answered>>
  BY DEF AnswerRefused, vars, callVars
<1>2. inHand \in Calls /\ pc[inHand] = "refused" /\ Held = inHand /\ Held' = NoCall
  BY <1>1 DEF Frames, Held
<1>3. inHand \notin answered
  BY <1>2 DEF AnswersOnce
<1> QED
  BY <1>1, <1>2, <1>3, CallsAssumption DEF Answering, Answers

LEMMA DeliveredIsAnswered ==
  ASSUME WellTyped, AnswersOnce, NEW c \in Calls, Deliver(c)
  PROVE  Answering(c)
<1>1. /\ EnqueueResponse(c) /\ pc[c] = "delivering" /\ answered' = answered \cup {c}
      /\ UNCHANGED <<loop, inHand>>
  BY DeliverMoves DEF serveVars
<1>2. PICK s \in {"releasing", "settled"} : Advances(c, s)
  BY DeliverMoves
<1>3. \A d \in Calls : pc'[d] = IF d = c THEN s ELSE pc[d]
  BY <1>2 DEF Advances, WellTyped, TypeOK
<1>4. Held' = Held
  BY <1>1 DEF Held
<1>5. c \notin answered
  BY <1>1 DEF AnswersOnce
<1> QED
  BY <1>1, <1>3, <1>4, <1>5 DEF Answering, Answers

LEMMA StepAnswers ==
  ASSUME IInv, Places, PipeTypes, Frames, AnswersOnce, SystemNext
  PROVE  \/ Answers' = Answers /\ ~(AnswerRefused \/ Delivers)
         \/ /\ AnswerRefused \/ Delivers
            /\ \E c \in Calls : Answering(c) /\ UNCHANGED stdout
<1>1. CASE AnswerRefused
  BY <1>1, RefusedIsAnswered DEF AnswerRefused, pipeVars, Frames
<1>2. CASE Delivers
  BY <1>2, DeliveredIsAnswered DEF Delivers, Deliver, pipeVars, IInv
<1> QED
  BY <1>1, <1>2, AnswersSame

Queues ==
  /\ Distinct(responses)
  /\ \A i \in 1..Len(responses) : responses[i] \in Answers \ written
  /\ written \subseteq Answers
  /\ Distinct(stdout)
  /\ \A i \in 1..Len(stdout) : stdout[i] \in written

LEMMA AnswersOnceIs == AnswersOnce <=> AnsweredEnds /\ Queues
BY DEF AnswersOnce, AnsweredEnds, Queues

LEMMA AnsweringQueues ==
  ASSUME PipeTypes, Queues, NEW c \in Calls, Answering(c), UNCHANGED stdout
  PROVE  Queues'
<1>1. /\ c \notin Answers /\ Answers' = Answers \cup {c} /\ UNCHANGED written
      /\ responses' = Append(responses, c) \/ responses' = responses
  BY DEF Answering, EnqueueResponse
<1>2. CASE responses' = responses
  BY <1>1, <1>2 DEF Queues
<1>3. CASE responses' = Append(responses, c)
  <2>1. /\ Len(responses) \in Nat /\ Len(responses') = Len(responses) + 1
        /\ responses'[Len(responses) + 1] = c
        /\ \A i \in 1..Len(responses) : responses'[i] = responses[i]
    BY <1>3, Appended DEF PipeTypes
  <2>2. c \notin written /\ \A i \in 1..Len(responses) : responses[i] # c
    BY <1>1 DEF Queues
  <2>3. Distinct(responses')
    BY <2>1, <2>2 DEF Distinct, Queues
  <2>4. \A i \in 1..Len(responses') : responses'[i] \in Answers' \ written'
    BY <1>1, <2>1, <2>2 DEF Queues
  <2> HIDE DEF Distinct
  <2> QED
    BY <1>1, <2>3, <2>4 DEF Queues
<1> QED
  BY <1>1, <1>2, <1>3

LEMMA WriteQueues ==
  ASSUME PipeTypes, Queues, WriteResponse \/ WriteResponseFails, Answers' = Answers
  PROVE  Queues'
<1>1. responses # <<>> /\ responses' = Tail(responses)
  BY DEF WriteResponse, WriteResponseFails
<1>2. /\ Head(responses) \in Calls /\ Head(responses) = responses[1] /\ Len(responses) \in Nat \ {0}
      /\ Len(responses') = Len(responses) - 1
      /\ \A i \in 1..Len(responses') :
           responses'[i] = responses[i + 1] /\ i + 1 \in 1..Len(responses)
  BY <1>1, Shortened DEF PipeTypes
<1>3. /\ Distinct(responses') /\ Head(responses) \in Answers \ written
      /\ \A i \in 1..Len(responses') :
           responses'[i] # Head(responses) /\ responses'[i] \in Answers \ written
  BY <1>2 DEF Distinct, Queues
<1>4. CASE WriteResponseFails
  <2>1. UNCHANGED <<stdout, written>>
    BY <1>4 DEF WriteResponseFails, pipeVars
  <2> HIDE DEF Distinct
  <2> QED
    BY <1>3, <2>1 DEF Queues
<1>5. CASE WriteResponse
  <2>1. /\ stdout' = Append(stdout, Head(responses))
        /\ written' = written \cup {Head(responses)}
    BY <1>5 DEF WriteResponse
  <2>2. /\ Len(stdout) \in Nat /\ Len(stdout') = Len(stdout) + 1
        /\ stdout'[Len(stdout) + 1] = Head(responses)
        /\ \A i \in 1..Len(stdout) : stdout'[i] = stdout[i]
    BY <1>2, <2>1, Appended DEF PipeTypes
  <2>3. \A i \in 1..Len(stdout) : stdout[i] # Head(responses)
    BY <1>3 DEF Queues
  <2>4. Distinct(stdout')
    BY <2>2, <2>3 DEF Distinct, Queues
  <2>5. \A i \in 1..Len(stdout') : stdout'[i] \in written'
    BY <2>1, <2>2 DEF Queues
  <2>6. \A i \in 1..Len(responses') : responses'[i] \in Answers' \ written'
    BY <1>3, <2>1
  <2>7. written' \subseteq Answers'
    BY <1>3, <2>1 DEF Queues
  <2> HIDE DEF Distinct
  <2> QED
    BY <1>3, <2>4, <2>5, <2>6, <2>7 DEF Queues
<1> QED
  BY <1>4, <1>5

LEMMA NextAnswers ==
  ASSUME IInv, Places, PipeTypes, Frames, AnswersOnce, SystemNext
  PROVE  AnswersOnce'
<1>1. AnsweredEnds' /\ Queues
  BY NextAnsweredEnds, AnswersOnceIs
<1>2. ASSUME Answers' = Answers, ~(AnswerRefused \/ Delivers) PROVE Queues'
  <2>1. CASE AcceptResponse
    <3>1. stdout # <<>> /\ stdout' = Tail(stdout) /\ UNCHANGED <<responses, written>>
      BY <2>1 DEF AcceptResponse, writerVars
    <3>2. /\ Len(stdout) \in Nat \ {0} /\ Len(stdout') = Len(stdout) - 1
          /\ \A i \in 1..Len(stdout') : stdout'[i] = stdout[i + 1] /\ i + 1 \in 1..Len(stdout)
      BY <3>1, Shortened DEF PipeTypes
    <3>3. Distinct(stdout) /\ \A i \in 1..Len(stdout) : stdout[i] \in written
      BY <1>1 DEF Queues
    <3>4. Distinct(stdout')
      BY <3>2, <3>3 DEF Distinct
    <3>5. \A i \in 1..Len(stdout') : stdout'[i] \in written
      BY <3>2, <3>3
    <3> HIDE DEF Distinct
    <3> QED
      BY <1>1, <1>2, <3>1, <3>4, <3>5 DEF Queues
  <2>2. CASE ElectronDies
    <3>1. stdout' = <<>> /\ UNCHANGED <<responses, written>>
      BY <2>2 DEF ElectronDies, writerVars
    <3>2. Distinct(stdout') /\ \A i \in 1..Len(stdout') : stdout'[i] \in written
      BY <3>1 DEF Distinct
    <3> HIDE DEF Distinct
    <3> QED
      BY <1>1, <1>2, <3>1, <3>2 DEF Queues
  <2>3. CASE ~(AcceptResponse \/ ElectronDies \/ WriteResponse \/ WriteResponseFails)
    <3>1. UNCHANGED <<responses, written, stdout>>
      BY <1>2, <2>3, ResponsesAlone, StdoutAlone
    <3> QED
      BY <1>1, <1>2, <3>1 DEF Queues
  <2> QED
    BY <1>1, <1>2, <2>1, <2>2, <2>3, WriteQueues
<1>3. ASSUME NEW c \in Calls, Answering(c), UNCHANGED stdout PROVE Queues'
  BY <1>1, <1>3, AnsweringQueues
<1>4. Queues'
  BY <1>2, <1>3, StepAnswers, Zenon
<1> QED
  BY <1>1, <1>4, AnswersOnceIs DEF AnsweredEnds, Queues, AnswersOnce

-----------------------------------------------------------------------------
(* Trust.  While both processes live the client gets the answers it waits for. *)

LEMMA InitTrust == SystemInit => Trust
BY DEF SystemInit, Trust

LEMMA ProcessEnds ==
  ASSUME SystemNext
  PROVE  \/ UNCHANGED process
         \/ process = "up" /\ (process' = "killed" \/ (process' = "exited" /\ ServeEnds))
<1>1. CASE \/ ClientCall \/ AcceptResponse \/ Rejection \/ ElectronDies
  BY <1>1, ZenonT(30) DEF ClientCall, Invoke, InvokeRefused, WriteFails, AcceptResponse, Rejection,
    StdinFails, Exited, ElectronDies, serveVars
<1>2. CASE TakeFrame \/ DispatchFrame \/ DispatchReturns \/ AnswerRefused \/ LoopEnds \/ CloseRuns
  BY <1>2, ZenonT(30) DEF TakeFrame, DispatchFrame, DispatchReturns, AnswerRefused, LoopEnds, SignalSeen,
    WriterSeen, EndOfInput, LeaveLoop, CloseRuns, CloseRuntime, DrainEnds, serveVars
<1>3. CASE CancelServer \/ Delivers \/ RuntimeRuns
  BY <1>3, ZenonT(30) DEF CancelServer, Delivers, Deliver, RuntimeRuns, RuntimeStep, HandlerEnds, serveVars
<1>4. CASE WriteResponse \/ WriteResponseFails \/ ContextDone \/ StopWriter
  BY <1>4, ZenonT(30) DEF WriteResponse, WriteResponseFails, ContextDone, WriterCancels, SignalArrives,
    StopWriter, serveVars
<1>5. CASE Waiting \/ ServeEnds \/ Struck
  BY <1>5 DEF Waiting, BeginShutdown, ShutdownSeesExit, GraceEnds, ServeEnds, WriterStops,
    WriterTimesOut, Exit, Struck, Interrupt, Crash, Up, serveVars
<1> QED
  BY <1>1, <1>2, <1>3, <1>4, <1>5, SystemStepCases, Zenon

\* Neither process comes back.
LEMMA NobodyReturns ==
  ASSUME SystemNext, Connected'
  PROVE  Connected /\ ~ElectronDies /\ ~Rejection
<1>1. process' = "up" /\ electron'
  BY DEF Connected
<1>2. process = "up"
  BY <1>1, ProcessEnds
<1>3. ~ElectronDies
  BY <1>1, Zenon DEF ElectronDies
<1>4. ~Rejection
  BY <1>2, Zenon DEF Rejection, StdinFails, Exited
<1>5. CASE ClientCall \/ AcceptResponse
  BY <1>2, <1>3, <1>4, <1>5, Zenon DEF ClientCall, Invoke, InvokeRefused, WriteFails, AcceptResponse,
    Connected
<1>6. CASE ~(ClientCall \/ AcceptResponse)
  <2>1. electron' = electron
    BY <1>3, <1>4, <1>6, ClientAlone
  <2> QED
    BY <1>1, <1>2, <1>3, <1>4, <2>1 DEF Connected
<1> QED
  BY <1>5, <1>6

LEMMA NextTrust ==
  ASSUME Flags, Places, PipeTypes, Frames, AnswersOnce, Trust, IInv, SystemNext
  PROVE  Trust'
<1> SUFFICES ASSUME Connected'
             PROVE  /\ ~stopped'
                    /\ \A c \in Calls : status'[c] \notin {"lost", "gone"}
                    /\ \A c \in Calls : status'[c] = "answered" => c \in written'
                    /\ \A i \in 1..Len(stdout') : status'[stdout'[i]] = "pending"
  BY DEF Trust
<1>1. Connected /\ ~ElectronDies /\ ~Rejection
  BY NobodyReturns
<1>2. /\ ~stopped
      /\ \A c \in Calls : status[c] \notin {"lost", "gone"}
      /\ \A c \in Calls : status[c] = "answered" => c \in written
      /\ \A i \in 1..Len(stdout) : status[stdout[i]] = "pending" /\ stdout[i] \in Calls
  BY <1>1, HandTyped DEF Trust
<1>3. CASE ClientCall
  <2> PICK c \in Calls : Invoke(c) \/ InvokeRefused(c) \/ WriteFails(c)
    BY <1>3 DEF ClientCall
  <2>1. ~WriteFails(c)
    BY <1>1 DEF WriteFails, Connected
  <2>2. /\ status[c] = "new" /\ UNCHANGED <<stopped, stdout, written>>
        /\ \E s \in {"pending", "notSent"} : status' = [status EXCEPT ![c] = s]
    BY <2>1, ZenonT(30) DEF Invoke, InvokeRefused, pipeVars, writerVars
  <2> QED
    BY <1>2, <2>2 DEF Places
<1>4. CASE AcceptResponse
  <2>1. /\ stdout # <<>> /\ stdout' = Tail(stdout) /\ UNCHANGED written
        /\ Head(stdout) \in Pending =>
             ~stopped' /\ status' = [c \in Calls |-> IF c \in {Head(stdout)} THEN "answered" ELSE status[c]]
    BY <1>4 DEF AcceptResponse, Settle, writerVars
  <2>2. /\ Head(stdout) \in Calls /\ Head(stdout) = stdout[1] /\ Len(stdout) \in Nat \ {0}
        /\ Len(stdout') = Len(stdout) - 1
        /\ \A i \in 1..Len(stdout') : stdout'[i] = stdout[i + 1] /\ i + 1 \in 1..Len(stdout)
    BY <2>1, Shortened DEF PipeTypes
  <2>3. Head(stdout) \in Pending /\ Head(stdout) \in written
    BY <1>2, <2>2 DEF Pending, AnswersOnce
  <2>4. \A i \in 1..Len(stdout') : stdout'[i] # Head(stdout)
    BY <2>2 DEF AnswersOnce, Distinct
  <2>5. \A c \in Calls : status'[c] = IF c = Head(stdout) THEN "answered" ELSE status[c]
    BY <2>1, <2>3
  <2>6. \A i \in 1..Len(stdout') : status'[stdout'[i]] = "pending"
    BY <1>2, <2>2, <2>4, <2>5
  <2> QED
    BY <1>2, <2>1, <2>3, <2>5, <2>6
<1>5. CASE ~(ClientCall \/ AcceptResponse)
  <2>1. UNCHANGED <<status, stopped>>
    BY <1>1, <1>5, ClientAlone
  <2>2. CASE WriteResponse
    <3>1. /\ responses # <<>> /\ stdout' = Append(stdout, Head(responses))
          /\ written' = written \cup {Head(responses)}
      BY <2>2 DEF WriteResponse
    <3>2. Head(responses) \in Calls /\ Head(responses) = responses[1] /\ 1 \in 1..Len(responses)
      BY <3>1, Shortened DEF PipeTypes
    <3>3. Head(responses) \in Answers /\ Head(responses) \notin written
      BY <3>2 DEF AnswersOnce
    <3>4. pc[Head(responses)] # "new"
      BY <3>3 DEF Answers, AnswersOnce
    <3>5. Head(responses) \in Sent
      BY <3>2, <3>4 DEF Frames
    <3>6. status[Head(responses)] = "pending"
      BY <1>2, <3>2, <3>3, <3>5 DEF Sent, Places
    <3>7. /\ Len(stdout) \in Nat /\ Len(stdout') = Len(stdout) + 1
          /\ stdout'[Len(stdout) + 1] = Head(responses)
          /\ \A i \in 1..Len(stdout) : stdout'[i] = stdout[i]
      BY <3>1, <3>2, Appended DEF PipeTypes
    <3> QED
      BY <1>2, <2>1, <3>1, <3>6, <3>7
  <2>3. CASE ~WriteResponse
    <3>1. UNCHANGED stdout
      BY <1>1, <1>5, <2>3, StdoutAlone
    <3>2. UNCHANGED written
      <4>1. CASE AnswerRefused \/ Delivers \/ WriteResponseFails
        BY <4>1, ZenonT(30) DEF AnswerRefused, Delivers, Deliver, EnqueueResponse,
          WriteResponseFails
      <4> QED
        BY <2>3, <4>1, ResponsesAlone
    <3> QED
      BY <1>2, <2>1, <3>1, <3>2
  <2> QED
    BY <2>2, <2>3
<1> QED
  BY <1>3, <1>4, <1>5

-----------------------------------------------------------------------------
(* Flushing *)

LEMMA InitFlushing == SystemInit => Flushing
BY DEF SystemInit, Init, Flushing, Answers

\* What does not change back.
LEMMA SignalLasts == ASSUME Flags, SystemNext, signaled PROVE signaled'
<1>1. CASE AcceptResponse
  BY <1>1, Zenon DEF AcceptResponse
<1>2. CASE ~AcceptResponse
  <2>1. signaled' = signaled \/ signaled' = TRUE
    <3>1. CASE ClientCall \/ Rejection \/ Waiting
      BY <3>1, ZenonT(30) DEF ClientCall, Invoke, InvokeRefused, WriteFails, Rejection, StdinFails,
        Exited, Waiting, BeginShutdown, ShutdownSeesExit, GraceEnds, serveVars
    <3>2. CASE TakeFrame \/ DispatchFrame \/ DispatchReturns \/ AnswerRefused \/ LoopEnds \/ CloseRuns
      BY <3>2, ZenonT(30) DEF TakeFrame, DispatchFrame, DispatchReturns, AnswerRefused, LoopEnds,
        SignalSeen, WriterSeen, EndOfInput, LeaveLoop, CloseRuns, CloseRuntime, DrainEnds, serveVars
    <3>3. CASE CancelServer \/ ServeEnds \/ Delivers \/ RuntimeRuns \/ Struck \/ ElectronDies
      BY <3>3, ZenonT(30) DEF CancelServer, ServeEnds, WriterStops, WriterTimesOut, Exit, Delivers,
        Deliver, RuntimeRuns, RuntimeStep, HandlerEnds, Struck, Interrupt, Crash, ElectronDies, serveVars
    <3>4. CASE WriteResponse \/ WriteResponseFails \/ ContextDone \/ StopWriter
      BY <3>4, ZenonT(30) DEF WriteResponse, WriteResponseFails, ContextDone, WriterCancels,
        SignalArrives, StopWriter, serveVars
    <3> QED
      BY <1>2, <3>1, <3>2, <3>3, <3>4, SystemStepCases, Zenon
  <2> QED
    BY <2>1
<1> QED
  BY <1>1, <1>2

LEMMA WriterAlone ==
  ASSUME Places, SystemNext
  PROVE  UNCHANGED writer \/ (writer = "selecting" /\ (WriteResponseFails \/ StopWriter))
<1> USE DEF writerVars
<1>1. CASE ClientCall \/ AcceptResponse \/ Rejection \/ Waiting
  BY <1>1, ZenonT(30) DEF ClientCall, Invoke, InvokeRefused, WriteFails, AcceptResponse, Rejection,
    StdinFails, Exited, Waiting, BeginShutdown, ShutdownSeesExit, GraceEnds
<1>2. CASE TakeFrame \/ DispatchFrame \/ DispatchReturns \/ AnswerRefused \/ LoopEnds \/ CloseRuns
  BY <1>2, ZenonT(30) DEF TakeFrame, DispatchFrame, DispatchReturns, AnswerRefused, EnqueueResponse,
    LoopEnds, SignalSeen, WriterSeen, EndOfInput, LeaveLoop, CloseRuns, CloseRuntime, DrainEnds
<1>3. CASE CancelServer \/ ServeEnds \/ Delivers \/ RuntimeRuns \/ Struck \/ ElectronDies
  BY <1>3, ZenonT(30) DEF CancelServer, ServeEnds, WriterStops, WriterTimesOut, Exit, Delivers, Deliver,
    EnqueueResponse, RuntimeRuns, RuntimeStep, HandlerEnds, Struck, Interrupt, Crash, ElectronDies
<1>4. CASE WriteResponse \/ ContextDone
  BY <1>4, ZenonT(30) DEF WriteResponse, ContextDone, WriterCancels, SignalArrives
<1>5. CASE WriteResponseFails \/ StopWriter
  BY <1>5 DEF WriterEnded, Places, WriteResponseFails, StopWriter
<1> QED
  BY <1>1, <1>2, <1>3, <1>4, <1>5, SystemStepCases, Zenon

LEMMA DoneAlone ==
  ASSUME SystemNext, ~(CancelServer \/ ContextDone)
  PROVE  UNCHANGED serverDone
<1> USE DEF writerVars
<1>1. CASE ClientCall \/ AcceptResponse \/ Rejection \/ Waiting
  BY <1>1, ZenonT(30) DEF ClientCall, Invoke, InvokeRefused, WriteFails, AcceptResponse, Rejection,
    StdinFails, Exited, Waiting, BeginShutdown, ShutdownSeesExit, GraceEnds
<1>2. CASE TakeFrame \/ DispatchFrame \/ DispatchReturns \/ AnswerRefused \/ LoopEnds \/ CloseRuns
  BY <1>2, ZenonT(30) DEF TakeFrame, DispatchFrame, DispatchReturns, AnswerRefused, EnqueueResponse,
    LoopEnds, SignalSeen, WriterSeen, EndOfInput, LeaveLoop, CloseRuns, CloseRuntime, DrainEnds
<1>3. CASE ServeEnds \/ Delivers \/ RuntimeRuns \/ Struck \/ ElectronDies
  BY <1>3, ZenonT(30) DEF ServeEnds, WriterStops, WriterTimesOut, Exit, Delivers, Deliver,
    EnqueueResponse, RuntimeRuns, RuntimeStep, HandlerEnds, Struck, Interrupt, Crash, ElectronDies
<1>4. CASE WriteResponse \/ WriteResponseFails \/ StopWriter
  BY <1>4, ZenonT(30) DEF WriteResponse, WriteResponseFails, StopWriter
<1> QED
  BY <1>1, <1>2, <1>3, <1>4, SystemStepCases, Zenon

LEMMA LoopLasts ==
  ASSUME Places, SystemNext
  PROVE  /\ loop = "awaitingWriter" => loop' = loop
         /\ loop' = "awaitingWriter" => loop = loop' \/ CancelServer
<1>1. CASE TakeFrame \/ DispatchReturns \/ AnswerRefused
  BY <1>1 DEF TakeFrame, DispatchReturns, AnswerRefused
<1>2. CASE LoopEnds \/ CancelServer
  BY <1>2 DEF LoopEnds, SignalSeen, WriterSeen, EndOfInput, LeaveLoop, CancelServer
<1> QED
  BY <1>1, <1>2, HandAlone

LEMMA ErrorAlone ==
  ASSUME SystemNext, process # "up"
  PROVE  UNCHANGED serveErr
<1> USE DEF serveVars, Up
<1>1. CASE ClientCall \/ AcceptResponse \/ Rejection \/ Waiting \/ ElectronDies
  BY <1>1, ZenonT(30) DEF ClientCall, Invoke, InvokeRefused, WriteFails, AcceptResponse, Rejection,
    StdinFails, Exited, Waiting, BeginShutdown, ShutdownSeesExit, GraceEnds, ElectronDies
<1>2. CASE TakeFrame \/ DispatchFrame \/ DispatchReturns \/ AnswerRefused \/ LoopEnds \/ CloseRuns
  BY <1>2, ZenonT(30) DEF TakeFrame, DispatchFrame, DispatchReturns, AnswerRefused,
    LoopEnds, SignalSeen, WriterSeen, EndOfInput, LeaveLoop, CloseRuns, CloseRuntime, DrainEnds
<1>3. CASE CancelServer \/ ServeEnds \/ Delivers \/ RuntimeRuns \/ Struck
  BY <1>3, ZenonT(30) DEF CancelServer, ServeEnds, WriterStops, WriterTimesOut, Exit, Delivers, Deliver,
    RuntimeRuns, RuntimeStep, HandlerEnds, Struck, Interrupt, Crash
<1>4. CASE WriteResponse \/ WriteResponseFails \/ ContextDone \/ StopWriter
  BY <1>4, ZenonT(30) DEF WriteResponse, WriteResponseFails, ContextDone, WriterCancels,
    SignalArrives, StopWriter
<1> QED
  BY <1>1, <1>2, <1>3, <1>4, SystemStepCases, Zenon

\* Close moves in its own steps only, and keeps what it reports.
LEMMA CloserMoves ==
  ASSUME SystemNext, Frames
  PROVE  \/ UNCHANGED <<closer, closeErr>>
         \/ /\ process = "up" /\ closer[Serve] # "returned"
            /\ closeErr \subseteq closeErr'
<1>1. CASE CloseRuns
  <2>1. process = "up" /\ (BeginClose(Serve) \/ CloseStep(Serve) \/ DrainTimesOut(Serve))
    BY <1>1, Zenon DEF CloseRuns, CloseRuntime, DrainEnds, Up
  <2>2. CASE BeginClose(Serve) \/ DrainTimesOut(Serve)
    BY <2>1, <2>2 DEF BeginClose, DrainTimesOut, SerialDrainTimesOut, ConcurrentDrainTimesOut,
      DeliveryDrainTimesOut
  <2>3. CASE CloseStep(Serve)
    BY <2>1, <2>3 DEF CloseStep, CancelRuntime, SealQueue, SerialDrained, ConcurrentDrained,
      DeliveryDrained, ShutdownBridge, CloseUnblocks
  <2> QED
    BY <2>1, <2>2, <2>3
<1>2. CASE DispatchFrame
  BY <1>2, ZenonT(30) DEF DispatchFrame, Dispatch, RefuseClosed, TakeQueue, Admit, RefuseFull, closeVars
<1>3. CASE Delivers
  BY <1>3, ZenonT(30) DEF Delivers, Deliver, EndDelivery, Finish, closeVars
<1>4. CASE RuntimeRuns
  BY <1>4, ZenonT(30) DEF RuntimeRuns, RuntimeStep, HandlerEnds, HandlerReturns, Enqueue,
    EnqueueClosed, EnqueueFull, DropResponse, BeginDelivery, Release, Finish, WorkerStep,
    WorkerWaits, WorkerTakes, WorkerExits, WaiterStep, ConcurrentCallsDone,
    DeliveryCallsDone, closeVars
<1> USE DEF vars, closeVars
<1>5. CASE ClientCall \/ AcceptResponse \/ Rejection \/ Waiting
  BY <1>5, ZenonT(30) DEF ClientCall, Invoke, InvokeRefused, WriteFails, AcceptResponse, Rejection,
    StdinFails, Exited, Waiting, BeginShutdown, ShutdownSeesExit, GraceEnds
<1>6. CASE TakeFrame \/ DispatchReturns \/ AnswerRefused \/ LoopEnds
  BY <1>6, ZenonT(30) DEF TakeFrame, DispatchReturns, AnswerRefused, LoopEnds, SignalSeen,
    WriterSeen, EndOfInput, LeaveLoop
<1>7. CASE CancelServer \/ ServeEnds \/ Struck \/ ElectronDies
  BY <1>7, ZenonT(30) DEF CancelServer, ServeEnds, WriterStops, WriterTimesOut, Exit, Struck,
    Interrupt, Crash, ElectronDies
<1>8. CASE WriteResponse \/ WriteResponseFails \/ ContextDone \/ StopWriter
  BY <1>8, ZenonT(30) DEF WriteResponse, WriteResponseFails, ContextDone, WriterCancels,
    SignalArrives, StopWriter
<1> QED
  BY <1>1, <1>2, <1>3, <1>4, <1>5, <1>6, <1>7, <1>8, SystemStepCases, Zenon

\* Once serve waits for its writer after a Close without a timeout, nothing is
\* answered any more.
LEMMA NoneLate ==
  ASSUME IInv, Flushing, Sound, serverDone
  PROVE  ~AnswerRefused /\ ~Delivers
<1>1. loop = "awaitingWriter" /\ closer[Serve] = "returned" /\ closeErr = {}
  BY DEF Flushing, Sound
<1>2. ~bridgeUp
  BY <1>1, ServeCloses DEF IInv, CloseInv, OneCloser
<1>3. \A c \in Calls : pc[c] # "delivering"
  BY <1>1, <1>2, CloseIsClean DEF CleanClose
<1>4. ~Delivers
  BY <1>3, Zenon DEF Delivers, Deliver, EndDelivery
<1> QED
  BY <1>1, <1>4 DEF AnswerRefused

LEMMA SoundEarlier ==
  ASSUME Flags, Places, Frames, SystemNext, Sound'
  PROVE  Sound
<1>1. ~signaled' /\ writer' # "failed" /\ closeErr' = {}
  BY DEF Sound
<1>2. ~signaled
  BY <1>1, SignalLasts
<1>3. writer # "failed" /\ closeErr = {}
  BY <1>1, WriterAlone, CloserMoves
<1> QED
  BY <1>2, <1>3 DEF Sound

InQueue(c) == \E i \in 1..Len(responses) : responses[i] = c
Unflushed == {c \in Answers : c \notin written /\ ~InQueue(c)}

LEMMA SoundQueue ==
  ASSUME SInv, IInv, SystemNext, Sound'
  PROVE  Unflushed' = {}
<1>1. Sound /\ Unflushed = {}
  BY SoundEarlier DEF SInv, Flushing, Unflushed, InQueue
<1>2. ASSUME Answers' = Answers, ~(AnswerRefused \/ Delivers) PROVE Unflushed' = {}
  <2>1. ~WriteResponseFails
    BY DEF Sound, WriteResponseFails
  <2>2. CASE WriteResponse
    <3>1. /\ responses # <<>> /\ responses' = Tail(responses)
          /\ written' = written \cup {Head(responses)}
      BY <2>2 DEF WriteResponse
    <3>2. /\ Head(responses) = responses[1] /\ Len(responses) \in Nat \ {0}
          /\ Len(responses') = Len(responses) - 1
          /\ \A i \in 1..Len(responses') : responses'[i] = responses[i + 1]
      BY <3>1, Shortened DEF SInv, PipeTypes
    <3>3. ASSUME NEW i \in 1..Len(responses), i # 1
          PROVE  i - 1 \in 1..Len(responses') /\ responses'[i - 1] = responses[i]
      <4>1. i - 1 \in 1..Len(responses') /\ (i - 1) + 1 = i
        BY <3>2, <3>3
      <4> QED
        BY <3>2, <4>1
    <3>4. ASSUME NEW c \in Answers, InQueue(c) PROVE c \in written' \/ InQueue(c)'
      BY <3>1, <3>2, <3>3, <3>4 DEF InQueue
    <3> QED
      BY <1>1, <1>2, <3>1, <3>4 DEF Unflushed
  <2>3. CASE ~WriteResponse
    <3>1. UNCHANGED <<responses, written>>
      BY <1>2, <2>1, <2>3, ResponsesAlone
    <3> QED
      BY <1>1, <1>2, <3>1 DEF Unflushed, InQueue
  <2> QED
    BY <2>2, <2>3
<1>3. ASSUME NEW c \in Calls, Answering(c), AnswerRefused \/ Delivers PROVE Unflushed' = {}
  <2>1. ~serverDone
    BY <1>1, <1>3, NoneLate DEF SInv
  <2>2. Answers' = Answers \cup {c} /\ responses' = Append(responses, c) /\ UNCHANGED written
    BY <1>3, <2>1 DEF Answering, EnqueueResponse
  <2>3. /\ Len(responses) \in Nat /\ Len(responses') = Len(responses) + 1
        /\ responses'[Len(responses) + 1] = c
        /\ \A i \in 1..Len(responses) : responses'[i] = responses[i]
    BY <2>2, Appended DEF SInv, PipeTypes
  <2>4. InQueue(c)' /\ \A d : InQueue(d) => InQueue(d)'
    BY <2>3 DEF InQueue
  <2> HIDE DEF InQueue
  <2> QED
    BY <1>1, <2>2, <2>4 DEF Unflushed
<1> QED
  BY <1>2, <1>3, StepAnswers, Zenon DEF SInv

LEMMA NextFlushing ==
  ASSUME SInv, IInv, SystemNext
  PROVE  Flushing'
<1>0. Flags /\ Places /\ Frames /\ Flushing
  BY DEF SInv
<1>1. ASSUME serverDone' PROVE signaled' \/ writer' = "failed" \/ loop' = "awaitingWriter"
  <2>1. CASE serverDone
    BY <1>0, <2>1, SignalLasts, WriterAlone, LoopLasts DEF Flushing
  <2>2. CASE CancelServer
    BY <2>2, Zenon DEF CancelServer
  <2>3. CASE ContextDone
    <3>1. signaled \/ writer = "failed"
      BY <2>3, Zenon DEF ContextDone, WriterCancels, SignalArrives
    <3> QED
      BY <1>0, <3>1, SignalLasts, WriterAlone
  <2> QED
    BY <1>1, <2>1, <2>2, <2>3, DoneAlone
<1>2. ASSUME loop' = "awaitingWriter" PROVE closer'[Serve] = "returned"
  <2>1. closer[Serve] = "returned"
    BY <1>0, <1>2, LoopLasts DEF Flushing, CancelServer
  <2> QED
    BY <1>0, <2>1, CloserMoves
<1>3. ASSUME Sound'
      PROVE  \A c \in Answers' : c \in written' \/ \E i \in 1..Len(responses') : responses'[i] = c
  BY <1>3, SoundQueue DEF Unflushed, InQueue
<1>4. ASSUME writer' = "done" PROVE serverDone' /\ (Sound' => responses' = <<>>)
  <2>1. CASE writer = "done"
    <3>1. serverDone' /\ (Sound => responses = <<>>)
      <4>1. serverDone /\ (Sound => responses = <<>>)
        BY <1>0, <2>1 DEF Flushing
      <4>2. CASE CancelServer \/ ContextDone
        BY <4>1, <4>2, Zenon DEF CancelServer, ContextDone, WriterCancels, SignalArrives
      <4> QED
        BY <4>1, <4>2, DoneAlone
    <3>2. ASSUME Sound' PROVE UNCHANGED responses
      <4>1. ~AnswerRefused /\ ~Delivers
        BY <1>0, <2>1, <3>2, SoundEarlier, NoneLate DEF Flushing
      <4>2. ~WriteResponse /\ ~WriteResponseFails
        BY <2>1 DEF WriteResponse, WriteResponseFails, WriterEnded
      <4> QED
        BY <4>1, <4>2, ResponsesAlone
    <3> QED
      BY <1>0, <3>1, <3>2, SoundEarlier
  <2>2. CASE writer # "done"
    <3>1. StopWriter
      BY <1>0, <1>4, <2>2, WriterAlone DEF WriteResponseFails
    <3> QED
      BY <3>1, Zenon DEF StopWriter
  <2> QED
    BY <2>1, <2>2
<1>5. ASSUME process' = "exited", serveErr' = {}
      PROVE  loop' = "awaitingWriter" /\ writer' = "done" /\ closeErr' = {}
  <2>1. CASE process = "exited"
    <3>1. loop = "awaitingWriter" /\ writer = "done" /\ closeErr = {}
      BY <1>0, <1>5, <2>1, ErrorAlone DEF Flushing
    <3> QED
      BY <1>0, <2>1, <3>1, LoopLasts, WriterAlone, CloserMoves
  <2>2. CASE process # "exited"
    <3>1. ServeEnds /\ process = "up"
      BY <1>5, <2>2, ProcessEnds
    <3>2. loop = "awaitingWriter" /\ writer = "done" /\ closeErr = {}
      BY <1>0, <1>5, <3>1 DEF ServeEnds, WriterStops, WriterTimesOut, WriterEnded, Exit
    <3>3. closer[Serve] = "returned"
      BY <1>0, <3>2 DEF Flushing
    <3> QED
      BY <1>0, <3>2, <3>3, LoopLasts, WriterAlone, CloserMoves
  <2> QED
    BY <2>1, <2>2
<1> QED
  BY <1>1, <1>2, <1>3, <1>4, <1>5 DEF Flushing

-----------------------------------------------------------------------------
(* The theorems *)

LEMMA UnchangedSInv == SInv /\ UNCHANGED systemVars => SInv'
<1> SUFFICES ASSUME SInv, UNCHANGED systemVars PROVE SInv'
  OBVIOUS
<1>1. /\ UNCHANGED <<pc, answered, closer, closeErr>>
      /\ UNCHANGED <<status, admitted, admittedBytes, stopped, child, shutdown, electron>>
      /\ UNCHANGED <<stdin, stdinEnded, stdout, process, loop, inHand, signaled, serveErr>>
      /\ UNCHANGED <<responses, writer, serverDone, written>>
  BY DEF systemVars, vars, callVars, closeVars, clientVars, pipeVars, serveVars, writerVars
<1>2. Held' = Held /\ Sent' = Sent /\ (\A l : OfLane(l)' = OfLane(l))
  BY <1>1 DEF Held, Sent, OfLane, Pending
<1>3. Answers' = Answers
  BY <1>1, <1>2 DEF Answers
<1>4. Flags' /\ Places' /\ PipeTypes'
  BY <1>1 DEF SInv, Flags, Places, PipeTypes
<1>5. Admissions'
  BY <1>1, <1>2 DEF SInv, Admissions
<1>6. Frames' /\ AnswersOnce'
  BY <1>1, <1>2, <1>3 DEF SInv, Frames, AnswersOnce, Distinct
<1>7. Trust' /\ Flushing'
  BY <1>1, <1>3 DEF SInv, Trust, Connected, Flushing, Sound
<1> QED
  BY <1>4, <1>5, <1>6, <1>7 DEF SInv

LEMMA InitSInv == SystemInit => SInv /\ IInv
<1>1. SystemInit => Init
  BY DEF SystemInit
<1> QED
  BY <1>1, InitSystemTypes, InitAdmissions, InitFrames, InitAnswers, InitTrust, InitFlushing,
     InitType, InitQueue, InitCounts, InitClose DEF SInv, IInv

LEMMA NextSInv == SInv /\ IInv /\ [SystemNext]_systemVars => (SInv /\ IInv)' /\ [Next]_vars
<1> SUFFICES ASSUME SInv, IInv, [SystemNext]_systemVars PROVE SInv' /\ IInv' /\ [Next]_vars
  OBVIOUS
<1>1. [Next]_vars
  BY SystemRunsRuntime DEF SInv
<1>2. IInv'
  BY <1>1, NextType, NextQueue, NextCounts, NextClose DEF IInv
<1>3. ASSUME SystemNext PROVE SInv'
  <2>1. Flags /\ Places /\ PipeTypes /\ Admissions /\ Frames /\ AnswersOnce /\ Trust
    BY DEF SInv
  <2>2. Flags' /\ Places' /\ PipeTypes' /\ Admissions'
    BY <1>3, <2>1, NextFlags, NextPlaces, NextPipeTypes, NextAdmissions
  <2>3. Frames' /\ AnswersOnce'
    BY <1>3, <2>1, NextFrames, NextAnswers
  <2>4. Trust' /\ Flushing'
    BY <1>3, <2>1, NextTrust, NextFlushing
  <2> QED
    BY <2>2, <2>3, <2>4, Zenon DEF SInv
<1> QED
  BY <1>1, <1>2, <1>3, UnchangedSInv

LEMMA AlwaysSInv == System => [](SInv /\ IInv)
BY InitSInv, NextSInv, PTL DEF System

\* The sidecar runs the runtime as InvocationRuntime says it is run: what is
\* proved of the runtime holds inside the process (serve in protocol.go).
THEOREM SystemRunsTheRuntime == System => Spec
<1>1. SystemInit => Init
  BY DEF SystemInit
<1> QED
  BY <1>1, AlwaysSInv, NextSInv, PTL DEF System, Spec

\* Inside the process, too, counters and budgets are exact, saves run in order,
\* and a Close without a timeout leaves nothing behind.
THEOREM RuntimeKeepsItsPromises ==
  System => [](TypeOK /\ CallsCounted /\ BytesCounted /\ SerialInOrder /\ CleanClose)
BY SystemRunsTheRuntime, TypeCorrect, CountersExact, BudgetsExact, SerialOrder,
   CloseLeavesNothing, PTL

LEMMA SystemIsTyped == SInv /\ IInv => SystemTypeOK
<1> SUFFICES ASSUME SInv, IInv PROVE SystemTypeOK
  OBVIOUS
<1>1. TypeOK /\ Flags /\ Places /\ PipeTypes
  BY DEF SInv, IInv, WellTyped
<1>2. admitted \in [ClientLanes -> Nat] /\ admittedBytes \in [ClientLanes -> Nat]
  BY LanesOfClient DEF SInv, Admissions
<1> QED
  BY <1>1, <1>2, Zenon DEF SystemTypeOK, Flags, Places, PipeTypes

\* The state of client, pipes, loop, writer and runtime is always well typed.
THEOREM SystemTypeCorrect == System => []SystemTypeOK
BY AlwaysSInv, SystemIsTyped, PTL

\* The client's admission counters are those of its pending calls, however a
\* call leaves the list (takePending and its callers in sidecar.ts).
THEOREM AdmissionsExact == System => []AdmittedExact
<1>1. SInv /\ IInv => AdmittedExact
  <2> SUFFICES ASSUME SInv, IInv PROVE AdmittedExact
    OBVIOUS
  <2>1. \A l \in ClientLanes :
          admitted[l] = Cardinality(OfLane(l)) /\ admittedBytes[l] = BytesOf(OfLane(l))
    BY DEF SInv, Admissions
  <2> QED
    BY <2>1, SystemIsTyped, Zenon DEF AdmittedExact, OfLane
<1> QED
  BY <1>1, AlwaysSInv, PTL

\* While both processes live the client is never answered what it does not wait
\* for, so it never stops (acceptResponse in sidecar.ts).
THEOREM AnswersAreAwaited == System => []OneAnswerEach
<1>1. SInv => OneAnswerEach
  BY DEF SInv, Trust, Connected, OneAnswerEach
<1> QED
  BY <1>1, AlwaysSInv, PTL

\* A sidecar that ends by itself without an error has written every response
\* (serve and writeResponses in protocol.go).
THEOREM ResponsesAreFlushed == System => []NothingUnflushed
<1>1. SInv /\ IInv => NothingUnflushed
  <2> SUFFICES ASSUME SInv, IInv, process = "exited", serveErr = {}, ~signaled,
                      NEW c \in Calls, c \in answered \/ pc[c] = "refused"
               PROVE  c \in written
    BY DEF NothingUnflushed
  <2>1. loop = "awaitingWriter" /\ writer = "done" /\ closeErr = {}
    BY DEF SInv, Flushing
  <2>2. c \in Answers
    BY <2>1, CallsAssumption DEF Answers, Held
  <2>3. Sound /\ responses = <<>>
    BY <2>1 DEF SInv, Flushing, Sound
  <2> QED
    BY <2>2, <2>3 DEF SInv, Flushing
<1> QED
  BY <1>1, AlwaysSInv, PTL
=============================================================================
