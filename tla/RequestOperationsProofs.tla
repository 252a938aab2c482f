---------------------- MODULE RequestOperationsProofs ----------------------
(***************************************************************************)
(* Theorems about RequestOperations, for every set of operations, every    *)
(* number of slots and of sessions, and about FileTransfer, for every set  *)
(* of calls.                                                               *)
(***************************************************************************)
EXTENDS RequestOperations, FileTransfer, FiniteSetTheorems, TLAPS

Holders == {o \in Requests : pc[o] \in HoldingSlot}

\* Only requests wait for slots and respond, what has not begun has written
\* nothing, an entry is that of a registered operation under its own key, and a
\* canceller that is about to cancel has found an operation.
EntryInv ==
  /\ \A o \in Operations :
       pc[o] \in {"waiting", "responded", "recording", "releasing"} =>
         Kind[o] = "request"
  /\ \A o \in Operations : pc[o] = "new" => writtenIn[o] = 0
  /\ \A x \in Cancellers : canceller[x] = "canceling" => lookup[x] # NoOperation
  /\ \A k \in Keys : cancels[k] # NoOperation =>
       Key[cancels[k]] = k /\ pc[cancels[k]] \in Registered

\* An operation of an earlier session has a context that is done, except while
\* Startup has replaced that context and not yet cancelled it.
SessionInv ==
  \A o \in Operations :
    /\ session[o] <= current
    /\ session[o] < current =>
         session[o] \in ended \/ (lifecycle = "replacing" /\ session[o] = current - 1)

\* What the states of Startup and Shutdown mean.
LifecycleInv ==
  /\ lifecycle = "replacing" => up
  /\ lifecycle = "cancelingSession" => ~up /\ state # "stopped"
  /\ lifecycle = "cancelingOperations" => ~up /\ current \in ended
  /\ state = "stopped" /\ ~up => current \in ended /\ lifecycle = "idle"
  /\ lifecycle \in {"idle", "replacing"} => listed = {}

RInv ==
  /\ TypeOK
  /\ SlotsExact
  /\ EntryInv
  /\ SessionInv
  /\ LifecycleInv
  /\ LiveIsCancellable
  /\ WritesOwnSession

LEMMA KeysOf == \A o \in Operations : Key[o] \in Keys /\ o # NoOperation
BY OperationsAssumption DEF Keys

LEMMA HoldersFinite == IsFiniteSet(Holders) /\ Cardinality(Holders) \in Nat
<1>1. Holders \subseteq Operations
  BY DEF Holders, Requests
<1> QED
  BY <1>1, OperationsAssumption, FS_Subset, FS_CardinalityType

LEMMA InitRInv == Init => RInv
<1> SUFFICES ASSUME Init PROVE RInv
  OBVIOUS
<1>1. TypeOK
  <2>1. /\ pc \in [Operations -> {"new", "begun", "refused", "done"} \cup Registered]
        /\ session \in [Operations -> Nat]
        /\ writtenIn \in [Operations -> Nat]
    BY DEF Init
  <2>2. /\ cancels \in [Keys -> Operations \cup {NoOperation}]
        /\ lookup \in [Cancellers -> Operations \cup {NoOperation}]
        /\ canceller \in [Cancellers -> {"new", "canceling", "returned"}]
    BY DEF Init
  <2>3. slots \in 0..MaxSlots
    BY OperationsAssumption DEF Init
  <2>4. canceled \subseteq Operations /\ ended \subseteq Nat /\ listed \subseteq Operations
    BY DEF Init
  <2>5. up \in BOOLEAN
    BY Zenon DEF Init
  <2>6. /\ current \in Nat \ {0}
        /\ state \in {"created", "running", "stopped"}
        /\ lifecycle \in {"idle", "replacing", "cancelingSession", "cancelingOperations"}
    BY DEF Init
  <2> QED
    BY <2>1, <2>2, <2>3, <2>4, <2>5, <2>6 DEF TypeOK
<1>2. SlotsExact
  <2>1. {o \in Requests : pc[o] \in HoldingSlot} = {}
    BY DEF Init, Requests, HoldingSlot
  <2> QED
    BY <2>1, FS_EmptySet DEF Init, SlotsExact
<1>3. EntryInv /\ LiveIsCancellable
  BY DEF Init, EntryInv, LiveIsCancellable, Registered
<1>4. SessionInv /\ LifecycleInv /\ WritesOwnSession
  BY DEF Init, SessionInv, LifecycleInv, WritesOwnSession
<1> QED
  BY <1>1, <1>2, <1>3, <1>4 DEF RInv

\* A step that moves no request into or out of HoldingSlot keeps the count.
LEMMA SlotsKept ==
  ASSUME SlotsExact, slots' = slots,
         \A o \in Requests : pc'[o] \in HoldingSlot <=> pc[o] \in HoldingSlot
  PROVE  SlotsExact'
BY DEF SlotsExact

\* A step that leaves the lifecycle alone, and of the operations cancels some
\* or moves one within the same registration.
LEMMA SessionsKept ==
  ASSUME SessionInv, LifecycleInv, UNCHANGED <<session, lifecycleVars>>
  PROVE  SessionInv' /\ LifecycleInv'
BY DEF SessionInv, LifecycleInv, lifecycleVars

LEMMA BeginStep ==
  ASSUME RInv, NEW o \in Operations, Begin(o)
  PROVE  RInv'
<1> USE KeysOf DEF Begin, Become, cancellerVars, lifecycleVars
<1>1. TypeOK'
  BY DEF RInv, TypeOK
<1>2. SlotsExact'
  BY SlotsKept DEF RInv, TypeOK, Requests, HoldingSlot
<1>3. EntryInv'
  BY DEF RInv, TypeOK, EntryInv, Registered
<1>4. SessionInv' /\ LifecycleInv'
  BY DEF RInv, TypeOK, SessionInv, LifecycleInv
<1>5. LiveIsCancellable'
  BY DEF RInv, TypeOK, LiveIsCancellable, ContextDone, Registered
<1>6. WritesOwnSession'
  BY DEF RInv, TypeOK, EntryInv, WritesOwnSession
<1> QED
  BY <1>1, <1>2, <1>3, <1>4, <1>5, <1>6 DEF RInv

LEMMA RegisterStep ==
  ASSUME RInv, NEW o \in Operations, Register(o)
  PROVE  RInv'
<1> USE KeysOf DEF Register, Become, cancellerVars
<1>1. TypeOK'
  BY DEF RInv, TypeOK, Registered, lifecycleVars
<1>2. SlotsExact'
  BY SlotsKept DEF RInv, TypeOK, Requests, HoldingSlot
<1>3. EntryInv'
  BY DEF RInv, TypeOK, EntryInv, Registered
<1>4. SessionInv' /\ LifecycleInv'
  BY SessionsKept DEF RInv
<1>5. LiveIsCancellable'
  BY DEF RInv, TypeOK, LiveIsCancellable, ContextDone, Registered, lifecycleVars
<1>6. WritesOwnSession'
  BY DEF RInv, WritesOwnSession
<1> QED
  BY <1>1, <1>2, <1>3, <1>4, <1>5, <1>6 DEF RInv

LEMMA AcquireStep ==
  ASSUME RInv, NEW o \in Operations, AcquireSlot(o)
  PROVE  RInv'
<1> USE KeysOf DEF AcquireSlot, Become, cancellerVars
<1>1. TypeOK'
  BY OperationsAssumption DEF RInv, TypeOK, Registered, lifecycleVars
<1>2. SlotsExact'
  <2>1. o \in Requests \ Holders
    BY DEF RInv, EntryInv, Requests, Holders, HoldingSlot
  <2>2. Holders' = Holders \cup {o}
    BY <2>1 DEF RInv, TypeOK, Holders, HoldingSlot
  <2>3. Cardinality(Holders') = Cardinality(Holders) + 1
    BY <2>1, <2>2, HoldersFinite, FS_AddElement
  <2> QED
    BY <2>3 DEF RInv, SlotsExact, Holders
<1>3. EntryInv'
  BY DEF RInv, TypeOK, EntryInv, Registered
<1>4. SessionInv' /\ LifecycleInv'
  BY SessionsKept DEF RInv
<1>5. LiveIsCancellable'
  BY DEF RInv, TypeOK, LiveIsCancellable, ContextDone, Registered, lifecycleVars
<1>6. WritesOwnSession'
  BY DEF RInv, WritesOwnSession
<1> QED
  BY <1>1, <1>2, <1>3, <1>4, <1>5, <1>6 DEF RInv

LEMMA ReleaseStep ==
  ASSUME RInv, NEW o \in Operations, ReleaseSlot(o)
  PROVE  RInv'
<1> USE KeysOf DEF ReleaseSlot, Become, cancellerVars
<1>1. o \in Holders
  BY DEF RInv, EntryInv, Requests, Holders, HoldingSlot
<1>2. Holders' = Holders \ {o}
  BY <1>1 DEF RInv, TypeOK, Holders, HoldingSlot, Requests
<1>3. Cardinality(Holders') = Cardinality(Holders) - 1
  BY <1>1, <1>2, HoldersFinite, FS_RemoveElement
<1>4. SlotsExact'
  BY <1>3 DEF RInv, SlotsExact, Holders
<1>5. Cardinality(Holders') \in Nat
  <2>1. IsFiniteSet(Holders')
    BY <1>2, HoldersFinite, FS_Subset
  <2> QED
    BY <2>1, FS_CardinalityType
<1>6. slots' \in Nat
  BY <1>4, <1>5 DEF SlotsExact, Holders
<1>7. TypeOK'
  BY <1>6, OperationsAssumption DEF RInv, TypeOK, Registered, lifecycleVars
<1>8. EntryInv'
  BY DEF RInv, TypeOK, EntryInv, Registered
<1>9. SessionInv' /\ LifecycleInv'
  BY SessionsKept DEF RInv
<1>10. LiveIsCancellable'
  BY DEF RInv, TypeOK, LiveIsCancellable, ContextDone, Registered, lifecycleVars
<1>11. WritesOwnSession'
  BY DEF RInv, WritesOwnSession
<1> QED
  BY <1>4, <1>7, <1>8, <1>9, <1>10, <1>11 DEF RInv

\* The steps between the slot and the end of a registration, and refusals.
LEMMA MoveStep ==
  ASSUME RInv, NEW o \in Operations,
         \/ RefuseRunning(o) \/ GiveUp(o) \/ ExecutionEnds(o) \/ Responds(o)
         \/ CheckSession(o)
  PROVE  RInv'
<1> USE KeysOf DEF RefuseRunning, GiveUp, ExecutionEnds, Responds, CheckSession,
                   Become, cancellerVars
<1>1. PICK s \in {"refused", "ending", "releasing", "responded", "recording"} :
        pc' = [pc EXCEPT ![o] = s]
  OBVIOUS
<1>2. /\ s = "refused" => pc[o] = "begun"
      /\ s # "refused" => pc[o] \in Registered
      /\ s \in {"releasing", "responded", "recording"} => Kind[o] = "request"
      /\ Kind[o] = "request" => (s \in HoldingSlot <=> pc[o] \in HoldingSlot)
  BY <1>1 DEF RInv, TypeOK, EntryInv, Registered, HoldingSlot
<1>3. UNCHANGED <<session, canceled, cancels, slots, writtenIn, lookup, canceller,
                  lifecycleVars>>
  OBVIOUS
<1> HIDE DEF RefuseRunning, GiveUp, ExecutionEnds, Responds, CheckSession
<1>4. TypeOK'
  BY <1>1, <1>3 DEF RInv, TypeOK, Registered, lifecycleVars
<1>5. SlotsExact'
  BY <1>1, <1>2, <1>3, SlotsKept DEF RInv, TypeOK, Requests
<1>6. EntryInv'
  BY <1>1, <1>2, <1>3 DEF RInv, TypeOK, EntryInv, Registered
<1>7. SessionInv' /\ LifecycleInv'
  BY <1>3, SessionsKept DEF RInv
<1>8. LiveIsCancellable'
  BY <1>1, <1>2, <1>3 DEF RInv, TypeOK, LiveIsCancellable, ContextDone, Registered,
     lifecycleVars
<1>9. WritesOwnSession'
  BY <1>3 DEF RInv, WritesOwnSession
<1> QED
  BY <1>4, <1>5, <1>6, <1>7, <1>8, <1>9 DEF RInv

LEMMA RecordStep ==
  ASSUME RInv, NEW o \in Operations, Record(o)
  PROVE  RInv'
<1> USE KeysOf DEF Record, Become, cancellerVars
<1>1. TypeOK'
  BY DEF RInv, TypeOK, Registered, lifecycleVars
<1>2. SlotsExact'
  BY SlotsKept DEF RInv, TypeOK, Requests, HoldingSlot
<1>3. EntryInv'
  BY DEF RInv, TypeOK, EntryInv, Registered
<1>4. SessionInv' /\ LifecycleInv'
  BY SessionsKept DEF RInv
<1>5. LiveIsCancellable'
  BY DEF RInv, TypeOK, LiveIsCancellable, ContextDone, Registered, lifecycleVars
<1>6. WritesOwnSession'
  BY DEF RInv, TypeOK, WritesOwnSession
<1> QED
  BY <1>1, <1>2, <1>3, <1>4, <1>5, <1>6 DEF RInv

\* An operation that ends removes its own entry and no other.
LEMMA EndStep ==
  ASSUME RInv, NEW o \in Operations, End(o)
  PROVE  RInv'
<1> USE KeysOf DEF End, Unregister, Become, cancellerVars
<1>1. TypeOK'
  BY DEF RInv, TypeOK, lifecycleVars
<1>2. SlotsExact'
  BY SlotsKept DEF RInv, TypeOK, Requests, HoldingSlot
<1>3. EntryInv'
  BY DEF RInv, TypeOK, EntryInv, Registered
<1>4. SessionInv' /\ LifecycleInv'
  BY SessionsKept DEF RInv
<1>5. LiveIsCancellable'
  BY DEF RInv, TypeOK, LiveIsCancellable, ContextDone, Registered, lifecycleVars
<1>6. WritesOwnSession'
  BY DEF RInv, WritesOwnSession
<1> QED
  BY <1>1, <1>2, <1>3, <1>4, <1>5, <1>6 DEF RInv

LEMMA ImportStep ==
  ASSUME RInv, NEW o \in Operations, Import(o)
  PROVE  RInv'
<1> USE KeysOf DEF Import, Become, cancellerVars
<1>1. TypeOK'
  BY DEF RInv, TypeOK, lifecycleVars
<1>2. SlotsExact'
  BY OperationsAssumption, SlotsKept DEF RInv, TypeOK, Requests, HoldingSlot
<1>3. EntryInv'
  BY DEF RInv, TypeOK, EntryInv, Registered
<1>4. SessionInv' /\ LifecycleInv'
  BY SessionsKept DEF RInv
<1>5. LiveIsCancellable'
  BY DEF RInv, TypeOK, LiveIsCancellable, ContextDone, Registered, lifecycleVars
<1>6. WritesOwnSession'
  BY DEF RInv, TypeOK, WritesOwnSession
<1> QED
  BY <1>1, <1>2, <1>3, <1>4, <1>5, <1>6 DEF RInv

\* Cancelling only ends lives.
LEMMA CancelStep ==
  ASSUME RInv,
         \/ \E o \in Operations : TimesOut(o)
         \/ \E x \in Cancellers : CancelFound(x) \/ \E k \in Keys : Look(x, k)
         \/ UNCHANGED vars
  PROVE  RInv'
<1> USE KeysOf DEF TimesOut, CancelFound, Look, operationVars, cancellerVars
<1>1. /\ UNCHANGED <<pc, session, cancels, slots, writtenIn, lifecycleVars>>
      /\ canceled \subseteq canceled'
  BY DEF vars
<1>2. TypeOK'
  <2>1. canceled' \subseteq Operations
    <3>1. \A x \in Cancellers : CancelFound(x) => lookup[x] \in Operations
      BY DEF RInv, TypeOK, EntryInv
    <3> QED
      BY <3>1 DEF RInv, TypeOK, vars
  <2>2. /\ lookup' \in [Cancellers -> Operations \cup {NoOperation}]
        /\ canceller' \in [Cancellers -> {"new", "canceling", "returned"}]
    BY DEF RInv, TypeOK, vars
  <2> HIDE DEF TimesOut, CancelFound, Look
  <2> QED
    BY <1>1, <2>1, <2>2 DEF RInv, TypeOK, lifecycleVars
<1>8. \A x \in Cancellers : canceller'[x] = "canceling" => lookup'[x] # NoOperation
  BY DEF RInv, TypeOK, EntryInv, vars
<1> HIDE DEF TimesOut, CancelFound, Look
<1>3. SlotsExact'
  BY <1>1, SlotsKept DEF RInv
<1>4. EntryInv'
  BY <1>1, <1>8 DEF RInv, EntryInv
<1>5. SessionInv' /\ LifecycleInv'
  BY <1>1, SessionsKept DEF RInv
<1>6. LiveIsCancellable'
  BY <1>1 DEF RInv, LiveIsCancellable, ContextDone, lifecycleVars
<1>7. WritesOwnSession'
  BY <1>1 DEF RInv, WritesOwnSession
<1> QED
  BY <1>2, <1>3, <1>4, <1>5, <1>6, <1>7 DEF RInv

LEMMA BeginStartupStep ==
  ASSUME RInv, BeginStartup
  PROVE  RInv'
<1> USE DEF BeginStartup, operationVars, cancellerVars
<1>1. TypeOK'
  BY DEF RInv, TypeOK
<1>2. SlotsExact'
  BY SlotsKept DEF RInv
<1>3. EntryInv'
  BY DEF RInv, EntryInv
<1>4. SessionInv'
  BY DEF RInv, TypeOK, SessionInv
<1>5. LifecycleInv'
  BY DEF RInv, LifecycleInv
<1>6. LiveIsCancellable'
  BY DEF RInv, LiveIsCancellable, ContextDone
<1>7. WritesOwnSession'
  BY DEF RInv, WritesOwnSession
<1> QED
  BY <1>1, <1>2, <1>3, <1>4, <1>5, <1>6, <1>7 DEF RInv

LEMMA EndStartupStep ==
  ASSUME RInv, EndStartup
  PROVE  RInv'
<1> USE DEF EndStartup, operationVars, cancellerVars
<1>1. TypeOK'
  BY DEF RInv, TypeOK
<1>2. SlotsExact'
  BY SlotsKept DEF RInv
<1>3. EntryInv'
  BY DEF RInv, EntryInv
<1>4. SessionInv'
  BY DEF RInv, TypeOK, SessionInv
<1>5. LifecycleInv'
  BY DEF RInv, LifecycleInv
<1>6. LiveIsCancellable'
  BY DEF RInv, LiveIsCancellable, ContextDone
<1>7. WritesOwnSession'
  BY DEF RInv, WritesOwnSession
<1> QED
  BY <1>1, <1>2, <1>3, <1>4, <1>5, <1>6, <1>7 DEF RInv

LEMMA RuntimeCanceledStep ==
  ASSUME RInv, RuntimeCanceled
  PROVE  RInv'
<1> USE DEF RuntimeCanceled, operationVars, cancellerVars
<1>1. TypeOK'
  BY DEF RInv, TypeOK
<1>2. SlotsExact'
  BY SlotsKept DEF RInv
<1>3. EntryInv'
  BY DEF RInv, EntryInv
<1>4. SessionInv' /\ LifecycleInv'
  BY DEF RInv, SessionInv, LifecycleInv
<1>5. LiveIsCancellable'
  BY DEF RInv, LiveIsCancellable, ContextDone
<1>6. WritesOwnSession'
  BY DEF RInv, WritesOwnSession
<1> QED
  BY <1>1, <1>2, <1>3, <1>4, <1>5, <1>6 DEF RInv

\* What BeginShutdown takes out of the maps it puts on the list.
LEMMA BeginShutdownStep ==
  ASSUME RInv, BeginShutdown
  PROVE  RInv'
<1> USE KeysOf DEF BeginShutdown, cancellerVars
<1>1. TypeOK'
  BY DEF RInv, TypeOK
<1>2. SlotsExact'
  BY SlotsKept DEF RInv
<1>3. EntryInv'
  BY DEF RInv, EntryInv
<1>4. SessionInv' /\ LifecycleInv'
  BY DEF RInv, SessionInv, LifecycleInv
<1>5. LiveIsCancellable'
  <2> SUFFICES ASSUME NEW o \in Operations, pc[o] \in Registered, ~ContextDone(o)
               PROVE  o \in listed'
    BY DEF LiveIsCancellable, ContextDone
  <2>1. cancels[Key[o]] = o
    BY DEF RInv, LiveIsCancellable
  <2> QED
    BY <2>1
<1>6. WritesOwnSession'
  BY DEF RInv, WritesOwnSession
<1> QED
  BY <1>1, <1>2, <1>3, <1>4, <1>5, <1>6 DEF RInv

\* Cancelling the lifecycle context reaches everything on the list: what was
\* registered under an earlier one was cancelled with that one.
LEMMA CancelSessionStep ==
  ASSUME RInv, CancelSession
  PROVE  RInv'
<1> USE DEF CancelSession, operationVars, cancellerVars
<1>1. TypeOK'
  BY DEF RInv, TypeOK
<1>2. SlotsExact'
  BY SlotsKept DEF RInv
<1>3. EntryInv'
  BY DEF RInv, EntryInv
<1>4. SessionInv' /\ LifecycleInv'
  BY DEF RInv, SessionInv, LifecycleInv
<1>5. LiveIsCancellable'
  <2>1. \A o \in Operations : session[o] \in ended'
    BY DEF RInv, TypeOK, SessionInv
  <2> QED
    BY <2>1 DEF LiveIsCancellable, ContextDone
<1>6. WritesOwnSession'
  BY DEF RInv, WritesOwnSession
<1> QED
  BY <1>1, <1>2, <1>3, <1>4, <1>5, <1>6 DEF RInv

LEMMA EndShutdownStep ==
  ASSUME RInv, EndShutdown
  PROVE  RInv'
<1> USE DEF EndShutdown, cancellerVars
<1>1. TypeOK'
  BY DEF RInv, TypeOK
<1>2. SlotsExact'
  BY SlotsKept DEF RInv
<1>3. EntryInv'
  BY DEF RInv, EntryInv
<1>4. SessionInv' /\ LifecycleInv'
  BY DEF RInv, SessionInv, LifecycleInv
<1>5. LiveIsCancellable'
  BY DEF RInv, LiveIsCancellable, ContextDone
<1>6. WritesOwnSession'
  BY DEF RInv, WritesOwnSession
<1> QED
  BY <1>1, <1>2, <1>3, <1>4, <1>5, <1>6 DEF RInv

LEMMA Inductive == RInv /\ [Next]_vars => RInv'
<1> SUFFICES ASSUME RInv, [Next]_vars PROVE RInv'
  OBVIOUS
<1>1. CASE \E o \in Operations :
             Begin(o) \/ Proceed(o) \/ ExecutionReturns(o) \/ TimesOut(o)
  <2>1. PICK o \in Operations :
          Begin(o) \/ Proceed(o) \/ ExecutionReturns(o) \/ TimesOut(o)
    BY <1>1
  <2> QED
    BY <2>1, BeginStep, RegisterStep, AcquireStep, ReleaseStep, MoveStep, RecordStep,
       EndStep, ImportStep, CancelStep DEF Proceed, ExecutionReturns
<1>2. CASE \E x \in Cancellers : CancelFound(x) \/ \E k \in Keys : Look(x, k)
  BY <1>2, CancelStep
<1>3. CASE Lifecycle
  BY <1>3, BeginStartupStep, EndStartupStep, RuntimeCanceledStep, BeginShutdownStep,
     CancelSessionStep, EndShutdownStep DEF Lifecycle
<1>4. CASE UNCHANGED vars
  BY <1>4, CancelStep
<1> QED
  BY <1>1, <1>2, <1>3, <1>4 DEF Next

LEMMA Invariance == Spec => []RInv
BY InitRInv, Inductive, PTL DEF Spec

-----------------------------------------------------------------------------
(* Theorems *)

\* Every variable keeps its type; in particular slots never leaves 0..MaxSlots,
\* the capacity of b.requestSlots.
THEOREM OperationsTypeCorrect == Spec => []TypeOK
BY Invariance, PTL DEF RInv

\* acquireRequestSlot and releaseRequestSlot are paired on every path.
THEOREM SlotsAreExact == Spec => []SlotsExact
BY Invariance, PTL DEF RInv

\* The maps of SendRequest and of the tools lead CancelRequest and
\* CancelToolOperation to every operation that is live, across Shutdown and
\* Startup, however IDs are reused.
THEOREM LiveAreCancellable == Spec => []LiveIsCancellable
BY Invariance, PTL DEF RInv

\* Shutdown leaves no operation with a live context.
THEOREM StoppedAreQuiet == Spec => []StoppedIsQuiet
<1>1. RInv => StoppedIsQuiet
  <2> SUFFICES ASSUME RInv, state = "stopped", ~up, NEW o \in Operations
               PROVE  ContextDone(o)
    BY DEF StoppedIsQuiet
  <2>1. current \in ended /\ lifecycle = "idle"
    BY DEF RInv, LifecycleInv
  <2>2. session[o] \in ended
    BY <2>1 DEF RInv, TypeOK, SessionInv
  <2> QED
    BY <2>2 DEF ContextDone
<1> QED
  BY <1>1, Invariance, PTL

\* Observed calls and cached specs stay in the session they belong to.
THEOREM WritesStayInSession == Spec => []WritesOwnSession
BY Invariance, PTL DEF RInv

-----------------------------------------------------------------------------
(* Collections in files *)

Others == {"none", "small", "large", "directory"}
Versions == [content : ExportCalls \cup Others, synced : {TRUE}]
TransferSteps == {"called", "waiting", "dialog", "chosen", "created", "written", "closed",
                  "replaced", "inspected", "returned"}
Results == [exported : BOOLEAN,
            error : {"", "unavailable", "invalid", "dialog", "write", "read"},
            data : ExportCalls \cup Others]
TransferRecords ==
  [step : [Calls -> TransferSteps], result : [Calls -> Results],
   temporary : [Calls -> {"none", "partial", "whole", "synced"}], gate : SUBSET Calls,
   versions : Seq(Versions), current : Nat \ {0}, durable : Nat \ {0},
   ended : BOOLEAN, down : BOOLEAN, lost : BOOLEAN]

\* The temporary file of a call at each of its steps.
TemporaryAt(step) ==
  CASE step = "created" -> "partial" [] step = "written" -> "whole"
    [] step = "closed" -> "synced" [] OTHER -> "none"

\* What a call has done by then: an export is reported exactly when its document is in
\* place, and without an error when the directory on the disk is no older; an import
\* has what was once at the path.
CallStage(call) ==
  LET step == transfers.step[call]
      result == transfers.result[call]
  IN  /\ transfers.temporary[call] = TemporaryAt(step)
      /\ step \in {"created", "written", "closed", "replaced"} => call \in ExportCalls
      /\ step # "returned" => ~result.exported
      /\ step \notin {"replaced", "returned"} => Places(call) = {}
      /\ step = "replaced" => Places(call) # {}
      /\ step = "returned" => (result.exported <=> Places(call) # {})
      /\ step = "returned" /\ result.exported /\ result.error = "" =>
           \A i \in Places(call) : i <= transfers.durable
      /\ result.data # "none" =>
           result.data \notin {"large", "directory"} /\ Places(result.data) # {}

\* The path has the last version until everything dies.
PathInv ==
  /\ transfers.durable <= transfers.current
  /\ transfers.current <= Len(transfers.versions)
  /\ ~transfers.down => transfers.current = Len(transfers.versions)

\* One dialog, and the call that waits in it.
GateInv ==
  /\ transfers.gate = {call \in Calls : transfers.step[call] = "dialog"}
  /\ \A call, other \in transfers.gate : call = other

FileInv ==
  /\ transfers \in TransferRecords
  /\ PathInv /\ GateInv
  /\ \A call \in Calls : CallStage(call)

\* What the record's fields are.
LEMMA TransferFields ==
  ASSUME transfers \in TransferRecords
  PROVE  /\ transfers.step \in [Calls -> TransferSteps]
         /\ transfers.result \in [Calls -> Results]
         /\ transfers.temporary \in [Calls -> {"none", "partial", "whole", "synced"}]
         /\ transfers.gate \subseteq Calls /\ transfers.versions \in Seq(Versions)
         /\ Len(transfers.versions) \in Nat
         /\ transfers.current \in Nat \ {0} /\ transfers.durable \in Nat \ {0}
         /\ transfers.ended \in BOOLEAN /\ transfers.down \in BOOLEAN
         /\ transfers.lost \in BOOLEAN
BY DEF TransferRecords

LEMMA TransferInitial == TransferInit => FileInv
<1> SUFFICES ASSUME TransferInit PROVE FileInv
  OBVIOUS
<1> DEFINE first == <<Version("none", TRUE)>>
           steps == [call \in Calls |-> "called"]
           results == [call \in Calls |-> [exported |-> FALSE, error |-> "", data |-> "none"]]
           files == [call \in Calls |-> "none"]
<1>1. first \in Seq(Versions) /\ Len(first) = 1 /\ first[1].content = "none"
      /\ DOMAIN first = 1..1
  BY DEF Version, Versions, Others
<1>2. /\ steps \in [Calls -> TransferSteps] /\ results \in [Calls -> Results]
      /\ files \in [Calls -> {"none", "partial", "whole", "synced"}]
      /\ \A call \in Calls : /\ steps[call] = "called" /\ files[call] = "none"
                             /\ ~results[call].exported /\ results[call].data = "none"
  BY DEF TransferSteps, Results, Others
<1>3. transfers = [step |-> steps, result |-> results, temporary |-> files, gate |-> {},
                   versions |-> first, current |-> 1, durable |-> 1,
                   ended |-> FALSE, down |-> FALSE, lost |-> FALSE]
  BY DEF TransferInit
<1> HIDE DEF first, steps, results, files
<1>4. transfers \in TransferRecords
  BY <1>1, <1>2, <1>3 DEF TransferRecords
<1>5. /\ transfers.step = steps /\ transfers.result = results /\ transfers.temporary = files
      /\ transfers.gate = {} /\ transfers.versions = first /\ transfers.current = 1
      /\ transfers.durable = 1
  BY <1>3
<1>6. PathInv
  <2>1. PICK one \in Nat : one = 1
    OBVIOUS
  <2>2. transfers.durable = one /\ transfers.current = one /\ Len(transfers.versions) = one
    BY <1>1, <1>5, <2>1
  <2>3. one <= one
    OBVIOUS
  <2> QED BY <2>2, <2>3 DEF PathInv
<1>7. GateInv
  BY <1>2, <1>5 DEF GateInv
<1>8. ASSUME NEW call \in Calls PROVE CallStage(call)
  <2>1. Places(call) = {}
    <3>1. call # "none"
      BY TransferAssumption DEF Calls
    <3> QED BY <1>1, <1>5, <3>1 DEF Places
  <2> QED BY <1>2, <1>5, <2>1 DEF CallStage, TemporaryAt
<1> QED
  BY <1>4, <1>6, <1>7, <1>8 DEF FileInv

\* Other calls keep what they have done when one takes a step.
SameFile ==
  /\ transfers'.versions = transfers.versions /\ transfers'.current = transfers.current
  /\ transfers'.down = transfers.down

OthersStay(call) ==
  \A other \in Calls \ {call} :
    /\ transfers'.step[other] = transfers.step[other]
    /\ transfers'.result[other] = transfers.result[other]
    /\ transfers'.temporary[other] = transfers.temporary[other]

LEMMA StagesStay ==
  ASSUME FileInv, NEW call, OthersStay(call), transfers'.durable >= transfers.durable,
         transfers'.durable \in Nat,
         \A c \in ExportCalls \cup Others : Places(c) \subseteq Places(c)',
         \A c \in Calls \ {call} : Places(c)' = Places(c)
  PROVE  \A other \in Calls \ {call} : CallStage(other)'
<1> SUFFICES ASSUME NEW other \in Calls \ {call} PROVE CallStage(other)'
  OBVIOUS
<1>1. /\ transfers'.step[other] = transfers.step[other]
      /\ transfers'.result[other] = transfers.result[other]
      /\ transfers'.temporary[other] = transfers.temporary[other]
      /\ Places(other)' = Places(other)
  BY DEF OthersStay
<1>2. transfers \in TransferRecords /\ CallStage(other)
  BY DEF FileInv
<1>3. transfers.result[other].data \in ExportCalls \cup Others
  BY <1>2, TransferFields DEF Results
<1>4. Places(other) \subseteq Nat /\ transfers.durable \in Nat
  BY <1>2, TransferFields DEF Places
<1>5. PICK data \in ExportCalls \cup Others : data = transfers.result[other].data
  BY <1>3
<1>6. data # "none" => data \notin {"large", "directory"} /\ Places(data)' # {}
  <2>1. data # "none" => data \notin {"large", "directory"} /\ Places(data) # {}
    BY <1>2, <1>5 DEF CallStage
  <2> QED BY <2>1
<1>7. transfers'.step[other] = "returned" /\ transfers'.result[other].exported
        /\ transfers'.result[other].error = "" =>
          \A i \in Places(other)' : i <= transfers'.durable
  <2>1. transfers.step[other] = "returned" /\ transfers.result[other].exported
          /\ transfers.result[other].error = "" =>
            \A i \in Places(other) : i <= transfers.durable
    BY <1>2 DEF CallStage
  <2>2. \A i \in Places(other) : i <= transfers.durable => i <= transfers'.durable
    BY <1>4
  <2> QED BY <1>1, <2>1, <2>2
<1>8. transfers'.result[other].data = data
  BY <1>1, <1>5
<1>9. /\ transfers'.temporary[other] = TemporaryAt(transfers'.step[other])
      /\ transfers'.step[other] \in {"created", "written", "closed", "replaced"} =>
           other \in ExportCalls
      /\ transfers'.step[other] # "returned" => ~transfers'.result[other].exported
      /\ transfers'.step[other] \notin {"replaced", "returned"} => Places(other)' = {}
      /\ transfers'.step[other] = "replaced" => Places(other)' # {}
      /\ transfers'.step[other] = "returned" =>
           (transfers'.result[other].exported <=> Places(other)' # {})
  BY <1>1, <1>2 DEF CallStage
<1> QED
  BY <1>6, <1>7, <1>8, <1>9 DEF CallStage

\* One call takes a step that leaves the versions of the file alone.
LEMMA CallMoves ==
  ASSUME FileInv, NEW call \in Calls, transfers' \in TransferRecords, SameFile,
         OthersStay(call), transfers'.durable \in {transfers.durable, transfers.current},
         transfers'.gate = {c \in Calls : transfers'.step[c] = "dialog"},
         transfers'.step[call] = "dialog" => transfers.gate \subseteq {call},
         CallStage(call)'
  PROVE  FileInv'
<1>1. transfers \in TransferRecords /\ PathInv /\ GateInv
  BY DEF FileInv
<1>2. /\ transfers.durable \in Nat /\ transfers.current \in Nat
      /\ transfers.gate \subseteq Calls
  BY <1>1, TransferFields
<1>3. PathInv' /\ transfers'.durable >= transfers.durable /\ transfers'.durable \in Nat
  BY <1>1, <1>2 DEF PathInv, SameFile
<1>4. \A c : Places(c)' = Places(c)
  BY DEF Places, SameFile
<1>5. \A other \in Calls \ {call} : CallStage(other)'
  BY <1>3, <1>4, StagesStay
<1>6. \A c, other \in transfers'.gate : c = other
  <2>1. \A c \in transfers'.gate : c = call \/ c \in transfers.gate
    BY <1>1 DEF GateInv, OthersStay
  <2>2. transfers'.step[call] # "dialog" => transfers'.gate \subseteq transfers.gate
    BY <2>1
  <2>3. transfers'.step[call] = "dialog" => transfers'.gate \subseteq {call}
    BY <2>1
  <2>4. \A c, other \in transfers.gate : c = other
    BY <1>1 DEF GateInv
  <2> QED BY <2>2, <2>3, <2>4
<1> QED
  BY <1>3, <1>5, <1>6 DEF FileInv, GateInv

\* A call goes on, with the temporary file its next step has.
Goes(call, to) ==
  transfers' = [transfers EXCEPT !.step[call] = to, !.temporary[call] = TemporaryAt(to),
                                 !.gate = IF to = "dialog" THEN {call} ELSE @ \ {call}]

LEMMA GoesKeeps ==
  ASSUME FileInv, NEW call \in Calls, NEW from \in TransferSteps \ {"replaced", "returned"},
         NEW to \in TransferSteps \ {"replaced", "returned"},
         Step(call, from), Goes(call, to),
         to \in {"created", "written", "closed"} => call \in ExportCalls,
         to = "dialog" => transfers.gate = {}
  PROVE  FileInv'
<1>1. transfers \in TransferRecords /\ GateInv /\ CallStage(call)
      /\ transfers.step[call] = from
  BY DEF FileInv, Step
<1>2. /\ transfers.step \in [Calls -> TransferSteps] /\ transfers.gate \subseteq Calls
      /\ transfers.temporary \in [Calls -> {"none", "partial", "whole", "synced"}]
  BY <1>1, TransferFields
<1> DEFINE step == [transfers.step EXCEPT ![call] = to]
           temporary == [transfers.temporary EXCEPT ![call] = TemporaryAt(to)]
           gate == IF to = "dialog" THEN {call} ELSE transfers.gate \ {call}
<1>3. step \in [Calls -> TransferSteps] /\ step[call] = to
      /\ \A c \in Calls \ {call} : step[c] = transfers.step[c]
  BY <1>2
<1>4. /\ temporary \in [Calls -> {"none", "partial", "whole", "synced"}]
      /\ temporary[call] = TemporaryAt(to)
      /\ \A c \in Calls \ {call} : temporary[c] = transfers.temporary[c]
  BY <1>2 DEF TemporaryAt
<1>5. gate \subseteq Calls
  BY <1>2
<1>6. transfers' = [transfers EXCEPT !.step = step, !.temporary = temporary, !.gate = gate]
  BY DEF Goes
<1> HIDE DEF step, temporary, gate
<1>7. /\ transfers' \in TransferRecords /\ transfers'.step = step
      /\ transfers'.temporary = temporary /\ transfers'.gate = gate
      /\ transfers'.result = transfers.result /\ transfers'.versions = transfers.versions
      /\ transfers'.current = transfers.current /\ transfers'.durable = transfers.durable
      /\ transfers'.down = transfers.down
  BY <1>1, <1>3, <1>4, <1>5, <1>6 DEF TransferRecords
<1>8. OthersStay(call) /\ SameFile
  BY <1>3, <1>4, <1>7 DEF OthersStay, SameFile
<1>9. gate = {c \in Calls : step[c] = "dialog"}
  <2>1. CASE to = "dialog"
    <3>1. \A c \in Calls : transfers.step[c] # "dialog"
      BY <1>1, <2>1 DEF GateInv
    <3> QED BY <1>3, <2>1, <3>1 DEF gate
  <2>2. CASE to # "dialog"
    BY <1>1, <1>3, <2>2 DEF gate, GateInv
  <2> QED BY <2>1, <2>2
<1>10. \A c : Places(c)' = Places(c)
  BY <1>7 DEF Places
<1>11. CallStage(call)'
  <2>1. /\ ~transfers.result[call].exported /\ Places(call) = {}
        /\ transfers.result[call].data # "none" =>
             transfers.result[call].data \notin {"large", "directory"}
               /\ Places(transfers.result[call].data) # {}
    BY <1>1 DEF CallStage
  <2>2. /\ transfers'.step[call] = to /\ transfers'.temporary[call] = TemporaryAt(to)
        /\ transfers'.result[call] = transfers.result[call]
    BY <1>3, <1>4, <1>7
  <2> QED BY <1>10, <2>1, <2>2 DEF CallStage
<1>12. transfers'.step[call] = "dialog" => transfers.gate \subseteq {call}
  BY <1>3, <1>7
<1> QED
  BY <1>7, <1>8, <1>9, <1>11, <1>12, CallMoves

\* A call returns with a result that says what it did.
ReturnsWith(call, from, result, durable) ==
  /\ transfers' = [Returned(call, result) EXCEPT !.durable = durable]
  /\ result.exported <=> from = "replaced"
  /\ result.exported /\ result.error = "" => durable = transfers.current
  /\ result.data # "none" =>
       result.data \notin {"large", "directory"} /\ Places(result.data) # {}

\* A call returns: its temporary file is removed, and its dialog free.
LEMMA ReturnsKeep ==
  ASSUME FileInv, NEW call \in Calls, NEW from \in TransferSteps \ {"returned"},
         Step(call, from), NEW result \in Results,
         NEW durable \in {transfers.durable, transfers.current},
         ReturnsWith(call, from, result, durable)
  PROVE  FileInv'
<1>1. transfers \in TransferRecords /\ GateInv /\ PathInv /\ CallStage(call)
      /\ transfers.step[call] = from /\ ~transfers.down
  BY DEF FileInv, Step
<1>2. /\ transfers.step \in [Calls -> TransferSteps] /\ transfers.gate \subseteq Calls
      /\ transfers.temporary \in [Calls -> {"none", "partial", "whole", "synced"}]
      /\ transfers.result \in [Calls -> Results]
      /\ transfers.durable \in Nat \ {0} /\ transfers.current \in Nat \ {0}
      /\ transfers.versions \in Seq(Versions)
  BY <1>1, TransferFields
<1> DEFINE step == [transfers.step EXCEPT ![call] = "returned"]
           temporary == [transfers.temporary EXCEPT ![call] = "none"]
           results == [transfers.result EXCEPT ![call] = result]
           gate == transfers.gate \ {call}
<1>3. step \in [Calls -> TransferSteps] /\ step[call] = "returned"
      /\ \A c \in Calls \ {call} : step[c] = transfers.step[c]
  BY <1>2 DEF TransferSteps
<1>4. /\ temporary \in [Calls -> {"none", "partial", "whole", "synced"}]
      /\ temporary[call] = "none"
      /\ \A c \in Calls \ {call} : temporary[c] = transfers.temporary[c]
  BY <1>2
<1>5. /\ results \in [Calls -> Results] /\ results[call] = result
      /\ \A c \in Calls \ {call} : results[c] = transfers.result[c]
  BY <1>2
<1>6. gate \subseteq Calls
  BY <1>2
<1>7. transfers' = [transfers EXCEPT !.step = step, !.result = results,
                      !.temporary = temporary, !.gate = gate, !.durable = durable]
  BY DEF Returned, ReturnsWith
<1> HIDE DEF step, temporary, results, gate
<1>8. /\ transfers' \in TransferRecords /\ transfers'.step = step
      /\ transfers'.temporary = temporary /\ transfers'.gate = gate
      /\ transfers'.result = results /\ transfers'.versions = transfers.versions
      /\ transfers'.current = transfers.current /\ transfers'.durable = durable
      /\ transfers'.down = transfers.down
  <2>1. durable \in Nat \ {0}
    BY <1>2
  <2> QED BY <1>1, <1>3, <1>4, <1>5, <1>6, <1>7, <2>1 DEF TransferRecords
<1>9. OthersStay(call) /\ SameFile
  <2>1. SameFile
    BY <1>8 DEF SameFile
  <2>2. ASSUME NEW c \in Calls \ {call}
        PROVE  /\ transfers'.step[c] = transfers.step[c]
               /\ transfers'.result[c] = transfers.result[c]
               /\ transfers'.temporary[c] = transfers.temporary[c]
    BY <1>3, <1>4, <1>5, <1>8
  <2> QED BY <2>1, <2>2 DEF OthersStay
<1>10. gate = {c \in Calls : step[c] = "dialog"}
  BY <1>1, <1>3 DEF gate, GateInv
<1>11. \A c : Places(c)' = Places(c)
  BY <1>8 DEF Places
<1>12. CallStage(call)'
  <2>1. from = "replaced" <=> Places(call) # {}
    BY <1>1 DEF CallStage
  <2>2. \A i \in Places(call) : i <= transfers.current
    <3>1. DOMAIN transfers.versions = 1..Len(transfers.versions)
          /\ transfers.current = Len(transfers.versions)
      BY <1>1, <1>2 DEF PathInv
    <3>2. Places(call) \subseteq 1..transfers.current
      BY <3>1 DEF Places
    <3> QED BY <1>2, <3>2
  <2>3. /\ transfers'.step[call] = "returned" /\ transfers'.temporary[call] = "none"
        /\ transfers'.result[call] = result /\ transfers'.durable = durable
    BY <1>3, <1>4, <1>5, <1>8
  <2> QED BY <1>11, <2>1, <2>2, <2>3 DEF CallStage, TemporaryAt, ReturnsWith
<1>13. transfers'.step[call] # "dialog"
  BY <1>3, <1>8
<1> QED
  BY <1>8, <1>9, <1>10, <1>12, <1>13, CallMoves

\* An error leaves the rest of the result as it was.
LEMMA FailKeeps ==
  ASSUME FileInv, NEW call \in Calls,
         NEW from \in TransferSteps \ {"replaced", "returned"}, Step(call, from),
         NEW error \in {"", "unavailable", "invalid", "dialog", "write", "read"},
         Fail(call, error)
  PROVE  FileInv'
<1>1. transfers \in TransferRecords /\ CallStage(call) /\ transfers.step[call] = from
  BY DEF FileInv, Step
<1>2. transfers.result \in [Calls -> Results] /\ transfers.result[call] \in Results
  BY <1>1, TransferFields
<1>3. PICK result \in Results : /\ result = [transfers.result[call] EXCEPT !.error = error]
                                /\ result.exported = transfers.result[call].exported
                                /\ result.data = transfers.result[call].data
  <2>1. PICK old \in Results : old = transfers.result[call]
    BY <1>2
  <2>2. PICK result \in Results : result = [old EXCEPT !.error = error]
    BY DEF Results
  <2>3. result.exported = old.exported /\ result.data = old.data
    BY <2>2 DEF Results
  <2> QED BY <2>1, <2>2, <2>3
<1>4. transfers' = Returned(call, result)
  BY <1>3 DEF Fail
<1>5. Returned(call, result) = [Returned(call, result) EXCEPT !.durable = transfers.durable]
  BY <1>1 DEF Returned, TransferRecords
<1>6. /\ ~result.exported
      /\ result.data # "none" =>
           result.data \notin {"large", "directory"} /\ Places(result.data) # {}
  BY <1>1, <1>3 DEF CallStage
<1>7. ReturnsWith(call, from, result, transfers.durable)
  BY <1>4, <1>5, <1>6 DEF ReturnsWith
<1> QED
  BY <1>7, ReturnsKeep

LEMMA GoesWith ==
  ASSUME FileInv, NEW call \in Calls, NEW from \in TransferSteps, NEW to \in TransferSteps,
         Step(call, from), TemporaryAt(from) = TemporaryAt(to),
         \/ /\ transfers' = [transfers EXCEPT !.step[call] = to]
            /\ "dialog" \notin {from, to}
         \/ transfers' = [transfers EXCEPT !.step[call] = to,
                            !.gate = IF to = "dialog" THEN {call} ELSE @ \ {call}]
  PROVE  Goes(call, to)
<1>1. transfers \in TransferRecords /\ transfers.temporary[call] = TemporaryAt(to)
      /\ transfers.step[call] = from /\ GateInv
  BY DEF FileInv, CallStage, Step
<1>2. transfers.temporary \in [Calls -> {"none", "partial", "whole", "synced"}]
  BY <1>1, TransferFields
<1>3. [transfers.temporary EXCEPT ![call] = TemporaryAt(to)] = transfers.temporary
  BY <1>1, <1>2
<1> DEFINE step == [transfers.step EXCEPT ![call] = to]
           gate == IF to = "dialog" THEN {call} ELSE transfers.gate \ {call}
<1>4. Goes(call, to) <=>
        transfers' = [transfers EXCEPT !.step = step, !.temporary = transfers.temporary,
                                       !.gate = gate]
  BY <1>3 DEF Goes
<1>5. "dialog" \notin {from, to} => gate = transfers.gate
  BY <1>1 DEF GateInv
<1>6. \/ transfers' = [transfers EXCEPT !.step = step, !.gate = gate]
      \/ transfers' = [transfers EXCEPT !.step = step] /\ gate = transfers.gate
  BY <1>5
<1> HIDE DEF step, gate
<1>7. CASE transfers' = [transfers EXCEPT !.step = step, !.gate = gate]
  <2>1. [transfers EXCEPT !.step = step, !.gate = gate]
          = [transfers EXCEPT !.step = step, !.temporary = transfers.temporary, !.gate = gate]
    BY <1>1 DEF TransferRecords
  <2> QED BY <1>4, <1>7, <2>1
<1>8. CASE transfers' = [transfers EXCEPT !.step = step] /\ gate = transfers.gate
  <2>1. [transfers EXCEPT !.step = step]
          = [transfers EXCEPT !.step = step, !.temporary = transfers.temporary,
                              !.gate = transfers.gate]
    BY <1>1 DEF TransferRecords
  <2> QED BY <1>4, <1>8, <2>1
<1> QED
  BY <1>6, <1>7, <1>8

LEMMA DialogSteps ==
  ASSUME FileInv, NEW call \in Calls, Call(call) \/ Acquire(call) \/ CloseDialog(call)
  PROVE  FileInv'
<1> USE DEF TransferSteps
<1>1. CASE Call(call)
  <2>1. Step(call, "called")
    BY <1>1 DEF Call
  <2>2. CASE Fail(call, "unavailable") \/ Fail(call, "invalid")
    BY <2>1, <2>2, FailKeeps
  <2>3. CASE Continue(call, "waiting")
    <3>1. Goes(call, "waiting")
      BY <2>1, <2>3, GoesWith DEF Continue, TemporaryAt
    <3> QED BY <2>1, <3>1, GoesKeeps
  <2> QED BY <1>1, <2>2, <2>3 DEF Call
<1>2. CASE Acquire(call)
  <2>1. Step(call, "waiting")
    BY <1>2 DEF Acquire
  <2>2. CASE Fail(call, "dialog")
    BY <2>1, <2>2, FailKeeps
  <2>3. CASE /\ transfers.gate = {}
             /\ transfers' = [transfers EXCEPT !.gate = {call}, !.step[call] = "dialog"]
    <3>1. transfers \in TransferRecords
      BY DEF FileInv
    <3>2. transfers' = [transfers EXCEPT !.step[call] = "dialog", !.gate = {call}]
      BY <2>3, <3>1 DEF TransferRecords
    <3>3. Goes(call, "dialog")
      BY <2>1, <3>2, GoesWith DEF TemporaryAt
    <3> QED BY <2>1, <2>3, <3>3, GoesKeeps
  <2> QED BY <1>2, <2>2, <2>3 DEF Acquire
<1>3. CASE CloseDialog(call)
  <2>1. Step(call, "dialog")
    BY <1>3 DEF CloseDialog
  <2>2. CASE Fail(call, "dialog") \/ Fail(call, "")
    BY <2>1, <2>2, FailKeeps
  <2>3. CASE transfers' = [transfers EXCEPT !.gate = {}, !.step[call] = "chosen"]
    <3>1. transfers \in TransferRecords /\ GateInv /\ transfers.step[call] = "dialog"
      BY <2>1 DEF FileInv, Step
    <3>2. transfers.gate = {call}
      BY <3>1 DEF GateInv
    <3>3. transfers' = [transfers EXCEPT !.step[call] = "chosen",
                                         !.gate = transfers.gate \ {call}]
      BY <2>3, <3>1, <3>2 DEF TransferRecords
    <3>4. Goes(call, "chosen")
      BY <2>1, <3>3, GoesWith DEF TemporaryAt
    <3> QED BY <2>1, <3>4, GoesKeeps
  <2> QED BY <1>3, <2>2, <2>3 DEF CloseDialog
<1> QED
  BY <1>1, <1>2, <1>3

LEMMA TemporarySteps ==
  ASSUME FileInv, NEW call \in Calls,
         CreateTemporary(call) \/ WriteTemporary(call) \/ SyncTemporary(call)
  PROVE  FileInv'
<1> USE DEF TransferSteps
<1>1. ASSUME NEW from \in {"chosen", "created", "written"},
             NEW to \in {"created", "written", "closed"},
             NEW file \in {"partial", "whole", "synced"}, Step(call, from),
             file = TemporaryAt(to), call \in ExportCalls,
             transfers' = [transfers EXCEPT !.temporary[call] = file, !.step[call] = to]
      PROVE  FileInv'
  <2>1. transfers \in TransferRecords /\ GateInv /\ transfers.step[call] = from
    BY <1>1 DEF FileInv, Step
  <2>2. transfers.gate = transfers.gate \ {call}
    BY <2>1 DEF GateInv
  <2> DEFINE step == [transfers.step EXCEPT ![call] = to]
             temporary == [transfers.temporary EXCEPT ![call] = file]
             gate == transfers.gate \ {call}
  <2>3. transfers' = [transfers EXCEPT !.temporary = temporary, !.step = step]
    BY <1>1
  <2>4. Goes(call, to) <=>
          transfers' = [transfers EXCEPT !.step = step, !.temporary = temporary, !.gate = gate]
    BY <1>1 DEF Goes
  <2>5. gate = transfers.gate
    BY <2>2
  <2> HIDE DEF step, temporary, gate
  <2>6. Goes(call, to)
    BY <2>1, <2>3, <2>4, <2>5 DEF TransferRecords
  <2> QED BY <1>1, <2>6, GoesKeeps
<1>2. CASE CreateTemporary(call)
  <2>1. call \in ExportCalls /\ Step(call, "chosen")
    BY <1>2 DEF CreateTemporary
  <2>2. CASE Fail(call, "write")
    BY <2>1, <2>2, FailKeeps
  <2>3. CASE transfers' = [transfers EXCEPT !.temporary[call] = "partial",
                                            !.step[call] = "created"]
    BY <1>1, <2>1, <2>3 DEF TemporaryAt
  <2> QED BY <1>2, <2>2, <2>3 DEF CreateTemporary
<1>3. CASE WriteTemporary(call)
  <2>1. Step(call, "created") /\ call \in ExportCalls
    BY <1>3 DEF WriteTemporary, Step, FileInv, CallStage
  <2>2. CASE Fail(call, "write")
    BY <2>1, <2>2, FailKeeps
  <2>3. CASE transfers' = [transfers EXCEPT !.temporary[call] = "whole",
                                            !.step[call] = "written"]
    BY <1>1, <2>1, <2>3 DEF TemporaryAt
  <2> QED BY <1>3, <2>2, <2>3 DEF WriteTemporary
<1>4. CASE SyncTemporary(call)
  <2>1. Step(call, "written") /\ call \in ExportCalls
    BY <1>4 DEF SyncTemporary, Step, FileInv, CallStage
  <2>2. CASE Fail(call, "write")
    BY <2>1, <2>2, FailKeeps
  <2>3. CASE transfers' = [transfers EXCEPT !.temporary[call] = "synced",
                                            !.step[call] = "closed"]
    BY <1>1, <2>1, <2>3 DEF TemporaryAt
  <2> QED BY <1>4, <2>2, <2>3 DEF SyncTemporary
<1> QED
  BY <1>2, <1>3, <1>4

\* A version that is put at the path is the last one.
LEMMA AppendedPlaces ==
  ASSUME transfers \in TransferRecords, NEW v \in Versions,
         transfers'.versions = Append(transfers.versions, v)
  PROVE  /\ Len(transfers'.versions) = Len(transfers.versions) + 1
         /\ transfers'.versions \in Seq(Versions)
         /\ \A c : Places(c)' = Places(c) \cup
              (IF v.content = c THEN {Len(transfers.versions) + 1} ELSE {})
<1> DEFINE old == transfers.versions
           new == transfers'.versions
<1>1. old \in Seq(Versions) /\ Len(old) \in Nat
  BY TransferFields
<1>2. new = Append(old, v)
  OBVIOUS
<1> HIDE DEF old, new
<1>3. /\ Len(new) = Len(old) + 1 /\ new \in Seq(Versions)
      /\ DOMAIN old = 1..Len(old) /\ DOMAIN new = 1..Len(old) + 1
      /\ \A i \in 1..Len(old) : new[i] = old[i]
      /\ new[Len(old) + 1] = v
  BY <1>1, <1>2
<1>4. ASSUME NEW c
      PROVE  {i \in DOMAIN new : new[i].content = c}
               = {i \in DOMAIN old : old[i].content = c}
                   \cup (IF v.content = c THEN {Len(old) + 1} ELSE {})
  BY <1>1, <1>3
<1> QED
  BY <1>3, <1>4 DEF Places, old, new

LEMMA ReplaceKeeps ==
  ASSUME FileInv, NEW call \in Calls, Replace(call)
  PROVE  FileInv'
<1>1. Step(call, "closed")
  BY DEF Replace
<1>2. CASE Fail(call, "write")
  BY <1>1, <1>2, FailKeeps DEF TransferSteps
<1>3. CASE ~Fail(call, "write")
  <2>1. /\ transfers \in TransferRecords /\ PathInv /\ GateInv /\ CallStage(call)
        /\ transfers.step[call] = "closed" /\ transfers.temporary[call] = "synced"
        /\ ~transfers.down /\ call \in ExportCalls
    BY <1>1 DEF FileInv, Step, CallStage, TemporaryAt
  <2>2. /\ transfers.step \in [Calls -> TransferSteps] /\ transfers.gate \subseteq Calls
        /\ transfers.temporary \in [Calls -> {"none", "partial", "whole", "synced"}]
        /\ transfers.versions \in Seq(Versions) /\ Len(transfers.versions) \in Nat
        /\ transfers.durable \in Nat \ {0} /\ transfers.current \in Nat \ {0}
    BY <2>1, TransferFields
  <2> DEFINE v == Version(call, TRUE)
             versions == Append(transfers.versions, v)
             last == Len(transfers.versions) + 1
             step == [transfers.step EXCEPT ![call] = "replaced"]
             temporary == [transfers.temporary EXCEPT ![call] = "none"]
  <2>3. v \in Versions /\ v.content = call
    BY <2>1 DEF Version, Versions
  <2>4. versions \in Seq(Versions) /\ last \in Nat \ {0}
    <3>1. last \in Nat \ {0}
      BY <2>2
    <3> HIDE DEF v
    <3> QED BY <2>2, <2>3, <3>1
  <2>5. step \in [Calls -> TransferSteps] /\ step[call] = "replaced"
        /\ \A c \in Calls \ {call} : step[c] = transfers.step[c]
    BY <2>2 DEF TransferSteps
  <2>6. /\ temporary \in [Calls -> {"none", "partial", "whole", "synced"}]
        /\ temporary[call] = "none"
        /\ \A c \in Calls \ {call} : temporary[c] = transfers.temporary[c]
    BY <2>2
  <2>7. transfers' = [transfers EXCEPT
          !.versions = Append(@, Version(IF transfers.temporary[call] = "partial" THEN "torn"
                                         ELSE call, transfers.temporary[call] = "synced")),
          !.current = Len(transfers.versions) + 1,
          !.temporary[call] = "none",
          !.step[call] = "replaced"]
    BY <1>3 DEF Replace
  <2>8. Version(IF transfers.temporary[call] = "partial" THEN "torn" ELSE call,
                transfers.temporary[call] = "synced") = v
    <3>1. (transfers.temporary[call] = "synced") = TRUE
      BY <2>1
    <3>2. (IF transfers.temporary[call] = "partial" THEN "torn" ELSE call) = call
      BY <2>1
    <3> QED BY <3>1, <3>2
  <2>9. transfers' = [transfers EXCEPT !.versions = versions, !.current = last,
                                       !.temporary = temporary, !.step = step]
    BY <2>7, <2>8
  <2> HIDE DEF v, versions, last, step, temporary
  <2>10. /\ transfers' \in TransferRecords /\ transfers'.versions = versions
         /\ transfers'.current = last /\ transfers'.temporary = temporary
         /\ transfers'.step = step /\ transfers'.result = transfers.result
         /\ transfers'.gate = transfers.gate /\ transfers'.durable = transfers.durable
         /\ transfers'.down = transfers.down
    BY <2>1, <2>4, <2>5, <2>6, <2>9 DEF TransferRecords
  <2>11. transfers'.versions = Append(transfers.versions, v)
    BY <2>10 DEF versions
  <2>12. /\ Len(transfers'.versions) = last
         /\ \A c : Places(c)' = Places(c) \cup (IF call = c THEN {last} ELSE {})
    BY <2>1, <2>3, <2>11, AppendedPlaces DEF last
  <2>13. PathInv'
    BY <2>1, <2>2, <2>10, <2>12 DEF PathInv, last
  <2>14. GateInv'
    BY <2>1, <2>5, <2>10 DEF GateInv
  <2>15. \A other \in Calls \ {call} : CallStage(other)'
    <3>1. OthersStay(call)
      BY <2>5, <2>6, <2>10 DEF OthersStay
    <3>2. transfers'.durable >= transfers.durable /\ transfers'.durable \in Nat
      BY <2>2, <2>10
    <3>3. \A c \in ExportCalls \cup Others : Places(c) \subseteq Places(c)'
      BY <2>12
    <3>4. \A c \in Calls \ {call} : Places(c)' = Places(c)
      BY <2>12
    <3> QED BY <3>1, <3>2, <3>3, <3>4, StagesStay
  <2>16. CallStage(call)'
    <3>1. /\ ~transfers.result[call].exported
          /\ transfers.result[call].data # "none" =>
               transfers.result[call].data \notin {"large", "directory"}
                 /\ Places(transfers.result[call].data) # {}
      BY <2>1 DEF CallStage
    <3>2. /\ transfers'.step[call] = "replaced" /\ transfers'.temporary[call] = "none"
          /\ transfers'.result[call] = transfers.result[call]
      BY <2>5, <2>6, <2>10
    <3>3. Places(call)' # {}
      BY <2>12
    <3>4. Places(transfers.result[call].data) # {} => Places(transfers.result[call].data)' # {}
      <4> DEFINE data == transfers.result[call].data
      <4>1. PICK c : c = data
        OBVIOUS
      <4>2. Places(c) # {} => Places(c)' # {}
        BY <2>12
      <4>3. transfers'.result[call].data = c
        BY <3>2, <4>1
      <4> QED BY <4>1, <4>2, <4>3
    <3> QED BY <2>1, <3>1, <3>2, <3>3, <3>4 DEF CallStage, TemporaryAt
  <2> QED BY <2>10, <2>13, <2>14, <2>15, <2>16 DEF FileInv
<1> QED
  BY <1>2, <1>3

LEMMA SyncDirectoryKeeps ==
  ASSUME FileInv, NEW call \in Calls, SyncDirectory(call)
  PROVE  FileInv'
<1> DEFINE exported == [transfers.result[call] EXCEPT !.exported = TRUE]
<1>1. Step(call, "replaced") /\ "replaced" \in TransferSteps \ {"returned"}
  BY DEF SyncDirectory, TransferSteps
<1>2. transfers \in TransferRecords /\ CallStage(call)
  BY DEF FileInv
<1>3. transfers.result[call] \in Results
  BY <1>2, TransferFields
<1>4. PICK yes \in BOOLEAN, e \in {"", "write"}, old \in Results :
        yes = TRUE /\ e = "write" /\ old = transfers.result[call]
  BY <1>3
<1>5. exported = [old EXCEPT !.exported = yes]
  BY <1>4
<1>6. exported \in Results /\ exported.exported /\ exported.data = old.data
  BY <1>4, <1>5 DEF Results
<1>7. old.data # "none" => old.data \notin {"large", "directory"} /\ Places(old.data) # {}
  BY <1>2, <1>4 DEF CallStage
<1>8. CASE transfers' = Returned(call, [exported EXCEPT !.error = "write"])
  <2>1. PICK result \in Results : /\ result = [exported EXCEPT !.error = "write"]
                                  /\ result.exported /\ result.data = old.data
                                  /\ result.error # ""
    <3>1. [exported EXCEPT !.error = "write"] = [old EXCEPT !.exported = yes, !.error = e]
      BY <1>4, <1>5
    <3>2. [old EXCEPT !.exported = yes, !.error = e] \in Results
      BY <1>4 DEF Results
    <3> QED BY <1>4, <3>1, <3>2 DEF Results
  <2>2. Returned(call, result) = [Returned(call, result) EXCEPT !.durable = transfers.durable]
    BY <1>2 DEF Returned, TransferRecords
  <2>3. transfers' = [Returned(call, result) EXCEPT !.durable = transfers.durable]
    BY <1>8, <2>1, <2>2
  <2> HIDE DEF exported
  <2> QED BY <1>1, <1>7, <2>1, <2>3, ReturnsKeep DEF ReturnsWith
<1>9. CASE transfers' = [Returned(call, exported) EXCEPT !.durable = transfers.current]
  <2>1. PICK result \in Results : result = exported
    BY <1>6
  <2> HIDE DEF exported
  <2>2. transfers' = [Returned(call, result) EXCEPT !.durable = transfers.current]
    BY <1>9, <2>1
  <2>3. result.exported /\ result.data = old.data
    BY <1>6, <2>1
  <2> QED BY <1>1, <1>7, <2>2, <2>3, ReturnsKeep DEF ReturnsWith
<1> QED
  BY <1>8, <1>9 DEF SyncDirectory

LEMMA ImportSteps ==
  ASSUME FileInv, NEW call \in Calls, Inspect(call) \/ ReadFile(call)
  PROVE  FileInv'
<1> USE DEF TransferSteps
<1>1. CASE Inspect(call)
  <2>1. Step(call, "chosen")
    BY <1>1 DEF Inspect
  <2>2. CASE Fail(call, "invalid") \/ Fail(call, "read")
    BY <2>1, <2>2, FailKeeps
  <2>3. CASE Continue(call, "inspected")
    <3>1. Goes(call, "inspected")
      BY <2>1, <2>3, GoesWith DEF Continue, TemporaryAt
    <3> QED BY <2>1, <3>1, GoesKeeps
  <2> QED BY <1>1, <2>2, <2>3 DEF Inspect
<1>2. CASE ReadFile(call)
  <2>1. Step(call, "inspected")
    BY <1>2 DEF ReadFile
  <2>2. CASE Fail(call, "read") \/ Fail(call, "invalid")
    BY <2>1, <2>2, FailKeeps
  <2>3. CASE /\ Content \notin {"none", "directory", "large"}
             /\ transfers' = Returned(call, [transfers.result[call] EXCEPT !.data = Content])
    <3>1. transfers \in TransferRecords /\ PathInv /\ CallStage(call)
          /\ transfers.step[call] = "inspected"
      BY <2>1 DEF FileInv, Step
    <3>2. /\ transfers.result[call] \in Results /\ transfers.versions \in Seq(Versions)
          /\ transfers.current \in 1..Len(transfers.versions)
      BY <3>1, TransferFields DEF PathInv
    <3>3. Content \in ExportCalls \cup Others /\ transfers.current \in Places(Content)
      <4>1. transfers.versions[transfers.current] \in Versions
            /\ DOMAIN transfers.versions = 1..Len(transfers.versions)
        BY <3>2
      <4>2. Content \in ExportCalls \cup Others
        BY <4>1 DEF Content, Versions
      <4> QED BY <3>2, <4>1, <4>2 DEF Content, Places
    <3>4. PICK data \in ExportCalls \cup Others : data = Content
      BY <3>3
    <3>5. PICK result \in Results : /\ result = [transfers.result[call] EXCEPT !.data = data]
                                    /\ result.exported = transfers.result[call].exported
                                    /\ result.data = data
      <4>1. PICK old \in Results : old = transfers.result[call]
        BY <3>2
      <4>2. PICK result \in Results : result = [old EXCEPT !.data = data]
        BY DEF Results
      <4>3. result.exported = old.exported /\ result.data = data
        BY <4>2 DEF Results
      <4> QED BY <4>1, <4>2, <4>3
    <3>6. /\ ~result.exported
          /\ result.data \notin {"large", "directory"} /\ Places(result.data) # {}
      <4>1. transfers.current \in Places(data)
        BY <3>3, <3>4
      <4> QED BY <2>3, <3>1, <3>4, <3>5, <4>1 DEF CallStage
    <3>7. Returned(call, result)
            = [Returned(call, result) EXCEPT !.durable = transfers.durable]
      BY <3>1 DEF Returned, TransferRecords
    <3>8. transfers' = [Returned(call, result) EXCEPT !.durable = transfers.durable]
      BY <2>3, <3>4, <3>5, <3>7
    <3>9. "inspected" \in TransferSteps \ {"returned"}
      OBVIOUS
    <3> QED BY <2>1, <3>6, <3>8, <3>9, ReturnsKeep DEF ReturnsWith
  <2> QED BY <1>2, <2>2, <2>3 DEF ReadFile
<1> QED
  BY <1>1, <1>2

\* Another program's file is no call's document.
LEMMA ChangeKeeps ==
  ASSUME FileInv, ChangeFile
  PROVE  FileInv'
<1>1. PICK content \in OtherFiles :
        transfers' = [transfers EXCEPT !.versions = Append(@, Version(content, TRUE)),
                                       !.current = Len(transfers.versions) + 1,
                                       !.durable = Len(transfers.versions) + 1]
  BY DEF ChangeFile
<1>2. transfers \in TransferRecords /\ PathInv /\ GateInv
  BY DEF FileInv
<1>3. transfers.versions \in Seq(Versions) /\ Len(transfers.versions) \in Nat
      /\ transfers.durable \in Nat /\ transfers.current \in Nat
  BY <1>2, TransferFields
<1> DEFINE v == Version(content, TRUE)
           versions == Append(transfers.versions, v)
           last == Len(transfers.versions) + 1
<1>4. v \in Versions /\ v.content = content
  BY TransferAssumption DEF Version, Versions, Others
<1>5. versions \in Seq(Versions) /\ last \in Nat \ {0}
  <2>1. last \in Nat \ {0}
    BY <1>3
  <2> HIDE DEF v
  <2> QED BY <1>3, <1>4, <2>1
<1>6. transfers' = [transfers EXCEPT !.versions = versions, !.current = last, !.durable = last]
  BY <1>1
<1> HIDE DEF v, versions, last
<1>7. /\ transfers' \in TransferRecords /\ transfers'.versions = versions
      /\ transfers'.current = last /\ transfers'.durable = last
      /\ transfers'.step = transfers.step /\ transfers'.result = transfers.result
      /\ transfers'.temporary = transfers.temporary /\ transfers'.gate = transfers.gate
  BY <1>2, <1>5, <1>6 DEF TransferRecords
<1>8. /\ Len(transfers'.versions) = last
      /\ \A c : Places(c)' = Places(c) \cup (IF content = c THEN {last} ELSE {})
  <2>1. transfers'.versions = Append(transfers.versions, v)
    BY <1>7 DEF versions
  <2> QED BY <1>2, <1>4, <2>1, AppendedPlaces DEF last
<1>9. PathInv'
  <2>1. last <= last
    BY <1>5
  <2> QED BY <1>7, <1>8, <2>1 DEF PathInv
<1>10. GateInv'
  BY <1>2, <1>7 DEF GateInv
<1>11. \A call \in Calls : CallStage(call)'
  <2>1. PICK none : none = "none"
    OBVIOUS
  <2>2. none \notin Calls /\ content \notin Calls
    BY <2>1, TransferAssumption DEF Calls
  <2>3. OthersStay(none)
    BY <1>7 DEF OthersStay
  <2>4. transfers'.durable >= transfers.durable /\ transfers'.durable \in Nat
    BY <1>2, <1>3, <1>5, <1>7 DEF PathInv, last
  <2>5. \A c \in ExportCalls \cup Others : Places(c) \subseteq Places(c)'
    BY <1>8
  <2>6. \A c \in Calls \ {none} : Places(c)' = Places(c)
    BY <1>8, <2>2
  <2>7. \A other \in Calls \ {none} : CallStage(other)'
    BY <2>3, <2>4, <2>5, <2>6, StagesStay
  <2> QED BY <2>2, <2>7
<1> QED
  BY <1>7, <1>9, <1>10, <1>11 DEF FileInv

\* The end of the session and the death of the process change no call and no version.
LEMMA EndSteps ==
  ASSUME FileInv, EndSession \/ Die
  PROVE  FileInv'
<1>1. PICK over \in BOOLEAN, down \in BOOLEAN, lost \in BOOLEAN,
           survivor \in {transfers.durable, transfers.current} :
        /\ transfers' = [transfers EXCEPT !.ended = over, !.down = down, !.lost = lost,
                                          !.current = survivor]
        /\ ~down => ~transfers.down /\ survivor = transfers.current
  <2>1. transfers \in TransferRecords /\ transfers.ended \in BOOLEAN
        /\ transfers.down \in BOOLEAN /\ transfers.lost \in BOOLEAN
    BY TransferFields DEF FileInv
  <2>2. PICK yes \in BOOLEAN : yes = TRUE
    OBVIOUS
  <2>3. CASE EndSession
    <3>1. transfers' = [transfers EXCEPT !.ended = yes, !.down = transfers.down,
                          !.lost = transfers.lost, !.current = transfers.current]
      BY <2>1, <2>2, <2>3 DEF EndSession, TransferRecords
    <3> QED BY <2>1, <3>1
  <2>4. CASE Die
    <3>1. CASE transfers' = [transfers EXCEPT !.down = TRUE]
      <4>1. transfers' = [transfers EXCEPT !.ended = transfers.ended, !.down = yes,
                            !.lost = transfers.lost, !.current = transfers.current]
        BY <2>1, <2>2, <3>1 DEF TransferRecords
      <4> QED BY <2>1, <2>2, <4>1
    <3>2. CASE \E left \in {transfers.durable, transfers.current} :
                 transfers' = [transfers EXCEPT !.down = TRUE, !.lost = TRUE,
                                                !.current = left]
      <4>1. PICK left \in {transfers.durable, transfers.current} :
              transfers' = [transfers EXCEPT !.down = yes, !.lost = yes, !.current = left]
        BY <2>2, <3>2
      <4>2. transfers' = [transfers EXCEPT !.ended = transfers.ended, !.down = yes,
                            !.lost = yes, !.current = left]
        BY <2>1, <4>1 DEF TransferRecords
      <4> QED BY <2>1, <2>2, <4>2
    <3> QED BY <2>4, <3>1, <3>2 DEF Die
  <2> QED BY <2>3, <2>4
<1>2. transfers \in TransferRecords /\ PathInv /\ GateInv
      /\ \A call \in Calls : CallStage(call)
  BY DEF FileInv
<1>3. /\ transfers.durable \in Nat \ {0} /\ transfers.current \in Nat \ {0}
      /\ Len(transfers.versions) \in Nat
  BY <1>2, TransferFields
<1>4. /\ transfers' \in TransferRecords
      /\ transfers'.step = transfers.step /\ transfers'.result = transfers.result
      /\ transfers'.temporary = transfers.temporary /\ transfers'.gate = transfers.gate
      /\ transfers'.versions = transfers.versions /\ transfers'.durable = transfers.durable
      /\ transfers'.current = survivor /\ transfers'.down = down
  <2>1. survivor \in Nat \ {0}
    BY <1>3
  <2> QED BY <1>1, <1>2, <2>1 DEF TransferRecords
<1>5. PathInv'
  BY <1>1, <1>2, <1>3, <1>4 DEF PathInv
<1>6. GateInv'
  BY <1>2, <1>4 DEF GateInv
<1>7. \A c : Places(c)' = Places(c)
  BY <1>4 DEF Places
<1>8. ASSUME NEW call \in Calls PROVE CallStage(call)'
  BY <1>2, <1>4, <1>7 DEF CallStage
<1> QED
  BY <1>4, <1>5, <1>6, <1>8 DEF FileInv

LEMMA NextFileInv ==
  ASSUME FileInv, [TransferNext]_transfers
  PROVE  FileInv'
<1>1. ASSUME NEW call \in Calls,
             \/ Call(call) \/ Acquire(call) \/ CloseDialog(call)
             \/ CreateTemporary(call) \/ WriteTemporary(call) \/ SyncTemporary(call)
             \/ Replace(call) \/ SyncDirectory(call)
             \/ Inspect(call) \/ ReadFile(call)
      PROVE  FileInv'
  BY <1>1, DialogSteps, TemporarySteps, ReplaceKeeps, SyncDirectoryKeeps, ImportSteps
<1>2. CASE ChangeFile
  BY <1>2, ChangeKeeps
<1>3. CASE EndSession \/ Die
  BY <1>3, EndSteps
<1>4. CASE UNCHANGED transfers
  <2>1. \A c : Places(c)' = Places(c)
    BY <1>4 DEF Places
  <2>2. ASSUME NEW call \in Calls, CallStage(call) PROVE CallStage(call)'
    BY <1>4, <2>1, <2>2 DEF CallStage
  <2>3. PathInv' /\ GateInv'
    BY <1>4 DEF FileInv, PathInv, GateInv
  <2> QED BY <1>4, <2>2, <2>3 DEF FileInv
<1> QED
  BY <1>1, <1>2, <1>3, <1>4 DEF TransferNext

LEMMA FilesExact == FileInv => TransfersExact
<1> SUFFICES ASSUME FileInv PROVE TransfersExact
  OBVIOUS
<1>1. transfers \in TransferRecords /\ PathInv /\ GateInv
      /\ \A call \in Calls : CallStage(call)
  BY DEF FileInv
<1>2. /\ transfers.versions \in Seq(Versions) /\ Len(transfers.versions) \in Nat
      /\ transfers.current \in Nat \ {0} /\ transfers.durable \in Nat \ {0}
      /\ transfers.result \in [Calls -> Results]
  BY <1>1, TransferFields
<1>3. ExportsAreWhole
  <2>1. transfers.current \in 1..Len(transfers.versions)
    BY <1>1, <1>2 DEF PathInv
  <2>2. transfers.versions[transfers.current] \in Versions
    BY <1>2, <2>1
  <2>3. transfers.versions[transfers.current].content # "torn"
        /\ transfers.versions[transfers.current].synced
    <3>1. transfers.versions[transfers.current].content \in ExportCalls \cup Others
          /\ transfers.versions[transfers.current].synced = TRUE
      BY <2>2 DEF Versions
    <3> QED BY <3>1, TransferAssumption DEF Others
  <2>4. ASSUME NEW call \in ExportCalls, transfers.step[call] = "returned"
        PROVE  /\ transfers.result[call].exported <=> Places(call) # {}
               /\ transfers.result[call].exported /\ transfers.result[call].error = "" =>
                    \A i \in Places(call) : i <= transfers.current
    <3>1. CallStage(call)
      BY <1>1 DEF Calls
    <3>2. transfers.result[call].exported <=> Places(call) # {}
      BY <2>4, <3>1 DEF CallStage
    <3>3. transfers.result[call].exported /\ transfers.result[call].error = "" =>
            \A i \in Places(call) : i <= transfers.durable
      BY <2>4, <3>1 DEF CallStage
    <3>4. \A i \in Places(call) : i <= transfers.durable => i <= transfers.current
      <4>1. Places(call) \subseteq Nat
        BY <1>2 DEF Places
      <4> QED BY <1>1, <1>2, <4>1 DEF PathInv
    <3> QED BY <3>2, <3>3, <3>4
  <2> QED BY <2>3, <2>4 DEF ExportsAreWhole
<1>4. CallsLeaveNothing
  <2>1. transfers.gate = {call \in Calls : transfers.step[call] = "dialog"}
    BY <1>1 DEF GateInv
  <2>2. Cardinality(transfers.gate) <= 1
    <3>1. CASE transfers.gate = {}
      <4>1. Cardinality(transfers.gate) = 0
        BY <3>1, FS_EmptySet
      <4> QED BY <4>1
    <3>2. CASE transfers.gate # {}
      <4>1. PICK call : call \in transfers.gate
        BY <3>2
      <4>2. transfers.gate = {call}
        BY <1>1, <4>1 DEF GateInv
      <4>3. Cardinality({call}) = 1
        BY FS_Singleton
      <4> QED BY <4>2, <4>3
    <3> QED BY <3>1, <3>2
  <2>3. ASSUME NEW call \in Calls, transfers.step[call] = "returned"
        PROVE  transfers.temporary[call] = "none"
    BY <1>1, <2>3 DEF CallStage, TemporaryAt
  <2>4. ASSUME NEW call \in ImportCalls, transfers.result[call].data # "none"
        PROVE  /\ transfers.result[call].data \notin {"torn", "large", "directory"}
               /\ Places(transfers.result[call].data) # {}
    <3>1. call \in Calls
      BY DEF Calls
    <3>2. transfers.result[call].data \in ExportCalls \cup Others
      BY <1>2, <3>1 DEF Results
    <3>3. transfers.result[call].data # "torn"
      BY <3>2, TransferAssumption DEF Others
    <3> QED BY <1>1, <2>4, <3>1, <3>3 DEF CallStage
  <2> QED BY <2>1, <2>2, <2>3, <2>4 DEF CallsLeaveNothing
<1> QED
  BY <1>3, <1>4 DEF TransfersExact

\* However the calls, the other programs, the end of the session and a loss of power
\* follow each other: what is at the path is whole, what is reported as exported is in
\* place and stays, and no call leaves a temporary file or an open dialog behind
\* (collection_file_transfer.go:67, file_dialog.go:189).
THEOREM TransfersAreExact == TransferSpec => []TransfersExact
<1>1. FileInv /\ [TransferNext]_transfers => FileInv'
  BY NextFileInv
<1> QED
  BY TransferInitial, <1>1, FilesExact, PTL DEF TransferSpec
=============================================================================
