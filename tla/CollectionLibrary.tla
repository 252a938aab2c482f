------------------------- MODULE CollectionLibrary -------------------------
(***************************************************************************)
(* Persistence of the collection library: collectionLibraryService, which  *)
(* keeps the revision a session has observed, over the file repository,    *)
(* which compares and swaps under a lock shared by all processes           *)
(* (internal/canbridge/collection_library_service.go, ..._repository.go).  *)
(*                                                                         *)
(* A process is a sidecar with one service; a caller is a goroutine that   *)
(* runs one Load or Save of its process at a time.  The revision of a      *)
(* document is its SHA-256, here the document itself.  Processes are       *)
(* killed, sessions restarted and stopped, file operations fail, and a     *)
(* power loss forgets a rename whose directory was not synced.             *)
(***************************************************************************)
EXTENDS Integers, Sequences

CONSTANTS
  Processes,
  Callers,
  ProcessOf,    \* the process a caller belongs to
  Documents,    \* valid documents
  Malformed,    \* a document validateCollectionLibraryDocument rejects
  Requests,     \* Requests[c]: what c asks for, "load" or a document to save
  Missing,      \* no file: missingCollectionLibraryRevision
  Corrupt,      \* a stored file that does not validate
  Unknown,      \* ~revisionKnown
  InitialFiles, \* what an earlier use may have left behind
  Nobody,       \* nobody holds a lock
  MaxStored,    \* bound: documents stored one after the other
  MaxSessions   \* bound: MaxSessions[p], sessions of process p

ASSUME LibraryAssumption ==
  /\ ProcessOf \in [Callers -> Processes]
  /\ Nobody \notin Callers
  /\ Requests \in [Callers -> SUBSET ({"load", Malformed} \cup Documents)]
  /\ Malformed \notin Documents \cup {"load"}
  /\ Documents \cap {"load", "failed", "conflict", "saved", Missing, Corrupt,
                    Unknown} = {}
  /\ Missing \notin {"failed", "conflict", "saved", Corrupt, Unknown}
  /\ Corrupt \notin {"failed", "conflict", "saved", Unknown}
  /\ InitialFiles \subseteq Documents \cup {Missing, Corrupt}
  /\ MaxStored \in Nat \ {0}
  /\ MaxSessions \in [Processes -> Nat \ {0}]

VARIABLES
  \* the file system
  stored,       \* history: what the library file held, its last is the file
  durable,      \* stored up to here survives a power loss
  fileLock,     \* caller that holds the lock file
  \* each service
  revision,     \* service.revision, Unknown when ~revisionKnown
  session,      \* which lifecycle context the service hands out
  canceled,     \* that context is cancelled
  starting,     \* Start holds lifecycleMu and waits for operationMu
  operationMu,  \* caller that holds operationMu
  observedIn,   \* history: session of the call that set the revision
  \* each call
  pc,
  request,      \* "load" or the document to save
  context,      \* session whose context the call captured
  target,       \* repository call under way: "load", "prepare" or "save"
  outcome,      \* what it returned: a document read, "saved" or an error
  published,    \* index in stored of the document the call renamed in, or 0
  acknowledged  \* history: last index a Save reported as saved

diskVars == <<stored, durable, fileLock>>
serviceVars == <<revision, session, canceled, starting, operationMu, observedIn>>
callVars == <<pc, request, context, target, outcome, published>>
vars == <<diskVars, serviceVars, callVars, acknowledged>>

File == stored[Len(stored)]
Service(c) == ProcessOf[c]

\* Mutant: the call asks for the context of the session now running.
CurrentContextDone(c) == canceled[Service(c)]

\* The context a call captured is cancelled: its session was stopped, or
\* replaced by a later one.
ContextDone(c) ==
  \/ context[c] < session[Service(c)]
  \/ canceled[Service(c)]

Become(c, state) == pc' = [pc EXCEPT ![c] = state]

\* The repository call ends with outcome o, having taken the lock or not.
EndWith(c, state, o) ==
  /\ Become(c, state)
  /\ outcome' = [outcome EXCEPT ![c] = o]

\* The calls in S are over.
Clear(S) ==
  /\ pc' = [c \in Callers |-> IF c \in S THEN "idle" ELSE pc[c]]
  /\ request' = [c \in Callers |-> IF c \in S THEN "load" ELSE request[c]]
  /\ context' = [c \in Callers |-> IF c \in S THEN 1 ELSE context[c]]
  /\ target' = [c \in Callers |-> IF c \in S THEN "load" ELSE target[c]]
  /\ outcome' = [c \in Callers |-> IF c \in S THEN "failed" ELSE outcome[c]]
  /\ published' = [c \in Callers |-> IF c \in S THEN 0 ELSE published[c]]

-----------------------------------------------------------------------------
(* Load and Save of the service *)

\* persistenceContext, under a read lock of lifecycleMu.
Call(c, r) ==
  /\ pc[c] = "idle"
  /\ ~starting[Service(c)]
  /\ Become(c, "called")
  /\ request' = [request EXCEPT ![c] = r]
  /\ context' = [context EXCEPT ![c] = session[Service(c)]]
  /\ UNCHANGED <<diskVars, serviceVars, target, outcome, published, acknowledged>>

\* What a call does first under operationMu: a Load reads; a Save whose
\* context is done or whose document is invalid ends; one that knows no
\* revision prepares by reading.
Enter(c) ==
  LET p == Service(c)
      refused == request[c] # "load" /\ (ContextDone(c) \/ request[c] = Malformed)
  IN  /\ pc[c] = "called"
      /\ operationMu[p] = Nobody
      /\ operationMu' = [operationMu EXCEPT ![p] = c]
      /\ target' = [target EXCEPT ![c] =
                      IF request[c] = "load" THEN "load"
                      ELSE IF revision[p] = Unknown THEN "prepare" ELSE "save"]
      /\ EndWith(c, IF refused THEN "returning" ELSE "locking", "failed")
      /\ UNCHANGED <<diskVars, revision, session, canceled, starting, observedIn,
                     request, context, published, acknowledged>>

\* Mutant: a blind first Save adopts the document it finds.
PrepareAdopts(c) ==
  LET p == Service(c)
  IN  /\ pc[c] = "returning"
      /\ target[c] = "prepare"
      /\ outcome[c] \in Documents \cup {Missing}
      /\ revision' = [revision EXCEPT ![p] = outcome[c]]
      /\ observedIn' = [observedIn EXCEPT ![p] = context[c]]
      /\ target' = [target EXCEPT ![c] = "save"]
      /\ EndWith(c, "locking", "failed")
      /\ UNCHANGED <<diskVars, session, canceled, starting, operationMu,
                     request, context, published, acknowledged>>

\* A prepared Save goes on only when there is no document; an existing one
\* must be loaded before it may be replaced.
PrepareEnds(c) ==
  LET p == Service(c)
  IN  /\ pc[c] = "returning"
      /\ target[c] = "prepare"
      /\ outcome[c] = Missing
      /\ revision' = [revision EXCEPT ![p] = Missing]
      /\ observedIn' = [observedIn EXCEPT ![p] = context[c]]
      /\ target' = [target EXCEPT ![c] = "save"]
      /\ EndWith(c, "locking", "failed")
      /\ UNCHANGED <<diskVars, session, canceled, starting, operationMu,
                     request, context, published, acknowledged>>

Loaded(c) == target[c] = "load" /\ outcome[c] \in Documents \cup {Missing}

\* The revision a call leaves behind: what a Load read, what a Save renamed
\* in even when the directory sync then failed, else the one before.
Remembered(c) ==
  IF Loaded(c) THEN outcome[c]
  ELSE IF published[c] # 0 THEN request[c] ELSE revision[Service(c)]

\* Mutant: a failed call leaves operationMu locked.
ReturnLocked(c) ==
  LET p == Service(c)
  IN  /\ pc[c] = "returning"
      /\ ~(target[c] = "prepare" /\ outcome[c] = Missing)
      /\ revision' = [revision EXCEPT ![p] = Remembered(c)]
      /\ observedIn' = [observedIn EXCEPT ![p] =
                          IF Loaded(c) \/ published[c] # 0 THEN context[c] ELSE @]
      /\ operationMu' = [operationMu EXCEPT ![p] =
                           IF outcome[c] = "failed" THEN @ ELSE Nobody]
      /\ Clear({c})
      /\ UNCHANGED <<diskVars, session, canceled, starting, acknowledged>>

Return(c) ==
  LET p == Service(c)
  IN  /\ pc[c] = "returning"
      /\ ~(target[c] = "prepare" /\ outcome[c] = Missing)
      /\ revision' = [revision EXCEPT ![p] = Remembered(c)]
      /\ observedIn' = [observedIn EXCEPT ![p] =
                          IF Loaded(c) \/ published[c] # 0 THEN context[c] ELSE @]
      /\ acknowledged' = IF outcome[c] = "saved" /\ published[c] > acknowledged
                         THEN published[c] ELSE acknowledged
      /\ operationMu' = [operationMu EXCEPT ![p] = Nobody]
      /\ Clear({c})
      /\ UNCHANGED <<diskVars, session, canceled, starting>>

-----------------------------------------------------------------------------
(* Load and Save of the repository, in withExclusiveLock *)

\* The lock is tried, and polled until the context is done: one that ends
\* between two polls is noticed only under the lock.  lockContext also ends
\* after the lock timeout, and the directory or lock file may be inaccessible.
Lock(c) ==
  /\ pc[c] = "locking"
  /\ fileLock = Nobody
  /\ fileLock' = c
  /\ Become(c, "locked")
  /\ UNCHANGED <<stored, durable, serviceVars, request, context, target, outcome,
                 published, acknowledged>>

LockCanceled(c) ==
  /\ pc[c] = "locking"
  /\ ContextDone(c)
  /\ EndWith(c, "returning", "failed")
  /\ UNCHANGED <<diskVars, serviceVars, request, context, target, published,
                 acknowledged>>

LockFails(c) ==
  /\ pc[c] = "locking"
  /\ EndWith(c, "returning", "failed")
  /\ UNCHANGED <<diskVars, serviceVars, request, context, target, published,
                 acknowledged>>

\* readCollectionLibraryFile of a Load; a context that ended meanwhile fails.
Read(c) ==
  /\ pc[c] = "locked"
  /\ target[c] \in {"load", "prepare"}
  /\ EndWith(c, "unlocking", IF ContextDone(c) THEN "failed" ELSE File)
  /\ UNCHANGED <<diskVars, serviceVars, request, context, target, published,
                 acknowledged>>

\* The comparison of a Save, and the reasons it stops before it writes.
Compare(c) ==
  /\ pc[c] = "locked"
  /\ target[c] = "save"
  /\ \/ ContextDone(c) /\ EndWith(c, "unlocking", "failed")
     \/ File = Corrupt /\ EndWith(c, "unlocking", Corrupt)
     \/ /\ File \notin {Corrupt, revision[Service(c)]}
        /\ EndWith(c, "unlocking", "conflict")
     \/ /\ ~ContextDone(c)
        /\ File = revision[Service(c)]
        /\ Become(c, "writing")
        /\ UNCHANGED outcome
  /\ UNCHANGED <<diskVars, serviceVars, request, context, target, published,
                 acknowledged>>

\* Reading, or writing the temporary file, fails before anything is replaced.
FileFails(c) ==
  /\ pc[c] \in {"locked", "writing"}
  /\ EndWith(c, "unlocking", "failed")
  /\ UNCHANGED <<diskVars, serviceVars, request, context, target, published,
                 acknowledged>>

\* The synced temporary file replaces the library file.
Rename(c) ==
  /\ pc[c] = "writing"
  /\ Len(stored) < MaxStored
  /\ stored' = Append(stored, request[c])
  /\ published' = [published EXCEPT ![c] = Len(stored) + 1]
  /\ Become(c, "syncing")
  /\ UNCHANGED <<durable, fileLock, serviceVars, request, context, target,
                 outcome, acknowledged>>

SyncDirectory(c) ==
  /\ pc[c] = "syncing"
  /\ durable' = Len(stored)
  /\ EndWith(c, "unlocking", "saved")
  /\ UNCHANGED <<stored, fileLock, serviceVars, request, context, target,
                 published, acknowledged>>

\* Mutant: the error of the directory sync is ignored.
SyncIgnored(c) ==
  /\ pc[c] = "syncing"
  /\ EndWith(c, "unlocking", "saved")
  /\ UNCHANGED <<diskVars, serviceVars, request, context, target, published,
                 acknowledged>>

SyncFails(c) ==
  /\ pc[c] = "syncing"
  /\ EndWith(c, "unlocking", "failed")
  /\ UNCHANGED <<diskVars, serviceVars, request, context, target, published,
                 acknowledged>>

Unlock(c) ==
  /\ pc[c] = "unlocking"
  /\ fileLock' = Nobody
  /\ Become(c, "returning")
  /\ UNCHANGED <<stored, durable, serviceVars, request, context, target, outcome,
                 published, acknowledged>>

-----------------------------------------------------------------------------
(* Sessions and failures *)

\* Mutant: the previous context is not cancelled.
BeginStartOnly(p) ==
  /\ ~starting[p]
  /\ session[p] < MaxSessions[p]
  /\ starting' = [starting EXCEPT ![p] = TRUE]
  /\ UNCHANGED <<diskVars, revision, session, canceled, operationMu, observedIn,
                 callVars, acknowledged>>

\* Start takes lifecycleMu, cancels the previous context and waits.
BeginStart(p) ==
  /\ ~starting[p]
  /\ session[p] < MaxSessions[p]
  /\ starting' = [starting EXCEPT ![p] = TRUE]
  /\ canceled' = [canceled EXCEPT ![p] = TRUE]
  /\ UNCHANGED <<diskVars, revision, session, operationMu, observedIn, callVars,
                 acknowledged>>

EndStart(p) ==
  /\ starting[p]
  /\ operationMu[p] = Nobody
  /\ starting' = [starting EXCEPT ![p] = FALSE]
  /\ canceled' = [canceled EXCEPT ![p] = FALSE]
  /\ session' = [session EXCEPT ![p] = @ + 1]
  /\ revision' = [revision EXCEPT ![p] = Unknown]
  /\ UNCHANGED <<diskVars, operationMu, observedIn, callVars, acknowledged>>

Stop(p) ==
  /\ ~starting[p]
  /\ canceled' = [canceled EXCEPT ![p] = TRUE]
  /\ UNCHANGED <<diskVars, revision, session, starting, operationMu, observedIn,
                 callVars, acknowledged>>

\* The processes in P end and are launched again: their calls are gone, the
\* operating system has released their lock, a new service starts.
Relaunch(P) ==
  LET gone == {c \in Callers : Service(c) \in P}
  IN  /\ revision' = [p \in Processes |-> IF p \in P THEN Unknown ELSE revision[p]]
      /\ session' = [p \in Processes |-> IF p \in P THEN 1 ELSE session[p]]
      /\ canceled' = [p \in Processes |-> p \notin P /\ canceled[p]]
      /\ starting' = [p \in Processes |-> p \notin P /\ starting[p]]
      /\ operationMu' = [p \in Processes |->
                           IF p \in P THEN Nobody ELSE operationMu[p]]
      /\ observedIn' = [p \in Processes |-> IF p \in P THEN 1 ELSE observedIn[p]]
      /\ fileLock' = IF fileLock \in gone THEN Nobody ELSE fileLock
      /\ Clear(gone)
      /\ UNCHANGED acknowledged

Kill(p) ==
  /\ Relaunch({p})
  /\ UNCHANGED <<stored, durable>>

PowerLoss ==
  /\ Relaunch(Processes)
  /\ \E n \in durable..Len(stored) : stored' = SubSeq(stored, 1, n)
  /\ UNCHANGED durable

-----------------------------------------------------------------------------

\* Every process runs its first session over whatever file there is.
Init ==
  /\ stored \in {<<d>> : d \in InitialFiles}
  /\ durable = 1
  /\ fileLock = Nobody
  /\ revision = [p \in Processes |-> Unknown]
  /\ session = [p \in Processes |-> 1]
  /\ canceled = [p \in Processes |-> FALSE]
  /\ starting = [p \in Processes |-> FALSE]
  /\ operationMu = [p \in Processes |-> Nobody]
  /\ observedIn = [p \in Processes |-> 1]
  /\ pc = [c \in Callers |-> "idle"]
  /\ request = [c \in Callers |-> "load"]
  /\ context = [c \in Callers |-> 1]
  /\ target = [c \in Callers |-> "load"]
  /\ outcome = [c \in Callers |-> "failed"]
  /\ published = [c \in Callers |-> 0]
  /\ acknowledged = 1

\* The steps of a call that only the scheduler and the locks delay.
Proceed(c) ==
  \/ Enter(c) \/ PrepareEnds(c) \/ Return(c) \/ Lock(c) \/ LockCanceled(c)
  \/ Read(c) \/ Compare(c) \/ Rename(c) \/ SyncDirectory(c) \/ Unlock(c)

Fail(c) == LockFails(c) \/ FileFails(c) \/ SyncFails(c)

Next ==
  \/ \E c \in Callers : \E r \in Requests[c] : Call(c, r)
  \/ \E c \in Callers : Proceed(c) \/ Fail(c)
  \/ \E p \in Processes : BeginStart(p) \/ EndStart(p) \/ Stop(p) \/ Kill(p)
  \/ PowerLoss

Spec == Init /\ [][Next]_vars

\* At the bound on stored documents a write finds the disk full.
DiskFull(c) ==
  /\ pc[c] = "writing"
  /\ Len(stored) = MaxStored
  /\ FileFails(c)

\* Goroutines that are ready run.  operationMu is a sync.Mutex, which hands
\* itself over to a waiter that starves; the file lock is polled and does not.
FairSpec ==
  /\ Spec
  /\ \A c \in Callers : WF_vars(Proceed(c) \/ DiskFull(c)) /\ SF_vars(Enter(c))
  /\ \A p \in Processes : WF_vars(EndStart(p))

-----------------------------------------------------------------------------
(* Properties *)

TypeOK ==
  /\ stored \in Seq(Documents \cup {Missing, Corrupt})
  /\ durable \in 1..Len(stored)
  /\ fileLock \in Callers \cup {Nobody}
  /\ revision \in [Processes -> Documents \cup {Missing, Unknown}]
  /\ session \in [Processes -> Nat \ {0}]
  /\ canceled \in [Processes -> BOOLEAN]
  /\ starting \in [Processes -> BOOLEAN]
  /\ operationMu \in [Processes -> Callers \cup {Nobody}]
  /\ observedIn \in [Processes -> Nat]
  /\ pc \in [Callers -> {"idle", "called", "locking", "locked", "writing",
                         "syncing", "unlocking", "returning"}]
  /\ request \in [Callers -> {"load", Malformed} \cup Documents]
  /\ context \in [Callers -> Nat]
  /\ target \in [Callers -> {"load", "prepare", "save"}]
  /\ outcome \in [Callers ->
       {"failed", "conflict", "saved", Missing, Corrupt} \cup Documents]
  /\ published \in [Callers -> Nat]
  /\ acknowledged \in Nat \ {0}

\* A Save reported as saved survives a power loss: only documents renamed in
\* after the last acknowledged one, and not before, can be lost.
SavedIsDurable == acknowledged <= durable

\* The revision a service compares with comes from a call of its current
\* session: a call of an earlier session that was delayed on operationMu or on
\* the file lock never passes its observation on to the next one.
SessionOwnsRevision ==
  \A p \in Processes : revision[p] # Unknown => observedIn[p] = session[p]

\* What a process takes for the current document: the revision of its service
\* or what the call under way has read or renamed in and not yet recorded.
View(p) ==
  LET c == operationMu[p]
  IN  IF c = Nobody THEN revision[p]
      ELSE IF target[c] = "prepare" /\ outcome[c] = Missing THEN Missing
      ELSE Remembered(c)

Store == INSTANCE VersionedStore WITH
  Clients <- Processes, history <- stored, view <- [p \in Processes |-> View(p)]

\* The library is a compare-and-swap store shared by the processes: whatever
\* fails, is killed, restarted or delayed, a Save replaces only the document
\* its process has loaded or stored last, and never one it has not seen.
ImplementsStore == Store!Spec

\* The lock timeout bounds every Load and Save, however busy the lock is.
LockTimers == \A c \in Callers : WF_vars(LockFails(c))
CallsReturn == LockTimers => \A c \in Callers : pc[c] # "idle" ~> pc[c] = "idle"

\* Start ends without any timer, although it waits for the calls of the
\* previous session: cancelling their context makes them leave the lock queue.
StartReturns == \A p \in Processes : starting[p] ~> ~starting[p]

\* Nothing that takes a lock of the service waits for ever
\* (collection_library_service.go:59).
OperationsReturn == CallsReturn /\ StartReturns
=============================================================================
