---------------------- MODULE CollectionLibraryProofs ----------------------
(***************************************************************************)
(* Theorems about CollectionLibrary, for every set of processes, callers   *)
(* and documents: what it reports as saved is durable, sessions do not mix, *)
(* and it implements the compare-and-swap store.                           *)
(***************************************************************************)
EXTENDS CollectionLibrary, SequenceTheorems, TLAPS

InLock == {"locked", "writing", "syncing", "unlocking"}
InMu == InLock \cup {"locking", "returning"}

Readable == Documents \cup {Missing}

\* Who holds which lock.
LockInv ==
  /\ \A c \in Callers : fileLock = c <=> pc[c] \in InLock
  /\ \A c \in Callers : operationMu[Service(c)] = c <=> pc[c] \in InMu
  /\ \A p \in Processes : operationMu[p] # Nobody => Service(operationMu[p]) = p

\* What each state of a call says about its other variables.
CallInv(c) ==
  /\ pc[c] \in {"idle", "called"} =>
       target[c] = "load" /\ outcome[c] = "failed" /\ published[c] = 0
  /\ pc[c] \in {"locking", "locked", "writing"} =>
       outcome[c] = "failed" /\ published[c] = 0
  /\ pc[c] \in {"writing", "syncing"} => target[c] = "save"
  /\ target[c] # "load" => request[c] # "load"
  /\ (target[c] # "load" /\ pc[c] \in {"locking", "locked", "writing", "syncing"})
       => request[c] \in Documents
  /\ (target[c] = "prepare" /\ outcome[c] = Missing) => request[c] \in Documents
  /\ target[c] = "save" => outcome[c] \notin Readable
  /\ pc[c] = "writing" => revision[Service(c)] = File
  /\ pc[c] = "syncing" => published[c] = Len(stored) /\ outcome[c] = "failed"
  /\ published[c] # 0 => target[c] = "save" /\ request[c] \in Documents
  /\ outcome[c] = "saved" => published[c] <= durable

\* The context of a call that has read or may write is the current one, and
\* stays so while the call keeps operationMu.
ContextInv(c) ==
  /\ context[c] <= session[Service(c)]
  /\ pc[c] \in {"writing", "syncing"} => context[c] = session[Service(c)]
  /\ outcome[c] \in Readable \/ published[c] # 0 => context[c] = session[Service(c)]

LInv ==
  /\ TypeOK
  /\ LockInv
  /\ \A c \in Callers : CallInv(c) /\ ContextInv(c)
  /\ SavedIsDurable
  /\ SessionOwnsRevision

LEMMA Names ==
  /\ \A c \in Callers : Service(c) \in Processes /\ c # Nobody
  /\ "load" \notin Documents /\ Malformed # "load" /\ Malformed \notin Documents
  /\ Readable \cap {"failed", "conflict", "saved", Corrupt, Unknown} = {}
  /\ Corrupt \notin {"failed", "conflict", "saved", Unknown}
BY LibraryAssumption DEF Service, Readable

LEMMA InitLInv == Init => LInv
<1> SUFFICES ASSUME Init PROVE LInv
  OBVIOUS
<1> USE Names
<1>1. PICK d \in InitialFiles : stored = <<d>>
  BY DEF Init
<1>2. stored \in Seq(Documents \cup {Missing, Corrupt}) /\ Len(stored) = 1
  BY <1>1, LibraryAssumption
<1>3. TypeOK
  BY <1>2 DEF Init, TypeOK
<1>4. LockInv
  BY DEF Init, LockInv, InLock, InMu
<1>5. \A c \in Callers : CallInv(c) /\ ContextInv(c)
  BY DEF Init, CallInv, ContextInv, InLock
<1> QED
  BY <1>3, <1>4, <1>5 DEF Init, LInv, SavedIsDurable, SessionOwnsRevision

\* What a step of call c leaves of the calls of everyone else.
OthersKeep(c) ==
  \A d \in Callers \ {c} :
    /\ pc'[d] = pc[d] /\ request'[d] = request[d] /\ context'[d] = context[d]
    /\ target'[d] = target[d] /\ outcome'[d] = outcome[d]
    /\ published'[d] = published[d]

\* A step of call c: the calls of everyone else stay as they are, and c obeys
\* the invariant again; the shared part is kept by the hypotheses.
LEMMA OneCall ==
  ASSUME LInv, NEW c \in Callers, OthersKeep(c),
         TypeOK', LockInv', SavedIsDurable', SessionOwnsRevision',
         session' = session, durable <= durable',
         \/ stored' = stored /\ revision' = revision
         \/ stored' = stored /\ pc[c] \in InMu
            /\ \A p \in Processes \ {Service(c)} : revision'[p] = revision[p]
         \/ revision' = revision /\ pc[c] \in InLock,
         CallInv(c)', ContextInv(c)'
  PROVE  LInv'
<1> SUFFICES ASSUME NEW d \in Callers \ {c} PROVE CallInv(d)' /\ ContextInv(d)'
  BY DEF LInv
<1> USE Names DEF OthersKeep
<1>1. pc[c] \in InMu => pc[d] \notin InMu \/ Service(d) # Service(c)
  BY DEF LInv, LockInv
<1>2. pc[c] \in InLock => pc[d] \notin InLock
  BY DEF LInv, LockInv
<1>3. CallInv(d) /\ ContextInv(d)
  BY DEF LInv
<1>4. ContextInv(d)'
  BY <1>3 DEF ContextInv, Service
<1>5. pc[d] = "writing" => revision'[Service(d)] = File'
  BY <1>1, <1>2, <1>3 DEF CallInv, File, InMu, InLock, Service
<1>6. pc[d] = "syncing" => Len(stored') = Len(stored)
  BY <1>2 DEF InMu, InLock
<1>7. outcome[d] = "saved" => published[d] <= durable'
  BY <1>3 DEF CallInv, LInv, TypeOK
<1>8. CallInv(d)'
  BY <1>3, <1>5, <1>6, <1>7 DEF CallInv, Service
<1> QED
  BY <1>4, <1>8

LEMMA CallStep ==
  ASSUME LInv, NEW c \in Callers, NEW r \in Requests[c], Call(c, r)
  PROVE  LInv'
<1> USE Names DEF Call, Become, diskVars, serviceVars
<1>1. r \in {"load", Malformed} \cup Documents
  BY LibraryAssumption
<1>2. TypeOK'
  BY <1>1 DEF LInv, TypeOK
<1>3. LockInv'
  <2>1. \A d \in Callers : /\ pc'[d] \in InLock <=> pc[d] \in InLock
                           /\ pc'[d] \in InMu <=> pc[d] \in InMu
    BY DEF LInv, TypeOK, InMu, InLock
  <2> QED
    BY <2>1 DEF LInv, LockInv, Service
<1>4. SavedIsDurable' /\ SessionOwnsRevision'
  BY DEF LInv, SavedIsDurable, SessionOwnsRevision
<1>5. CallInv(c)' /\ ContextInv(c)'
  BY <1>1 DEF LInv, TypeOK, CallInv, ContextInv, Service, InLock, Readable
<1>6. OthersKeep(c)
  BY DEF LInv, TypeOK, OthersKeep
<1>7. durable <= durable'
  BY DEF LInv, TypeOK
<1> QED
  BY <1>2, <1>3, <1>4, <1>5, <1>6, <1>7, OneCall

LEMMA EnterStep ==
  ASSUME LInv, NEW c \in Callers, Enter(c)
  PROVE  LInv'
<1> USE Names DEF Enter, EndWith, Become, diskVars
<1>1. TypeOK'
  BY DEF LInv, TypeOK
<1>2. LockInv'
  BY DEF LInv, TypeOK, LockInv, Service, InMu, InLock
<1>3. SavedIsDurable' /\ SessionOwnsRevision'
  BY DEF LInv, SavedIsDurable, SessionOwnsRevision
<1>4. CallInv(c)' /\ ContextInv(c)'
  BY DEF LInv, TypeOK, CallInv, ContextInv, Service, InLock, Readable
<1>5. OthersKeep(c) /\ durable <= durable'
  BY DEF LInv, TypeOK, OthersKeep
<1> QED
  BY <1>1, <1>2, <1>3, <1>4, <1>5, OneCall

LEMMA PrepareEndsStep ==
  ASSUME LInv, NEW c \in Callers, PrepareEnds(c)
  PROVE  LInv'
<1> USE Names DEF PrepareEnds, EndWith, Become, diskVars
<1>1. TypeOK'
  BY DEF LInv, TypeOK
<1>2. LockInv' /\ SavedIsDurable'
  BY DEF LInv, TypeOK, LockInv, Service, InMu, InLock, SavedIsDurable
<1>3. context[c] = session[Service(c)]
  BY DEF LInv, ContextInv, Readable
<1>4. SessionOwnsRevision'
  BY <1>3 DEF LInv, TypeOK, SessionOwnsRevision
<1>5. CallInv(c)' /\ ContextInv(c)'
  BY <1>3 DEF LInv, TypeOK, CallInv, ContextInv, Service, InLock, Readable
<1>6. OthersKeep(c) /\ durable <= durable'
  BY DEF LInv, TypeOK, OthersKeep
<1>7. \A p \in Processes \ {Service(c)} : revision'[p] = revision[p]
  BY DEF LInv, TypeOK
<1>8. stored' = stored /\ session' = session /\ pc[c] \in InMu
  BY DEF InMu
<1> QED
  BY <1>1, <1>2, <1>4, <1>5, <1>6, <1>7, <1>8, OneCall

LEMMA ReturnStep ==
  ASSUME LInv, NEW c \in Callers, Return(c)
  PROVE  LInv'
<1> USE Names DEF Return, Clear, diskVars
<1>1. Remembered(c) \in Documents \cup {Missing, Unknown}
  BY DEF Remembered, Loaded, LInv, TypeOK, CallInv
<1>2. TypeOK'
  BY <1>1, SMTT(30) DEF LInv, TypeOK
<1>3. LockInv'
  BY DEF LInv, TypeOK, LockInv, Service, InMu, InLock
<1>4. SavedIsDurable'
  BY DEF LInv, CallInv, SavedIsDurable
<1>5. Loaded(c) \/ published[c] # 0 => context[c] = session[Service(c)]
  BY DEF LInv, ContextInv, Loaded, Readable
<1>6. ~(Loaded(c) \/ published[c] # 0) => Remembered(c) = revision[Service(c)]
  BY DEF Remembered
<1>7. SessionOwnsRevision'
  BY <1>5, <1>6 DEF LInv, TypeOK, SessionOwnsRevision
<1>8. CallInv(c)'
  BY DEF CallInv
<1>9. ContextInv(c)'
  BY DEF LInv, TypeOK, ContextInv, Service, InLock, Readable
<1>10. OthersKeep(c) /\ durable <= durable'
  BY DEF LInv, TypeOK, OthersKeep
<1>11. \A p \in Processes \ {Service(c)} : revision'[p] = revision[p]
  BY DEF LInv, TypeOK
<1>12. stored' = stored /\ session' = session /\ pc[c] \in InMu
  BY DEF InMu
<1> QED
  BY <1>2, <1>3, <1>4, <1>7, <1>8, <1>9, <1>10, <1>11, <1>12, OneCall

LEMMA LockStep ==
  ASSUME LInv, NEW c \in Callers, Lock(c)
  PROVE  LInv'
<1> USE Names DEF Lock, Become, serviceVars
<1>1. TypeOK'
  BY DEF LInv, TypeOK
<1>2. \A d \in Callers : fileLock' = d <=> pc'[d] \in InLock
  BY DEF LInv, TypeOK, LockInv, InLock
<1>3. LockInv'
  BY <1>2 DEF LInv, TypeOK, LockInv, Service, InMu, InLock
<1>4. SavedIsDurable' /\ SessionOwnsRevision'
  BY DEF LInv, SavedIsDurable, SessionOwnsRevision
<1>5. CallInv(c)'
  BY DEF LInv, TypeOK, CallInv, Service, Readable
<1>7. ContextInv(c)'
  BY DEF LInv, TypeOK, ContextInv, Service, InLock, Readable, CallInv
<1>8. OthersKeep(c) /\ durable <= durable'
  BY DEF LInv, TypeOK, OthersKeep
<1> QED
  BY <1>1, <1>3, <1>4, <1>5, <1>7, <1>8, OneCall

LEMMA LockGivenUpStep ==
  ASSUME LInv, NEW c \in Callers, LockCanceled(c) \/ LockFails(c)
  PROVE  LInv'
<1> USE Names DEF LockCanceled, LockFails, EndWith, Become, serviceVars, diskVars
<1>1. TypeOK'
  BY DEF LInv, TypeOK
<1>2. LockInv'
  <2>1. pc[c] = "locking" /\ pc' = [pc EXCEPT ![c] = "returning"]
    OBVIOUS
  <2>2. fileLock' = fileLock /\ operationMu' = operationMu
    OBVIOUS
  <2> QED
    BY <2>1, <2>2 DEF LInv, TypeOK, LockInv, Service, InMu, InLock
<1>3. SavedIsDurable' /\ SessionOwnsRevision'
  BY DEF LInv, SavedIsDurable, SessionOwnsRevision
<1>4. CallInv(c)' /\ ContextInv(c)'
  BY DEF LInv, TypeOK, CallInv, ContextInv, Service, InLock, Readable
<1>5. OthersKeep(c) /\ durable <= durable'
  BY DEF LInv, TypeOK, OthersKeep
<1> QED
  BY <1>1, <1>2, <1>3, <1>4, <1>5, OneCall

\* Steps of a call that holds the file lock and changes none of the files.
LEMMA FileStep ==
  ASSUME LInv, NEW c \in Callers,
         Read(c) \/ Compare(c) \/ FileFails(c) \/ SyncFails(c)
  PROVE  LInv'
<1> USE Names DEF Read, Compare, FileFails, SyncFails, EndWith, Become,
                  serviceVars, diskVars
<1>1. File \in Documents \cup {Missing, Corrupt}
  BY DEF LInv, TypeOK, File
<1>2. PICK s \in {"writing", "unlocking"} : pc' = [pc EXCEPT ![c] = s]
  OBVIOUS
<1>3. PICK o \in {"failed", "conflict", Missing, Corrupt} \cup Documents :
        outcome' = [outcome EXCEPT ![c] = o]
  <2>1. CASE Compare(c)
    <3>1. outcome[c] = "failed" /\ outcome = [outcome EXCEPT ![c] = "failed"]
      BY <2>1 DEF LInv, TypeOK, CallInv
    <3> QED
      BY <2>1, <3>1
  <2>2. CASE Read(c) \/ FileFails(c) \/ SyncFails(c)
    BY <2>2, <1>1
  <2> QED
    BY <2>1, <2>2
<1>4. pc[c] \in InLock \ {"unlocking"}
  BY DEF InLock
<1>5. /\ stored' = stored /\ durable' = durable /\ fileLock' = fileLock
      /\ revision' = revision /\ session' = session /\ canceled' = canceled
      /\ starting' = starting /\ operationMu' = operationMu
      /\ observedIn' = observedIn /\ request' = request /\ context' = context
      /\ target' = target /\ published' = published
      /\ acknowledged' = acknowledged
  OBVIOUS
<1>6. TypeOK'
  <2>1. /\ pc' \in [Callers -> {"idle", "called", "locking", "locked", "writing",
                              "syncing", "unlocking", "returning"}]
        /\ outcome' \in [Callers ->
             {"failed", "conflict", "saved", Missing, Corrupt} \cup Documents]
    BY <1>2, <1>3 DEF LInv, TypeOK
  <2> HIDE DEF Read, Compare, FileFails, SyncFails, EndWith, Become
  <2> QED
    BY <2>1, <1>5 DEF LInv, TypeOK
<1>7. LockInv'
  BY <1>2, <1>4, <1>5 DEF LInv, TypeOK, LockInv, Service, InMu, InLock
<1>8. SavedIsDurable' /\ SessionOwnsRevision'
  BY DEF LInv, SavedIsDurable, SessionOwnsRevision
<1>9. CallInv(c)'
  <2>1. outcome'[c] = o /\ pc'[c] = s
    BY <1>2, <1>3 DEF LInv, TypeOK
  <2>2. s = "writing" => /\ pc[c] = "locked" /\ target[c] = "save"
                         /\ revision[Service(c)] = File
    <3>1. Read(c) \/ FileFails(c) \/ SyncFails(c) => pc'[c] = "unlocking"
      BY DEF LInv, TypeOK
    <3>2. Compare(c) /\ pc'[c] # "unlocking" => /\ pc[c] = "locked"
                                               /\ target[c] = "save"
                                               /\ revision[Service(c)] = File
      BY DEF LInv, TypeOK
    <3> HIDE DEF Read, Compare, FileFails, SyncFails
    <3> QED
      BY <2>1, <3>1, <3>2
  <2>3. target[c] = "save" => o \notin Readable
    BY <2>1, <1>3 DEF Readable, LInv, CallInv
  <2>4. s = "writing" => o = "failed"
    BY <2>1, <1>3 DEF LInv, CallInv, TypeOK
  <2>5. File' = File
    BY DEF File
  <2>6. CallInv(c)
    BY DEF LInv
  <2>7. o = Missing /\ target[c] = "prepare" => request[c] \in Documents
    BY <2>1, <2>6 DEF CallInv
  <2>8. s = "writing" => published[c] = 0
    BY <2>2, <2>6 DEF CallInv
  <2>9. o # "saved"
    BY <1>3 DEF Readable
  <2> QED
    BY <1>2, <1>4, <1>5, <2>1, <2>2, <2>3, <2>4, <2>5, <2>6, <2>7, <2>8, <2>9
       DEF CallInv, Service, InLock
<1>10. ContextInv(c)'
  <2>1. outcome'[c] = o /\ pc'[c] = s
    BY <1>2, <1>3 DEF LInv, TypeOK
  <2>2. ~ContextDone(c) => context[c] = session[Service(c)]
    BY DEF LInv, TypeOK, ContextDone, ContextInv
  <2>3. s = "writing" => ~ContextDone(c)
    <3>1. Read(c) \/ FileFails(c) \/ SyncFails(c) => pc'[c] = "unlocking"
      BY DEF LInv, TypeOK
    <3>2. Compare(c) /\ pc'[c] # "unlocking" => ~ContextDone(c)
      BY DEF LInv, TypeOK
    <3> HIDE DEF Read, Compare, FileFails, SyncFails
    <3> QED
      BY <2>1, <3>1, <3>2
  <2>4. o \in Readable => ~ContextDone(c) \/ outcome[c] \in Readable
    <3>1. Read(c) => outcome'[c] = "failed" \/ ~ContextDone(c)
      BY DEF LInv, TypeOK
    <3>2. FileFails(c) \/ SyncFails(c) => outcome'[c] = "failed"
      BY DEF LInv, TypeOK
    <3>3. Compare(c) => outcome'[c] \in {"failed", "conflict", Corrupt, outcome[c]}
      BY DEF LInv, TypeOK
    <3> HIDE DEF Read, Compare, FileFails, SyncFails
    <3> QED
      BY <2>1, <3>1, <3>2, <3>3
  <2>5. ContextInv(c)
    BY DEF LInv
  <2>6. s # "syncing"
    BY <1>2
  <2> HIDE DEF Read, Compare, FileFails, SyncFails, ContextDone
  <2> QED
    BY <1>5, <2>1, <2>2, <2>3, <2>4, <2>5, <2>6 DEF ContextInv, Service
<1>11. OthersKeep(c) /\ durable <= durable'
  BY DEF LInv, TypeOK, OthersKeep
<1> QED
  BY <1>5, <1>6, <1>7, <1>8, <1>9, <1>10, <1>11, OneCall

LEMMA RenameStep ==
  ASSUME LInv, NEW c \in Callers, Rename(c)
  PROVE  LInv'
<1> USE Names DEF Rename, Become, serviceVars
<1>1. request[c] \in Documents
  BY DEF LInv, CallInv
<1>2. /\ stored' \in Seq(Documents \cup {Missing, Corrupt})
      /\ Len(stored') = Len(stored) + 1
  BY <1>1 DEF LInv, TypeOK
<1>3. TypeOK'
  BY <1>2, SMTT(30) DEF LInv, TypeOK
<1>4. LockInv'
  BY DEF LInv, TypeOK, LockInv, Service, InMu, InLock
<1>5. SavedIsDurable' /\ SessionOwnsRevision'
  BY DEF LInv, SavedIsDurable, SessionOwnsRevision
<1>6. CallInv(c)'
  BY <1>1, <1>2 DEF LInv, TypeOK, CallInv, Service, Readable
<1>7. ContextInv(c)'
  BY DEF LInv, TypeOK, ContextInv, Service, InLock, Readable
<1>8. OthersKeep(c) /\ durable <= durable'
  BY DEF LInv, TypeOK, OthersKeep
<1>9. revision' = revision /\ session' = session /\ pc[c] \in InLock
  BY DEF InLock
<1> QED
  BY <1>3, <1>4, <1>5, <1>6, <1>7, <1>8, <1>9, OneCall

LEMMA SyncDirectoryStep ==
  ASSUME LInv, NEW c \in Callers, SyncDirectory(c)
  PROVE  LInv'
<1> USE Names DEF SyncDirectory, EndWith, Become, serviceVars
<1>1. durable' = Len(stored) /\ durable <= durable' /\ durable' \in Nat \ {0}
  BY DEF LInv, TypeOK
<1>2. TypeOK'
  BY <1>1 DEF LInv, TypeOK
<1>3. LockInv'
  BY DEF LInv, TypeOK, LockInv, Service, InMu, InLock
<1>4. SavedIsDurable' /\ SessionOwnsRevision'
  BY <1>1 DEF LInv, TypeOK, SavedIsDurable, SessionOwnsRevision
<1>5. CallInv(c)'
  <2>1. CallInv(c) /\ target[c] = "save" /\ published[c] = durable'
    BY <1>1 DEF LInv, CallInv
  <2>2. pc'[c] = "unlocking" /\ outcome'[c] = "saved" /\ "saved" \notin Readable
    BY DEF LInv, TypeOK
  <2>3. target' = target /\ request' = request /\ published' = published
    OBVIOUS
  <2> QED
    BY <1>1, <2>1, <2>2, <2>3 DEF CallInv
<1>6. ContextInv(c)'
  BY DEF LInv, TypeOK, ContextInv, Service, InLock, Readable
<1>7. OthersKeep(c)
  BY DEF LInv, TypeOK, OthersKeep
<1> QED
  BY <1>1, <1>2, <1>3, <1>4, <1>5, <1>6, <1>7, OneCall

LEMMA UnlockStep ==
  ASSUME LInv, NEW c \in Callers, Unlock(c)
  PROVE  LInv'
<1> USE Names DEF Unlock, Become, serviceVars
<1>1. TypeOK'
  BY DEF LInv, TypeOK
<1>2. \A d \in Callers : fileLock' = d <=> pc'[d] \in InLock
  BY DEF LInv, TypeOK, LockInv, InLock
<1>3. LockInv'
  BY <1>2 DEF LInv, TypeOK, LockInv, Service, InMu, InLock
<1>4. SavedIsDurable' /\ SessionOwnsRevision'
  BY DEF LInv, SavedIsDurable, SessionOwnsRevision
<1>5. CallInv(c)' /\ ContextInv(c)'
  BY DEF LInv, TypeOK, CallInv, ContextInv, Service, InLock, Readable
<1>6. OthersKeep(c) /\ durable <= durable'
  BY DEF LInv, TypeOK, OthersKeep
<1> QED
  BY <1>1, <1>3, <1>4, <1>5, <1>6, OneCall

LEMMA CancelStep ==
  ASSUME LInv, NEW p \in Processes, BeginStart(p) \/ Stop(p)
  PROVE  LInv'
<1> USE Names DEF BeginStart, Stop, diskVars, callVars
<1>1. TypeOK'
  BY DEF LInv, TypeOK
<1>2. LockInv' /\ SavedIsDurable' /\ SessionOwnsRevision'
  BY DEF LInv, LockInv, SavedIsDurable, SessionOwnsRevision, Service
<1>3. \A c \in Callers : CallInv(c)' /\ ContextInv(c)'
  BY DEF LInv, CallInv, ContextInv, Service, File
<1> QED
  BY <1>1, <1>2, <1>3 DEF LInv

\* A call that has started is either over or holds operationMu, so the context
\* of the previous session has no user left when Start replaces it.
LEMMA EndStartStep ==
  ASSUME LInv, NEW p \in Processes, EndStart(p)
  PROVE  LInv'
<1> USE Names DEF EndStart, diskVars, callVars
<1>1. TypeOK'
  BY DEF LInv, TypeOK
<1>2. LockInv' /\ SavedIsDurable'
  BY DEF LInv, LockInv, SavedIsDurable, Service
<1>3. SessionOwnsRevision'
  BY DEF LInv, TypeOK, SessionOwnsRevision
<1>4. ASSUME NEW c \in Callers PROVE CallInv(c)' /\ ContextInv(c)'
  <2>1. CallInv(c) /\ ContextInv(c)
    BY DEF LInv
  <2>2. pc[c] \in InMu => /\ revision'[Service(c)] = revision[Service(c)]
                          /\ session'[Service(c)] = session[Service(c)]
    BY DEF LInv, TypeOK, LockInv
  <2>3. CallInv(c)'
    BY <2>1, <2>2 DEF CallInv, Service, File, InMu, InLock
  <2>4. context[c] <= session'[Service(c)]
    BY <2>1 DEF ContextInv, LInv, TypeOK
  <2>5. outcome[c] \in Readable \/ published[c] # 0 => pc[c] \in InMu
    BY <2>1 DEF CallInv, LInv, TypeOK, InMu, InLock
  <2>6. ContextInv(c)'
    BY <2>1, <2>2, <2>4, <2>5 DEF ContextInv, Service, InMu, InLock
  <2> QED
    BY <2>3, <2>6
<1> QED
  BY <1>1, <1>2, <1>3, <1>4 DEF LInv

\* Whatever ends a set of processes, the surviving calls keep their locks; what
\* the files lose, only a power loss takes, and then no call survives.
LEMMA RelaunchStep ==
  ASSUME LInv, NEW P \in SUBSET Processes, Relaunch(P), durable' = durable,
         stored' \in Seq(Documents \cup {Missing, Corrupt}),
         durable <= Len(stored'), stored' = stored \/ P = Processes
  PROVE  LInv'
<1> USE Names DEF Relaunch, Clear
<1>1. TypeOK'
  <2>1. durable' \in 1..Len(stored')
    BY DEF LInv, TypeOK
  <2> QED
    BY <2>1 DEF LInv, TypeOK
<1>2. \A c \in Callers : fileLock' = c <=> pc'[c] \in InLock
  BY DEF LInv, TypeOK, LockInv, InLock
<1>3. LockInv'
  BY <1>2 DEF LInv, TypeOK, LockInv, Service, InMu, InLock
<1>4. SavedIsDurable' /\ SessionOwnsRevision'
  BY DEF LInv, TypeOK, SavedIsDurable, SessionOwnsRevision
<1>5. ASSUME NEW c \in Callers PROVE CallInv(c)' /\ ContextInv(c)'
  <2>1. CASE Service(c) \in P
    BY <2>1 DEF CallInv, ContextInv, Service, InLock, Readable
  <2>2. CASE Service(c) \notin P
    <3>1. stored' = stored
      BY <2>2
    <3>2. CallInv(c) /\ ContextInv(c)
      BY DEF LInv
    <3> QED
      BY <2>2, <3>1, <3>2 DEF CallInv, ContextInv, Service, File
  <2> QED
    BY <2>1, <2>2
<1> QED
  BY <1>1, <1>3, <1>4, <1>5 DEF LInv

LEMMA PowerLossKeepsDurable ==
  ASSUME TypeOK, NEW n \in durable..Len(stored), stored' = SubSeq(stored, 1, n)
  PROVE  /\ stored' \in Seq(Documents \cup {Missing, Corrupt})
         /\ Len(stored') = n
         /\ \A i \in 1..n : stored'[i] = stored[i]
<1>1. n \in 1..Len(stored)
  BY DEF TypeOK
<1> QED
  BY <1>1, SubSeqProperties DEF TypeOK

LEMMA KillStep ==
  ASSUME LInv, NEW p \in Processes, Kill(p)
  PROVE  LInv'
<1>1. stored' \in Seq(Documents \cup {Missing, Corrupt}) /\ durable <= Len(stored')
  BY DEF Kill, LInv, TypeOK
<1> QED
  BY <1>1, RelaunchStep DEF Kill

LEMMA PowerLossStep ==
  ASSUME LInv, PowerLoss
  PROVE  LInv'
<1>1. PICK n \in durable..Len(stored) : stored' = SubSeq(stored, 1, n)
  BY DEF PowerLoss
<1>2. stored' \in Seq(Documents \cup {Missing, Corrupt}) /\ durable <= Len(stored')
  BY <1>1, PowerLossKeepsDurable DEF LInv, TypeOK
<1> QED
  BY <1>2, RelaunchStep DEF PowerLoss

LEMMA StutterStep ==
  ASSUME LInv, UNCHANGED vars
  PROVE  LInv'
<1> USE DEF vars, diskVars, serviceVars, callVars
<1>1. TypeOK'
  BY DEF LInv, TypeOK
<1>2. LockInv' /\ SavedIsDurable' /\ SessionOwnsRevision'
  BY DEF LInv, LockInv, SavedIsDurable, SessionOwnsRevision, Service
<1>3. \A c \in Callers : CallInv(c)' /\ ContextInv(c)'
  BY DEF LInv, CallInv, ContextInv, Service, File
<1> QED
  BY <1>1, <1>2, <1>3 DEF LInv

\* The inductive step: every action keeps the invariant.
LEMMA Inductive == LInv /\ [Next]_vars => LInv'
<1> SUFFICES ASSUME LInv, [Next]_vars PROVE LInv'
  OBVIOUS
<1>1. CASE \E c \in Callers : \E r \in Requests[c] : Call(c, r)
  BY <1>1, CallStep
<1>2. ASSUME NEW c \in Callers, Proceed(c) \/ Fail(c) PROVE LInv'
  BY <1>2, EnterStep, PrepareEndsStep, ReturnStep, LockStep, LockGivenUpStep,
     FileStep, RenameStep, SyncDirectoryStep, UnlockStep DEF Proceed, Fail
<1>3. ASSUME NEW p \in Processes,
             BeginStart(p) \/ EndStart(p) \/ Stop(p) \/ Kill(p)
      PROVE  LInv'
  BY <1>3, CancelStep, EndStartStep, KillStep
<1> QED
  BY <1>1, <1>2, <1>3, PowerLossStep, StutterStep DEF Next

LEMMA Invariance == Spec => []LInv
  BY InitLInv, Inductive, PTL DEF Spec

-----------------------------------------------------------------------------

\* The variables keep their types.
THEOREM LibraryTypeCorrect == Spec => []TypeOK
<1>1. LInv => TypeOK
  BY DEF LInv
<1> QED
  BY <1>1, Invariance, PTL

\* A Save that was reported as saved is never lost, whatever number of
\* processes writes, is killed or loses power.
THEOREM SavesAreDurable == Spec => []SavedIsDurable
<1>1. LInv => SavedIsDurable
  BY DEF LInv
<1> QED
  BY <1>1, Invariance, PTL

\* A session compares only with a revision it has observed itself.
THEOREM SessionsDoNotMix == Spec => []SessionOwnsRevision
<1>1. LInv => SessionOwnsRevision
  BY DEF LInv
<1> QED
  BY <1>1, Invariance, PTL

-----------------------------------------------------------------------------
(* The library implements the compare-and-swap store.                      *)

\* The view of the process whose operationMu c holds.
HolderView(c) ==
  IF target[c] = "prepare" /\ outcome[c] = Missing THEN Missing ELSE Remembered(c)

LEMMA ViewOfHolder ==
  ASSUME LInv, NEW c \in Callers, pc[c] \in InMu
  PROVE  operationMu[Service(c)] = c /\ View(Service(c)) = HolderView(c)
BY Names DEF LInv, LockInv, View, HolderView

\* A process keeps its view when a call of another one takes a step.
LEMMA OthersView ==
  ASSUME LInv, NEW c \in Callers, OthersKeep(c),
         NEW p \in Processes, operationMu[p] # c,
         operationMu'[p] = operationMu[p], revision'[p] = revision[p]
  PROVE  View(p)' = View(p)
<1>1. CASE operationMu[p] = Nobody
  BY <1>1 DEF View
<1>2. CASE operationMu[p] # Nobody
  <2>1. PICK d \in Callers \ {c} : operationMu[p] = d /\ Service(d) = p
    BY <1>2 DEF LInv, LockInv, TypeOK
  <2> QED
    BY <2>1, Names DEF View, Remembered, Loaded, OthersKeep, Service
<1> QED
  BY <1>1, <1>2

\* The step of a call is a step of its process's view only.
LEMMA OnlyOwnView ==
  ASSUME LInv, NEW c \in Callers, OthersKeep(c),
         \A p \in Processes \ {Service(c)} :
           operationMu'[p] = operationMu[p] /\ revision'[p] = revision[p]
  PROVE  \A p \in Processes \ {Service(c)} : View(p)' = View(p)
<1> SUFFICES ASSUME NEW p \in Processes \ {Service(c)} PROVE View(p)' = View(p)
  OBVIOUS
<1>1. operationMu[p] # c
  BY Names DEF LInv, LockInv
<1> QED
  BY <1>1, OthersView

LEMMA Stutters ==
  ASSUME UNCHANGED <<stored, durable>>, \A p \in Processes : View(p)' = View(p)
  PROVE  UNCHANGED Store!vars
<1>1. [p \in Processes |-> View(p)]' = [p \in Processes |-> View(p)]
  OBVIOUS
<1> QED
  BY <1>1 DEF Store!vars

LEMMA InitImplements == Init => Store!Init
<1> SUFFICES ASSUME Init PROVE Store!Init
  OBVIOUS
<1>1. stored \in {<<d>> : d \in Documents \cup {Missing, Corrupt}}
  BY LibraryAssumption DEF Init
<1>2. [p \in Processes |-> View(p)] = [p \in Processes |-> Unknown]
  BY DEF Init, View
<1> QED
  BY <1>1, <1>2 DEF Init, Store!Init

\* Taking operationMu, giving it back, and the steps in between that observe
\* or store nothing leave every view as it is.
LEMMA CallStutters ==
  ASSUME LInv, NEW c \in Callers, NEW r \in Requests[c], Call(c, r)
  PROVE  UNCHANGED Store!vars
<1> USE Names DEF Call, Become, diskVars, serviceVars
<1>1. OthersKeep(c)
  BY DEF LInv, TypeOK, OthersKeep
<1>2. \A p \in Processes : operationMu[p] # c
  BY DEF LInv, LockInv, InMu, InLock
<1>3. \A p \in Processes : View(p)' = View(p)
  BY <1>1, <1>2, OthersView
<1> QED
  BY <1>3, Stutters

LEMMA EnterStutters ==
  ASSUME LInv, NEW c \in Callers, Enter(c)
  PROVE  UNCHANGED Store!vars
<1> USE Names DEF Enter, EndWith, Become, diskVars
<1>1. OthersKeep(c) /\ operationMu'[Service(c)] = c /\ revision' = revision
  BY DEF LInv, TypeOK, OthersKeep
<1>2. \A p \in Processes \ {Service(c)} : View(p)' = View(p)
  BY <1>1, OnlyOwnView DEF LInv, TypeOK
<1>3. outcome'[c] = "failed" /\ published'[c] = 0
  BY DEF LInv, TypeOK, CallInv
<1>4. View(Service(c))' = revision[Service(c)]
  BY <1>1, <1>3 DEF View, Remembered, Loaded, Service, Readable
<1>5. View(Service(c)) = revision[Service(c)]
  BY DEF View
<1> QED
  BY <1>2, <1>4, <1>5, Stutters

LEMMA PrepareEndsStutters ==
  ASSUME LInv, NEW c \in Callers, PrepareEnds(c)
  PROVE  UNCHANGED Store!vars
<1> USE Names DEF PrepareEnds, EndWith, Become, diskVars
<1>1. OthersKeep(c) /\ operationMu' = operationMu
  BY DEF LInv, TypeOK, OthersKeep
<1>2. \A p \in Processes \ {Service(c)} : revision'[p] = revision[p]
  BY DEF LInv, TypeOK
<1>3. \A p \in Processes \ {Service(c)} : View(p)' = View(p)
  BY <1>1, <1>2, OnlyOwnView
<1>4. operationMu[Service(c)] = c /\ View(Service(c)) = Missing
  BY ViewOfHolder DEF HolderView, InMu
<1>5. /\ target'[c] = "save" /\ outcome'[c] = "failed" /\ published'[c] = 0
      /\ revision'[Service(c)] = Missing
  BY DEF LInv, TypeOK, CallInv
<1>6. View(Service(c))' = Missing
  BY <1>1, <1>4, <1>5 DEF View, Remembered, Loaded, Service
<1> QED
  BY <1>3, <1>4, <1>6, Stutters

LEMMA ReturnStutters ==
  ASSUME LInv, NEW c \in Callers, Return(c)
  PROVE  UNCHANGED Store!vars
<1> USE Names DEF Return, Clear, diskVars
<1>1. OthersKeep(c)
  BY DEF LInv, TypeOK, OthersKeep
<1>2. \A p \in Processes \ {Service(c)} :
        operationMu'[p] = operationMu[p] /\ revision'[p] = revision[p]
  BY DEF LInv, TypeOK
<1>3. \A p \in Processes \ {Service(c)} : View(p)' = View(p)
  BY <1>1, <1>2, OnlyOwnView
<1>4. View(Service(c)) = Remembered(c)
  BY ViewOfHolder DEF HolderView, InMu
<1>5. operationMu'[Service(c)] = Nobody /\ revision'[Service(c)] = Remembered(c)
  BY DEF LInv, TypeOK
<1>6. View(Service(c))' = Remembered(c)
  BY <1>5 DEF View, Service
<1> QED
  BY <1>3, <1>4, <1>6, Stutters

\* A step of a call that keeps operationMu and the revision, seen abstractly.
LEMMA HolderStep ==
  ASSUME LInv, NEW c \in Callers, pc[c] \in InMu, OthersKeep(c),
         operationMu' = operationMu, revision' = revision
  PROVE  /\ \A p \in Processes \ {Service(c)} : View(p)' = View(p)
         /\ View(Service(c)) = HolderView(c)
         /\ View(Service(c))' = HolderView(c)'
<1>1. \A p \in Processes \ {Service(c)} : View(p)' = View(p)
  BY OnlyOwnView
<1>2. operationMu[Service(c)] = c /\ View(Service(c)) = HolderView(c)
  BY ViewOfHolder
<1>3. View(Service(c))' = HolderView(c)'
  BY <1>2, Names DEF View, HolderView, Service
<1> QED
  BY <1>1, <1>2, <1>3

LEMMA LockStutters ==
  ASSUME LInv, NEW c \in Callers,
         Lock(c) \/ LockCanceled(c) \/ LockFails(c) \/ Unlock(c) \/ FileFails(c)
  PROVE  UNCHANGED Store!vars
<1> USE Names DEF Lock, LockCanceled, LockFails, Unlock, FileFails, EndWith,
                  Become, diskVars, serviceVars
<1>1. OthersKeep(c) /\ pc[c] \in InMu
  BY DEF LInv, TypeOK, OthersKeep, InMu, InLock
<1>2. outcome'[c] = outcome[c]
  BY DEF LInv, TypeOK, CallInv
<1>3. HolderView(c)' = HolderView(c)
  BY <1>2 DEF HolderView, Remembered, Loaded, Service
<1>4. operationMu' = operationMu /\ revision' = revision
      /\ UNCHANGED <<stored, durable>>
  OBVIOUS
<1> QED
  BY <1>1, <1>3, <1>4, HolderStep, Stutters

\* A Save that ends before it writes leaves the view of its process alone.
LEMMA CompareStutters ==
  ASSUME LInv, NEW c \in Callers, Compare(c) \/ SyncFails(c)
  PROVE  UNCHANGED Store!vars
<1> USE Names DEF Compare, SyncFails, EndWith, Become, diskVars, serviceVars
<1>1. OthersKeep(c) /\ pc[c] \in InMu
  BY DEF LInv, TypeOK, OthersKeep, InMu, InLock
<1>2. target[c] = "save"
  BY DEF LInv, CallInv
<1>3. HolderView(c)' = HolderView(c)
  BY <1>2 DEF HolderView, Remembered, Loaded, Service
<1>4. operationMu' = operationMu /\ revision' = revision
      /\ UNCHANGED <<stored, durable>>
  OBVIOUS
<1> QED
  BY <1>1, <1>3, <1>4, HolderStep, Stutters

\* Reading a document observes it, reading a corrupt one or an existing one
\* for a blind Save does not.
LEMMA ReadObserves ==
  ASSUME LInv, NEW c \in Callers, Read(c)
  PROVE  Store!Observe(Service(c)) \/ UNCHANGED Store!vars
<1> USE Names DEF Read, EndWith, Become, diskVars, serviceVars
<1>1. OthersKeep(c) /\ pc[c] \in InMu
  BY DEF LInv, TypeOK, OthersKeep, InMu, InLock
<1>2. operationMu' = operationMu /\ revision' = revision
      /\ UNCHANGED <<stored, durable>>
  OBVIOUS
<1>3. /\ \A p \in Processes \ {Service(c)} : View(p)' = View(p)
      /\ View(Service(c)) = HolderView(c)
      /\ View(Service(c))' = HolderView(c)'
  BY <1>1, <1>2, HolderStep
<1>4. outcome[c] = "failed" /\ published[c] = 0
  BY DEF LInv, CallInv
<1>5. HolderView(c) = revision[Service(c)]
  BY <1>4 DEF HolderView, Remembered, Loaded, Readable
<1>6. /\ outcome'[c] \in {"failed", File} /\ published'[c] = 0
      /\ target'[c] \in {"load", "prepare"} /\ target'[c] = target[c]
  BY <1>4 DEF LInv, TypeOK
<1>7. \/ HolderView(c)' = revision[Service(c)]
      \/ HolderView(c)' = File /\ File # Corrupt
  BY <1>2, <1>6 DEF HolderView, Remembered, Loaded, Service, Readable
<1>8. CASE HolderView(c)' = revision[Service(c)]
  BY <1>2, <1>3, <1>5, <1>8, Stutters
<1>9. CASE HolderView(c)' = File /\ File # Corrupt
  <2>1. [p \in Processes |-> View(p)]' =
          [[p \in Processes |-> View(p)] EXCEPT ![Service(c)] = File]
    BY <1>3, <1>9
  <2> QED
    BY <2>1, <1>2, <1>9 DEF Store!Observe, Store!Current, File
<1> QED
  BY <1>7, <1>8, <1>9

\* A Save replaces the document its process has seen last.
LEMMA RenameReplaces ==
  ASSUME LInv, NEW c \in Callers, Rename(c)
  PROVE  Store!Replace(Service(c), request[c]) /\ request[c] \in Documents
<1> USE Names DEF Rename, Become, serviceVars
<1>1. OthersKeep(c) /\ pc[c] \in InMu
  BY DEF LInv, TypeOK, OthersKeep, InMu, InLock
<1>2. /\ \A p \in Processes \ {Service(c)} : View(p)' = View(p)
      /\ View(Service(c)) = HolderView(c)
      /\ View(Service(c))' = HolderView(c)'
  BY <1>1, HolderStep
<1>3. /\ target[c] = "save" /\ request[c] \in Documents /\ outcome[c] = "failed"
      /\ published[c] = 0 /\ revision[Service(c)] = File
  BY DEF LInv, CallInv
<1>4. HolderView(c) = File
  BY <1>3 DEF HolderView, Remembered, Loaded
<1>5. published'[c] # 0 /\ target' = target /\ request' = request
  BY DEF LInv, TypeOK
<1>6. HolderView(c)' = request[c]
  BY <1>3, <1>5 DEF HolderView, Remembered, Loaded
<1>7. [p \in Processes |-> View(p)]' =
        [[p \in Processes |-> View(p)] EXCEPT ![Service(c)] = request[c]]
  BY <1>2, <1>6
<1>8. [p \in Processes |-> View(p)][Service(c)] = Store!Current
  BY <1>2, <1>4 DEF Store!Current, File
<1> QED
  BY <1>3, <1>7, <1>8 DEF Store!Replace

LEMMA SyncPersists ==
  ASSUME LInv, NEW c \in Callers, SyncDirectory(c)
  PROVE  Store!Persist
<1> USE Names DEF SyncDirectory, EndWith, Become, serviceVars
<1>1. OthersKeep(c) /\ pc[c] \in InMu
  BY DEF LInv, TypeOK, OthersKeep, InMu, InLock
<1>2. target[c] = "save"
  BY DEF LInv, CallInv
<1>3. HolderView(c)' = HolderView(c)
  BY <1>2 DEF HolderView, Remembered, Loaded, Service
<1>4. \A p \in Processes : View(p)' = View(p)
  BY <1>1, <1>3, HolderStep
<1>5. [p \in Processes |-> View(p)]' = [p \in Processes |-> View(p)]
  BY <1>4
<1> QED
  BY <1>5 DEF Store!Persist

LEMMA CancelStutters ==
  ASSUME NEW p \in Processes, BeginStart(p) \/ Stop(p)
  PROVE  UNCHANGED Store!vars
BY Stutters DEF BeginStart, Stop, View, Remembered, Loaded, Service, diskVars, callVars

LEMMA EndStartForgets ==
  ASSUME LInv, NEW p \in Processes, EndStart(p)
  PROVE  Store!Forget(p)
<1> USE Names DEF EndStart, diskVars, callVars
<1>1. View(p)' = Unknown
  BY DEF View, LInv, TypeOK
<1>2. ASSUME NEW q \in Processes \ {p} PROVE View(q)' = View(q)
  <2>1. revision'[q] = revision[q] /\ operationMu' = operationMu
    BY DEF LInv, TypeOK
  <2>2. CASE operationMu[q] = Nobody
    BY <2>1, <2>2 DEF View
  <2>3. CASE operationMu[q] # Nobody
    <3>1. Service(operationMu[q]) = q
      BY <2>3 DEF LInv, LockInv
    <3> QED
      BY <2>1, <2>3, <3>1 DEF View, Remembered, Loaded, Service
  <2> QED
    BY <2>2, <2>3
<1>3. [q \in Processes |-> View(q)]' =
        [[q \in Processes |-> View(q)] EXCEPT ![p] = Unknown]
  BY <1>1, <1>2
<1> QED
  BY <1>3 DEF Store!Forget

\* Relaunched processes forget what they have seen, the others do not.
LEMMA RelaunchForgets ==
  ASSUME LInv, NEW P \in SUBSET Processes, Relaunch(P)
  PROVE  \A p \in Processes : View(p)' = IF p \in P THEN Unknown ELSE View(p)
<1> USE Names DEF Relaunch, Clear
<1> SUFFICES ASSUME NEW p \in Processes
             PROVE  View(p)' = IF p \in P THEN Unknown ELSE View(p)
  OBVIOUS
<1>1. CASE p \in P
  BY <1>1 DEF View
<1>2. CASE p \notin P
  <2>1. operationMu'[p] = operationMu[p] /\ revision'[p] = revision[p]
    BY <1>2
  <2>2. CASE operationMu[p] = Nobody
    BY <1>2, <2>1, <2>2 DEF View
  <2>3. CASE operationMu[p] # Nobody
    <3>1. PICK d \in Callers : operationMu[p] = d /\ Service(d) = p
      BY <2>3 DEF LInv, LockInv, TypeOK
    <3>2. /\ target'[d] = target[d] /\ outcome'[d] = outcome[d]
          /\ published'[d] = published[d] /\ request'[d] = request[d]
      BY <1>2, <3>1
    <3> HIDE DEF Relaunch, Clear
    <3> QED
      BY <1>2, <2>1, <3>1, <3>2 DEF View, Remembered, Loaded, Service
  <2> QED
    BY <2>2, <2>3
<1> QED
  BY <1>1, <1>2

LEMMA KillForgets ==
  ASSUME LInv, NEW p \in Processes, Kill(p)
  PROVE  Store!Forget(p)
<1>1. \A q \in Processes : View(q)' = IF q = p THEN Unknown ELSE View(q)
  BY RelaunchForgets DEF Kill
<1>2. [q \in Processes |-> View(q)]' =
        [[q \in Processes |-> View(q)] EXCEPT ![p] = Unknown]
  BY <1>1
<1> QED
  BY <1>2 DEF Store!Forget, Kill

LEMMA PowerLossImplements ==
  ASSUME LInv, PowerLoss
  PROVE  Store!PowerLoss
<1>1. \A q \in Processes : View(q)' = Unknown
  BY RelaunchForgets DEF PowerLoss
<1>2. [q \in Processes |-> View(q)]' = [q \in Processes |-> Unknown]
  BY <1>1
<1> QED
  BY <1>2 DEF Store!PowerLoss, PowerLoss

LEMMA StepImplements == LInv /\ [Next]_vars => [Store!Next]_(Store!vars)
<1> SUFFICES ASSUME LInv, [Next]_vars PROVE [Store!Next]_(Store!vars)
  OBVIOUS
<1>1. CASE \E c \in Callers : \E r \in Requests[c] : Call(c, r)
  BY <1>1, CallStutters
<1>2. ASSUME NEW c \in Callers, Read(c) PROVE [Store!Next]_(Store!vars)
  BY <1>2, ReadObserves, Names DEF Store!Next
<1>3. ASSUME NEW c \in Callers, Rename(c) PROVE [Store!Next]_(Store!vars)
  BY <1>3, RenameReplaces, Names DEF Store!Next
<1>4. ASSUME NEW c \in Callers, SyncDirectory(c) PROVE [Store!Next]_(Store!vars)
  BY <1>4, SyncPersists DEF Store!Next
<1>5. ASSUME NEW c \in Callers, Proceed(c) \/ Fail(c)
      PROVE  [Store!Next]_(Store!vars)
  BY <1>2, <1>3, <1>4, <1>5, EnterStutters, PrepareEndsStutters, ReturnStutters,
     LockStutters, CompareStutters DEF Proceed, Fail
<1>6. ASSUME NEW p \in Processes,
             BeginStart(p) \/ EndStart(p) \/ Stop(p) \/ Kill(p)
      PROVE  [Store!Next]_(Store!vars)
  BY <1>6, CancelStutters, EndStartForgets, KillForgets DEF Store!Next
<1>7. CASE PowerLoss
  BY <1>7, PowerLossImplements DEF Store!Next
<1>8. CASE UNCHANGED vars
  <2>1. \A p \in Processes : View(p)' = View(p)
    BY <1>8 DEF vars, diskVars, serviceVars, callVars, View, Remembered, Loaded,
                Service
  <2> QED
    BY <1>8, <2>1, Stutters DEF vars, diskVars
<1> QED
  BY <1>1, <1>5, <1>6, <1>7, <1>8 DEF Next

\* For any number of processes and callers, the library is a compare-and-swap
\* store: a Save never replaces a document its process has not seen last.
THEOREM LibraryImplementsStore == Spec => ImplementsStore
<1>1. Spec => Store!Init
  BY InitImplements DEF Spec
<1>2. Spec => [][Store!Next]_(Store!vars)
  BY Invariance, StepImplements, PTL DEF Spec
<1> QED
  BY <1>1, <1>2 DEF ImplementsStore, Store!Spec
=============================================================================
