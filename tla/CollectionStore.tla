-------------------------- MODULE CollectionStore --------------------------
(***************************************************************************)
(* The collection library in the renderer: the store that edits it         *)
(* (stores/collectionLibrary.ts), the storage that sends every edition of  *)
(* it to the host and tells the user what became of it                     *)
(* (stores/collectionLibraryStorage.ts), and the sidebar that calls both   *)
(* (native/chrome/sidebar.ts).                                             *)
(*                                                                         *)
(* An event of the renderer, with the promise callbacks it runs, is one    *)
(* step.  The host is a queue of calls over the file: the sidecar answers  *)
(* them in order and may report an error for a document it has renamed in; *)
(* the host the end-to-end tests put in its place answers in any order.    *)
(***************************************************************************)
EXTENDS Integers, Sequences, FiniteSets, SequencesExt

CONSTANTS
  CollectionIds, RequestIds,  \* what crypto.randomUUID will return
  Nowhere,      \* collection of a request that does not exist
  Missing,      \* no library file, or no legacy document
  Newer,        \* a document written by a newer application
  Nothing,      \* undefined
  FirstFiles,   \* what the file may hold at first
  FirstLegacy,  \* what localStorage may hold at first
  MaxEditions,  \* bound: edits of the library
  MaxRetries,   \* bound: retries
  MaxWindows,   \* bound: windows opened one after the other
  MaxOthers     \* bound: writes by another process

\* A library is the value its editions tell apart: which collections there
\* are, where each request is, and the edit that made it so (updatedAt), 0 for
\* those that were there first.
Libraries == [edition : Nat, collections : SUBSET CollectionIds,
              home : [RequestIds -> CollectionIds \cup {Nowhere}]]

Empty == [edition |-> 0, collections |-> {},
          home |-> [r \in RequestIds |-> Nowhere]]

ASSUME StoreAssumption ==
  /\ Nowhere \notin CollectionIds
  /\ FirstFiles \subseteq Libraries \cup {Missing, Newer}
  /\ FirstLegacy \subseteq Libraries \cup {Missing}
  /\ {Missing, Newer, Nothing} \cap Libraries = {}
  /\ Missing # Newer /\ Missing # Nothing /\ Newer # Nothing
  /\ \A d \in FirstFiles \cup FirstLegacy : d \in Libraries => d.edition = 0
  /\ MaxEditions \in Nat /\ MaxRetries \in Nat
  /\ MaxWindows \in Nat /\ MaxOthers \in Nat

VARIABLES
  \* the renderer
  library,       \* state of collectionLibraryStore
  hydration,     \* "idle", "reading" or "migrating": hydrationInProgress
  persistenceEnabled,
  storage,       \* variables of collectionLibraryStorage.ts, see Started
  waiter,        \* calls that await waitForCollectionLibraryPersistence
  legacy,        \* the document under the legacy key of localStorage
  \* the host
  host,          \* "serial" or "unordered"
  calls,         \* calls the host has not answered, oldest first
  file,          \* the library file
  observed,      \* the revision the service of the host knows
  \* history and bounds
  edits, used, retries, windows, others

rendererVars == <<library, hydration, persistenceEnabled, storage, waiter>>
hostVars == <<host, calls, file, observed>>
counters == <<edits, used, retries, windows, others>>
vars == <<rendererVars, legacy, hostVars, counters>>

\* The variables of the storage module when the application starts.
\* latestWrite is a persistence cycle, 0 when it is a promise resolved to true.
Started ==
  [phase |-> "loading", hydrated |-> FALSE, error |-> "none",
   latestDocument |-> Nothing, lastRequestedDocument |-> Nothing,
   latestWrite |-> 0, cycles |-> <<>>, active |-> 0,
   sequence |-> 0, settled |-> "none", staleSuccess |-> FALSE]

LoadCall == [kind |-> "load", window |-> windows, document |-> Nothing,
             sequence |-> 0, cycle |-> 0]

SaveCall(s, document) ==
  [kind |-> "save", window |-> windows, document |-> document,
   sequence |-> s.sequence, cycle |-> s.active]

\* pendingWrites: the saves of this window in a queue of calls.
Pending(queue) ==
  Cardinality({i \in 1..Len(queue) : queue[i].kind = "save" /\ queue[i].window = windows})

-----------------------------------------------------------------------------
(* The storage *)

\* saveNativeDocument: what it does to the storage; the call follows.
Saving(s, document) ==
  LET joined == s.active # 0   \* getOrCreateNativePersistenceCycle
      cycle == IF joined THEN s.active ELSE Len(s.cycles) + 1
  IN  [s EXCEPT
         !.latestDocument = document,
         !.sequence = @ + 1,
         !.settled = "none",
         !.staleSuccess = FALSE,
         !.cycles = IF joined THEN @ ELSE Append(@, "open"),
         !.active = cycle,
         !.latestWrite = IF joined THEN @ ELSE cycle,
         !.phase = IF s.hydrated THEN "saving" ELSE @,
         !.error = IF s.hydrated THEN "none" ELSE @]

\* settleNativePersistenceCycle
Settle(s, outcome) ==
  [s EXCEPT !.cycles[s.active] = outcome, !.active = 0]

\* markReady and markFailure
Ready(s) == [s EXCEPT !.phase = "ready", !.error = "none"]
Failure(s, error) == [s EXCEPT !.phase = "error", !.error = error]

\* A compensating write is due: every write has settled, the newest was saved
\* and an older one was saved after it.
Compensates(s, cycle, pending) ==
  /\ s.active = cycle
  /\ pending = 0
  /\ s.settled = "saved"
  /\ s.staleSuccess

\* Mutant: an open cycle settles with its newest write.
StabilizeEarly(s, cycle, pending) ==
  IF s.active # cycle \/ s.settled = "none" THEN s
  ELSE IF s.settled = "failed" THEN Settle(s, "failed")
  ELSE IF Compensates(s, cycle, pending) THEN Saving(s, s.latestDocument)
  ELSE Settle(IF s.hydrated THEN Ready(s) ELSE s, "saved")

\* stabilizeNativePersistenceCycle
Stabilize(s, cycle, pending) ==
  IF s.active # cycle \/ pending > 0 \/ s.settled = "none" THEN s
  ELSE IF s.settled = "failed" THEN Settle(s, "failed")
  ELSE IF Compensates(s, cycle, pending) THEN Saving(s, s.latestDocument)
  ELSE Settle(IF s.hydrated THEN Ready(s) ELSE s, "saved")

\* Mutant: an older write that is saved late is never noticed.
ForgetsOlder(s, call, outcome, pending) ==
  IF call.sequence # s.sequence THEN s
  ELSE IF outcome = "saved"
  THEN [s EXCEPT !.settled = "saved", !.staleSuccess = FALSE,
                 !.lastRequestedDocument = call.document,
                 !.phase = IF s.hydrated /\ pending > 0 THEN "saving" ELSE @,
                 !.error = IF s.hydrated /\ pending > 0 THEN "none" ELSE @]
  ELSE Failure([s EXCEPT !.settled = "failed", !.staleSuccess = FALSE], outcome)

\* What the answer to a write records; only the newest write counts, an older
\* one is remembered when it was saved after the newest.
Recorded(s, call, outcome, pending) ==
  IF call.sequence # s.sequence
  THEN [s EXCEPT !.staleSuccess = @ \/ (outcome = "saved" /\ s.settled = "saved")]
  ELSE IF outcome = "saved"
  THEN [s EXCEPT !.settled = "saved", !.staleSuccess = FALSE,
                 !.lastRequestedDocument = call.document,
                 !.phase = IF s.hydrated /\ pending > 0 THEN "saving" ELSE @,
                 !.error = IF s.hydrated /\ pending > 0 THEN "none" ELSE @]
  ELSE Failure([s EXCEPT !.settled = "failed", !.staleSuccess = FALSE], outcome)

\* finishCollectionLibraryHydration without an error: an error of the
\* migration stays, an error of the read leaves the library unloaded.
Hydrated(s, pending) ==
  IF s.phase = "error"
  THEN [s EXCEPT !.hydrated = s.error \notin {"read", "newer"}]
  ELSE [s EXCEPT !.hydrated = TRUE, !.error = "none",
                 !.phase = IF pending > 0 THEN "saving" ELSE "ready"]

\* hydrateLibraryData: a request without its collection is dropped.
Hydrate(document) ==
  [document EXCEPT !.home = [r \in RequestIds |->
     IF document.home[r] \in document.collections THEN document.home[r]
                                                  ELSE Nowhere]]

\* setItem: a document that was already requested is not sent again.
SetItem(document) ==
  IF document = storage.lastRequestedDocument
  THEN /\ storage' = [storage EXCEPT !.latestDocument = document]
       /\ UNCHANGED calls
  ELSE LET s == Saving([storage EXCEPT !.lastRequestedDocument = document],
                       document)
       IN  storage' = s /\ calls' = Append(calls, SaveCall(s, document))

\* persistCollectionLibrary, the listener of the store.
Persist(document) ==
  IF hydration = "idle" /\ persistenceEnabled THEN SetItem(document)
  ELSE UNCHANGED <<storage, calls>>

-----------------------------------------------------------------------------
(* The host *)

\* The call whose answer comes next: the oldest, unless the host is the one of
\* the tests.
MayAnswer(i) == i = 1 \/ host = "unordered"

\* rehydrateCollectionLibrary after getItem returned a document or null.
Loaded(document, s, queue) ==
  LET t == IF document = Newer
           THEN Failure([s EXCEPT !.hydrated = FALSE], "newer")
           ELSE Hydrated(s, Pending(queue))
  IN  /\ library' = IF document \in {Nothing, Newer} THEN library
                    ELSE Hydrate(document)
      /\ storage' = t
      /\ persistenceEnabled' = t.hydrated
      /\ hydration' = "idle"
      /\ calls' = queue

\* The answer to loadCollectionLibrary.  A legacy document is sent to the host
\* first, and the hydration waits for that write.
AnswerLoad(i) ==
  LET queue == RemoveAt(calls, i)
      read == [storage EXCEPT !.latestDocument = file,
                              !.lastRequestedDocument = file,
                              !.latestWrite = 0]
      moving == Saving(storage, legacy)
  IN  /\ MayAnswer(i)
      /\ calls[i].kind = "load"
      /\ \/ /\ UNCHANGED observed    \* the file cannot be read
            /\ Loaded(Nothing, Failure(storage, "read"), queue)
         \/ /\ observed' = file
            /\ \/ file # Missing /\ Loaded(file, read, queue)
               \/ /\ file = Missing /\ legacy # Missing
                  /\ storage' = moving
                  /\ hydration' = "migrating"
                  /\ calls' = Append(queue, SaveCall(moving, legacy))
                  /\ UNCHANGED <<library, persistenceEnabled>>
               \/ /\ file = Missing /\ legacy = Missing
                  /\ Loaded(Nothing, [storage EXCEPT !.latestWrite = 0], queue)
      /\ UNCHANGED <<waiter, legacy, host, file, counters>>

\* What the renderer does with the answer to save call i; the hydration goes
\* on when it was the write of a legacy document.
AnswerSave(i, outcome) ==
  LET call == calls[i]
      queue == RemoveAt(calls, i)
      pending == Pending(queue)
      recorded == Recorded(storage, call, outcome, pending)
      stable == Stabilize(recorded, call.cycle, pending)
  IN  IF call.window # windows
      THEN /\ calls' = queue
           /\ UNCHANGED <<rendererVars, legacy>>
      ELSE IF hydration = "migrating"
      THEN /\ legacy' = IF outcome = "saved" THEN Missing ELSE legacy
           /\ Loaded(legacy, stable, queue)
           /\ UNCHANGED waiter
      ELSE /\ storage' = stable
           /\ calls' = IF Compensates(recorded, call.cycle, pending)
                       THEN Append(queue, SaveCall(stable, stable.latestDocument))
                       ELSE queue
           /\ UNCHANGED <<library, hydration, persistenceEnabled, waiter, legacy>>

\* The host stores the document of a save whose expected revision is the
\* file's.  An error after the rename (directory sync) leaves it stored.
SaveAnswered(i) ==
  /\ MayAnswer(i)
  /\ calls[i].kind = "save"
  /\ \/ /\ file = observed
        /\ file' = calls[i].document
        /\ observed' = calls[i].document
        /\ \/ AnswerSave(i, "saved")
           \/ host = "serial" /\ AnswerSave(i, "write")
     \/ /\ file # observed
        /\ AnswerSave(i, "conflict")
        /\ UNCHANGED <<file, observed>>
  /\ UNCHANGED <<host, counters>>

\* A save is refused before it is queued, or fails before the rename.
SaveRefused(i) ==
  /\ calls[i].kind = "save"
  /\ AnswerSave(i, "write")
  /\ UNCHANGED <<host, file, observed, counters>>

\* Another process replaces the library.
OtherProcessSaves ==
  /\ others < MaxOthers
  /\ others' = others + 1
  /\ file' = [Empty EXCEPT !.edition = MaxEditions + others + 1]
  /\ UNCHANGED <<rendererVars, legacy, host, calls, observed, edits, used,
                 retries, windows>>

-----------------------------------------------------------------------------
(* Edits *)

\* Mutant: the lock ends with the error that a later write replaces.
EditableWhenHydrated == storage.hydrated

\* readOnly of the sidebar and canMutateCollectionLibrary of the workspace;
\* the collections are shown only when hydrated.
Editable == storage.hydrated /\ storage.error # "conflict"

\* set of the store: the library changes and its listener persists it.
Edit(collections, home) ==
  LET next == [edition |-> edits + 1, collections |-> collections, home |-> home]
  IN  /\ edits < MaxEditions
      /\ edits' = edits + 1
      /\ library' = next
      /\ Persist(next)
      /\ UNCHANGED <<hydration, persistenceEnabled, legacy, host, file, observed,
                     retries, windows, others>>

Known(c) == c \in library.collections
Saved(r) == library.home[r] # Nowhere

CreateCollection(c) ==
  /\ Editable
  /\ c \notin used
  /\ used' = used \cup {c}
  /\ Edit(library.collections \cup {c}, library.home)
  /\ UNCHANGED waiter

Rename ==
  /\ Editable
  /\ library.collections # {}
  /\ Edit(library.collections, library.home)
  /\ UNCHANGED <<waiter, used>>

DeleteCollection(c) ==
  /\ Editable
  /\ Known(c)
  /\ Edit(library.collections \ {c},
          [r \in RequestIds |-> IF library.home[r] = c THEN Nowhere
                                                       ELSE library.home[r]])
  /\ UNCHANGED <<waiter, used>>

MoveRequest(r, c) ==
  /\ Editable
  /\ Saved(r) /\ Known(c) /\ library.home[r] # c
  /\ Edit(library.collections, [library.home EXCEPT ![r] = c])
  /\ UNCHANGED <<waiter, used>>

DeleteRequest(r) ==
  /\ Editable
  /\ Saved(r)
  /\ Edit(library.collections, [library.home EXCEPT ![r] = Nowhere])
  /\ UNCHANGED <<waiter, used>>

\* A call waits for the promise that is latestWrite after its edit.
Waits(w) ==
  waiter' = [waiter EXCEPT ![w] =
    [at |-> "waiting", edition |-> edits + 1, promise |-> storage'.latestWrite]]

\* persistSavedRequest of the workspace: saveRequest, or upsertRequest of a
\* request saved before, then the wait.
SaveRequest(r, c) ==
  /\ Editable
  /\ waiter["request"].at = "idle"
  /\ Known(c)
  /\ Saved(r) \/ r \notin used
  /\ used' = used \cup {r}
  /\ Edit(library.collections, [library.home EXCEPT ![r] = c])
  /\ Waits("request")

\* toggleCollection: the document is the same, the listener runs.
ToggleCollection ==
  /\ storage.hydrated
  /\ library.collections # {}
  /\ Persist(library)
  /\ UNCHANGED <<library, hydration, persistenceEnabled, waiter, legacy, host,
                 file, observed, counters>>

\* importCollection: the file dialog and the preview are awaited in between,
\* and the library is not asked again whether it may be edited.
BeginImport ==
  /\ Editable
  /\ waiter["import"].at = "idle"
  /\ waiter' = [waiter EXCEPT !["import"].at = "choosing"]
  /\ UNCHANGED <<library, hydration, persistenceEnabled, storage, legacy,
                 hostVars, counters>>

CancelImport ==
  /\ waiter["import"].at = "choosing"
  /\ waiter' = [waiter EXCEPT !["import"].at = "idle"]
  /\ UNCHANGED <<library, hydration, persistenceEnabled, storage, legacy,
                 hostVars, counters>>

ConfirmImport(c, R) ==
  /\ waiter["import"].at = "choosing"
  /\ c \notin used /\ R \cap used = {}
  /\ used' = used \cup {c} \cup R
  /\ Edit(library.collections \cup {c},
          [r \in RequestIds |-> IF r \in R THEN c ELSE library.home[r]])
  /\ Waits("import")

\* The awaited promise has settled and the call reports what it resolved to.
Outcome(w) ==
  IF waiter[w].promise = 0 THEN "saved" ELSE storage.cycles[waiter[w].promise]

Report(w) ==
  /\ waiter[w].at = "waiting"
  /\ Outcome(w) # "open"
  /\ waiter' = [waiter EXCEPT ![w] = [at |-> "idle", edition |-> 0, promise |-> 0]]
  /\ UNCHANGED <<library, hydration, persistenceEnabled, storage, legacy,
                 hostVars, counters>>

-----------------------------------------------------------------------------
(* Retries and windows *)

\* retryStorage after a failed write; the button is hidden on a conflict.
RetryWrite ==
  LET s == Saving(storage, storage.latestDocument)
  IN  /\ storage.hydrated /\ storage.phase = "error"
      /\ storage.error = "write"
      /\ retries < MaxRetries
      /\ retries' = retries + 1
      /\ storage' = s
      /\ calls' = Append(calls, SaveCall(s, s.latestDocument))
      /\ UNCHANGED <<library, hydration, persistenceEnabled, waiter, legacy, host,
                     file, observed, edits, used, windows, others>>

\* retryStorage after a failed read: rehydrate.
RetryRead ==
  /\ storage.phase = "error" /\ storage.error \in {"read", "newer"}
  /\ hydration = "idle"
  /\ retries < MaxRetries
  /\ retries' = retries + 1
  /\ hydration' = "reading"
  /\ persistenceEnabled' = FALSE
  /\ storage' = [storage EXCEPT !.phase = "loading", !.hydrated = FALSE,
                                !.error = "none"]
  /\ calls' = Append(calls, LoadCall)
  /\ UNCHANGED <<library, waiter, legacy, host, file, observed, edits, used,
                 windows, others>>

\* The window is closed and opened again while the sidecar lives (activate):
\* its calls are still served, nobody hears the answers.  A load that waits is
\* the last of them, and the load of the new window takes its place.
Reopen ==
  /\ host = "serial"
  /\ windows < MaxWindows
  /\ windows' = windows + 1
  /\ library' = Empty
  /\ hydration' = "reading"
  /\ persistenceEnabled' = FALSE
  /\ storage' = Started
  /\ waiter' = [w \in {"import", "request"} |->
                  [at |-> "idle", edition |-> 0, promise |-> 0]]
  /\ calls' = Append(IF hydration = "reading" THEN Front(calls) ELSE calls,
                     [LoadCall EXCEPT !.window = windows + 1])
  /\ UNCHANGED <<legacy, host, file, observed, edits, used, retries, others>>

Init ==
  /\ library = Empty
  /\ hydration = "reading"
  /\ persistenceEnabled = FALSE
  /\ storage = Started
  /\ waiter = [w \in {"import", "request"} |->
                 [at |-> "idle", edition |-> 0, promise |-> 0]]
  /\ legacy \in FirstLegacy
  /\ host \in {"serial", "unordered"}
  /\ file \in FirstFiles
  /\ observed = Nothing
  /\ edits = 0 /\ retries = 0 /\ windows = 1 /\ others = 0
  /\ used = UNION {IF d \in Libraries
                   THEN d.collections \cup {r \in RequestIds : d.home[r] # Nowhere}
                   ELSE {} : d \in {file, legacy}}
  /\ calls = <<LoadCall>>

Answered(i) == AnswerLoad(i) \/ SaveAnswered(i) \/ SaveRefused(i)

UserEdits ==
  \/ \E c \in CollectionIds : CreateCollection(c) \/ DeleteCollection(c)
  \/ Rename
  \/ \E r \in RequestIds, c \in CollectionIds : MoveRequest(r, c) \/ SaveRequest(r, c)
  \/ \E r \in RequestIds : DeleteRequest(r)

ImportSteps ==
  \/ BeginImport \/ CancelImport
  \/ \E c \in CollectionIds, R \in SUBSET RequestIds : ConfirmImport(c, R)

Next ==
  \/ UserEdits
  \/ ImportSteps
  \/ ToggleCollection
  \/ \E w \in {"import", "request"} : Report(w)
  \/ RetryWrite \/ RetryRead \/ Reopen
  \/ \E i \in 1..Len(calls) : Answered(i)
  \/ OtherProcessSaves

Spec == Init /\ [][Next]_vars

-----------------------------------------------------------------------------
(* Properties *)

\* Every variable keeps the values the code gives it; the snapshot has an error
\* exactly in its error phase, and writes join a cycle that has not settled.
TypeOK ==
  /\ library \in Libraries
  /\ hydration \in {"idle", "reading", "migrating"}
  /\ persistenceEnabled \in BOOLEAN
  /\ storage.phase \in {"loading", "saving", "ready", "error"}
  /\ storage.error \in {"none", "read", "newer", "write", "conflict"}
  /\ storage.settled \in {"none", "saved", "failed"}
  /\ storage.active \in 0..Len(storage.cycles)
  /\ storage.active # 0 => storage.cycles[storage.active] = "open"
  /\ storage.latestWrite \in 0..Len(storage.cycles)
  /\ \A n \in 1..Len(storage.cycles) :
       storage.cycles[n] \in {"open", "saved", "failed"}
  /\ (storage.error # "none") = (storage.phase = "error")
  /\ \A w \in DOMAIN waiter : waiter[w].at \in {"idle", "choosing", "waiting"}
  /\ file \in Libraries \cup {Missing, Newer}
  /\ observed \in Libraries \cup {Missing, Newer, Nothing}

\* The content a window opened now would show.
Content(document) ==
  IF document \in Libraries THEN Hydrate(document) ELSE Empty

\* What the user sees is never silently absent from the disk.  When the storage
\* says it is ready, nothing is in flight and the last document this
\* application stored reads back as the library on the screen; while it says it
\* is saving, or a promise is open, a write is in flight that will end it.
\* (markReady and stabilizeNativePersistenceCycle)
NoSilentLoss ==
  /\ TypeOK
  /\ storage.phase = "ready" =>
       Pending(calls) = 0 /\ Content(observed) = library
  /\ storage.phase = "saving" \/ storage.active # 0 => Pending(calls) > 0

\* A save or an import that is told its edition was saved can rely on it: what
\* this application stored last is that edition or a later one, whichever order
\* the host answered in. (the promise of a persistence cycle)
ReportedIsStored ==
  \A w \in DOMAIN waiter :
    waiter[w].at = "waiting" /\ Outcome(w) = "saved" =>
      observed \in Libraries /\ observed.edition >= waiter[w].edition

\* After a conflict nothing is sent again on its own: no compensation, toggle
\* or late answer writes over the document of another process.  (comment in
\* stabilizeNativePersistenceCycle.)  Two cases are excepted, because the code
\* does send then: an import confirmed in a dialog opened before the conflict,
\* and a toggle after the migration of a legacy document met the conflict, which
\* setItem has not recorded as requested.
ConflictIsFinal ==
  [][storage.error = "conflict" =>
       \/ storage'.sequence \in {storage.sequence, 0}
       \/ (waiter["import"].at = "choosing" /\ waiter'["import"].at = "waiting")
       \/ storage.lastRequestedDocument = Nothing]_vars
=============================================================================
