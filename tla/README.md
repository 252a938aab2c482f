# Formal verification of Validex

TLA+ models of the parts of Validex where interleavings, failures and restarts
decide whether the program is right, TLC runs over small instances of them, and
TLAPS proofs of what holds for every instance. The modules are translated from
the source. Line numbers below and in `PROJECT.json` are those of this commit.

## The system

Validex is a desktop client for HTTP APIs. An Electron process shows a renderer
written in TypeScript and starts a sidecar written in Go; the two exchange
length-prefixed frames over the sidecar's stdin and stdout. The Go side does all
network and file work. A command line program uses the same Go engines.

    renderer                   --IPC-->  Electron main  --frames-->  sidecar
      views: requests, diagnostics,       sidecar.ts          protocol.go
      mock server, sidebar
      stores and their storage
                                                                  |
                                                        InvocationRuntime
                                                   lanes |        | serial queue
                                                      Bridge    collectionLibraryService
                                slots, IDs, sessions,  |
                                         mock server   |
                                                              library file + lock file
                                                              (shared by all sidecars)

### Inventory

| Component | State it keeps | Operations | What is hard | What makes it correct |
|---|---|---|---|---|
| Invocation runtime, `internal/canbridge/invocation_runtime.go` | two lanes (calls, bytes), two WaitGroups, the serial queue and its worker, `closed` | `Dispatch`, `Close` | calls and `Close` interleave at every unlock; condition variable; three drains with timeouts | counters exact, lanes independent, serial order, a clean `Close` leaves nothing behind, everything ends |
| Collection library, `collection_library_service.go`, `collection_library_repository.go`, `collection_filesystem_*.go` | per process: observed revision, session context, two mutexes; shared: the file, its lock file | `Load`, `Save`, `Start`, `Stop` | several processes, kills, power loss, rename before directory sync, delayed calls of an earlier session | compare-and-swap, durability of what was reported, sessions do not mix |
| Bridge operations and sessions, `bridge.go`, `tools_bridge.go` | maps of cancel functions, slot channel, lifecycle context and state, cached specs, observed calls, the mock server | `SendRequest`, tools, `ImportOpenAPI`, `CancelRequest`, `CancelToolOperation`, `Startup`, `Shutdown`, mock server | IDs reused across a restart, contexts captured before `Shutdown`, slots on every error path | slots exact, live operations can be cancelled, a stopped bridge is quiet, no writes into a later session |
| Method registry, `invoke.go`, `contract.go` | a constant table | lookup, decoding, reflection call | none: sequential | each method has the lane its documentation names |
| Sidecar protocol server, `cmd/validex-backend` | response queue, reader, writer, exit status | `serve`, `readFrames`, `enqueueResponse` | three goroutines, a bounded queue between them, shutdown order | each request answered at most once; the loop cannot block for ever |
| Sidecar client, `electron/src/sidecar.ts` | pending calls, lane counters, child process, decoder | `start`, `invoke`, `shutdown`, output and exit handlers | exit racing with output, write errors racing with responses, grace period against the drains of the other side | each invocation settles exactly once; lane counters exact |
| Electron main process, `electron/src/*.ts` | window, sidecar, two shutdown flags | application events | quit during start | one shutdown, then quit |
| Collection library of the renderer, `stores/collectionLibrary.ts`, `stores/collectionLibraryStorage.ts`, `native/chrome/sidebar.ts` | the library shown, write sequence, current write cycle, latest document and outcome, what calls wait for | edits, saves, imports, `getItem`, `setItem`, retry, migration | writes settle out of order; compensation; a failure, a conflict or an edit during hydration | what is reported as saved is stored; no silent loss; a conflict is final |
| Request workspace, `stores/workspace.ts`, `native/requests/workspace.ts` | tabs, closed tabs, drafts and their pending fields, operation tokens, cancellations | type, send, cancel, validate, save, close, reopen, reload | everything awaited may return after the tab was edited, sent again, closed or relinked | no tab is stuck or shows a stale answer; a clean tab is saved |
| Performance runner, `features/performance/runner.ts` | phase, workers, active requests, counters, cancellation queue | start, stop, resume, dispose | samples given back around awaits, late results, a stop the backend refuses | the sample count is met exactly or the run is cancelled; every run ends |
| Diagnostics and performance views, `native/features/diagnostics.ts` | inputs, results, operation sequence, the run and its history | inputs, views, calls, runs, history | calls answer after their inputs changed | a stale operation shows nothing and owns nothing |
| Mock server, `native/features/mockServer.ts`, `tools_bridge.go`, `internal/mockserver` | view: edited routes, counters of requests; bridge: `mockMu`, the current server; server: `http.Server`, listener, `stopDone`, routes, hits | edit, apply, import, start, stop, clear, poll; `Start`, `Stop`, `serve`, `Shutdown` | `Stop` before the goroutine of `Start` has run; `serve` failing during `Stop`; polls that time out and answer later | one server at a time, no port left bound, `stopDone` closed once, snapshots in order, clean routes are those served |
| Other views, `native/**`, `features/**` | DOM and view state | user events; curl commands and Postman documents are read and written | quotation, clustered options, inherited settings | what is imported is what was written, and nothing is dropped without a warning |
| HTTP execution, `internal/httpexec` | none between calls | one request | framing, limits, encodings undone in order | the body is the one that was sent, or an error says why not |
| Collection runner, `internal/runner` | report under construction, two byte budgets | run a collection | budget arithmetic over JSON escapes, cancellation | each result is that of its request alone; the report never exceeds its budgets |
| Drift and OpenAPI, `internal/core`, `internal/openapilint` | none | compare a body with a schema, lint a document | recursion over cyclic schemas, three limits | agrees with a reference definition unless it says it gave up |
| Diagnostics, network inspection | ring of observed calls | coverage, comparison of environments, thread dumps, searches | eviction, limits in the middle of a report | counts are those of the input, and what was dropped is said |
| Assertions, templates, numbers, media types | none | pure functions | boundaries, numbers written in two ways | agrees with a reference definition |
| Server-sent events and probes, `internal/protocols` | none | one read loop | ends, breaks, limits and cancellation inside an event | the events are those of the lines received |
| Dialogs and file transfer, `file_dialog.go`, `collection_file_transfer.go` | the gate of the dialog, a temporary file | export, import | several calls, failures, death and power loss between two file operations | no torn file, an honest result |
| Automation, presentation | none | conversions; how a body is shown | two budgets, nested markup | what is shown fits, and is shown as text only if it can be |
| Command line, identity, build scripts, tests | none | drive the engines | none | exit codes |

Interactions: the protocol server calls `Dispatch` for each frame and receives
responses through the deliver callback; the runtime invokes bridge methods and,
when it closes, cancels the context given to `Startup`, drains, and calls
`Shutdown`; the bridge starts and stops the collection service, whose context is
deliberately not derived from the runtime's, so that cancelling concurrent work
does not cancel accepted saves.

The `hazards` of `PROJECT.json` are the places where this can go wrong, each with
the properties that cover it.

## Modules

| Module | Role |
|---|---|
| `InvocationRuntime` | the runtime: admission, serial queue, delivery, `Close` |
| `VersionedStore` | abstract: a document replaced by compare-and-swap |
| `CollectionLibrary` | service and repository, many processes; implements `VersionedStore` |
| `CollectionLibraryProofs` | three invariants and the refinement, proved |
| `RequestOperations` | requests, tools, imports, slots, cancellation, sessions |
| `RequestOperationsProofs` | five invariants of the operations and the exactness of file transfers, proved |
| `Sidecar` | a call from end to end: client, pipes, loop, response queue and writer, joined to the actions of `InvocationRuntime` |
| `SidecarProofs` | the runtime's inductive invariant and seven theorems; that the sidecar runs the runtime as these assume, and three properties, proved |
| `CollectionStore` | the library in the renderer: store, storage and sidebar, over a host that may fail or reorder |
| `CollectionStoreProofs` | its inductive invariant and its three properties, proved |
| `RequestWorkspace` | request tabs: store, editor, sending, cancelling, saving, reloading |
| `RequestWorkspaceProofs` | its inductive invariant and its three properties, proved |
| `PerformanceRunner` | `runPerformanceTest`: workers, stop, resume, dispose |
| `DiagnosticsLab` | the diagnostics and performance views; extends `PerformanceRunner` with their operations |
| `DiagnosticsLabProofs` | the runner's invariant and two properties; that the views use the runner as these assume, and two properties of theirs, proved |
| `MockServer` | mock server view, bridge operations and servers in one composition |
| `MockServerProofs` | its three properties, proved |
| `Question` | what the modules of computations extend: an input chosen by the initial state |
| `ContractDrift`, `OpenApiLint` | verdicts on a body against a schema graph; lint reports |
| `EndpointCoverage`, `EnvironmentComparison`, `ThreadDump`, `LogSearch`, `SseStream`, `BodyPresentation` | the other tools, one module each |
| `HttpExecution`, `CollectionRun`, `Assertions`, `JsonValues` | a collection run, from variables to the report |
| `MockRoutes`, `MockImport` | what the mock server computes: tables, routes, hits, imported tables |
| `ComputationProofs` | what `MockRoutes` answers and lists, and the observed calls of `EndpointCoverage` and the report on them, and the matcher of `LogSearch`, proved |
| `CurlImport`, `PostmanTransfer` | curl commands and Postman documents, read and written |
| `LibraryDocument` | the contents of the library: names, places, secrets, imports, reloads |
| `FileTransfer` | collections written to a file and read from one, with several calls and failures |
| `MCAnalysisTools`, `MCDiagnosticsLab`, `MCRequestWorkspace` | the inputs of these computations, and what is promised of them together |
| `MC<module>` | instances for TLC; `MCDiagnosticsLab` is the one that runs `PerformanceRunner`, and it and `MCMockServer` ask the questions of the computations as well |

A definition with the comment `Mutant:` is never part of a specification: it is
the definition it precedes with a plausible bug, and shows that a property
notices that bug.

### InvocationRuntime

One step is one critical section of `runtime.mu` or `queue.mu`, or one step of a
goroutine between two of them. `pc[c]` is where the goroutine that works on call
`c` stands: `new` (not dispatched), `enqueueing` (has left `runtime.mu` with the
queue and has not entered `queue.mu`), `queued`, `running`, `responding`,
`delivering`, `releasing`, `settled`, `refused`. A refusal is the error `Dispatch`
returns (the protocol server turns it into an error response); `answered` is
what the deliver callback took.

* `Dispatch`: `RefuseClosed`, `TakeQueue`, `Admit`, `RefuseFull`; then `Enqueue`,
  `EnqueueClosed`, `EnqueueFull` for a serial method. A full queue answers with
  the busy result of the method, out of order, as the code does.
* the worker `queue.run`: `WorkerWaits`, `WorkerTakes`, `WorkerExits`; its wait on
  the condition variable is the state `waiting`, left only by `Woken`.
* `execute`, `deliverResponse`: `HandlerReturns`, `DropResponse`, `BeginDelivery`,
  `EndDelivery`, `Release`. A response that comes after `closed` is dropped, that
  of a save `Close` waited for included: `Close` promises execution, not answers.
* `Close`: `BeginClose` or `AwaitClose` (`sync.Once`), `CancelRuntime`, `SealQueue`,
  then the serial, concurrent and delivery drains, each ending or timing out, and
  `ShutdownBridge`. The goroutines that wait for the WaitGroups are
  `ConcurrentCallsDone` and `DeliveryCallsDone`.

`Lane` stands for the registry of `invoke.go`. Every call is dispatched by a
goroutine of its own, which is weaker than the single loop of the protocol server.

### CollectionLibrary and VersionedStore

`stored` is the sequence of what the file held; its last element is the file.
`durable` is the prefix that survives a power loss, `fileLock` the process-wide
lock. Per service there are `revision`, `session`, `canceled`, `starting` and
`operationMu`; per call its program counter, request, captured session, the
repository call under way and its outcome. The SHA-256 revision of a document is
the document itself. `observedIn`, `published` and `acknowledged` are history:
no guard reads the first and the last, and `published` is the `Published` flag of the
commit the repository returns, with the place of the document.

* service: `Call` (captures the context under a read lock of `lifecycleMu`),
  `Enter` (takes `operationMu`), `PrepareEnds` (a first save found no file),
  `Return` (records the revision, also when the rename was followed by a failed
  sync), `BeginStart`, `EndStart`, `Stop`.
* repository: `Lock`, `LockCanceled`, `LockFails`, `Read`, `Compare`, `FileFails`,
  `Rename`, `SyncDirectory`, `SyncFails`, `Unlock`. `Lock` does not look at the
  context, as `flock` does not; the check after it is in `Read` and `Compare`.
* environment: `Kill` and `PowerLoss` end processes between any two steps; the
  operating system releases their lock.

`VersionedStore` is the promise of the persistence port: a client replaces the
document only if its view is the current one. The refinement maps `view` to what
a process takes for the current document: the revision of its service, or what
the call under way has read or renamed in and not yet recorded (`View`).

### RequestOperations

One step is one critical section of `b.mu`, one operation on the slot channel or
the cancellation of one context. `Key` gives the map and the ID an operation
registers under, so that two operations may contend for one ID. `session[o]` is
the lifecycle context an operation captured, `ended` the contexts cancelled.

* operations: `Begin`, `RefuseRunning`, `Register`, `AcquireSlot`, `GiveUp`,
  `ExecutionEnds`, `Responds`, `CheckSession`, `Record`, `ReleaseSlot`, `End`,
  `Import`, `TimesOut`. `Record` follows `CheckSession` in a step of its own,
  because the code checks the context before it takes `b.mu`.
* cancellation: `Look` under `b.mu`, `CancelFound` after it.
* sessions: `BeginStartup`, `EndStartup`, `RuntimeCanceled` (the runtime cancels
  the context `Startup` was given), `BeginShutdown`, `CancelSession`, `EndShutdown`.

Left out here: starting and stopping the collection service (the module above),
the mock server (module `MockServer`), closing idle connections, eviction in the spec cache and the
counts of observed calls.

### Sidecar

`Sidecar` extends `InvocationRuntime` and takes its actions over: `DispatchFrame`
is `Dispatch` by the loop, `CloseRuntime` is `Close` by the goroutine of `serve`
(the only closer), `Deliver` is `EndDelivery` with the response queue as the
callback. The rest of the runtime's steps are `RuntimeStep` and `HandlerEnds`.

* client (`sidecar.ts`), one step per event handler: `Invoke`, `InvokeRefused`,
  `AcceptResponse`, `WriteFails`, `StdinFails`, `Exited`, `BeginShutdown`,
  `ShutdownSeesExit`, `GraceEnds`. `Settle` is `takePending` with the settling of
  the promises; `status[c]` is what became of an invocation.
* loop (`serve`): `TakeFrame`, `DispatchFrame`, `DispatchReturns`,
  `AnswerRefused`, then one of `SignalSeen`, `WriterSeen`, `EndOfInput`, and the
  shutdown order `CloseRuntime`, `CancelServer`, `WriterStops` or
  `WriterTimesOut`. `EnqueueResponse` blocks on a full queue until the context
  is done, and may take either branch of its `select` when both are ready.
* writer (`writeResponses`): `WriteResponse`, `WriteResponseFails`, `WriterCancels`, `StopWriter`.
* environment: `Interrupt`, `SignalArrives`, `Crash`, `ElectronDies`.

A pipe is a sequence of whole frames and a frame is its call. Splitting and
decoding are left out; a frame that cannot be decoded and has a valid ID is
answered the way a refused one is. So is the one frame `readFrames` holds
while the loop is busy, which only delays a frame that is still in `stdin` here.
The exit event may come before the last data of `stdout`, as Node allows. When
Electron dies, the client's state is gone, a suffix of what it wrote is lost, and
every write of the sidecar fails. Durations are not modelled, so a grace period
may end at any time, and neither is a child that cannot be started.

### CollectionStore

One step is an event of the renderer with the promise callbacks it runs. The
variables are those of the two store files: `library` is the state of the store,
`storage` the module variables of `collectionLibraryStorage.ts` (`Started` lists
them), `waiter` the calls that await `waitForCollectionLibraryPersistence`. A
document is what its editions tell apart: the collections, the place of each
request, and the edit that made it.

* storage: `SetItem`, `Saving`, `Recorded`, `Stabilize`, `Settle`, `Hydrated`
  follow the functions of the file; a write cycle stays open until its newest
  write has settled and no older one was saved after it (`Compensates`).
* store and sidebar: one action per operation (`CreateCollection`, `Rename`,
  `DeleteCollection`, `MoveRequest`, `SaveRequest`, `ConfirmImport`, ...), each with
  the listener that persists it (`Edit`, `Persist`).
* host: `AnswerLoad`, `SaveAnswered`, `SaveRefused`. A `"serial"` host is the
  sidecar, which answers saves in order, may have another process replace the file
  and may report an error for a document it has renamed in; an `"unordered"` one is
  the host the end-to-end tests install, which answers in any order.
* `Reopen`: on macOS the window is closed and opened while the sidecar lives, so
  calls of the old window are still served.

### RequestWorkspace

`open` and `tab` are the tabs of `stores/workspace.ts`, `drafts` and `pending` the
buffered edits, `token` the current operation of a tab (the number of its send).
A text, URL or method is the number of the edit that typed it; headers are told
apart by whether they hold a secret. Each event that renders flushes the drafts
first (`Flushed`, `Store`), as the code does.

* editor: `Type`, `FlushDrafts`, `ToggleLiteral`; `TokenAfterEdit` makes answers
  under way stale when the method or the URL changes.
* tabs: opening (`NewRequest`, `OpenEndpoint`, `OpenSaved`, `DuplicateTab`), closing
  (`CloseTab`, `CloseOtherTabs`, `CloseTabsToRight`), `ReopenClosedTab`, pinning,
  ordering, activation.
* operations: `Send`, `SendRefused`, `Responded`, `Validated`, `Failed`, `Cancel`,
  `CancelReturns`; the answer to a send may come after anything else.
* library: `Save` and, after the storage answered, `SaveReturns`; `DeleteSaved`;
  `Reconcile` is run on every change of the library. `Detached` follows which draft
  object a pending save still compares with, `OvertakenBy` which saves in flight
  another tab has written over. `Reload` is a crash or a normal reload.

### PerformanceRunner and DiagnosticsLab

`at[w]` is where a worker stands between two awaits: asking `ready`, `sleeping` in a
delay, `paused` by a stop, in its `request`, or back with a sample that is `counted`
or to be `given` back. Continuations run in any order but all before the next
event (`Quiet`), which is what the event loop guarantees. `Pump` keeps at most
`MaxCancels` cancellations at the backend. `sent` and `given` are history.

`DiagnosticsLab` extends it: an operation carries its sequence number and the
signature of its inputs; `Invalidate` is what every change of an input, the view or
the language does, and disposes of the run. Views other than the runtime view and
the performance view are equal up to their inputs, and one stands for them all.

### MockServer

Three layers in one module, joined by `calls`, the bridge calls under way.

* view: `Edit`, `DeleteLast`, `ApplyRoutes`, `ImportOpenAPI`, `Start`, `Stop`,
  `ClearHits`, `Poll`, `PollTimesOut`, `Answer`, `Reopen`. `buttons` is what the last
  render enabled, since some edits do not render. A table of routes is a number.
* bridge: one action per method of `tools_bridge.go`; `mockMu` is held across
  `Stop`, whose two critical sections are `StopMockServer` and `StopEnds`; `ShutDown`
  is `Bridge.Shutdown`.
* servers: `servers` is every `mockserver.Server` made so far, the last one current.
  `ServeStarts`, `ServeReturns` and `ServeFails` are the goroutine of `Start`, with
  `http.Server` modelled from its documented use: `Shutdown` closes only what `Serve`
  has registered, and a `Serve` that starts later closes its listener itself.

`now`, `readAt` and `foreignAt` are history: the instant of the last change on the
bridge, of the snapshot the view took its routes from, and of the last change by a
window closed since.

### Computations

A function without state is an operator, and its check is an initial state: `question`
holds one input, is chosen by `Init` of the MC module and kept (`Question`). Nothing
follows a question, so one input costs one state. Each of these modules states what
the code computes next to a definition of the same thing that does not follow the
code, and a property compares the two over all inputs of the MC module. All of them
sit in the run of the view that calls them.

* `ContractDrift` (`core/drift.go`): `Compare` walks a graph of schemas with the state
  of the traversal (active pairs, nodes, findings) and gives up on a cycle, a depth or
  a number of nodes; `IsInstance` is the reference, a fixed point over the graph.
  37,422 graphs and bodies with depth 4, six nodes, two findings.
* `OpenApiLint` (`openapilint`): rules, the collector with its two limits, and the
  checks of the context between operations. 10,384 documents.
* `EndpointCoverage` (`diagnostics/coverage.go` and the ring in `tools_bridge.go`): every
  history of at most six calls of three keys, with resets, over a ring of two places, and
  the reports on calls over known endpoints.
* `EnvironmentComparison` (`diagnostics/environment.go`): fetching, headers, and the
  differences of two JSON values within a budget. 22,430 comparisons.
* `ThreadDump` (42,766 dumps), `LogSearch` (18,312 searches by the failure function of
  the matcher), `SseStream` (23,164 streams), `BodyPresentation` (28,996 bodies): loops
  over lines, bytes or tokens, as folds over an accumulator that has the loop's variables.
* `CollectionRun` (`runner`), with `HttpExecution` (`httpexec`), `Assertions` and
  `JsonValues`: a run is a fold over its requests; a body is a sequence of units with
  a raw size and a size in JSON, so that the budgets can cut inside an escape. 2,427 runs,
  and about 14,000 assertions on their own.
* `MockRoutes` and `MockImport` (`internal/mockserver`): tables and the answer to every
  probe; histories of hits; 4,440 documents, whose schemas may refer to each other or nest
  below the levels of a sample, and whose examples may be too large for a route, for the
  import or for neither.
* `CurlImport` (`curlImport.ts`): the words of a Bash command character by character, since
  quotation is what can go wrong, and then its options. 62,302 texts and commands.
* `PostmanTransfer` (`postmanTransfer.ts`): a tree of folders and requests with inherited
  authentication, variables in URLs, and the way back. 101,432 documents.

Two of them are state machines of their own, started by a question and composed by
disjunction with the run they are part of:

* `LibraryDocument` (`collectionLibrary.ts`): the actions of the store on the contents of
  the library (`CreateCollection`, `SaveRequest`, `MoveRequest`, `ImportCollections`, ...),
  and a reload through the document (`ReadAgain`). All sequences of three operations.
* `FileTransfer` (`collection_file_transfer.go`, `file_dialog.go`): one step per file
  operation of an export or an import, next to another program (`ChangeFile`), the end of
  the session (`EndSession`), and the death of the process or the loss of power (`Die`).
  `TransferSpec` is the system of these steps alone, which the theorem is about.

## Runs

| Run | States | Properties | What it shows |
|---|---|---|---|
| `runtime` | 1,284,048 | `CallsCounted`, `BytesCounted`, `SerialInOrder`, `CleanClose`, `SavesKeepTheirContext`, `DrainedForGood` | exact counters and budgets, serial order, drains that stay drained, clean `Close`, protected saves |
| `runtime_live` | 127,314 | `CloseReturns`, `NothingStranded` | `Close` returns by timers alone, and by cancellation alone; calls settle; the worker ends |
| `library` | 1,713,748 | `SavedIsDurable`, `SessionOwnsRevision`, `ImplementsStore` | durability, sessions, and the refinement of `VersionedStore` |
| `library_live` | 91,000 | `OperationsReturn` | loads and saves return, `Start` returns |
| `operations` | 3,897,738 | `SlotsExact`, `LiveIsCancellable`, `StoppedIsQuiet`, `WritesOwnSession` | slots, cancellability, quiet after `Shutdown`, writes in the own session |
| `operations_live` | 103,736 | `CanceledEnds` | a cancelled operation ends |
| `sidecar` | 5,440,965 | `AdmittedExact`, `OneAnswerEach`, `NothingUnflushed` | exact counters of the client, one answer per frame, nothing left unflushed by a clean exit |
| `sidecar_live` | 150,764 | `NobodyWaits` | invocations settle if handlers return; the sidecar ends after its input or a signal though handlers do not |
| `collection_store` | 3,197,143 | `NoSilentLoss`, `ReportedIsStored`, `ConflictIsFinal` | nothing shown as saved is lost; a reported save is stored; a conflict is final |
| `request_workspace` | 962,201 | `RunningIsOwned`, `AnswersAreCurrent`, `CleanIsSaved`, `WorkbenchToolsExact` | a tab runs exactly while its operation does; no stale answer; clean means saved; curl, Postman, library contents and files |
| `diagnostics` | 421,146 | `SamplesExact`, `StopIsFinal`, `RunEnds`, `ShownIsCurrent`, `WorkIsOwned`, `CoverageReportExact`, `AnalysisToolsExact` | exact samples, final stops, every run ends; no stale result, no unowned work; observed calls and their report; the computations of the other tools |
| `mock_server` | 4,244,676 | `CleanIsApplied`, `ListenersOwned`, `SnapshotsInOrder`, `AnswersExact`, `ImportExact` | clean routes are those served; ports are owned and `stopDone` closed once; snapshots never go back; tables, routes, hits and imports |

The type invariants of the runtime, the library and the operations are proved and
need no run; the others are the first conjunct of a property of their run.

Deadlock is not checked: a runtime with nothing to do, a library nobody calls, a
bridge whose operations have all run, a sidecar that has exited, and a view whose
user has done all the bounds allow, and a question that
has been answered stand still rightfully, and liveness properties say what must not.

### Bounds, and why they are enough

* `runtime`: two normal calls of sizes 1 and 2 against a byte budget of 2 (either
  the calls or the bytes can refuse), one cancellation against a limit of one
  that the normal lane can fill twice over, two saves against a queue of two calls
  and three bytes, two callers of `Close`. This reaches both refusals, a worker
  that waits, serves and finds a second entry, and each drain ending and timing
  out. A third save would only lengthen the queue, which the proof covers. The
  callers of `Close` are symmetric.
* `runtime_live`: a normal call, two saves over a queue of one call and two bytes,
  two callers of `Close`; no symmetry, which liveness checking does not allow.
* `library`: two processes, one with two callers and two sessions; two documents;
  at most `MaxStored` = 3 documents stored one after the other, the first of which
  may be missing, corrupt or valid. Two replacements are what a stale save needs
  to overwrite another one. `Kill` and `PowerLoss` are not bounded.
* `library_live`: one document, one replacement, the same processes and sessions.
* `operations`: two requests with one ID and one slot, a tool, an import, one
  canceller, two contexts (`MaxSessions`): enough for an ID that is reused
  after `Shutdown` by a later session while its first user is still running. The
  two requests are symmetric.
* `operations_live`: two requests with different IDs for one slot, so that the
  second waits for a slot that is never given back.

* `sidecar`: two normal calls, one at a time in the client and in the runtime, and
  one save, over a response queue of one. The client frees its place when it has
  the response and the runtime after the delivery, so the second call can be
  refused by the runtime though the client admits it; the queue fills while
  the loop has a refusal to answer. Signals, crashes and the death of Electron
  may come at any step.
* `sidecar_live`: the two normal calls, which suffice to fill the queue.

* `collection_store`: two collections and a request, a file that is stored, missing or of
  a newer version, with or without a legacy document; three edits, one retry, a second
  window, one write of another process. Two edits are what an older write needs to be
  saved after the newest; the third follows the compensation or the conflict.
* `request_workspace`: an ordinary tab and the tab of an endpoint, one saved request, two
  edits, two sends, five actions of the user. A stale answer takes a send, an edit or a
  second send, and the answer; a tab that loses its library entry takes a save, a
  deletion and the reconciliation that follows; one more action is left to come between.
  The computations: three operations on the contents of a library, two exports and an
  import of files next to one change by another program (197,996 states), and the texts
  and documents listed above.
* `diagnostics`: two runs of one warm-up sample and two samples by two workers, one
  cancellation at a time, two stops, so that a stop may be refused and repeated; two views
  that call the backend, five actions of the user. More samples only repeat the loop,
  which `SamplesAddUp` covers for any number.
* `mock_server`: two tables of routes, two starts (three servers), two windows, four calls of
  the view: the first refresh, a start, a poll that outlives an operation, and the operation.

`MaxStored` and `MaxSessions` are bounds of the models, not of the code. At the
bound a write finds the disk full, and no further session starts.

### Fairness

* Weak fairness of the steps that only the Go scheduler delays: a goroutine that
  can run does. Nothing is assumed of callers: they may never call or close.
* Handlers, timers and servers get no fairness in the specification. Where a
  property needs one it says so in its own hypothesis: `TimersFire`,
  `HandlersHonourCancel`, `HandlersReturn`, `LockTimers`.
* `CollectionLibrary` has strong fairness of `Enter`: `operationMu` is a
  `sync.Mutex`, which goes over to a waiter after a millisecond. The file lock has
  only weak fairness, since it is polled and a caller may lose every race; that is
  why `CallsReturn` needs the lock timeout.
* `RequestOperations` assumes that what an operation executes returns once its
  context is done, as `net/http` and the tools do. A slot that becomes free again
  and again is not promised to any particular request.
* `Sidecar` has weak fairness of the client's event handlers, of the loop, the
  writer, the runtime's goroutines and of each delivery, and the arrival of a
  signal that was sent. Users, crashes, handlers and timers get none; `HandlersEnd`
  and `TimersEnd` are the hypotheses of the two properties. `SidecarEnds` needs
  the timers alone.
* `DiagnosticsLab` has weak fairness of promise continuations, of the answers to
  `analyze` (the backend bounds each by `timeoutMs`) and to `cancelToolOperation`, and
  of timers. The user is never obliged to do anything.
* `CollectionStore`, `RequestWorkspace` and `MockServer` state safety only.

## Proofs

All proofs hold for any values of the constants that satisfy the named
assumptions of the modules (`CallsAssumption`, `LimitsAssumption`,
`SidecarAssumption`, `LibraryAssumption`, `OperationsAssumption`, `StoreAssumption`,
`WorkspaceAssumption`, `RunnerAssumption`, `LabAssumption`, `MockAssumption`,
`TransferAssumption`, `RoutesAssumption`, `CoverageAssumption`): any number of calls, processes, documents,
sessions and operations. They say that sets of calls are finite, that limits
are natural numbers, and that sentinels differ from what they stand beside.
`StoreAssumption` also says that no document found at the start carries the edition of an
edit still to be made: editions stand for the instants of `updatedAt`. `RoutesAssumption` says
that texts have sizes, and that `"else"`, a segment of the requests that routes are asked with,
is written in no template; `CoverageAssumption` that the known endpoints and their segments are
sequences.

**Runtime** (`TypeCorrect`, `SerialOrder`, `CountersExact`, `BudgetsExact`, `DrainsHold`,
`CloseLeavesNothing`, `SavesProtected`). The properties are not inductive: a clean
`Close` depends on what each drain has seen, which depends on the counters.
`IInv` therefore joins the types (`WellTyped`), the queue (`QueueInv`: the entries
are the tail of `accepted` and the calls before them are where the worker has
brought them), the lane and delivery counters as cardinalities (`LaneCounts`,
`DeliveryCount`), and for each state of the closer what has been established by
then (`CloseInv`: `OneCloser`, since `sync.Once` lets one caller in; `QueueLife`,
what sealing the queue and its drain establish; `DrainLife`, what the two
WaitGroups do). Each action has a step per part it can disturb, and the theorems
follow from `IInv`. `BudgetsExact` needs the laws of a sum over a finite set. They are
proved once, without an induction over sets, from a least counterexample: if adding a
call to some set did not add its size, a smallest such set would contradict itself.

**Sidecar** (`SystemRunsTheRuntime`, `RuntimeKeepsItsPromises`, `SystemTypeCorrect`,
`AdmissionsExact`, `AnswersAreAwaited`, `ResponsesAreFlushed`). Every step of the composed
system is a step of `InvocationRuntime` or leaves it alone, so that what is proved of the
runtime holds inside the process. This needs `Frames`: a frame is in one place at a time (the
pipe, the hands of `serve`, the runtime), so that the loop dispatches only what was not
dispatched before. `SInv` adds the counters of the client as cardinalities and sums over
its pending calls (`Admissions`), that an answer is given once and is then in the response
queue, in `stdout` or read (`AnswersOnce`), that a client whose sidecar is alive still waits
for every answer in the pipe (`Trust`), and what has been written when the writer stops
(`Flushing`).

**Library** (`LibraryTypeCorrect`, `SavesAreDurable`, `SessionsDoNotMix`,
`LibraryImplementsStore`). `LInv` adds to the types: who holds which lock (`LockInv`),
what a call that is past the comparison knows of the file (`CallInv`: while it is
in `writing` the file is the revision of its service), and which contexts are
still current (`ContextInv`: a call that is `writing` or `syncing` belongs to the
running session, because `Start` waits for `operationMu`). With it every step
maps to one of `VersionedStore` or a stutter: `Rename` to `Replace`, a `Read` that
succeeds to `Observe`, `SyncDirectory` to `Persist`, `EndStart` and `Kill` to
`Forget`.

**Collection storage** (`StorageTypeCorrect`, `LibraryIsNeverLost`, `ReportsAreTrue`,
`ConflictsAreFinal`), for either host, and any number of collections, requests, edits, retries,
windows and writes by others. What the screen says is true only because of what is
in flight, so `CInv` follows the writes: the calls of the window are its saves, in order,
behind those of earlier windows (`QueueInv`); a write cycle is open exactly while one is in
flight (`CycleInv`); the newest write is what the host stored last, or a stale
success is known and will be compensated (`NewestInv`); the screen shows `latestDocument`, and
`ready` means that the host has it (`ScreenInv`); what a waiter was promised is in every
document stored or sent since (`WaitInv`, with `PastInv`: no document is from the future).
`LoadInv` says what holds before the library has been read, when nothing may be written.

**Operations** (`OperationsTypeCorrect`, `SlotsAreExact`, `LiveAreCancellable`,
`StoppedAreQuiet`, `WritesStayInSession`). `RInv` adds to the properties that an
entry of a map belongs to an operation of that key that is registered
(`EntryInv`), that an operation of an earlier session has a context that is done
unless `Startup` is just about to cancel it (`SessionInv`), and what each stage of
`Startup` and `Shutdown` has done (`LifecycleInv`).

**File transfers** (`TransfersAreExact`, in the same module), for any exports and imports, and
any number of changes by another program. It states `TransfersExact`, which
`WorkbenchToolsExact` joins to what else the run `request_workspace` checks. `FileInv` ties a
call to its step: which temporary file it has, whether its document has been at the path
(`Places`), and, once it has returned, that this is what it reported; a call that reported no
error has a document no newer than what the directory on the disk has (`CallStage`, with
`PathInv`: `durable` is never ahead of `current`), so that a loss of power cannot take it back.
That no version is torn is in the type of `versions`, which `Replace` keeps only because a
temporary file is closed after its sync.

**Request tabs** (`WorkspaceTypeCorrect`, `RunningTabsAreOwned`, `UnmarkedTabsAreSaved`,
`NoStaleAnswerIsShown`), for any tabs, saved requests, edits, sends and reloads. Of the
properties only the first two are near to inductive; `WInv` adds what they rest on. `TabInv`:
a draft is the tab's content outside the pending fields, and a closed tab has neither draft
nor answer, so that committing the drafts, which nearly every step does first, changes no more
than the mark. `OwnInv` and `SentInv`: a token is that of the last send of its tab, and the
editor holds the method and the URL of that send. `LinkInv`: a link is that of one open
tab at most and, with an ID, of one tab open or closed, which is what lets a closed tab be
opened again. `CleanInv` says what `CleanIsSaved` says of the closed tabs too. `SaveInv`: while a
save is in flight and nothing overtook it, the library has what the tab holds, without
secrets, whether the tab is open, closed or open again. `NoStaleAnswerIsShown` is an action
property: `AnswerStep` is proved of each step beside the invariant. `Entries`, by which tabs
are selected, is defined by the ranks of places; `EntriesFacts` says that it keeps order and
loses nothing.

**Performance run** (`RunnerTypeCorrect`, `SamplesAddUp`, `StopsAreFinal`), for any
number of workers, samples, runs and stops. `CountInv` relates the counters to where the
workers are, as cardinalities of sets of workers, so that a step moves one worker
between two sets. `LeaveInv` says who may have left: nobody leaves before every place is
assigned unless the run is cancelled. `StopsAreFinal` adds `StopInv`: a stop begins when no
continuation is left to run, so that no worker is about to send or count while one is
under way, and a cancelled run has no request in the map.

**Diagnostics and performance views** (`LabRunsTheRunner`, `LabSamplesAddUp`,
`LabWorkIsOwned`, `LabShowsWhatIsCurrent`), for any views and inputs. The first says that the
workspace starts, stops and disposes of runs only as `PerformanceRunner` allows, so that the
theorems about the runner hold of its runs. `LabInv` says that only the last operation has the
inputs on the screen and is the one the controls wait for (`OpsInv`), that a result was computed
with the inputs beside it (`ShownInv`), and that the handle of a run is held while it
can be stopped (`OwnedInv`). `LabShowsWhatIsCurrent` is an action property: a step that
displays something comes from an operation that no step made stale.

**Mock server** (`ListenersAreOwned`, `SnapshotsAreInOrder`, `CleanRoutesAreApplied`), for any number of calls,
windows, tables and servers. `MInv` joins the types, `CallInv` (a request number names
one call), `StopInv` (the call that stops a server holds `mockMu`, and only one does),
`ServerInv` (what a server may be: only the last is not idle, and a listener that has
lost its owner is one whose goroutine has not served) and `OrderInv` (an answer the
view will look at is no older than the snapshot on the screen). `CleanRoutesAreApplied` has
a second invariant, `RInv`: routes without the mark are those the bridge serves unless
the one call the window waits for has replaced them and brings them (`AwaitInv`, `CleanInv`),
or a call of a window that is gone changed them since they were read, which leaves a later
`foreignAt` behind.

**Computations** (`AnswersAreExact`, `CoverageReportIsExact`, `MatcherIsExact`), for every limit and for tables,
logs and histories of every length. The models fold over sequences, and the provers have
neither induction over data nor a theory of folds; both are made from `LeastNatural`, that a
set of natural numbers has a least member. `FoldExists` shows that the function a fold
chooses exists, over the subsets of the places of a sequence, by the least length for which it
would not; `FoldSteps` gives its value element by element. Each fold is then an execution, and
what is said of its result is an invariant of its steps:

* hits (`HitsAreExact`): from the last clear on, `RingHolds` says which hit is at which place
  of the ring, also once it has wrapped; `AddKeepsRing` keeps it and `RingIsListed` reads the
  list from it.
* routes (`RoutesAreExact`): in an accepted table "more specific" orders the enabled routes of
  a method that match a path, because two of equal rank that match it have the same
  template, which the table refuses. So the search finds the greatest of them in whatever order
  it meets them. That no route is shadowed is shown by a request made from its own template,
  with `"else"` for each parameter.
* observed calls (`ObservedCallsAreExact`): `Mirrors` relates the ring, its index and the map
  of counts to the queue they stand for, through `RingPlace`, the place of the i-th oldest key.
  There is a lemma per case: a key that is counted already, one that is new while there is
  room, and one that replaces the oldest, where the places of all others move by one.
* the report on calls (`CoverageIsExact`): `PreferenceOrders` makes the endpoints that match a
  call a strict order, so that the loop finds the one preferred to all others whatever the order
  of the known endpoints is, and repetitions among them change nothing (`OwnersAreBest`).
  The sums are taken over sets of calls: `TotalRemove` shows, by a least subset for which it
  would fail, that a sum does not depend on the order in which a set is folded, and `TotalAdd`
  adds one call. `Tallied` is then the invariant of the loop: within the limits the tally has
  the sums, the keys and the samples of the calls seen so far (`Sampled`: a sample is cut only
  when it is full), and beyond them it has failed, which later calls cannot undo because no
  amount is negative (`LimitsStayExceeded`). `DividingLimits` shows that the guard of
  the comparison, a division, refuses exactly the products that exceed the limit.
* the matcher of log lines (`MatcherIsExact`): `TableIs` says what each entry of the prefix table
  is, the most of the identifier that ends at its place without being all of what was read;
  `FallIsLongest` that falling back through it stops at the longest part that the next character
  continues, by the least place for which it would not; `AdvanceIsLongest` then carries the
  longest part over one character, both while the table is built and while a line is read. What
  `SearchExact` says of lines, numbers and limits around the matcher is only model-checked.

Only model-checked, and why: the liveness properties (fairness and `ENABLED` are
out of the prover's reach); what the other computations return (`WorkbenchToolsExact` but for
its part about files, `AnalysisToolsExact`, `ImportExact`), most of whose modules use recursive
operators and whose statements are inductions over data.

## Where the code and its documents disagree

Met while modelling. The properties state what does hold and name these exceptions in
their comments; none is hidden by a bound.

* An edit made while a save of the same tab is in flight may be marked as saved:
  `persistSavedRequest` (`native/requests/workspace.ts:1465-1502`) compares the tab, after
  the wait, with the draft as it is then, not as it was saved. The next reconciliation
  replaces the edit by what the library holds. The definition compared also leaves out
  `literalValues`. The same comparison misses a save of the request from another tab: the
  tab is closed while its save is in flight, the request is opened, changed and saved in a
  second tab which then becomes another request, and the first tab is reopened before its save
  returns. `CleanIsSaved` excepts such tabs (`glossed`); `storage_resilience.feature:5`
  says that a storage failure never silently loses or replaces the latest work.
* The switch of variable resolution clears the response of a tab, but a contract
  validation under way puts it back.
* An import whose dialog was opened before a conflict is confirmed after it, since
  `importCollection` does not ask `readOnly` again, and `toggleCollection` re-sends a
  document that a migration met a conflict with. `ConflictIsFinal` excepts both;
  `storage_resilience.feature:32` locks every mutation after a conflict, and `:64` never
  replays a write across one. The host still refuses such a write.
* Mock server view: after the only route is deleted the change cannot be applied (the
  button is gone) and blocks Start; typing in a text area leaves Start enabled although
  the text asks to apply first (`i18n` `automationTools.ts:315`); after a failed first
  refresh, applying replaces routes the view has never read.
* The drift report never names a required member
  that has no entry under `properties`, and looks at members only when the schema asks
  for an object (`drift.go`). `IsInstance` shares both leniencies by name.
* Thread dumps: a marker of a deadlock that fills the list of threads does not end the
  pass, so that one thread more than the limit may be reported; the list is reported as
  truncated at the limit even if no thread was dropped. `Truncated` says nothing of four
  other cuts: the frames of a thread over 32 (`thread_dump.go:154`), its clues over 12
  (`:158`), the names of a group over 100 (`:268`) and the groups over their limit
  (`:290`) are dropped in silence. `ThreadsExact` states what is kept: exactly the first ones.
* Equality of JSON values gives up beyond its budget, and `not_equals` then passes.
* Curl: `"a$"` is refused although Bash reads it; `-G` with a form puts the multipart
  body into the query.
* Streams of events: the end of a stream dispatches the unfinished event, a broken stream
  does so only between lines; comments count towards the bytes of an event.
* JSON presentation: the space after a colon is not counted by the budget, and empty
  containers are counted as if they had lines.
* Postman: a path variable with an empty name or named like the port replaces part of
  the authority; a second header of one name keeps its old value when a body brings its
  type; a disabled `Content-Type` keeps an encoded body from getting one; requests without
  a URL are dropped by an export followed by an import.
* Mock import: the estimate of a sample's size can be below its size for a composition of
  empty objects, and a null sample is sent as `{}` without being validated. An example of
  more than 1 MiB (`models.go:15`) fits the 32 MiB of the import (`openapi.go:25`), and
  the table then refuses the whole document (`:211`) without the structured error of the
  import limits; a generated body can meet this only through such an underestimate. A
  schema with more than 20 levels below it has null at the next one (`:452`);
  `openapi_test.go:457` is content with the sample, but an import whose schema asks for
  something else there is refused because its own sample does not satisfy it (`:311`).
  `ImportExact` holds with these cases named, and the run meets each of them.
* `StartMockServer` after `Shutdown` starts a server that only the end of the process
  stops; the branch of `Stop` for a second caller is unreachable through `mockMu`.

## Plan

Every safety property of the components with state is proved. What is left to prove, in this
order:

1. The rest of `SearchExact` (the lines of a text) and `StreamExact`, whose loops are folds as well.
2. `HttpExecution`: what a run does between two requests, for every number of variables.
3. Lemmas that several proofs repeat (`RemoveFacts`, `EntriesFacts`, the laws of sums) in one
   place, when the library has none.

## What is not modelled

Network and file contents, HTTP parsing, wording and codes of errors, markup and
translations (about half of the renderer's lines), the commands that show a dialog, the
command line, the build. `automation.ts` and `protocol-lab.ts` are not reached by
anything the application mounts. Errors of unlocking or closing the lock file, which the
code joins to the result after the document is in place, are left out, and so is reading
a library file that another program writes.

Of the modelled computations: the syntax of JSON paths, of numbers and of templates; the
names of scopes, the redaction of URLs and the timeouts of `runner`; schemas of a mock
import that compose themselves; the prefix words a curl command may be pasted with
(`$`, `command`); replacement patterns (`$&`) in the variables of a Postman document, a
variable inside another's value, and its schema check; the removal of a temporary
file that fails, and builds without a directory sync.
