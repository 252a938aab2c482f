------------------------------ MODULE Sidecar ------------------------------
(***************************************************************************)
(* A call from end to end: the client in the Electron process              *)
(* (cmd/validex/electron/src/sidecar.ts), two pipes, and the sidecar       *)
(* (cmd/validex-backend/protocol.go), whose loop dispatches to the         *)
(* invocation runtime, whose own actions this module takes over and joins  *)
(* to the loop, the response queue and the writer.                         *)
(*                                                                         *)
(* A pipe holds whole frames, a frame is its call: splitting and decoding  *)
(* are left out, as is the single frame readFrames holds ahead of the      *)
(* loop.  The sidecar may be signalled or killed, Electron may die.        *)
(***************************************************************************)
EXTENDS InvocationRuntime

CONSTANTS
  Serve,           \* the goroutine that runs serve, which closes the runtime
  ClientMaxCalls,  \* ClientMaxCalls[l]: calls the client admits to lane l
  ClientMaxBytes,  \* ClientMaxBytes[l]: argument bytes it admits to lane l
  QueueSize        \* responseQueueSize

ClientLanes == AdmissionLanes \cup {"serial"}

ASSUME SidecarAssumption ==
  /\ Closers = {Serve}
  /\ ClientMaxCalls \in [ClientLanes -> Nat \ {0}]
  /\ ClientMaxBytes \in [ClientLanes -> Nat \ {0}]
  /\ QueueSize \in Nat \ {0}

VARIABLES
  \* the client
  status,        \* what became of each invocation
  admitted,      \* admittedCalls
  admittedBytes, \* admittedArgumentBytes
  stopped,       \* this.stopped
  child,         \* this.child is set
  shutdown,      \* where shutdown() stands
  electron,      \* the Electron process lives
  \* the pipes
  stdin,         \* frames written by the client and not yet taken by serve
  stdinEnded,    \* the client has ended its stream
  stdout,        \* frames written by the sidecar and not yet read
  \* the sidecar
  process,       \* "up", "exited" or "killed"
  loop,          \* where serve stands
  inHand,        \* the call serve dispatches
  responses,     \* the response queue
  writer,        \* where writeResponses stands
  signaled,      \* a SIGTERM has been sent
  serverDone,    \* serverContext is done
  serveErr,      \* what serve reports
  written        \* history: the calls whose response was written to stdout

clientVars == <<status, admitted, admittedBytes, stopped, child, shutdown, electron>>
pipeVars == <<stdin, stdinEnded, stdout>>
serveVars == <<process, loop, inHand, signaled, serveErr>>
writerVars == <<responses, writer, serverDone, written>>
systemVars == <<vars, clientVars, pipeVars, serveVars, writerVars>>

Pending == {c \in Calls : status[c] = "pending"}

-----------------------------------------------------------------------------
(* The client *)

\* Mutant: the counters of a rejected call are not given back.
SettleKeepingCounts(S, s) ==
  /\ status' = [c \in Calls |-> IF c \in S THEN s ELSE status[c]]
  /\ UNCHANGED <<admitted, admittedBytes>>

\* takePending and the settling of the calls in S.
Settle(S, s) ==
  LET Of(l) == {c \in S : Lane[c] = l}
  IN  /\ status' = [c \in Calls |-> IF c \in S THEN s ELSE status[c]]
      /\ admitted' = [l \in ClientLanes |-> admitted[l] - Cardinality(Of(l))]
      /\ admittedBytes' = [l \in ClientLanes |-> admittedBytes[l] - BytesOf(Of(l))]

CanInvoke == ~stopped /\ child /\ ~stdinEnded

Admits(c) ==
  /\ admitted[Lane[c]] < ClientMaxCalls[Lane[c]]
  /\ admittedBytes[Lane[c]] + Size[c] <= ClientMaxBytes[Lane[c]]

Invoke(c) ==
  /\ electron
  /\ status[c] = "new"
  /\ CanInvoke
  /\ Admits(c)
  /\ status' = [status EXCEPT ![c] = "pending"]
  /\ admitted' = [admitted EXCEPT ![Lane[c]] = @ + 1]
  /\ admittedBytes' = [admittedBytes EXCEPT ![Lane[c]] = @ + Size[c]]
  /\ stdin' = Append(stdin, c)
  /\ UNCHANGED <<vars, stopped, child, shutdown, electron, stdinEnded, stdout,
                 serveVars, writerVars>>

InvokeRefused(c) ==
  /\ electron
  /\ status[c] = "new"
  /\ ~CanInvoke \/ ~Admits(c)
  /\ status' = [status EXCEPT ![c] = "notSent"]
  /\ UNCHANGED <<vars, admitted, admittedBytes, stopped, child, shutdown, electron,
                 pipeVars, serveVars, writerVars>>

\* acceptResponse.  A response nobody waits for is a protocol failure: it stops
\* the client, rejects whatever is pending and terminates the sidecar.
AcceptResponse ==
  LET known == Head(stdout) \in Pending
  IN  /\ electron
      /\ ~stopped
      /\ stdout # <<>>
      /\ IF known THEN Settle({Head(stdout)}, "answered") ELSE Settle(Pending, "lost")
      /\ stopped' = ~known
      /\ signaled' = (signaled \/ ~known)
      /\ stdout' = Tail(stdout)
      /\ UNCHANGED <<vars, child, shutdown, electron, stdin, stdinEnded, process,
                     loop, inHand, serveErr, writerVars>>

\* The callback of a write reports that the pipe is broken.
WriteFails(c) ==
  /\ electron
  /\ process # "up"
  /\ \E i \in 1..Len(stdin) : stdin[i] = c
  /\ c \in Pending
  /\ Settle({c}, "lost")
  /\ UNCHANGED <<vars, stopped, child, shutdown, electron, pipeVars, serveVars,
                 writerVars>>

\* The error event of stdin, which follows.
StdinFails ==
  /\ electron
  /\ process # "up"
  /\ stdin # <<>>
  /\ ~stopped
  /\ Settle(Pending, "lost")
  /\ stopped' = TRUE
  /\ UNCHANGED <<vars, child, shutdown, electron, pipeVars, serveVars, writerVars>>

\* Mutant: pending calls are not rejected when the sidecar exits.
ExitedForgetting ==
  /\ electron
  /\ child
  /\ process # "up"
  /\ stopped' = TRUE
  /\ child' = FALSE
  /\ UNCHANGED <<vars, status, admitted, admittedBytes, shutdown, electron, pipeVars,
                 serveVars, writerVars>>

\* The exit event, which may precede the last data of stdout.
Exited ==
  /\ electron
  /\ child
  /\ process # "up"
  /\ Settle(Pending, "lost")
  /\ stopped' = TRUE
  /\ child' = FALSE
  /\ UNCHANGED <<vars, shutdown, electron, pipeVars, serveVars, writerVars>>

\* shutdown() ends stdin and waits; a client without a child has nothing to do.
BeginShutdown ==
  /\ electron
  /\ shutdown = "no"
  /\ child
  /\ stdinEnded' = TRUE
  /\ shutdown' = "ending"
  /\ UNCHANGED <<vars, status, admitted, admittedBytes, stopped, child, electron,
                 stdin, stdout, serveVars, writerVars>>

ShutdownSeesExit ==
  /\ electron
  /\ shutdown \in {"ending", "terminating", "killing"}
  /\ ~child
  /\ shutdown' = "returned"
  /\ UNCHANGED <<vars, status, admitted, admittedBytes, stopped, child, electron,
                 pipeVars, serveVars, writerVars>>

\* A grace period ends: SIGTERM, then SIGKILL, then no more waiting.
GraceEnds ==
  /\ electron
  /\ child
  /\ \/ /\ shutdown = "ending"
        /\ shutdown' = "terminating"
        /\ signaled' = TRUE
        /\ UNCHANGED process
     \/ /\ shutdown = "terminating"
        /\ shutdown' = "killing"
        /\ process' = IF process = "up" THEN "killed" ELSE process
        /\ UNCHANGED signaled
     \/ /\ shutdown = "killing"
        /\ shutdown' = "returned"
        /\ UNCHANGED <<signaled, process>>
  /\ UNCHANGED <<vars, status, admitted, admittedBytes, stopped, child, electron,
                 pipeVars, loop, inHand, serveErr, writerVars>>

-----------------------------------------------------------------------------
(* The loop of the sidecar *)

Up == process = "up"

\* The select of the loop takes a frame.
TakeFrame ==
  /\ Up
  /\ loop = "selecting"
  /\ stdin # <<>>
  /\ loop' = "dispatching"
  /\ inHand' = Head(stdin)
  /\ stdin' = Tail(stdin)
  /\ UNCHANGED <<vars, clientVars, stdinEnded, stdout, process, signaled,
                 serveErr, writerVars>>

DispatchFrame ==
  /\ Up
  /\ loop = "dispatching"
  /\ Dispatch(inHand)
  /\ UNCHANGED <<clientVars, pipeVars, serveVars, writerVars>>

\* Dispatch returns once the call is refused, handed to another goroutine, or
\* has had its busy answer delivered.
Dispatched(c) ==
  \/ pc[c] \in {"refused", "settled"}
  \/ c \notin Serial /\ pc[c] # "new"
  \/ \E i \in 1..Len(accepted) : accepted[i] = c

\* Mutant: a nil error is answered too.
DispatchAnswered ==
  /\ Up
  /\ loop = "dispatching"
  /\ Dispatched(inHand)
  /\ loop' = "refusing"
  /\ UNCHANGED <<vars, clientVars, pipeVars, process, inHand, signaled, serveErr,
                 writerVars>>

DispatchReturns ==
  /\ Up
  /\ loop = "dispatching"
  /\ Dispatched(inHand)
  /\ loop' = IF pc[inHand] = "refused" THEN "refusing" ELSE "selecting"
  /\ UNCHANGED <<vars, clientVars, pipeVars, process, inHand, signaled,
                 serveErr, writerVars>>

\* enqueueResponse: a full queue blocks the caller until the context is done,
\* and a context that is done may win over a queue that has room.
EnqueueResponse(c) ==
  /\ \/ Len(responses) < QueueSize /\ responses' = Append(responses, c)
     \/ serverDone /\ UNCHANGED responses
  /\ UNCHANGED <<writer, serverDone, written>>

AnswerRefused ==
  /\ Up
  /\ loop = "refusing"
  /\ EnqueueResponse(inHand)
  /\ loop' = "selecting"
  /\ UNCHANGED <<vars, clientVars, pipeVars, process, inHand, signaled,
                 serveErr>>

\* The deliver callback of the runtime.
Deliver(c) ==
  /\ Up
  /\ EndDelivery(c)
  /\ EnqueueResponse(c)
  /\ UNCHANGED <<clientVars, pipeVars, serveVars>>

\* The loop ends: its context is done, the writer has ended, or there is nothing
\* more to read, be it after a whole frame or in the middle of one.
LeaveLoop(errors) ==
  /\ Up
  /\ loop = "selecting"
  /\ loop' = "closing"
  /\ serveErr' = errors
  /\ UNCHANGED <<vars, clientVars, pipeVars, process, inHand, signaled, writerVars>>

WriterEnded == writer \in {"done", "failed"}

SignalSeen ==
  /\ serverDone
  /\ signaled
  /\ LeaveLoop({})

WriterSeen ==
  /\ WriterEnded
  /\ LeaveLoop(IF writer = "failed" THEN {"write"} ELSE {})

\* Mutant: only an error ends the loop, io.EOF does not.
EndOfInputIgnored ==
  /\ stdinEnded
  /\ stdin = <<>>
  /\ ~electron
  /\ LeaveLoop({"read"})

EndOfInput ==
  /\ stdinEnded
  /\ stdin = <<>>
  /\ LeaveLoop({}) \/ (~electron /\ LeaveLoop({"read"}))

\* runtime.Close, by the goroutine of serve.
CloseRuntime ==
  /\ Up
  /\ loop = "closing"
  /\ BeginClose(Serve) \/ CloseStep(Serve)
  /\ UNCHANGED <<clientVars, pipeVars, serveVars, writerVars>>

DrainEnds ==
  /\ Up
  /\ DrainTimesOut(Serve)
  /\ UNCHANGED <<clientVars, pipeVars, serveVars, writerVars>>

\* Close has returned: cancelServer, then the writer is waited for.
CancelServer ==
  /\ Up
  /\ loop = "closing"
  /\ closer[Serve] = "returned"
  /\ loop' = "awaitingWriter"
  /\ serverDone' = TRUE
  /\ UNCHANGED <<vars, clientVars, pipeVars, process, inHand, signaled,
                 serveErr, responses, writer, written>>

\* serve reports its first error; the process ends with it.
Exit(late) ==
  /\ Up
  /\ loop = "awaitingWriter"
  /\ process' = "exited"
  /\ serveErr' = IF serveErr # {} THEN serveErr
                 ELSE IF late # {} THEN late
                 ELSE IF closeErr # {} THEN {"close"} ELSE {}
  /\ UNCHANGED <<vars, clientVars, pipeVars, loop, inHand, signaled,
                 writerVars>>

WriterStops == WriterEnded /\ Exit(IF writer = "failed" THEN {"write"} ELSE {})
WriterTimesOut == ~WriterEnded /\ Exit({"writer"})

-----------------------------------------------------------------------------
(* The response writer, and the rest of the runtime *)

\* writeResponses selects, and flushes once the context is done.
WriteResponse ==
  /\ Up
  /\ electron
  /\ ~WriterEnded
  /\ responses # <<>>
  /\ responses' = Tail(responses)
  /\ stdout' = Append(stdout, Head(responses))
  /\ written' = written \cup {Head(responses)}
  /\ UNCHANGED <<vars, clientVars, stdin, stdinEnded, serveVars, writer, serverDone>>

\* Nobody reads stdout any more.
WriteResponseFails ==
  /\ Up
  /\ ~electron
  /\ ~WriterEnded
  /\ responses # <<>>
  /\ responses' = Tail(responses)
  /\ writer' = "failed"
  /\ UNCHANGED <<vars, clientVars, pipeVars, serveVars, serverDone, written>>

\* Its goroutine cancels the context after it has reported the error, of which
\* the loop may know by then.
WriterCancels ==
  /\ Up
  /\ writer = "failed"
  /\ ~serverDone
  /\ serverDone' = TRUE
  /\ UNCHANGED <<vars, clientVars, pipeVars, serveVars, responses, writer, written>>

\* Mutant: the writer ends with the context and flushes nothing.
StopUnflushed ==
  /\ Up
  /\ writer = "selecting"
  /\ serverDone
  /\ writer' = "done"
  /\ UNCHANGED <<vars, clientVars, pipeVars, serveVars, responses, serverDone, written>>

\* The queue is empty and the context done.
StopWriter ==
  /\ Up
  /\ writer = "selecting"
  /\ serverDone
  /\ responses = <<>>
  /\ writer' = "done"
  /\ UNCHANGED <<vars, clientVars, pipeVars, serveVars, responses, serverDone, written>>

\* The runtime's steps that neither the loop nor the response queue takes part in.
RuntimeStep ==
  /\ Up
  /\ \/ \E c \in Calls :
          \/ Enqueue(c) \/ EnqueueClosed(c) \/ EnqueueFull(c)
          \/ DropResponse(c) \/ BeginDelivery(c) \/ Release(c)
     \/ WorkerStep
     \/ WaiterStep
  /\ UNCHANGED <<clientVars, pipeVars, serveVars, writerVars>>

HandlerEnds(c) ==
  /\ Up
  /\ HandlerReturns(c)
  /\ UNCHANGED <<clientVars, pipeVars, serveVars, writerVars>>

-----------------------------------------------------------------------------
(* Signals and crashes *)

Interrupt ==
  /\ Up
  /\ ~signaled
  /\ signaled' = TRUE
  /\ UNCHANGED <<vars, clientVars, pipeVars, process, loop, inHand, serveErr,
                 writerVars>>

\* NotifyContext: the contexts of the server and of the runtime are done.  What
\* the handlers make of it is theirs, so canceled is left to Close.
SignalArrives ==
  /\ Up
  /\ signaled
  /\ ~serverDone
  /\ serverDone' = TRUE
  /\ UNCHANGED <<vars, clientVars, pipeVars, serveVars, responses, writer, written>>

Crash ==
  /\ Up
  /\ process' = "killed"
  /\ UNCHANGED <<vars, clientVars, pipeVars, loop, inHand, signaled, serveErr,
                 writerVars>>

\* Electron ends without shutdown(): its state is gone, what it has not written
\* yet is lost, and nobody reads stdout.
ElectronDies ==
  /\ electron
  /\ electron' = FALSE
  /\ status' = [c \in Calls |-> "gone"]
  /\ admitted' = [l \in ClientLanes |-> 0]
  /\ admittedBytes' = [l \in ClientLanes |-> 0]
  /\ stopped' = TRUE
  /\ child' = FALSE
  /\ shutdown' = "returned"
  /\ \E n \in 0..Len(stdin) : stdin' = SubSeq(stdin, 1, n)
  /\ stdinEnded' = TRUE
  /\ stdout' = <<>>
  /\ UNCHANGED <<vars, serveVars, writerVars>>

-----------------------------------------------------------------------------

\* The client has started the sidecar, whose serve has created the runtime.
SystemInit ==
  /\ Init
  /\ status = [c \in Calls |-> "new"]
  /\ admitted = [l \in ClientLanes |-> 0]
  /\ admittedBytes = [l \in ClientLanes |-> 0]
  /\ stopped = FALSE
  /\ child = TRUE
  /\ shutdown = "no"
  /\ electron = TRUE
  /\ stdin = <<>>
  /\ stdinEnded = FALSE
  /\ stdout = <<>>
  /\ process = "up"
  /\ loop = "selecting"
  /\ inHand = NoCall
  /\ responses = <<>>
  /\ writer = "selecting"
  /\ signaled = FALSE
  /\ serverDone = FALSE
  /\ serveErr = {}
  /\ written = {}

\* The steps that only the schedulers of the two processes delay.
ClientStep == AcceptResponse \/ StdinFails \/ Exited \/ ShutdownSeesExit
LoopStep ==
  \/ TakeFrame \/ DispatchFrame \/ DispatchReturns \/ AnswerRefused
  \/ SignalSeen \/ WriterSeen \/ EndOfInput
  \/ CloseRuntime \/ CancelServer \/ WriterStops
WriterStep == WriteResponse \/ WriteResponseFails \/ WriterCancels \/ StopWriter

SystemNext ==
  \/ \E c \in Calls : Invoke(c) \/ InvokeRefused(c) \/ WriteFails(c)
  \/ ClientStep \/ BeginShutdown \/ GraceEnds
  \/ LoopStep \/ DrainEnds \/ WriterTimesOut
  \/ WriterStep
  \/ RuntimeStep
  \/ \E c \in Calls : Deliver(c) \/ HandlerEnds(c)
  \/ Interrupt \/ SignalArrives \/ Crash \/ ElectronDies

System == SystemInit /\ [][SystemNext]_systemVars

\* Event handlers and goroutines that are ready run.  Nothing is assumed of
\* users, handlers, timers and signals from outside.
FairSystem ==
  /\ System
  /\ WF_systemVars(ClientStep)
  /\ WF_systemVars(LoopStep)
  /\ WF_systemVars(WriterStep)
  /\ WF_systemVars(RuntimeStep)
  /\ WF_systemVars(SignalArrives)
  /\ \A c \in Calls : WF_systemVars(Deliver(c))

-----------------------------------------------------------------------------
(* Properties *)

SystemTypeOK ==
  /\ TypeOK
  /\ status \in [Calls -> {"new", "notSent", "pending", "answered", "lost", "gone"}]
  /\ admitted \in [ClientLanes -> Nat]
  /\ admittedBytes \in [ClientLanes -> Nat]
  /\ stopped \in BOOLEAN
  /\ child \in BOOLEAN
  /\ shutdown \in {"no", "ending", "terminating", "killing", "returned"}
  /\ electron \in BOOLEAN
  /\ stdin \in Seq(Calls)
  /\ stdinEnded \in BOOLEAN
  /\ stdout \in Seq(Calls)
  /\ process \in {"up", "exited", "killed"}
  /\ loop \in {"selecting", "dispatching", "refusing", "closing", "awaitingWriter"}
  /\ inHand \in Calls \cup {NoCall}
  /\ responses \in Seq(Calls)
  /\ Len(responses) <= QueueSize
  /\ writer \in {"selecting", "done", "failed"}
  /\ signaled \in BOOLEAN
  /\ serverDone \in BOOLEAN
  /\ serveErr \subseteq {"read", "write", "close", "writer"}
  /\ written \subseteq Calls

\* The client's counters are those of its pending calls, whichever of a response,
\* a write error, a broken pipe or an exit takes a call off the list, and it
\* takes each off once.
AdmittedExact ==
  /\ SystemTypeOK
  /\ \A l \in ClientLanes :
       LET OfLane == {c \in Pending : Lane[c] = l}
       IN  /\ admitted[l] = Cardinality(OfLane)
           /\ admittedBytes[l] = BytesOf(OfLane)

\* The client never gives up on a sidecar that lives: it gets no response to a
\* call it does not wait for (acceptResponse would stop everything), because
\* the sidecar answers each frame at most once, be it refused, busy or executed.
OneAnswerEach ==
  (electron /\ process = "up") =>
    /\ ~stopped
    /\ \A c \in Calls : status[c] # "lost"

\* A sidecar that reports no error and got no signal has written every response
\* that it refused or executed a call with: what the runtime delivered before it
\* closed is flushed before the process ends.
NothingUnflushed ==
  (process = "exited" /\ serveErr = {} /\ ~signaled) =>
    \A c \in Calls : (c \in answered \/ pc[c] = "refused") => c \in written

\* Every invocation is settled while Electron lives, if handlers return: a full
\* response queue, a crash or a shutdown leaves no promise pending.
HandlersEnd == \A c \in Calls : WF_systemVars(HandlerEnds(c))
InvocationsSettle ==
  HandlersEnd => \A c \in Calls : status[c] = "pending" ~> status[c] # "pending" \/ ~electron

\* The sidecar ends by itself after its input has ended, be it by shutdown() or
\* because Electron died, or after a signal, though handlers never return.
TimersEnd == WF_systemVars(DrainEnds) /\ WF_systemVars(WriterTimesOut)
SidecarEnds == TimersEnd => (stdinEnded \/ signaled ~> process # "up")

\* Neither side of the pipes waits for the other for ever (protocol.go:204).
NobodyWaits == InvocationsSettle /\ SidecarEnds
=============================================================================
