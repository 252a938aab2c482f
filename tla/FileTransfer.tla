----------------------------- MODULE FileTransfer -----------------------------
(***************************************************************************)
(* Collections written to a file and read from one                         *)
(* (canbridge/collection_file_transfer.go, file_dialog.go).  Calls wait    *)
(* for one dialog; what follows it is done by several calls at once, next  *)
(* to other programs, the end of the session, the death of the process and *)
(* the loss of power.                                                      *)
(*                                                                         *)
(* All calls choose the same path.  Each call that exports has a document  *)
(* of its own, which is named like the call.                               *)
(***************************************************************************)
EXTENDS Integers, Sequences, FiniteSets

CONSTANTS
  ExportCalls,
  ImportCalls,
  InvalidCalls,    \* exports of what is too large, not UTF-8 or not JSON
  OtherFiles,      \* what another program puts at the path: "none", "small", "large" or "directory"
  MaxOtherFiles    \* bound: how often it does

\* A call either exports or imports, and its document is none of the other files.
ASSUME TransferAssumption ==
  /\ ExportCalls \cap ImportCalls = {} /\ InvalidCalls \subseteq ExportCalls
  /\ OtherFiles \subseteq {"none", "small", "large", "directory"}
  /\ {"none", "small", "large", "directory", "torn"} \cap (ExportCalls \cup ImportCalls) = {}
  /\ MaxOtherFiles \in Nat

VARIABLE transfers

Calls == ExportCalls \cup ImportCalls

\* A version of the file, and whether its content is on the disk.
Version(content, synced) == [content |-> content, synced |-> synced]

TransferInit ==
  transfers =
    [step |-> [call \in Calls |-> "called"],
     result |-> [call \in Calls |-> [exported |-> FALSE, error |-> "", data |-> "none"]],
     temporary |-> [call \in Calls |-> "none"],   \* none, partial, whole or synced
     gate |-> {},                                 \* the call whose dialog is open
     versions |-> <<Version("none", TRUE)>>,      \* what has been at the path
     current |-> 1,
     durable |-> 1,                               \* the version the directory on the disk has
     ended |-> FALSE,
     down |-> FALSE, lost |-> FALSE]

Content == transfers.versions[transfers.current].content

Step(call, from) == ~transfers.down /\ transfers.step[call] = from

\* The call goes on; a return removes what is temporary and frees the dialog.
Continue(call, step) == transfers' = [transfers EXCEPT !.step[call] = step]
Returned(call, result) ==
  [transfers EXCEPT !.step[call] = "returned", !.result[call] = result,
                    !.temporary[call] = "none", !.gate = @ \ {call}]
Fail(call, error) == transfers' = Returned(call, [transfers.result[call] EXCEPT !.error = error])

-----------------------------------------------------------------------------
(* The dialog *)

\* ExportCollectionFile and ImportCollectionFile until the dialog.
Call(call) ==
  /\ Step(call, "called")
  /\ CASE transfers.ended -> Fail(call, "unavailable")
       [] ~transfers.ended /\ call \in InvalidCalls -> Fail(call, "invalid")
       [] OTHER -> Continue(call, "waiting")

\* fileDialogGate.acquire
Acquire(call) ==
  /\ Step(call, "waiting")
  /\ \/ transfers.ended /\ Fail(call, "dialog")
     \/ /\ ~transfers.ended /\ transfers.gate = {}
        /\ transfers' = [transfers EXCEPT !.gate = {call}, !.step[call] = "dialog"]

\* systemFilePicker.Open and systemFileSaver.Save: a path, none, or a failure, which
\* the end of the session and an unsupported extension also are.
CloseDialog(call) ==
  /\ Step(call, "dialog")
  /\ \/ Fail(call, "dialog")
     \/ ~transfers.ended /\ Fail(call, "")
     \/ ~transfers.ended /\ transfers' = [transfers EXCEPT !.gate = {}, !.step[call] = "chosen"]

-----------------------------------------------------------------------------
(* writeCollectionTransferFile *)

CreateTemporary(call) ==
  /\ call \in ExportCalls /\ Step(call, "chosen")
  /\ \/ Fail(call, "write")
     \/ /\ ~transfers.ended /\ Content # "directory"
        /\ transfers' = [transfers EXCEPT !.temporary[call] = "partial", !.step[call] = "created"]

WriteTemporary(call) ==
  /\ Step(call, "created")
  /\ \/ Fail(call, "write")
     \/ /\ ~transfers.ended
        /\ transfers' = [transfers EXCEPT !.temporary[call] = "whole", !.step[call] = "written"]

\* Mutant: the temporary file is closed without being synced.
SyncNothing(call) == Step(call, "written") /\ Continue(call, "closed")

SyncTemporary(call) ==
  /\ Step(call, "written")
  /\ \/ Fail(call, "write")
     \/ transfers' = [transfers EXCEPT !.temporary[call] = "synced", !.step[call] = "closed"]

Replace(call) ==
  /\ Step(call, "closed")
  /\ \/ Fail(call, "write")
     \/ /\ ~transfers.ended /\ Content # "directory"
        /\ transfers' = [transfers EXCEPT
             !.versions = Append(@, Version(IF transfers.temporary[call] = "partial" THEN "torn" ELSE call,
                                            transfers.temporary[call] = "synced")),
             !.current = Len(transfers.versions) + 1,
             !.temporary[call] = "none",
             !.step[call] = "replaced"]

\* Mutant: a document whose directory could not be synced is not reported as exported.
SyncDirectoryOrFail(call) ==
  /\ Step(call, "replaced")
  /\ \/ Fail(call, "write")
     \/ transfers' = [Returned(call, [transfers.result[call] EXCEPT !.exported = TRUE]) EXCEPT
                        !.durable = transfers.current]

\* The document is exported, whether or not its directory was synced.
SyncDirectory(call) ==
  LET exported == [transfers.result[call] EXCEPT !.exported = TRUE]
  IN  /\ Step(call, "replaced")
      /\ \/ transfers' = Returned(call, [exported EXCEPT !.error = "write"])
         \/ transfers' = [Returned(call, exported) EXCEPT !.durable = transfers.current]

-----------------------------------------------------------------------------
(* readCollectionTransferFile *)

Inspect(call) ==
  /\ call \in ImportCalls /\ Step(call, "chosen")
  /\ CASE Content \in {"directory", "large"} -> Fail(call, "invalid") \/ Fail(call, "read")
       [] Content = "none" -> Fail(call, "read")
       [] OTHER -> Fail(call, "read") \/ (~transfers.ended /\ Continue(call, "inspected"))

\* What is opened may no longer be what was inspected.
ReadFile(call) ==
  /\ Step(call, "inspected")
  /\ \/ Fail(call, "read")
     \/ ~transfers.ended /\ Content = "large" /\ Fail(call, "invalid")
     \/ /\ ~transfers.ended /\ Content \notin {"none", "directory", "large"}
        /\ transfers' = Returned(call, [transfers.result[call] EXCEPT !.data = Content])

-----------------------------------------------------------------------------
(* What else happens *)

ChangeFile ==
  /\ ~transfers.down
  /\ Cardinality({i \in 2..Len(transfers.versions) : transfers.versions[i].content \in OtherFiles}) < MaxOtherFiles
  /\ \E content \in OtherFiles :
       transfers' = [transfers EXCEPT !.versions = Append(@, Version(content, TRUE)),
                                      !.current = Len(transfers.versions) + 1,
                                      !.durable = Len(transfers.versions) + 1]

EndSession == ~transfers.down /\ ~transfers.ended /\ transfers' = [transfers EXCEPT !.ended = TRUE]

\* The process dies, or everything does: the directory may be as it was synced last.
Die ==
  /\ ~transfers.down
  /\ \/ transfers' = [transfers EXCEPT !.down = TRUE]
     \/ \E survivor \in {transfers.durable, transfers.current} :
          transfers' = [transfers EXCEPT !.down = TRUE, !.lost = TRUE, !.current = survivor]

TransferNext ==
  \/ \E call \in Calls :
       \/ Call(call) \/ Acquire(call) \/ CloseDialog(call)
       \/ CreateTemporary(call) \/ WriteTemporary(call) \/ SyncTemporary(call)
       \/ Replace(call) \/ SyncDirectory(call)
       \/ Inspect(call) \/ ReadFile(call)
  \/ ChangeFile
  \/ EndSession
  \/ Die

TransferSpec == TransferInit /\ [][TransferNext]_transfers

-----------------------------------------------------------------------------
(* Properties *)

Places(call) == {i \in DOMAIN transfers.versions : transfers.versions[i].content = call}

\* Whatever fails, and wherever the process dies, the file is one that was there or a
\* whole document, and after a loss of power as well; a document is reported as
\* exported if and only if it has been put in place, and one that was reported without
\* an error is there for good, unless it was replaced (collection_file_transfer.go:67).
ExportsAreWhole ==
  /\ transfers.versions[transfers.current].content # "torn"
  /\ transfers.lost => transfers.versions[transfers.current].synced
  /\ \A call \in ExportCalls :
       transfers.step[call] = "returned" =>
         /\ transfers.result[call].exported <=> Places(call) # {}
         /\ transfers.result[call].exported /\ transfers.result[call].error = "" =>
              \A i \in Places(call) : i <= transfers.current

\* One dialog is open at a time and that of a call that waits in it; a call that has
\* returned has left no temporary file; what was imported was at the path and is no
\* larger than allowed (file_dialog.go:189).
CallsLeaveNothing ==
  /\ transfers.gate = {call \in Calls : transfers.step[call] = "dialog"}
  /\ Cardinality(transfers.gate) <= 1
  /\ \A call \in Calls : transfers.step[call] = "returned" => transfers.temporary[call] = "none"
  /\ \A call \in ImportCalls :
       LET data == transfers.result[call].data
       IN  data # "none" => /\ data \notin {"torn", "large", "directory"}
                            /\ Places(data) # {}

TransfersExact == ExportsAreWhole /\ CallsLeaveNothing
=============================================================================
