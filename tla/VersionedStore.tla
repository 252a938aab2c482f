--------------------------- MODULE VersionedStore ---------------------------
(***************************************************************************)
(* What the collection library promises to its users: one document shared *)
(* by several clients, replaced by compare-and-swap.  A client replaces   *)
(* the document only when its view is the current one, so it never        *)
(* overwrites a document it has not seen.  A power loss undoes at most    *)
(* the replacements that are not durable yet.                             *)
(***************************************************************************)
EXTENDS Integers, Sequences

CONSTANTS
  Clients,
  Documents,
  Missing,      \* there is no document yet
  Corrupt,      \* what is stored cannot be read, hence never be viewed
  Unknown       \* the view of a client that has seen nothing

VARIABLES
  history,      \* the documents stored one after the other
  durable,      \* history up to here survives a power loss
  view          \* what each client takes for the current document

vars == <<history, durable, view>>

Current == history[Len(history)]

Init ==
  /\ history \in {<<d>> : d \in Documents \cup {Missing, Corrupt}}
  /\ durable = 1
  /\ view = [p \in Clients |-> Unknown]

Observe(p) ==
  /\ Current # Corrupt
  /\ view' = [view EXCEPT ![p] = Current]
  /\ UNCHANGED <<history, durable>>

Replace(p, d) ==
  /\ view[p] = Current
  /\ history' = Append(history, d)
  /\ view' = [view EXCEPT ![p] = d]
  /\ UNCHANGED durable

Persist ==
  /\ durable' = Len(history)
  /\ UNCHANGED <<history, view>>

Forget(p) ==
  /\ view' = [view EXCEPT ![p] = Unknown]
  /\ UNCHANGED <<history, durable>>

PowerLoss ==
  /\ \E n \in durable..Len(history) : history' = SubSeq(history, 1, n)
  /\ view' = [p \in Clients |-> Unknown]
  /\ UNCHANGED durable

Next ==
  \/ \E p \in Clients : Observe(p) \/ Forget(p)
  \/ \E p \in Clients, d \in Documents : Replace(p, d)
  \/ Persist
  \/ PowerLoss

Spec == Init /\ [][Next]_vars
=============================================================================
