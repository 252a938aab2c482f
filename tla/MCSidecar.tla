----------------------------- MODULE MCSidecar -----------------------------
(***************************************************************************)
(* Instances of Sidecar for TLC.                                           *)
(***************************************************************************)
EXTENDS Sidecar, TLC

CONSTANTS n1, n2, s1

MCLane == [c \in Calls |-> IF c = s1 THEN "serial" ELSE "concurrent"]
MCSize == [c \in Calls |-> 1]

\* One normal call at a time on either side: the client frees its place when
\* the response arrives, the sidecar after it has delivered it.
MCMaxCalls == [l \in AdmissionLanes |-> 1]
MCMaxBytes == [l \in AdmissionLanes |-> 2]
MCClientMaxCalls == [l \in ClientLanes |-> 1]
MCClientMaxBytes == [l \in ClientLanes |-> 2]
=============================================================================
