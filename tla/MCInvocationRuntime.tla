------------------------ MODULE MCInvocationRuntime ------------------------
(***************************************************************************)
(* Instances of InvocationRuntime for TLC.                                 *)
(***************************************************************************)
EXTENDS InvocationRuntime, TLC

CONSTANTS n1, n2, x1, s1, s2

MCLane == [c \in Calls |->
  CASE c \in {n1, n2} -> "concurrent"
    [] c = x1 -> "cancellation"
    [] OTHER -> "serial"]

MCSize == [c \in Calls |-> IF c \in {n2, s2} THEN 2 ELSE 1]

\* The byte budget of the normal lane is what n1 and n2 overflow, the call
\* limit of the cancellation lane and of the queue what one call fills.
MCMaxCalls == [l \in AdmissionLanes |-> IF l = "concurrent" THEN 2 ELSE 1]
MCMaxBytes == [l \in AdmissionLanes |-> 2]

MCSymmetry == Permutations(Closers)
=============================================================================
