------------------------ MODULE MCCollectionLibrary ------------------------
(***************************************************************************)
(* Two processes over one library file; the first has two callers.         *)
(***************************************************************************)
EXTENDS CollectionLibrary, TLC

CONSTANTS p1, p2, c1, c2, c3, d1, d2

MCProcessOf == [c \in Callers |-> IF c = c3 THEN p2 ELSE p1]

\* c1 and c3 save over each other's documents; c2 loads for the process of c1.
MCRequests == [c \in Callers |->
  CASE c = c1 -> {d1}
    [] c = c2 -> {"load"}
    [] c = c3 -> {"load", d2}]

MCLiveRequests == [c \in Callers |->
  IF c = c1 THEN {d1, Malformed} ELSE {"load"}]

\* The process with two callers is restarted.
MCMaxSessions == [p \in Processes |-> IF p = p1 THEN 2 ELSE 1]
=============================================================================
