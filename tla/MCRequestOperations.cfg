\* Safety: two requests with the same ID for one slot, a tool, an import, one
\* cancellation, two lifecycle contexts.
SPECIFICATION Spec
CONSTANTS
  r1 = r1
  r2 = r2
  r3 = r3
  t1 = t1
  i1 = i1
  Operations = {r1, r2, t1, i1}
  Kind <- MCKind
  Key <- MCKey
  NoOperation = NoOperation
  Cancellers = {x1}
  MaxSlots = 1
  MaxSessions = 2
SYMMETRY MCSymmetry
INVARIANTS
  SlotsExact
  LiveIsCancellable
  StoppedIsQuiet
  WritesOwnSession
CHECK_DEADLOCK FALSE
