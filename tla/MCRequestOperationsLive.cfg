\* Liveness: two requests for one slot and a cancellation, one restart.
SPECIFICATION FairSpec
CONSTANTS
  r1 = r1
  r2 = r2
  r3 = r3
  t1 = t1
  i1 = i1
  Operations = {r1, r3}
  Kind <- MCKind
  Key <- MCKey
  NoOperation = NoOperation
  Cancellers = {x1}
  MaxSlots = 1
  MaxSessions = 2
PROPERTIES
  CanceledEnds
CHECK_DEADLOCK FALSE
