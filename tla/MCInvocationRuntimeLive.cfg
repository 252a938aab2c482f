\* Liveness: a normal call and two persistence calls of which
\* one queues, two Close callers; no symmetry.
SPECIFICATION FairSpec
CONSTANTS
  n1 = n1
  n2 = n2
  x1 = x1
  s1 = s1
  s2 = s2
  Calls = {n1, s1, s2}
  NoCall = NoCall
  Closers = {k1, k2}
  SerialMaxCalls = 1
  SerialMaxBytes = 2
  Lane <- MCLane
  Size <- MCSize
  MaxCalls <- MCMaxCalls
  MaxBytes <- MCMaxBytes
PROPERTIES
  CloseReturns
  NothingStranded
CHECK_DEADLOCK FALSE
