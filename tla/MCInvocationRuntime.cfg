\* Safety: two normal calls that exceed the byte budget together, one
\* cancellation, three persistence calls of which two queue, two Close callers.
SPECIFICATION Spec
CONSTANTS
  n1 = n1
  n2 = n2
  x1 = x1
  s1 = s1
  s2 = s2
  Calls = {n1, n2, x1, s1, s2}
  NoCall = NoCall
  Closers = {k1, k2}
  SerialMaxCalls = 2
  SerialMaxBytes = 3
  Lane <- MCLane
  Size <- MCSize
  MaxCalls <- MCMaxCalls
  MaxBytes <- MCMaxBytes
SYMMETRY MCSymmetry
INVARIANTS
  CallsCounted
  BytesCounted
  SerialInOrder
  CleanClose
  SavesKeepTheirContext
  DrainedForGood
CHECK_DEADLOCK FALSE
