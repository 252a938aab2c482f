\* Liveness: a load and a save of one process, a load of another.
SPECIFICATION FairSpec
CONSTANTS
  p1 = p1
  p2 = p2
  c1 = c1
  c2 = c2
  c3 = c3
  d1 = d1
  d2 = d2
  Processes = {p1, p2}
  Callers = {c1, c2, c3}
  ProcessOf <- MCProcessOf
  Documents = {d1}
  Requests <- MCLiveRequests
  Malformed = Malformed
  Missing = Missing
  Corrupt = Corrupt
  Unknown = Unknown
  InitialFiles = {Missing}
  Nobody = Nobody
  MaxStored = 2
  MaxSessions <- MCMaxSessions
PROPERTIES
  OperationsReturn
CHECK_DEADLOCK FALSE
