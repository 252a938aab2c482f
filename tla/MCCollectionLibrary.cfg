\* Two processes, three callers (two share a service), two documents.
SPECIFICATION Spec
CONSTANTS
  p1 = p1
  p2 = p2
  c1 = c1
  c2 = c2
  c3 = c3
  Processes = {p1, p2}
  Callers = {c1, c2, c3}
  ProcessOf <- MCProcessOf
  d1 = d1
  d2 = d2
  Documents = {d1, d2}
  Requests <- MCRequests
  Malformed = Malformed
  Missing = Missing
  Corrupt = Corrupt
  Unknown = Unknown
  InitialFiles = {d1, Missing, Corrupt}
  Nobody = Nobody
  MaxStored = 3
  MaxSessions <- MCMaxSessions
INVARIANTS
  SavedIsDurable
  SessionOwnsRevision
PROPERTIES
  ImplementsStore
CHECK_DEADLOCK FALSE
