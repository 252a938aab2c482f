\* Liveness: two normal calls, one at a time, over a response queue of one.
SPECIFICATION FairSystem
CONSTANTS
  n1 = n1
  n2 = n2
  s1 = s1
  Calls = {n1, n2}
  NoCall = NoCall
  Serve = serve
  Closers = {serve}
  SerialMaxCalls = 1
  SerialMaxBytes = 1
  Lane <- MCLane
  Size <- MCSize
  MaxCalls <- MCMaxCalls
  MaxBytes <- MCMaxBytes
  ClientMaxCalls <- MCClientMaxCalls
  ClientMaxBytes <- MCClientMaxBytes
  QueueSize = 1
PROPERTIES
  NobodyWaits
CHECK_DEADLOCK FALSE
