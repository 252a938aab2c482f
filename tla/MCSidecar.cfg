\* Safety: two normal calls, one at a time, and one persistence call over a
\* response queue of one.
SPECIFICATION System
CONSTANTS
  n1 = n1
  n2 = n2
  s1 = s1
  Calls = {n1, n2, s1}
  NoCall = NoCall
  Serve = serve
  Closers = {serve}
  SerialMaxCalls = 1
  SerialMaxBytes = 1
  Lane <- MCLane
  Size <- MCSize
  MaxCalls <- MCMaxCalls
  MaxBytes <- MCMaxBytes
  ClientMaxCalls <- MCClientMaxCalls
  ClientMaxBytes <- MCClientMaxBytes
  QueueSize = 1
INVARIANTS
  AdmittedExact
  OneAnswerEach
  NothingUnflushed
CHECK_DEADLOCK FALSE
