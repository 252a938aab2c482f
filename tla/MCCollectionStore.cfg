\* Three edits, a retry, a second window and another process; the host of the
\* application and the one of the tests.
SPECIFICATION Spec
CONSTANTS
  c1 = c1
  c2 = c2
  r1 = r1
  CollectionIds = {c1, c2}
  RequestIds = {r1}
  Nowhere = Nowhere
  Missing = Missing
  Newer = Newer
  Nothing = Nothing
  FirstFiles <- MCFirstFiles
  FirstLegacy <- MCFirstLegacy
  MaxEditions = 3
  MaxRetries = 1
  MaxWindows = 2
  MaxOthers = 1
INVARIANTS
  NoSilentLoss
  ReportedIsStored
PROPERTIES
  ConflictIsFinal
CHECK_DEADLOCK FALSE
