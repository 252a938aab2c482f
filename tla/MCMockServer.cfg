\* Two route tables, two starts, four calls of two windows.
SPECIFICATION MCSpec
CONSTANTS
  MaxTables = 2
  MaxRequests = 4
  MaxServers = 3
  MaxSessions = 2
  PathTexts <- MCPathTexts
  SizeOfText <- MCSizeOfText
  Preflight = "OPTIONS"
  TableLimits <- MCTableLimits
  HitLimit = 2
  Json = "application/json"
  ImportLimits <- MCImportLimits
INVARIANTS CleanIsApplied ListenersOwned AnswersExact ImportExact
PROPERTY SnapshotsInOrder
CHECK_DEADLOCK FALSE
