\* An ordinary tab and the tab of an endpoint, one saved request; five actions of
\* the user, at most two of them edits and two of them sends.
SPECIFICATION MCSpec
CONSTANTS
  NoTab = NoTab
  NoRequest = NoRequest
  Live = Live
  Fresh = {t1}
  Endpoint = e
  RequestIds = {r1}
  MaxClosed = 2
  MaxEdits = 2
  MaxSends = 2
  MaxActions = 5
  Spaces <- MCSpaces
  Operators <- MCOperators
  Expanding <- MCExpanding
  Plain <- MCPlain
  HexValue <- MCHexValue
  OctalDigits <- MCOctalDigits
  ByteOf <- MCByteOf
  CharOf <- MCCharOf
  Wide <- MCWide
  CurlLimits <- MCCurlLimits
  NameOf <- MCNameOf
  KeyOf <- MCKeyOf
  Numbered <- MCNumbered
  Batches <- MCBatches
  RawNames = {"", " A "}
  MaxIds = 14
  MaxOperations = 3
  MaxName = 8
  LowerCase <- MCLowerCase
  EscapedAs <- MCEscapedAs
  SecretKeys = {"authorization"}
  References = {"reference"}
  ExportCalls = {"first", "second", "wrong"}
  ImportCalls = {"third"}
  InvalidCalls = {"wrong"}
  OtherFiles = {"none", "small", "large", "directory"}
  MaxOtherFiles = 1
INVARIANTS RunningIsOwned CleanIsSaved WorkbenchToolsExact
PROPERTY AnswersAreCurrent
CHECK_DEADLOCK FALSE
