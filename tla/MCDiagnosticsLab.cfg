\* Two runs of a warm-up and two samples by two workers, one cancellation at a
\* time, two stops; a runtime view, another view, and calls that overlap.
SPECIFICATION MCSpec
CONSTANTS
  Concurrency = 2
  Warmup = 1
  SampleCount = 2
  MaxCancels = 1
  MaxRuns = 2
  MaxStops = 2
  Views = {"runtime", "coverage"}
  Values = {1, 2}
  MaxHistory = 1
  MaxActions = 5
  PropertyNames <- MCNames
  MaxDepth = 4
  MaxNodes = 6
  MaxFindings = 2
  Templates <- MCTemplates
  AnySegment = {"{x}", "{y}"}
  AnyRest = {"**"}
  Capacity = 2
  MaxEvaluations = 5
  MaxPaths = 1
  MaxCount = 3
  MaxEncodings = 2
  Limits <- MCLimits
  Patterns <- MCPatterns
  AssertionLimits <- MCAssertionLimits
  KeyOrder <- MCKeyOrder
  HeaderOrder <- MCHeaderOrder
  ComparisonLimits <- MCComparisonLimits
  IssueBytes <- MCIssueBytes
  LintLimits <- MCLintLimits
  FrameOrder <- MCFrameOrder
  DumpLimits <- MCDumpLimits
  LowerOf <- MCLowerOf
  LineFeed = "lf"
  CarriageReturn = "cr"
  SearchLimits <- MCSearchLimits
  HardEvents = 9
  HardBytes = 10
  DefaultEvents = 2
  DefaultBytes = 9
  DefaultEventBytes = 7
  PresentationLimits <- MCPresentationLimits
INVARIANTS
  SamplesExact
  WorkIsOwned
  CoverageReportExact
  AnalysisToolsExact
PROPERTIES
  StopIsFinal
  RunEnds
  ShownIsCurrent
CHECK_DEADLOCK FALSE
