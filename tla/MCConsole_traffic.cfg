SPECIFICATION FairSpec
CONSTANTS
  Handlers = {h1, h2}
  Calls <- TwoCalls
  Prefixes = {p1, p2}
  MaxConcurrency = 1
  CacheCapacity = 1
  Baseline <- AllZero
  Scenarios <- ThreeScenarios
  MaxRequests = 3
  HistorySize = 1
INVARIANTS
  TypeOK
  BooksExact
  OneLoop
  ScenarioWhole
PROPERTIES
  StopDrains
CHECK_DEADLOCK FALSE
