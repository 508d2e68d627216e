SPECIFICATION FairSpec
CONSTANTS
  NumTraces = 3
  NumSpans <- SpansAlternate
  KeepLast = 1
  BatchSize = 2
  MaxPrunes = 2
  MaxCrashes = 1
INVARIANTS
  TypeOK
  SavedSurvive
  HalvesAreOfFailedSaves
  NoOrphanSpans
  IterationExact
PROPERTIES
  ImplementsArchive
  SavesEnd
CHECK_DEADLOCK FALSE
