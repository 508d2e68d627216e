SPECIFICATION Spec
CONSTANTS
  NumTraces = 3
  NumSpans <- SpansAlternate
  KeepLast = 2
  BatchSize = 2
  MaxPrunes = 1
  MaxCrashes = 1
INVARIANT WholeOnDisk
CHECK_DEADLOCK FALSE
