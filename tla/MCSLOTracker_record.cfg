\* MCSLOTracker_record
SPECIFICATION Spec
CONSTANTS
  Writers = {w1, w2, w3}
  Readers = {}
  SLOs <- TwoSLOs
  Outcomes <- OnlyFailures
  NoTTFT = NoTTFT
  MaxEvents = 3
  MinSample = 2
  MaxRecords = 6
  MaxStall = 1
  MaxClock = 2
SYMMETRY WriterSymmetry
INVARIANTS
  PopsNonEmpty
  MemoryBounded
  OverTrimBounded
  FailuresHurtEverySLO
\* All the records may have been made, with no reader to start over.
CHECK_DEADLOCK FALSE
