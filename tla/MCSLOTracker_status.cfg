\* MCSLOTracker_status
SPECIFICATION Spec
CONSTANTS
  Writers = {w1}
  Readers = {r1}
  SLOs <- TwoSLOs
  Outcomes <- AllOutcomes
  NoTTFT = NoTTFT
  MaxEvents = 2
  MinSample = 2
  MaxRecords = 3
  MaxStall = 1
  MaxClock = 2
INVARIANTS
  TypeOK
  RatesAreSnapshots
  SeverityMatchesFired
