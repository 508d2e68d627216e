\* Two calls for one slot, two attempts each, from the server or from a load test.
SPECIFICATION ServingSpec
CONSTANTS
  Calls = {c1, c2}
  Streams = {}
  MaxRetries = 1
  MaxInFlight = 1
  SampleChoices = {TRUE, FALSE}
  MaxChunks = 1
  Workers = 2
  Replies = {"ok", "garbage", "busy"}
  LoadTests <- MaybeALoadTest
  Texts <- LegibleTexts
  Contexts <- SomeContexts
SYMMETRY CallSymmetry
INVARIANTS
  TypeOK
  InFlightExact
  FailuresKeepTheirTrace
  TotalsExact
  ClientsMatchBooks
  GaugeRepaired
PROPERTIES
  ShedOnlyWhenFull
  ImplementsLedger
