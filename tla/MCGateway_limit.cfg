\* InFlightWithinLimit, stated by the repository, does not hold of the code.
SPECIFICATION Spec
CONSTANTS
  Calls = {c1, c2}
  Streams = {}
  MaxRetries = 0
  MaxInFlight = 1
  SampleChoices = {TRUE}
  MaxChunks = 1
INVARIANT InFlightWithinLimit
