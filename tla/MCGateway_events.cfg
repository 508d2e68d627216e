\* StoredHasSLOEvent, stated by the repository, does not hold of the code.
SPECIFICATION Spec
CONSTANTS
  Calls = {c1}
  Streams = {s1}
  MaxRetries = 0
  MaxInFlight = 0
  SampleChoices = {TRUE}
  MaxChunks = 1
INVARIANT StoredHasSLOEvent
