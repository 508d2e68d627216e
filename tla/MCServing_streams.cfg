\* A call of three attempts beside a stream, under the scheduler's fairness.
SPECIFICATION FairServingSpec
CONSTANTS
  Calls = {c1}
  Streams = {s1}
  MaxRetries = 2
  MaxInFlight = 1
  SampleChoices = {TRUE, FALSE}
  MaxChunks = 1
  Replies = {"ok", "garbage", "misshapen", "rejected", "busy"}
  Workers = 1
  LoadTests <- NoLoadTest
  Texts <- SomeTexts
  Contexts <- SomeContexts
INVARIANTS
  ActiveExact
  UpstreamExact
  ReplayFaithful
  ClientToldTruth
PROPERTIES
  EveryRequestSettles
