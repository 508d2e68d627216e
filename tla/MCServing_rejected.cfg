\* RejectedNotRepeated, said by the comment of _post_json, does not hold of the code.
SPECIFICATION ServingSpec
CONSTANTS
  Calls = {c1}
  Streams = {}
  MaxRetries = 1
  MaxInFlight = 1
  SampleChoices = {TRUE}
  MaxChunks = 1
  Workers = 1
  Replies = {"ok", "rejected"}
  LoadTests <- NoLoadTest
  Texts <- SomeTexts
  Contexts <- SomeContexts
INVARIANT RejectedNotRepeated
