SPECIFICATION FairSpec
CONSTANTS
  Calls = {"small", "tiny", "large"}
  Inline = {"small", "tiny"}
  Checks = {"first", "second"}
  Encodings = {"cl100k", "o200k"}
  Default = "o200k"
  Models <- mcModels
  Backends = {"auto", "tiktoken", "heuristic"}
  Stores = {"memory", "redis", "unparsable"}
  Threads = 2
INVARIANTS
  OneCounter
  LoopStallsForStrangersOnly
PROPERTY ReadinessAnswers
CHECK_DEADLOCK FALSE
