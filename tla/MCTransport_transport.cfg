SPECIFICATION FairSpec
CONSTANTS
  Requests = {s1, b1, b2}
  Streaming = {s1}
  ReconnectAttempts = 1
  MaxChunks = 2
INVARIANTS
  TruncationShows
  NothingLeftOpen
  OnlyDropsRunAgain
  CountersAgree
PROPERTIES
  AlwaysReleased
CHECK_DEADLOCK FALSE
