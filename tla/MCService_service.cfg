SPECIFICATION FairSpec
CONSTANTS
  Requests = {1, 2, 3}
  Asks <- mcAsks
  Deployments <- mcDeployments
  Reports <- mcReports
  Transformers <- mcTransformers
  Naming = {"openai"}
  Threads = 1
  Recent = 1
  MaxDay = 2
  MaxRestarts = 1
INVARIANTS
  StatsAreOfOneDay
  KillSwitchHolds
  OneCredential
PROPERTY EveryRequestAnswered
CHECK_DEADLOCK FALSE
