SPECIFICATION FairSpec
CONSTANTS
  Commands = {"a", "b"}
  Pids = {1, 2, 3}
  NoPid = 0
  Scopes = {"user", "project"}
  Hosts <- mcHosts
  MaxCalls = 3
  MaxOverlapping = 2
CHECK_DEADLOCK FALSE
PROPERTIES
  OnlyOwnStopped
  DeadRouteIsReported
  CommandsEnd
