SPECIFICATION RolloutSpec
CONSTANTS
  g1 = g1
  g2 = g2
  t1 = t1
  t2 = t2
  Gateways = {g1, g2}
  Threads = {t1, t2}
  GatewayOf <- mcGatewayOf
  Contents = {"page", "broken"}
  Renderable = {"page"}
  Deployments <- mcDeployments
  Fingerprinted = {"html_preserve_links"}
  Undecodable = {"truncated"}
  Explosive = {"infinite"}
  MaxLookups = 3
  MaxSpoils = 1
  MaxRestarts = 1
SYMMETRY symmetry
INVARIANTS
  ServedAsKeyed
  MissesAreWork
  PoisonPasses
CHECK_DEADLOCK FALSE
