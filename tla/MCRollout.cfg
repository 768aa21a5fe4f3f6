SPECIFICATION RolloutSpec
CONSTANTS
  Tiers <- MCTiers
  ServiceAccts <- MCServiceAccts
  SAOf <- MCSAOf
  GatedSAs <- MCGatedSAs
  Requesters <- MCRolloutRequesters
  UsedKinds <- MCRolloutKinds
  Workloads = {w1}
  Parts = {c1, c2, c3, c4}
  None = None
PROPERTY RolloutCompletes
CHECK_DEADLOCK FALSE
