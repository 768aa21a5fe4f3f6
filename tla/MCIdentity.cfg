SPECIFICATION Spec
CONSTANTS
  Tiers <- MCTiers
  ServiceAccts <- MCServiceAccts
  SAOf <- MCSAOf
  GatedSAs <- MCGatedSAs
  Requesters <- MCRequesters
  UsedKinds <- MCKinds
  Workloads = {w1}
  Parts = {c1, c2}
  None = None
SYMMETRY Symmetry
INVARIANTS TypeOK TierSAVouched NetworkIdentityVouched
PROPERTY ImplementsTierCapability
CHECK_DEADLOCK FALSE
