SPECIFICATION FairSpec
CONSTANTS
  Tiers <- MCTiers
  ServiceAccts <- MCServiceAccts
  SAOf <- MCSAOf
  GatedSAs <- MCGatedSAs
  Reconciler <- MappedReconciler
  OtherGrants <- HandGrants
  Automated = {"shop-identity", "shop-workload", "shop-network-runtime"}
  Tier = "api"
  OtherSA = "default"
  None = None
INVARIANTS TypeOK
PROPERTIES SyncsFollowMaster WorkloadFollowsGit Converges
CHECK_DEADLOCK FALSE
