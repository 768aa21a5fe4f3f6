SPECIFICATION GitOnlySpec
CONSTANTS
  Tiers <- MCTiers
  ServiceAccts <- MCServiceAccts
  SAOf <- MCSAOf
  GatedSAs <- MCGatedSAs
  Reconciler <- ShippedReconciler
  OtherGrants <- ChartGrants
  Automated = {"shop-identity", "shop-workload", "shop-network-runtime"}
  Tier = "api"
  OtherSA = "default"
  None = None
PROPERTIES WorkloadFollowsGit
CHECK_DEADLOCK FALSE
