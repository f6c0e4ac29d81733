SPECIFICATION FairSpec
CONSTANTS
  Tables = {"keyed", "keyless"}
  Keyless = {"keyless"}
  Records <- TwoRecords
  MaxFaults = 3
  MaxCrashes = 3
  MaxBlackouts = 1
INVARIANTS TypeOK ActivationIsRetryable ReplayIsRetryable OpenMeansReplayed MarkersFollowRows
PROPERTY StoreOpens
