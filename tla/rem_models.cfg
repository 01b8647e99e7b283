SPECIFICATION FairSpec
CONSTANTS
  a = a
  b = b
  Node <- Pair
  Reach <- PairReach
  Battery <- One
  Signal <- OneSignal
  Value = {0, 4, 8}
  Sigma = {0, 1}
  InitCount = 3
  MaxDiffCount = 4
  MaxThreshDiff = 5
  NumDeviations = 4
  MaxPoints = 6
INVARIANTS
  BatteryRecovers
  QuietAgrees
PROPERTIES
  NeverOlder
  Synced
CHECK_DEADLOCK FALSE
