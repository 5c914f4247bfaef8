SPECIFICATION Spec
CONSTANTS
  AppSecrets <- OneSecret
  Values = {1, 2}
  MaxKeys = 2
  MaxCsrs = 2
  Kinds = {"kill"}
  MaxTroubles = 1
  Development = TRUE
  MaxReinits = 0
INVARIANTS
  RootTokenHeldOrRevoked
CHECK_DEADLOCK FALSE
