SPECIFICATION FairSpec
CONSTANTS
  AppSecrets <- OneSecret
  Values = {1, 2}
  MaxKeys = 2
  MaxCsrs = 2
  Kinds = {"fault", "stop", "deletion", "kill"}
  MaxTroubles = 2
  Development = TRUE
  MaxReinits = 1
INVARIANTS
  CsrOutlivesItsLog
  HandedOver
  BreakGlassBeforeSecrets
  DeadEndHoldsNothing
PROPERTIES
  NewKeyNeedsABlindRead
  SecretsNeverRotate
  Settles
CHECK_DEADLOCK FALSE
