SPECIFICATION Spec
CONSTANTS
  AppSecrets <- OneSecret
  Values = {1, 2}
  MaxKeys = 2
  MaxCsrs = 2
  Kinds = {"fault", "stop", "deletion"}
  MaxTroubles = 3
  Development = TRUE
  MaxReinits = 0
PROPERTIES
  NoKeyOverData
CHECK_DEADLOCK FALSE
