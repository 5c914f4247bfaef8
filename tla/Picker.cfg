SPECIFICATION MCSpec
CONSTANTS
  Bricks = {a, b, c}
  Missing = {x}
  Options <- DefaultOptions
SYMMETRY Renamings
INVARIANTS
  AcceptedIsHealthy
  HealthyIsAccepted
  CyclesAreReal
  SelectionIsClosed
  SelectionIsLeast
  CheckedIsDeployable
  FreshIsUpToDate
PROPERTY EveryTurnCounts
CHECK_DEADLOCK FALSE
