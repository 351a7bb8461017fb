SPECIFICATION Spec
CONSTANTS
  Names = {web, mesh}
  Internal = {mesh}
  BroadcastCap = 1
  Bounds <- MCSecretBounds
INVARIANTS RotatedSecretArrives
CHECK_DEADLOCK FALSE
