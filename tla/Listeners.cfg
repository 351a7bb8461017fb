SPECIFICATION Spec
CONSTANTS
  Names = {web, mesh}
  Internal = {mesh}
  BroadcastCap = 1
  Bounds <- MCBounds
INVARIANTS TypeOK OnlyTheNewestRuns SecretArrives FiltersNotOlder
PROPERTIES RoutesSettle ListenersSettle DumpEnds
CHECK_DEADLOCK FALSE
