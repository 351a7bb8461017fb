CONSTANTS
    Endpoints = {e1, e2}
    HealthyThreshold = 1
    UnhealthyThreshold = 2
    Protocols = {"tcp"}
    ExpectedStatuses = {}
    RetriableStatuses = {"503"}
    Capacities = {4}
    MaxChanges = 1
SPECIFICATION Spec
PROPERTIES ExitsOnlyWhenCancelled
CHECK_DEADLOCK FALSE
