CONSTANTS
    Endpoints = {e1, e2}
    HealthyThreshold = 1
    UnhealthyThreshold = 2
    Protocols = {"http", "tcp", "grpc"}
    ExpectedStatuses = {}
    RetriableStatuses = {"503"}
    Capacities = {1, 6}
    MaxChanges = 1
SPECIFICATION FairSpec
INVARIANTS TypeOK RemovedIsQuiet
PROPERTIES OnlyFullChannelBlocks NewestResultPrevails
CHECK_DEADLOCK FALSE
