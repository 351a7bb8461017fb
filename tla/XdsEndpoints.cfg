SPECIFICATION Spec
CONSTANTS
    Types = {"Cluster", "ClusterLoadAssignment"}
    Ids = {1}
    MaxChanges = 3
    MaxBreaks = 0
    MaxTimeouts = 0
    Undecodable = {}
    Invalid = {}
    SubscriptionsCap = 3
    ResourcesCap = 2
    INITIAL_BACKOFF = 1
    MAX_BACKOFF = 4
    BACKOFF_INTERVAL = 2

PROPERTY EndpointsConverge
CHECK_DEADLOCK FALSE
