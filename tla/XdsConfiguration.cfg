SPECIFICATION Spec
CONSTANTS
    Types = {"Cluster", "ClusterLoadAssignment"}
    Ids = {1, 2}
    MaxChanges = 2
    MaxBreaks = 2
    MaxTimeouts = 6
    Undecodable = {}
    Invalid = {}
    SubscriptionsCap = 1
    ResourcesCap = 6
    INITIAL_BACKOFF = 1
    MAX_BACKOFF = 4
    BACKOFF_INTERVAL = 2
PROPERTIES Converges SubscriptionsReachServer HandlerNotStuck
CHECK_DEADLOCK FALSE
