SPECIFICATION Spec
CONSTANTS
    Types = {"Secret", "Cluster", "ClusterLoadAssignment", "Listener", "RouteConfiguration"}
    Ids = {1}
    MaxChanges = 3
    MaxBreaks = 2
    MaxTimeouts = 1
    Undecodable = {2}
    Invalid = {3}
    SubscriptionsCap = 1
    ResourcesCap = 6
    INITIAL_BACKOFF = 1
    MAX_BACKOFF = 4
    BACKOFF_INTERVAL = 2
INVARIANTS TypeOK TrackedIsApplied DependentsSubscribed BackoffBounded

CHECK_DEADLOCK FALSE
