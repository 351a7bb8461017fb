SPECIFICATION RouteSpec
CONSTANTS
    Threads = {t1}
    Amounts = {1}
    max_tokens = 2
    tokens_per_fill = 2
    fill_interval = 4
    Start = 8
    MaxClock = 14
INVARIANT RouteRateLimited
