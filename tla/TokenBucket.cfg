SPECIFICATION Spec
CONSTANTS
    Threads = {t1, t2}
    Amounts = {1, 3}
    max_tokens = 2
    tokens_per_fill = 2
    fill_interval = 4
    Start = 8
    MaxClock = 14
INVARIANTS TypeOK RateLimited
PROPERTIES TimeNeverGoesBack RefusalJustified
