SPECIFICATION FairSpec
CONSTANTS
    Watchers = {w1, w2}
    Updaters = {u1, u2}
    Values = {a, b}
    InitValue = a
    NoThread = NoThread
    Unborn = Unborn
    MaxUpdates = 3
INVARIANTS
    TypeOK
    LocalMatchesVersion
PROPERTIES
    NoRollback
    EventuallyLatest
    ImplementsAtomicWatch
