SPECIFICATION Spec
CONSTANTS
    Instances = {i1, i2}
    Admins = {a1, a2}
    TTL = 2
    MaxLoad = 1
    NoEntry = NoEntry
    MaxChanges = 2
    MaxLosses = 1
INVARIANTS
    StaleBounded
    StaleForAReason
PROPERTIES
    FreshAgain
CHECK_DEADLOCK FALSE
