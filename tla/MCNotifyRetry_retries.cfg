SPECIFICATION Spec
CONSTANTS
    Coupons = {c1}
    Chains = {f1, f2}
    Workers = {w1, w2}
    InlinePosts = 1
    MaxAttempts = 2
    PageSize = 2
    NoMember = NoMember
    MaxCrashes = 1
    MaxFaults = 1
    MaxRestarts = 1
INVARIANTS
    SentIsDelivered
    GivenUpAfterAll
    OneAtATime
    Accounted
PROPERTIES
    Settles
CONSTRAINT RestartBound
