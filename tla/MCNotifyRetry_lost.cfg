SPECIFICATION Spec
CONSTANTS
    Coupons = {c1}
    Chains = {f1}
    Workers = {w1}
    InlinePosts = 1
    MaxAttempts = 2
    PageSize = 1
    NoMember = NoMember
    MaxCrashes = 1
    MaxFaults = 0
    MaxRestarts = 0
INVARIANTS
    AtLeastOnce
