SPECIFICATION Spec
CONSTANTS
    TotalQty = 1
    Instances = {i1}
    Admins = {a1}
    MaxChanges = 1
    MaxOpens = 1
    Users = {u1, u2, u3}
    Requests = {r1, r2, r3}
    NoHolder = NoHolder
    MaxOverruns = 1
INVARIANTS
    MutualExclusion
    OverIssueByOverruns
PROPERTIES
    LeaseFreesLock
    ImplementsAllocation
CHECK_DEADLOCK FALSE
