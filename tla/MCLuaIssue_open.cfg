SPECIFICATION Spec
CONSTANTS
    TotalQty = 2
    Instances = {i1}
    Admins = {a1, a2}
    MaxChanges = 2
    MaxOpens = 2
    Users = {u1, u2, u3}
    Requests = {r1, r2, r3}
    RecordModes = {"stream", "kafka", "sync"}
    MaxRestarts = 1
    NotifyEnabled = TRUE
SYMMETRY Symmetry
CONSTRAINT OneChangeWithKafka
INVARIANTS
    NoOverIssue
    OnePerUser
    SoldOutIsTrue
    RemainingIsExact
    NoGrantBeforeOpen
    DuplicateIsTrue
    GrantsWithinCredit
    UnrecordedIsAnError
PROPERTIES
    ImplementsAllocation
CHECK_DEADLOCK FALSE
