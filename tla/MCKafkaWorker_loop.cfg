SPECIFICATION WorkersSpec
CONSTANTS
    Users = {u1, u2}
    Workers = {w1, w2}
    BatchSize = 2
    PendingWindow = 1
    ReclaimEvery = 2
    NotifyEnabled = TRUE
    MaxEntries = 2
    MaxCrashes = 1
    MaxFaults = 1
    MaxDeletes = 1
    Attempts = 2
    NoOwner = NoOwner
    MaxRebalances = 1
    MaxFailures = 2
INVARIANTS
    TypeOK
    NothingLost
    RecordedBeforeAck
    NotifiedAreRecorded
    CommittedIsSettled
PROPERTIES
    BacklogDrained
