SPECIFICATION CleanupSpec
CONSTANTS
    Instances = {i1, i2}
    Databases = {d1, d2}
    Foreign = {i2}
    Extension = 1
    MaxExpiry = 2
    MaxCallFailures = 1
    MaxRestarts = 1
INVARIANTS
    FailuresAreReported
PROPERTIES
    StoppedOnlyWhenDue
    AllStopped
