SPECIFICATION ToolsSpec
SYMMETRY Symmetry
CONSTANTS
    MaxTime = 1
    MaxBacklog = 1
    MaxObservations = 3
    MaxMishaps = 1
    NoFile = NoFile
    Foreign = OtherManifest
    Sources = {s1, s2}
    Packagers = {k1, k2}
    Missing = Missing
    MaxEdits = 1
    MaxDamages = 1
    Generators = {g1, g2}
    Users = 2
    Stock = 2
    Tolerated = 1
    Slack = 1
    MaxRuns = 2
    MaxSlips = 2
INVARIANTS
    RecoveryIsTrue
    ApiFaultIsTrue
    AggregateIsTrue
PROPERTIES
    OutputKept
    PublishedIsWhole
CHECK_DEADLOCK FALSE
