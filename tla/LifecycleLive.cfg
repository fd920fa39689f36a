SPECIFICATION FairSpec
CONSTANTS
    c1 = c1
    c2 = c2
    c3 = c3
    i1 = i1
    i2 = i2
    Commands <- Three
    Instances = {i1}
    IntakeOf <- WithInvalid
    KeyOf <- DistinctKeys
    HoldingOf <- OnePost
    MaxAttempts = 2
    BatchSize = 2
    MaxFaults = 1
    MaxDeletions = 1
PROPERTIES
    NothingWaitsForever
