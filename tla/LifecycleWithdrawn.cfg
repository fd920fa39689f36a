SPECIFICATION FairSpec
CONSTANTS
    c1 = c1
    c2 = c2
    c3 = c3
    i1 = i1
    i2 = i2
    Commands <- Two
    Instances = {i1}
    IntakeOf <- AllAccepted
    KeyOf <- DistinctKeys
    HoldingOf <- OnePost
    MaxAttempts = 1
    BatchSize = 1
    MaxFaults = 0
    MaxDeletions = 1
PROPERTIES
    EveryOperationAnswered
