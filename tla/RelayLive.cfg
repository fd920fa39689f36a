SPECIFICATION FairSpec
CONSTANTS
    i1 = i1
    i2 = i2
    Events <- ThreeEvents
    Commands <- ReportOnly
    Removals <- RemovalOnly
    Poison <- ReportOnly
    Instances = {i1}
    BatchSize = 1
    Patience = 1
    MaxFaults = 1
    MaxResends = 2
PROPERTIES
    NoRowStarves
    RemovalsAreAnswered
