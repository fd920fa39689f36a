SPECIFICATION Spec
CONSTANTS
    i1 = i1
    i2 = i2
    Events <- TwoEvents
    Commands <- ReportOnly
    Removals <- RemovalOnly
    Poison <- NoEvents
    Instances = {i1}
    BatchSize = 2
    Patience = 1
    MaxFaults = 2
    MaxResends = 1
INVARIANTS
    AcknowledgedAfterPublished
