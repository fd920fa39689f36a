SPECIFICATION Spec
CONSTANTS
    i1 = i1
    i2 = i2
    Events <- TwoEvents
    Commands <- ReportOnly
    Removals <- RemovalOnly
    Poison <- NoEvents
    Instances = {i1, i2}
    BatchSize = 1
    Patience = 0
    MaxFaults = 2
    MaxResends = 1
SYMMETRY Interchangeable
INVARIANTS
    TypeOK
    CountedCopiesWereTaken
    RemovalsStayArmed
PROPERTIES
    FirstAnswerStands
