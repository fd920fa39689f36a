SPECIFICATION Spec
CONSTANTS
    c1 = c1
    c2 = c2
    c3 = c3
    i1 = i1
    i2 = i2
    Commands <- Three
    Instances = {i1}
    IntakeOf <- WithRejected
    KeyOf <- DistinctKeys
    HoldingOf <- OnePost
    MaxAttempts = 2
    BatchSize = 2
    MaxFaults = 1
    MaxDeletions = 1
INVARIANTS
    TypeOK
    AtMostOneTerminalReport
    GuardMatchesReport
    ReportAgreesWithCapture
    OnlyUndecidedIsFetched
    MarkerMatchesEffect
    SettledAfterCommit
PROPERTIES
    OutcomeIsFinal
    KeepsPromise
SYMMETRY CapturesInterchangeable
