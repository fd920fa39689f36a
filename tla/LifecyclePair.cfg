SPECIFICATION Spec
CONSTANTS
    c1 = c1
    c2 = c2
    c3 = c3
    i1 = i1
    i2 = i2
    Commands <- Two
    Instances = {i1, i2}
    IntakeOf <- AllAccepted
    KeyOf <- OneKey
    HoldingOf <- OnePost
    MaxAttempts = 2
    BatchSize = 2
    MaxFaults = 1
    MaxDeletions = 1
INVARIANTS
    AtMostOneTerminalReport
    GuardMatchesReport
    OneCapturePerKey
    UnreportedStaysScheduled
SYMMETRY Interchangeable
