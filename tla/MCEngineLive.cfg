SPECIFICATION FairSpec
CONSTANTS
    None = None
    r1 = r1
    r2 = r2
    r3 = r3
    r4 = r4
    r5 = r5
    Runs = {r1, r2}
    Roots = {r1}
    Program <- LiveProgram
    Embedded = FALSE
    Faults = {}
    Missing = {}
    DispatchLimit = 1
    DriveBound = 4
    MaxAttempts = 1
    MaxDispatch = 2
    MaxParked = 1
    MaxSignals = 1
    MaxAudit = 1
    MaxHistory = 3
    MaxHops = 1
    MaxEpoch = 2
PROPERTIES
    CancelEnds
    ParkedIsWoken
CHECK_DEADLOCK FALSE
