SPECIFICATION Spec
CONSTANTS
    None = None
    r1 = r1
    r2 = r2
    r3 = r3
    r4 = r4
    r5 = r5
    Runs = {r1, r2, r3, r4, r5}
    Roots = {r1, r5}
    Program <- TreeProgram
    Embedded = TRUE
    Faults = {"nondeterminism", "panic", "malformed"}
    Missing = {"activity", "room"}
    DispatchLimit = 1
    DriveBound = 2
    MaxAttempts = 2
    MaxDispatch = 3
    MaxParked = 1
    MaxSignals = 0
    MaxAudit = 1
    MaxHistory = 8
    MaxHops = 1
    MaxEpoch = 1
INVARIANTS
    UnsafeOnce
    NoLostWakeup
    CancelCoversTree
    CompletedJoined
PROPERTIES
    EndIsFinal
CHECK_DEADLOCK FALSE
