SPECIFICATION Spec
CONSTANTS
    None = None
    r1 = r1
    r2 = r2
    r3 = r3
    r4 = r4
    r5 = r5
    Runs = {r1, r2}
    Roots = {r1}
    Program <- EffectsProgram
    Embedded = FALSE
    Faults = {}
    Missing = {"payload", "workflow"}
    DispatchLimit = 2
    DriveBound = 3
    MaxAttempts = 2
    MaxDispatch = 3
    MaxParked = 1
    MaxSignals = 0
    MaxAudit = 2
    MaxHistory = 4
    MaxHops = 1
    MaxEpoch = 3
INVARIANTS
    TypeOK
    UnknownHasCause
    UncertainIsReported
    RetryBudget
    NoLostWakeup
    SlotsAreHandlers
PROPERTIES
    DoneIsFinal
    EffectsFollowProtocol
    FencedByCancel
CHECK_DEADLOCK FALSE
