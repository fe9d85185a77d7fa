SPECIFICATION Spec
CONSTANTS
    NoKey = NoKey
    Receivers = {r1, r2}
    Keys = {k1}
    MaxEvents = 2
    MaxDispatch = 2
    MaxReplays = 1
    MaxGeneration = 2
    MaxSecret = 2
INVARIANTS
    AcceptedOnce
    AcceptedAsVerified
    StreamComplete
    EffectsOfDispatch
SYMMETRY Symmetry
CHECK_DEADLOCK FALSE
