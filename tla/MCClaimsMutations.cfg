SPECIFICATION Spec
CONSTANTS
    q1 = q1
    q2 = q2
    q3 = q3
    k1 = k1
    None = None
    Requests = {q1, q2, q3}
    Keys = {k1}
    Key <- KeyOf
    ReadOnly = {q3}
    HardLimit = 0
    Tries = 3
SYMMETRY Interchangeable
CONSTRAINT OneKey
CHECK_DEADLOCK FALSE
INVARIANTS
    DispatchFence
    SingleEffect
