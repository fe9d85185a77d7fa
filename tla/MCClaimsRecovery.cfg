SPECIFICATION Spec
CONSTANTS
    q1 = q1
    q2 = q2
    q3 = q3
    k1 = k1
    None = None
    Requests = {q1, q2}
    Keys = {k1}
    Key <- KeyOf
    ReadOnly = {}
    HardLimit = 0
    Tries = 1
SYMMETRY Interchangeable
CHECK_DEADLOCK FALSE
INVARIANTS
    UsageOnce
