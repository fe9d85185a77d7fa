SPECIFICATION Spec
CONSTANTS
    None = None
    Callers = {q1, q2}
    Modes = {"oauth2"}
    MaxSecret = 2
    MaxStarts = 1
INVARIANTS
    NeverRetriesUnknownRotation
CHECK_DEADLOCK FALSE
