SPECIFICATION Spec
CONSTANTS
    None = None
    Callers = {q1, q2}
    Modes = {"oauth2", "api_key"}
    MaxSecret = 3
    MaxStarts = 2
INVARIANTS
    CredentialsKept
PROPERTIES
    RotationFenced
    NoLateRevival
    NoLostReplacement
    ImplementsBinding
SYMMETRY Symmetry
CHECK_DEADLOCK FALSE
