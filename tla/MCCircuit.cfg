SPECIFICATION FairSpec
CONSTANTS
    Calls = {c1, c2, c3, c4, c5}
    Threshold = 2
    None = None
INVARIANTS
    ProbeExclusive
    OpenAdmitsOnlyProbes
    OpenAtThreshold
PROPERTIES
    ClosesByProbe
    ProbeReturned
CHECK_DEADLOCK FALSE
