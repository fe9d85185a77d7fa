SPECIFICATION Spec
CONSTANTS
    None = None
    Jobs = {1}
    Workers = {w1, w2}
    c0 = c0
    c1 = c1
    c2 = c2
    Cursors = {c0, c1, c2}
    Start = c0
    Pages <- ThreePages
    MaxAttempts = 2
    MaxRecoveries = 1
    MaxGeneration = 2
    MaxSecret = 3
    MaxControls = 2
INVARIANTS
    PagesFormChain
    MessagesBelong
PROPERTIES
    EndedIsFinal
SYMMETRY Symmetry
CHECK_DEADLOCK FALSE
