SPECIFICATION FairSpec
CONSTANTS
    None = None
    Jobs = {1, 2}
    Workers = {w1}
    c0 = c0
    c1 = c1
    c2 = c2
    Cursors = {c0, c1}
    Start = c0
    Pages <- TwoPages
    MaxAttempts = 2
    MaxRecoveries = 1
    MaxGeneration = 2
    MaxSecret = 2
    MaxControls = 1
PROPERTIES
    JobsEnd
CHECK_DEADLOCK FALSE
