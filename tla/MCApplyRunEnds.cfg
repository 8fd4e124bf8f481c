SPECIFICATION Spec
CONSTANTS
    a = a
    b = b
    NoRun = NoRun
    Run <- MCRun
    Plans <- MCPlans
    N = 2
    MaxFaults = 1
    MaxEdits = 0
CHECK_DEADLOCK FALSE
PROPERTIES
    RunsEnd
    LockIsReleased
