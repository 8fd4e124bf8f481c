SPECIFICATION Spec
CONSTANTS
    a = a
    b = b
    NoRun = NoRun
    Run <- MCRun
    Plans <- MCPlans
    N = 2
    MaxFaults = 0
    MaxEdits = 1
CHECK_DEADLOCK FALSE
PROPERTY StalePlanDoesNotOverwrite
