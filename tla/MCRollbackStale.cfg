SPECIFICATION Spec
CONSTANTS
    a = a
    b = b
    NoRun = NoRun
    Run <- MCRun
    Receipts <- MCReceipts
    N = 3
    MaxFaults = 0
    MaxEdits = 1
CHECK_DEADLOCK FALSE
PROPERTY NoEditIsOverwritten
