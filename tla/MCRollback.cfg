SPECIFICATION Spec
CONSTANTS
    a = a
    b = b
    NoRun = NoRun
    Run <- MCRun
    Receipts <- MCReceipts
    N = 3
    MaxFaults = 2
    MaxEdits = 2
CHECK_DEADLOCK FALSE
INVARIANTS
    TypeOK
    RefusalChangesNothing
    ReceiptMeansRestored
PROPERTY EarlierEditsSurvive
SYMMETRY Symm
