SPECIFICATION Spec
CONSTANTS
    p1 = p1
    p2 = p2
    p3 = p3
    r1 = r1
    r2 = r2
    r3 = r3
    NoProc = NoProc
    NoReceipt = NoReceipt
    Proc <- MCProc
    Locked <- MCLocked
    Receipt <- MCReceipt
    MaxFaults = 3
SYMMETRY Symm
CHECK_DEADLOCK FALSE
INVARIANTS
    TypeOK
    IndexNeverDangles
    AckedIsDurable
    OneClaimPerReceipt
    SingleFaultRetracts
    CurrentIsMostRecentIfSerial
PROPERTY ImplementsLog
