SPECIFICATION ReadersSpec
CONSTANTS
    p1 = p1
    p2 = p2
    p3 = p3
    c1 = c1
    r1 = r1
    r2 = r2
    r3 = r3
    id1 = id1
    id2 = id2
    NoProc = NoProc
    NoReceipt = NoReceipt
    Proc <- MCProc
    Locked <- MCLocked
    Receipt <- MCReceipt
    Reader <- MCReader
    RunID <- MCRunID
    MaxFaults = 1
SYMMETRY Symm
CHECK_DEADLOCK FALSE
INVARIANTS
    CurrentNeverDangles
    CurrentIsFreshIfSerial
    ReadIsExact
