SPECIFICATION Spec
CONSTANTS
    a = a
    b = b
    NoRun = NoRun
    Run <- MCRun
    Plans <- MCPlans
    N = 2
    MaxFaults = 2
    MaxEdits = 1
CHECK_DEADLOCK FALSE
INVARIANTS
    TypeOK
    OneRunAtATime
    OutsidersMutateNothing
    ReceiptIsTruthful
    NothingAfterFailure
    SecondApplyIsNoOp
SYMMETRY Symm
