SPECIFICATION Spec
CONSTANTS
    p = p
    q = q
    Adopter <- MCAdopter
    Helper = {helper}
    NoOne = NoOne
    NoBody = NoBody
    N = 2
    MaxIno = 5
    MaxFaults = 2
    MaxUser = 2
CHECK_DEADLOCK FALSE
INVARIANTS
    TypeOK
    RecordHasBackup
    BackupIsOneVersion
    ReturnedRecordStays
    BatchPublishesVerifiedPrefix
SYMMETRY MCSymm
