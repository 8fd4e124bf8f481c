SPECIFICATION Spec
CONSTANTS
    p = p
    q = q
    c1 = c1
    c2 = c2
    d = d
    cat = cat
    asset = asset
    t1 = t1
    t2 = t2
    NoProc = NoProc
    NoCommit = NoCommit
    NoName = NoName
    Published = {c1, c2}
    Proc <- MCProc
    Commit = {c1, c2, d}
    Older <- MCOlder
    Path = {cat, asset}
    Tree <- MCTree
    Content = {"one", "two", "mine", "absent"}
    Groups <- MCGroups
    Tag = {t1, t2}
    Ignored = {asset}
    MaxFaults = 1
    MaxUser = 2
CHECK_DEADLOCK FALSE
INVARIANTS
    NewerIsDescendant
    CheckpointTagsItsHead
    CheckpointHoldsPaths
    RollbackReadsTheTag
    WorktreeKeepsItsMarkerIfSerial
PROPERTIES
    EditsSurvive
    OnlyFastForwards
    CleanupKeepsWhatItSaw
SYMMETRY MCSymm
