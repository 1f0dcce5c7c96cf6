SPECIFICATION FairSpec
CONSTANTS
    c1 = c1
    c2 = c2
    Call <- MCOne
    NoRecord = NoRecord
    MaxGateways = 1
    MaxCrashes = 1
    MaxRestarts = 1
    MaxOpenings = 2
    MaxQueue = 2
INVARIANTS
    TypeOK
    RecordFollowsDialog
    QuietViewIsCurrent
PROPERTIES
    NothingGoesBack
    EveryGhostLeaves
CHECK_DEADLOCK FALSE
