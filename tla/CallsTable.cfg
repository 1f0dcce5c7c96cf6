SPECIFICATION FairSpec
CONSTANTS
    c1 = c1
    Call <- MCOne
    NoRow = NoRow
    MaxPending = 2
    MaxSockets = 2
    MaxGateways = 1
INVARIANTS
    TypeOK
    CalmTableIsCurrent
    SubscribedIsShown
PROPERTIES
    ShownGoesForward
    EveryRowLeaves
CHECK_DEADLOCK FALSE
