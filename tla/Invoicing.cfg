SPECIFICATION Spec
CONSTANTS
    i1 = i1
    i2 = i2
    c1 = c1
    c2 = c2
    Invoice <- MCInvoice
    Scheduled <- MCScheduled
    Call <- MCCall
    Day <- MCDay
    DayOf <- MCDayOf
    Period <- MCNested
    NoInvoice = NoInvoice
    LateCalls = TRUE
    EditOngoing = TRUE
    Race = TRUE
    MaxQueue = 1
    MaxFaults = 1
INVARIANTS
    TypeOK
    OwnedAreBilled
    BilledAreOwned
CHECK_DEADLOCK FALSE
