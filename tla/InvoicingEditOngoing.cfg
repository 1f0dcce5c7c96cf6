SPECIFICATION Spec
CONSTANTS
    i1 = i1
    i2 = i2
    c1 = c1
    c2 = c2
    Invoice <- MCInvoice
    Scheduled <- MCScheduled
    Call <- MCCall
    Day <- MCDay
    DayOf <- MCDayOf
    Period <- MCPeriod
    NoInvoice = NoInvoice
    LateCalls = FALSE
    EditOngoing = TRUE
    Race = FALSE
    MaxQueue = 2
    MaxFaults = 0
INVARIANTS
    OneCallOneInvoice
CHECK_DEADLOCK FALSE
