SPECIFICATION FairSpec
CONSTANTS
    s1 = s1
    s2 = s2
    Scheduler <- MCSchedulers
    Elsewhere <- MCElsewhere
    Date <- MCDates
    Every <- MCEvery
    MaxTime = 5
    MaxEdits = 1
    MaxKills = 1
INVARIANTS
    TypeOK
    NoDayIsInvoicedTwice
    NoDayIsForgotten
    LastHoleIsShown
PROPERTIES
    EverySchedulerCatchesUp
CHECK_DEADLOCK FALSE
