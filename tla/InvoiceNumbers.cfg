SPECIFICATION FairSpec
CONSTANTS
    i1 = i1
    i2 = i2
    i3 = i3
    s1 = s1
    p1 = p1
    Invoice <- MCInvoice
    Scheduled <- MCScheduled
    Sequence <- MCSequence
    SequenceOf <- MCSequenceOf
    Prefix <- MCPrefix
    Increment <- MCOne
    SequenceLength <- MCOne
    FirstIteration <- MCEight
    Manual <- MCOther
    NoNumber = NoNumber
    Scheduler = Scheduler
    Request <- MCRequest
    IterationLimit = 65535
    MaxEdits = 1
INVARIANTS
    TypeOK
PROPERTIES
    IsRegister
    ScheduledAreNumbered
CHECK_DEADLOCK FALSE
