SPECIFICATION FairSpec
CONSTANTS
    c1 = c1
    c2 = c2
    Cdr <- MCBoth
    Rateable <- MCFirst
    CarrierCalls <- MCNone
    BatchSize = 2
    NoPrice = NoPrice
    RatingError = RatingError
    Negative = Negative
    MaxTariff = 1
    MaxRequests = 1
    MaxPuts = 1
PROPERTIES
    KeepsGoing
CHECK_DEADLOCK FALSE
