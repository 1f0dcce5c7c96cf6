SPECIFICATION FairSpec
CONSTANTS
    c1 = c1
    c2 = c2
    Cdr <- MCBoth
    Rateable <- MCFirst
    CarrierCalls <- MCSecond
    BatchSize = 1
    NoPrice = NoPrice
    RatingError = RatingError
    Negative = Negative
    MaxTariff = 1
    MaxRequests = 1
    MaxPuts = 1
INVARIANTS
    TypeOK
    OneCallPerCdr
    RatedPriceIsItsCost
    RerateTakesEffect
PROPERTIES
    
    EveryCallIsParsed
CHECK_DEADLOCK FALSE
