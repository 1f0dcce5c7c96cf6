SPECIFICATION Spec
CONSTANTS
    c1 = c1
    c2 = c2
    Cdr <- MCBoth
    Rateable <- MCBoth
    CarrierCalls <- MCSecond
    BatchSize = 2
    NoPrice = NoPrice
    RatingError = RatingError
    Negative = Negative
    MaxTariff = 1
    MaxRequests = 1
    MaxPuts = 1
INVARIANTS
    AnyCallIsRerated
CHECK_DEADLOCK FALSE
