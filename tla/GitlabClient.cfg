SPECIFICATION FairSpec
CONSTANTS
    Item = {i1, i2, i3, i4}
    PageSize = 2
    MaxRetries <- Retries
    RateLimit <- Rates
    i1 = i1
    i2 = i2
    i3 = i3
    i4 = i4
INVARIANTS TypeOK Complete OldestFirst ErrorIsJustified
PROPERTIES TakesPagesInTurn EventuallyReturns
