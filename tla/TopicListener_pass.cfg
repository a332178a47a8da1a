SPECIFICATION FairSpec
CONSTANTS
    Delay = 1
    Lag = 1
    Timeout = 2
    MaxTime = 6
INVARIANTS TypeOK HandledInOrder DeliveredIsPast
PROPERTY NeverDeafForGood
