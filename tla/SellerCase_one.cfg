SPECIFICATION FairSpec
CONSTANTS
    Peers = {b1}
    NoBuffer = NoBuffer
    Live = Live
    MaxAttempts = 0
    MaxDoublings = 0
    MaxBackoff = 1
    Wrapped = {0}
    AccountsOf <- OneAccountEach
    Handlers = {h1}
    Punchers = {p1}
    Acknowledging = {b1}
    AppAddresses = {b1}
INVARIANT TypeOK
PROPERTY AskingBuyerIsServed
