SPECIFICATION FairSpec
CONSTANTS
    Peers = {s1}
    NoBuffer = NoBuffer
    MaxAttempts = 2
    MaxDoublings = 1
    MaxBackoff = 2
    Wrapped = {2}
    Locations = {1}
    Loop = loop
    Callbacks = {cb}
    Apps = {}
    Punchers = {p1}
    Unreachable = {s1}
    Reporting = {}
    LoopPeriod = 1
    MaxRestarts = 0
    MaxReplaces = 0
PROPERTIES KeepsAsking StatusCatchesUp
