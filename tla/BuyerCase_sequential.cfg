SPECIFICATION Spec
CONSTANTS
    Peers = {s1}
    NoBuffer = NoBuffer
    MaxAttempts = 4
    MaxDoublings = 1
    MaxBackoff = 2
    Wrapped = {4}
    Locations = {1}
    Loop = loop
    Callbacks = {cb}
    Apps = {}
    Punchers = {p1}
    Unreachable = {s1}
    Reporting = {}
    LoopPeriod = 1
    MaxRestarts = 0
    MaxReplaces = 0
INVARIANT TypeOK
PROPERTIES RepeatsAreSpaced BlacklistSticks
