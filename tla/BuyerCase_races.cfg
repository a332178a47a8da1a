SPECIFICATION Spec
CONSTANTS
    Peers = {s1}
    NoBuffer = NoBuffer
    MaxAttempts = 0
    MaxDoublings = 0
    MaxBackoff = 0
    Wrapped = {0}
    Locations = {}
    Loop = loop
    Callbacks = {cb}
    Apps = {app}
    Punchers = {}
    Unreachable = {}
    Reporting = {s1}
    LoopPeriod = 1
    MaxRestarts = 1
    MaxReplaces = 2
INVARIANTS OneAccountPerGoroutine AccountsAreRecorded RequestsArePayable
PROPERTY ImplementsSharedAccounts
