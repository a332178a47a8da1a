SPECIFICATION Spec
CONSTANTS
    Peer = peer
    Peers = {peer}
    NoBuffer = NoBuffer
    MaxAttempts = 52
    MaxDoublings = 11
    MaxBackoff = 1440
    Wrapped = {29, 30, 32, 33, 34, 35, 36, 37, 42, 46, 47, 48, 50, 52}
    AttemptBound = 54
INVARIANTS TypeOK BackoffFollowsPolicy
PROPERTY ImplementsTable
