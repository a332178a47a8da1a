SPECIFICATION Spec
CONSTANTS
    Peers = {b1, b2}
    NoBuffer = NoBuffer
    Live = Live
    MaxAttempts = 0
    MaxDoublings = 0
    MaxBackoff = 1
    Wrapped = {0}
    AccountsOf <- OneAccountEach
    Handlers = {h1}
    Punchers = {}
    Acknowledging = {}
    AppAddresses = {}
INVARIANTS InvoicesWereRequested NilRequestWindow
