SPECIFICATION Safety
CONSTANTS
    Accounts = {a1, a2}
    Schedules = {s1, s2}
    Callbacks = {c1, c2}
    Funds = 200
    MaxWasted = 1
    NoSchedule = NoSchedule
    NoAccount = NoAccount
INVARIANTS TypeOK SplitAddsUp AtStake
