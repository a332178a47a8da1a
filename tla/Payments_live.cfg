SPECIFICATION SpecInService
CONSTANTS
    Accounts = {a1, a2}
    Schedules = {s1, s2}
    Callbacks = {c1}
    Funds = 200
    MaxWasted = 0
    NoSchedule = NoSchedule
    NoAccount = NoAccount
PROPERTY ImplementsEscrow
