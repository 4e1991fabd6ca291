\* Two accounts, one of which is paid, and one phone between them.
SPECIFICATION FairSpec
CONSTANTS
    a1 = a1
    Outside = Outside
    Accounts = {a1, a2}
    Devices = {d1}
    Payments <- ToOneAccount
    Passes = {1, 2}
    None = None
    PageLimit = 1
    MaxPayments = 2
    MaxRestarts = 1
INVARIANTS
    NoneSkipped
PROPERTIES
    PassedIsPast
    NewsIsAnswered
CHECK_DEADLOCK FALSE
