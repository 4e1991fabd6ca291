\* One phone, the contacts other phones ask for too, and the bank's sessions.
SPECIFICATION FairSpec
CONSTANTS
    Devices = {d1}
    Keys = {k1, k2}
    Contacts = {c1}
    EnvAccount = EnvAccount
    None = None
    Requests = {1, 2}
    Sids = {s1, s2}
    Ensures = {e1}
    Life = 2
    Margin = 1
    MaxRestarts = 1
INVARIANTS
    ReadyIsUsable
    ShownIsKept
    CacheIsHonoured
PROPERTIES
    KeepsItsWallet
    BootstrapEnds
CHECK_DEADLOCK FALSE
