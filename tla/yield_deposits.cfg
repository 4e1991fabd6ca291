\* A Grow-money deposit and a withdrawal, beside other users of the contract.
SPECIFICATION Spec
CONSTANTS
    growth = growth
    transfer = transfer
    withdrawal = withdrawal
    Strategies = {vault}
    NoPolicy = NoPolicy
    Risks = {2, 3}
    Liquidities = {0, 10000, 10001}
    Targets = {1, 3}
    MaxCopies = 2
    MaxTime = 2
    BumpThreshold = 1
    BumpTo = 2
    Ops = {growth, withdrawal}
    Requests = {r1, r2}
    None = None
    KindOf <- KindsOfOps
    AppFlows = {growth}
    Vault = vault
    Amounts = {0, 1, 3}
    Balances = {0, 2, 30000}
SYMMETRY Symmetry
INVARIANTS
    UsedIsAlive
    LastWordCounts
    DenialsAreTheUsers
    TakenPolicyIsAsked
    EndIsTrue
CHECK_DEADLOCK FALSE
