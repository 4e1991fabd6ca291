\* The app's loops, and another client: beside the loop of the withdrawal, which it
\* may name with a transfer that is nobody's, and after that of the payout.
SPECIFICATION FairSpec
CONSTANTS
    withdrawal = withdrawal
    payout = payout
    Ops = {withdrawal, payout}
    Others = {c1}
    Transfers = {k1, k2}
    None = None
    KindOf <- WithdrawalAndPayout
    Unwinds = {}
    InTurn = {payout}
INVARIANTS
    TrueToAnchor
    AnnouncedAsItEnded
    ToldIsRecorded
PROPERTIES
    EndIsStored
CHECK_DEADLOCK FALSE
