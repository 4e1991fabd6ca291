\* Any client: two requests at a time, also for the same operation.
SPECIFICATION Spec
CONSTANTS
    q1 = q1
    q2 = q2
    Quotes = {q1, q2}
    Ops = {o1, o2, o3}
    Txs = {1, 2, 3, 4}
    Transfers = {k1}
    Requests = {r1, r2}
    None = None
    RouteOf <- UnwindAndPlain
    NeedsUnwind = {q1}
    OneStepAtATime = FALSE
    MayRestart = TRUE
SYMMETRY Symmetry
INVARIANTS
    UnwindPrecedesPayment
    OneUnwindPerQuote
    CompletedIsPaid
PROPERTIES SettledIsFinal
CHECK_DEADLOCK FALSE
