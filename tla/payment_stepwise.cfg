\* A client that awaits each execute-step, as the mobile app does.
SPECIFICATION FairSpec
CONSTANTS
    q1 = q1
    q2 = q2
    Quotes = {q1, q2}
    Ops = {o1, o2}
    Txs = {1, 2, 3}
    Transfers = {k1, k2}
    Requests = {r1, r2}
    None = None
    RouteOf <- CashOutAndSwap
    NeedsUnwind = {q1}
    OneStepAtATime = TRUE
    MayRestart = TRUE
INVARIANTS
    OnePaymentPerQuote
    FailedIsUnpaid
    NotifiedOnCompletionOnly
    FundedTransferIsTracked
PROPERTIES
    HandlersEnd
    KeepsPromise
CHECK_DEADLOCK FALSE
