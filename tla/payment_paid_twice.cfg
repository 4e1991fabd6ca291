\* Two execute-steps of one operation at a time, and the claim of a quote.
SPECIFICATION Spec
CONSTANTS
    q1 = q1
    q2 = q2
    Quotes = {q1}
    Ops = {o1}
    Txs = {1, 2, 3}
    Transfers = {k1}
    Requests = {r1, r2}
    None = None
    RouteOf <- UnwindPayment
    NeedsUnwind = {q1}
    OneStepAtATime = FALSE
    MayRestart = FALSE
SYMMETRY Symmetry
INVARIANTS OnePaymentPerQuote
CHECK_DEADLOCK FALSE
