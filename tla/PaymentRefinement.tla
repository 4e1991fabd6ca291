------------------------- MODULE PaymentRefinement -------------------------
(***************************************************************************)
(* PaymentExecution, driven by a client that awaits each execute-step, as   *)
(* an implementation of PaymentPromise.                                     *)
(***************************************************************************)
EXTENDS PaymentExecution

OpsOf(q) == {o \in Ops : ops[o].quote = q}

\* What landed for a quote, whichever operation it was built for.
LandedFor(q, steps) == UNION {LandedTxs(o, steps) : o \in OpsOf(q)}

AnnouncedFor(q) ==
    IF OpsOf(q) = {} THEN 0 ELSE notified[CHOOSE o \in OpsOf(q) : TRUE]

Promise == INSTANCE PaymentPromise WITH
    committed <- {q \in Quotes : OpsOf(q) # {}},
    unwound <- [q \in Quotes |-> LandedFor(q, {"yield_withdraw"})],
    paid <- [q \in Quotes |-> LandedFor(q, FinalSteps)],
    announced <- [q \in Quotes |-> AnnouncedFor(q)]

\* Builds, executions, retries, timeouts, restarts and expiries of the payment
\* path amount to the steps of PaymentPromise.
KeepsPromise == Promise!Spec
============================================================================
