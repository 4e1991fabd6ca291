---------------------- MODULE PaymentExecution_proofs ----------------------
(***************************************************************************)
(* Theorems about PaymentExecution and its refinement of PaymentPromise,    *)
(* for any number of quotes, operations, transactions and concurrent        *)
(* requests: the types, the strengthened invariant, what follows from it,   *)
(* and the simulation of PaymentPromise.                                    *)
(*                                                                          *)
(* The invariants PaymentExecution states are not inductive: what an        *)
(* operation and a request carry has to be tied to the transactions they    *)
(* name. The parts of the strengthening are Claims, Pinned, Applied,        *)
(* Recorded, Ordered, Single, Carried and Refused for any client, and       *)
(* Serial and Current for one that awaits each execute-step.                *)
(***************************************************************************)
EXTENDS PaymentRefinement, TLAPS

(* Types *)

\* The final step of a route is one of the three.
LEMMA FinalStepType == ASSUME NEW q \in Quotes PROVE FinalStep(q) \in FinalSteps
  BY PaymentAssumption DEF FinalStep, FinalSteps, Routes

\* The unused operation is an operation.
LEMMA NoOperationType == NoOperation \in Operation
  BY DEF NoOperation, Operation, Statuses

\* The transaction that is not built is a transaction.
LEMMA NoTransactionType == NoTransaction \in Transaction
  BY DEF NoTransaction, Transaction, TxStates

\* A request at rest is a request.
LEMMA IdleType == Idle \in Request
  BY NoOperationType DEF Idle, Request, PCs

\* A request at rest carries what it needs, which is nothing.
LEMMA IdleWellFormed == WellFormed(Idle)
  BY DEF Idle, WellFormed

\* A request that goes on stays a request.
LEMMA AdvanceType ==
  ASSUME NEW x \in Request, NEW pc \in PCs, NEW next \in Steps \cup {None},
         NEW built \in Txs \cup {None}, NEW transfer \in Transfers \cup {None}
  PROVE  Advance(x, pc, next, built, transfer) \in Request
  BY DEF Advance, Request

\* The ledger changes the state of a transaction and nothing else of it.
LEMMA TxStateType ==
  ASSUME NEW x \in Transaction, NEW s \in TxStates
  PROVE  [x EXCEPT !.state = s] \in Transaction
  BY DEF Transaction

\* Handing a transaction out leaves transactions.
LEMMA HandOutType ==
  ASSUME TypeOK, NEW t \in Txs, HandOut(t)
  PROVE  txs' \in [Txs -> Transaction]
<1>1. txs[t].state \in TxStates /\ "open" \in TxStates
  BY DEF TypeOK, Transaction, TxStates
<1>2. \E s \in TxStates : txs' = [txs EXCEPT ![t] = [txs[t] EXCEPT !.state = s]]
  BY <1>1 DEF HandOut
<1> QED BY <1>2, TxStateType DEF TypeOK

\* An answered submission leaves a request, with its signed transaction.
LEMMA AnsweredType ==
  ASSUME TypeOK, NEW r \in Requests, req[r].pc = "submit",
         NEW pc \in {"ok", "failed", "idle"}, Answered(r, pc)
  PROVE  req' \in [Requests -> Request] /\ \A x \in Requests : WellFormed(req'[x])
<1>1. req' \in [Requests -> Request]
  BY IdleType, AdvanceType DEF TypeOK, Answered, PCs
<1>2. \A x \in Requests : WellFormed(req'[x])
  BY IdleWellFormed DEF TypeOK, Answered, Advance, WellFormed
<1> QED BY <1>1, <1>2

\* The update of a final step leaves operations.
LEMMA SettleType ==
  ASSUME TypeOK, NEW r \in Requests, NEW status \in Statuses,
         req[r].pc \in {"ok", "failed"}, Settle(r, status)
  PROVE  ops' \in [Ops -> Operation]
<1>1. /\ req[r].op \in Ops /\ req[r].tx \in Txs /\ req[r].step \in Steps
      /\ req[r].snap \in Operation
  BY DEF TypeOK, WellFormed, Request
<1>2. MergeRef(ops[req[r].op].transfer, req[r].snap.transfer) \in Transfers \cup {None}
  BY <1>1 DEF TypeOK, Operation, MergeRef
<1> QED BY <1>1, <1>2 DEF Settle, TypeOK, Operation

\* Every step keeps the types.
LEMMA TypeStep ==
  ASSUME TypeOK, [Next]_vars
  PROVE  TypeOK'
<1> USE DEF TypeOK
<1>1. ASSUME NEW q \in Quotes, SaveQuote(q)
      PROVE  TypeOK'
  BY <1>1 DEF SaveQuote
<1>2. ASSUME NEW q \in Quotes, QuoteExpires(q)
      PROVE  TypeOK'
  BY <1>2 DEF QuoteExpires, Fresh
<1>3. ASSUME NEW q \in Quotes, RejectStale(q)
      PROVE  TypeOK'
  BY <1>3 DEF RejectStale, DropIfStale
<1>4. ASSUME NEW r \in Requests, NEW q \in Quotes, NEW o \in Ops,
             NEW a \in BOOLEAN, BuildBegin(r, q, o, a)
      PROVE  TypeOK'
  <2>1. quotes' \in [Quotes -> [entry: {"unsaved", "fresh", "stale", "deleted"}, claimed: BOOLEAN]]
    BY <1>4 DEF BuildBegin, Claim, Fresh
  <2>2. ops' \in [Ops -> Operation]
    BY <1>4 DEF BuildBegin, NewOperation, Operation, NoOperation, Statuses
  <2>3. req' \in [Requests -> Request]
    BY <1>4, FinalStepType, NoOperationType DEF BuildBegin, NewBuild, Request, Idle, PCs, Steps
  <2>4. \A x \in Requests : WellFormed(req'[x])
    BY <1>4, FinalStepType, NoOperationType DEF BuildBegin, NewBuild, WellFormed, Idle, Steps
  <2> QED BY <1>4, <2>1, <2>2, <2>3, <2>4 DEF BuildBegin
<1>5. ASSUME NEW r \in Requests, NEW o \in Ops, NEW s \in Steps,
             NEW t \in Txs, ExecuteBegin(r, o, s, t)
      PROVE  TypeOK'
  <2>1. req' \in [Requests -> Request]
    BY <1>5 DEF ExecuteBegin, NewExecution, Request, Idle, PCs
  <2>2. \A x \in Requests : WellFormed(req'[x])
    BY <1>5, PaymentAssumption DEF ExecuteBegin, NewExecution, WellFormed, Idle, Operation
  <2> QED BY <1>5, <2>1, <2>2 DEF ExecuteBegin
<1>6. ASSUME NEW r \in Requests, NEW k \in Transfers, OpenTransfer(r, k)
      PROVE  TypeOK'
  <2>1. req[r].next \in Steps
    BY <1>6 DEF OpenTransfer, WellFormed
  <2>2. req' \in [Requests -> Request]
    BY <1>6, AdvanceType, <2>1 DEF OpenTransfer, PCs
  <2>3. \A x \in Requests : WellFormed(req'[x])
    BY <1>6, <2>1 DEF OpenTransfer, WellFormed, Advance
  <2> QED BY <1>6, <2>1, <2>2, <2>3 DEF OpenTransfer
<1>7. ASSUME NEW r \in Requests, NEW t \in Txs, BuildTx(r, t)
      PROVE  TypeOK'
  <2>1. req[r].next \in Steps /\ req[r].op \in Ops /\ req[r].transfer \in Transfers \cup {None}
    BY <1>7 DEF BuildTx, WellFormed, Request
  <2>2. txs' \in [Txs -> Transaction]
    BY <1>7, <2>1 DEF BuildTx, Transaction, TxStates
  <2>3. req' \in [Requests -> Request]
    BY <1>7, AdvanceType, <2>1 DEF BuildTx, PCs
  <2>4. \A x \in Requests : WellFormed(req'[x])
    BY <1>7, <2>1 DEF BuildTx, WellFormed, Advance
  <2> QED BY <1>7, <2>1, <2>2, <2>3, <2>4 DEF BuildTx
<1>8. ASSUME NEW r \in Requests, ProviderFails(r)
      PROVE  TypeOK'
  <2>1. req' \in [Requests -> Request]
    BY <1>8, IdleType DEF ProviderFails
  <2>2. \A x \in Requests : WellFormed(req'[x])
    BY <1>8, IdleWellFormed DEF ProviderFails
  <2> QED BY <1>8, <2>1, <2>2 DEF ProviderFails
<1>9. ASSUME NEW r \in Requests, RecordBuild(r)
      PROVE  TypeOK'
  <2>1. ops' \in [Ops -> Operation]
    BY <1>9 DEF RecordBuild, Operation, Request, WellFormed, MergeRef, Statuses
  <2>2. req[r].built \in Txs
    BY <1>9 DEF RecordBuild, WellFormed
  <2>3. txs' \in [Txs -> Transaction]
    BY <1>9, HandOutType, <2>2 DEF RecordBuild
  <2>4. req' \in [Requests -> Request]
    BY <1>9, IdleType DEF RecordBuild
  <2>5. \A x \in Requests : WellFormed(req'[x])
    BY <1>9, IdleWellFormed DEF RecordBuild
  <2> QED BY <1>9, <2>1, <2>2, <2>3, <2>4, <2>5 DEF RecordBuild
<1>10. ASSUME NEW r \in Requests, NEW pc \in PCs, SubmitLands(r, pc)
      PROVE  TypeOK'
  <2>1. txs' \in [Txs -> Transaction]
    BY <1>10, TxStateType DEF SubmitLands, Landed, TxStates
  <2>2. req' \in [Requests -> Request]
    BY <1>10, AnsweredType DEF SubmitLands
  <2>3. \A x \in Requests : WellFormed(req'[x])
    BY <1>10, AnsweredType DEF SubmitLands
  <2> QED BY <1>10, <2>1, <2>2, <2>3 DEF SubmitLands
<1>11. ASSUME NEW r \in Requests, NEW pc \in PCs, SubmitAgain(r, pc)
      PROVE  TypeOK'
  BY <1>11, AnsweredType DEF SubmitAgain
<1>12. ASSUME NEW r \in Requests, NEW pc \in PCs, SubmitRefused(r, pc)
      PROVE  TypeOK'
  <2>1. txs' \in [Txs -> Transaction]
    BY <1>12 DEF SubmitRefused, TxStates, Transaction
  <2>2. req' \in [Requests -> Request]
    BY <1>12, AnsweredType DEF SubmitRefused
  <2>3. \A x \in Requests : WellFormed(req'[x])
    BY <1>12, AnsweredType DEF SubmitRefused
  <2> QED BY <1>12, <2>1, <2>2, <2>3 DEF SubmitRefused
<1>13. ASSUME NEW r \in Requests, SubmitTimesOut(r)
      PROVE  TypeOK'
  <2>1. txs' \in [Txs -> Transaction]
    BY <1>13, TxStateType DEF SubmitTimesOut, TxStates
  <2>2. req' \in [Requests -> Request]
    BY <1>13, IdleType DEF SubmitTimesOut
  <2>3. \A x \in Requests : WellFormed(req'[x])
    BY <1>13, IdleWellFormed DEF SubmitTimesOut
  <2> QED BY <1>13, <2>1, <2>2, <2>3 DEF SubmitTimesOut
<1>14. ASSUME NEW r \in Requests, CompletePayment(r)
      PROVE  TypeOK'
  <2>1. ops' \in [Ops -> Operation]
    BY <1>14, SettleType DEF CompletePayment, notifyPaymentDone, Statuses
  <2>2. req' \in [Requests -> Request]
    BY <1>14, IdleType DEF CompletePayment, notifyPaymentDone
  <2>3. \A x \in Requests : WellFormed(req'[x])
    BY <1>14, IdleWellFormed DEF CompletePayment, notifyPaymentDone
  <2>4. req[r].op \in Ops
    BY <1>14 DEF CompletePayment, notifyPaymentDone, WellFormed
  <2>5. notified[req[r].op] \in Nat /\ notified[req[r].op] + 1 \in Nat
    BY <1>14, <2>4 DEF TypeOK
  <2>6. notified' \in [Ops -> Nat]
    BY <1>14, <2>4, <2>5 DEF CompletePayment, notifyPaymentDone
  <2> QED BY <1>14, <2>1, <2>2, <2>3, <2>4, <2>5, <2>6 DEF CompletePayment, notifyPaymentDone
<1>15. ASSUME NEW r \in Requests, FundTransfer(r)
      PROVE  TypeOK'
  <2>1. ops' \in [Ops -> Operation]
    BY <1>15, SettleType DEF FundTransfer, Statuses
  <2>2. req' \in [Requests -> Request]
    BY <1>15, IdleType DEF FundTransfer
  <2>3. \A x \in Requests : WellFormed(req'[x])
    BY <1>15, IdleWellFormed DEF FundTransfer
  <2> QED BY <1>15, <2>1, <2>2, <2>3 DEF FundTransfer
<1>16. ASSUME NEW r \in Requests, FailFinalStep(r)
      PROVE  TypeOK'
  <2>1. ops' \in [Ops -> Operation]
    BY <1>16, SettleType DEF FailFinalStep, Statuses
  <2>2. req' \in [Requests -> Request]
    BY <1>16, IdleType DEF FailFinalStep
  <2>3. \A x \in Requests : WellFormed(req'[x])
    BY <1>16, IdleWellFormed DEF FailFinalStep
  <2> QED BY <1>16, <2>1, <2>2, <2>3 DEF FailFinalStep
<1>17. ASSUME NEW r \in Requests, FailUnwind(r)
      PROVE  TypeOK'
  <2>1. ops' \in [Ops -> Operation]
    BY <1>17 DEF FailUnwind, Operation, Request, Statuses
  <2>2. req' \in [Requests -> Request]
    BY <1>17, IdleType DEF FailUnwind
  <2>3. \A x \in Requests : WellFormed(req'[x])
    BY <1>17, IdleWellFormed DEF FailUnwind
  <2> QED BY <1>17, <2>1, <2>2, <2>3 DEF FailUnwind
<1>18. ASSUME NEW r \in Requests, UnwindLanded(r)
      PROVE  TypeOK'
  <2>1. req[r].snap.quote \in Quotes
    BY <1>18 DEF UnwindLanded, WellFormed
  <2>2. quotes' \in [Quotes -> [entry: {"unsaved", "fresh", "stale", "deleted"}, claimed: BOOLEAN]]
    BY <1>18 DEF UnwindLanded, DropIfStale
  <2>3. req' = [req EXCEPT ![r] = Idle] \/ req' = [req EXCEPT ![r] = Advance(@, "call", FinalStep(req[r].snap.quote), None, None)]
    BY <1>18 DEF UnwindLanded
  <2>4. Advance(req[r], "call", FinalStep(req[r].snap.quote), None, None) \in Request
    BY <1>18, <2>1, AdvanceType, FinalStepType DEF PCs, Steps
  <2>5. req' \in [Requests -> Request]
    BY <1>18, <2>3, <2>4, IdleType DEF UnwindLanded
  <2>6. \A x \in Requests : WellFormed(req'[x])
    BY <1>18, <2>1, FinalStepType, IdleWellFormed DEF UnwindLanded, WellFormed, Advance, Steps
  <2> QED BY <1>18, <2>1, <2>2, <2>3, <2>4, <2>5, <2>6 DEF UnwindLanded
<1>19. ASSUME NEW r \in Requests, RecordUnwind(r)
      PROVE  TypeOK'
  <2>1. ops' \in [Ops -> Operation]
    BY <1>19 DEF RecordUnwind, Operation, Request, WellFormed, MergeRef, Statuses, Steps
  <2>2. req[r].built \in Txs
    BY <1>19 DEF RecordUnwind, WellFormed
  <2>3. txs' \in [Txs -> Transaction]
    BY <1>19, HandOutType, <2>2 DEF RecordUnwind
  <2>4. req' \in [Requests -> Request]
    BY <1>19, IdleType DEF RecordUnwind
  <2>5. \A x \in Requests : WellFormed(req'[x])
    BY <1>19, IdleWellFormed DEF RecordUnwind
  <2> QED BY <1>19, <2>1, <2>2, <2>3, <2>4, <2>5 DEF RecordUnwind
<1>20. ASSUME NEW t \in Txs, LateLanding(t)
      PROVE  TypeOK'
  BY <1>20, TxStateType DEF LateLanding, Landed, TxStates
<1>21. ASSUME NEW t \in Txs, TxDies(t)
      PROVE  TypeOK'
  BY <1>21, TxStateType DEF TxDies, TxStates
<1>22. ASSUME Restart PROVE TypeOK'
  <2>1. quotes' \in [Quotes -> [entry: {"unsaved", "fresh", "stale", "deleted"}, claimed: BOOLEAN]]
    BY <1>22 DEF Restart
  <2>2. txs' \in [Txs -> Transaction]
    BY <1>22, TxStateType DEF Restart, TxStates
  <2>3. req' \in [Requests -> Request]
    BY <1>22, IdleType DEF Restart
  <2>4. \A x \in Requests : WellFormed(req'[x])
    BY <1>22, IdleWellFormed DEF Restart
  <2> QED BY <1>22, <2>1, <2>2, <2>3, <2>4 DEF Restart
<1>23. ASSUME UNCHANGED vars PROVE TypeOK'
  BY <1>23 DEF vars
<1> QED
  BY <1>1, <1>2, <1>3, <1>4, <1>5, <1>6, <1>7, <1>8, <1>9, <1>10, <1>11, <1>12, <1>13, <1>14, <1>15, <1>16, <1>17, <1>18, <1>19, <1>20, <1>21, <1>22, <1>23 DEF Next, Handler

\* The variables keep their types, and a request has at every await what the
\* rest of its handler uses.
THEOREM TypeCorrect == Spec => []TypeOK
<1>1. Init => TypeOK
  BY NoOperationType, NoTransactionType, IdleType, IdleWellFormed DEF Init, TypeOK
<1>2. TypeOK /\ [Next]_vars => TypeOK'
  BY TypeStep
<1> QED BY <1>1, <1>2, PTL DEF Spec

----------------------------------------------------------------------------
(* The parts of the strengthened invariant *)

Built(t) == txs[t].state # "unbuilt"

\* Handed out, and not known to be dead.
Usable(t) == txs[t].state \in {"open", "floating", "landed"}

Final(t) == Usable(t) /\ txs[t].step \in FinalSteps

BuiltFor(t, o, s) == Built(t) /\ txs[t].op = o /\ txs[t].step = s

Unwound(o) == LandedTxs(o, {"yield_withdraw"}) # {}

Building(r) == req[r].pc \in {"call", "funding", "record"}

Submitting(r) == req[r].pc \in {"submit", "ok", "failed"}

\* An operation is recorded only under a claim of its quote.
Claims ==
    /\ OneOperationPerQuote
    /\ \A o \in Ops : ops[o].quote # None => quotes[ops[o].quote].claimed

\* The hash an operation or a request is pinned to is the one of a transaction
\* built for it and for its step.
Pinned ==
    /\ \A o \in Ops : ops[o].step # None =>
          ops[o].expected \in Txs /\ BuiltFor(ops[o].expected, o, ops[o].step)
    /\ \A r \in Requests : req[r].pc = "record" =>
          BuiltFor(req[r].built, req[r].op, req[r].next)
    /\ \A r \in Requests : Submitting(r) =>
          /\ req[r].snap.step = req[r].step
          /\ req[r].snap.expected = req[r].tx
          /\ BuiltFor(req[r].tx, req[r].op, req[r].step)

\* A success that a handler has heard of is on the ledger.
Applied ==
    /\ \A r \in Requests : req[r].pc = "ok" => txs[req[r].tx].state = "landed"
    /\ CompletedIsPaid

\* Requests and transactions belong to operations that are recorded.
Recorded ==
    /\ \A r \in Requests : req[r].pc # "idle" => ops[req[r].op].quote # None
    /\ \A t \in Txs : Built(t) => txs[t].op \in Ops /\ ops[txs[t].op].quote # None

\* The final transaction of an operation that needs an unwind is asked for and
\* built after the unwind.
Ordered ==
    /\ \A r \in Requests :
          /\ Building(r)
          /\ req[r].next \in FinalSteps
          /\ ops[req[r].op].quote \in NeedsUnwind
          => Unwound(req[r].op)
    /\ \A t \in Txs :
          /\ Built(t)
          /\ txs[t].step \in FinalSteps
          /\ ops[txs[t].op].quote \in NeedsUnwind
          => Unwound(txs[t].op)

\* The unwind of an operation is asked for once, and built once.
Single ==
    /\ \A r \in Requests : req[r].pc = "funding" => req[r].next = "anchor_withdraw"
    /\ \A r1, r2 \in Requests :
          /\ req[r1].pc = "call" /\ req[r1].next = "yield_withdraw"
          /\ req[r2].pc = "call" /\ req[r2].next = "yield_withdraw"
          /\ req[r1].op = req[r2].op
          => r1 = r2
    /\ \A r \in Requests, t \in Txs :
          /\ req[r].pc = "call" /\ req[r].next = "yield_withdraw"
          /\ Built(t) /\ txs[t].op = req[r].op
          => txs[t].step # "yield_withdraw"
    /\ \A t, u \in Txs :
          /\ Built(t) /\ txs[t].step = "yield_withdraw"
          /\ Built(u) /\ txs[u].step = "yield_withdraw"
          /\ txs[t].op = txs[u].op
          => t = u

\* With a client that awaits each execute-step: one request at a time works on
\* an operation, and once a final transaction is handed out nothing builds
\* another.
Serial ==
    OneStepAtATime =>
    /\ \A r1, r2 \in Requests :
          /\ req[r1].pc # "idle" /\ req[r2].pc # "idle"
          /\ req[r1].op = req[r2].op
          => r1 = r2
    /\ \A t, u \in Txs :
          /\ Usable(t) /\ txs[t].step \in FinalSteps
          /\ Usable(u) /\ txs[u].step \in FinalSteps
          /\ txs[t].op = txs[u].op
          => t = u
    /\ \A t \in Txs : Usable(t) /\ txs[t].step \in FinalSteps =>
          /\ ops[txs[t].op].step # "yield_withdraw"
          /\ \A r \in Requests : req[r].pc # "idle" /\ req[r].op = txs[t].op =>
                Submitting(r) /\ req[r].step \in FinalSteps

\* The transfer a request opened is the one its transaction funds, and an unwind
\* is asked for and built only for a payment that needs it.
Carried ==
    /\ \A r \in Requests :
          req[r].pc \in {"funding", "record"} /\ req[r].next = "anchor_withdraw"
          => req[r].transfer \in Transfers
    /\ \A r \in Requests : req[r].pc = "record" =>
          txs[req[r].built].transfer = req[r].transfer
    /\ \A r \in Requests : Building(r) /\ req[r].next = "yield_withdraw" =>
          ops[req[r].op].quote \in NeedsUnwind
    /\ \A t \in Txs : Built(t) /\ txs[t].step = "yield_withdraw" =>
          ops[txs[t].op].quote \in NeedsUnwind

\* What a handler was told has failed is dead.
Refused == \A r \in Requests : req[r].pc = "failed" => txs[req[r].tx].state = "dead"

\* With a client that awaits each execute-step: a request writes back over what
\* it read, and an operation agrees with the one final transaction it has handed
\* out until it is settled.
Current ==
    OneStepAtATime =>
    /\ \A r \in Requests : req[r].pc # "idle" /\ req[r].step # None =>
          req[r].snap = ops[req[r].op]
    /\ \A t \in Txs : Final(t) =>
          /\ ops[txs[t].op].step \in FinalSteps => ops[txs[t].op].expected = t
          /\ \A r \in Requests : Submitting(r) /\ req[r].op = txs[t].op => req[r].tx = t
          /\ ops[txs[t].op].status # "failed"
          /\ txs[t].step = "anchor_withdraw" => ops[txs[t].op].transfer = txs[t].transfer
    /\ \A o \in Ops : ops[o].status = "completed" => Settled(o)
    /\ NotifiedOnCompletionOnly

----------------------------------------------------------------------------
(* What a step does to one quote, operation, request or transaction *)

\* The actions of Next, grouped by what they leave alone.
LEMMA StepCases ==
  ASSUME [Next]_vars
  PROVE  \/ UNCHANGED <<ops, txs, req>> /\ \E q \in Quotes : SaveQuote(q) \/ QuoteExpires(q) \/ RejectStale(q)
         \/ UNCHANGED vars
         \/ \E r \in Requests, q \in Quotes, o \in Ops, a \in BOOLEAN : BuildBegin(r, q, o, a)
         \/ \E r \in Requests, o \in Ops, s \in Steps, t \in Txs : ExecuteBegin(r, o, s, t)
         \/ \E r \in Requests : Handler(r)
         \/ \E t \in Txs : LateLanding(t) \/ TxDies(t)
         \/ Restart
  BY DEF Next, SaveQuote, QuoteExpires, RejectStale

\* A claim is never taken back.
LEMMA QuoteStep ==
  ASSUME TypeOK, [Next]_vars, NEW q \in Quotes
  PROVE  quotes[q].claimed => quotes'[q].claimed
<1>1. ASSUME NEW x \in Quotes, SaveQuote(x) \/ QuoteExpires(x) \/ RejectStale(x)
      PROVE  quotes[q].claimed => quotes'[q].claimed
  BY <1>1 DEF TypeOK, SaveQuote, QuoteExpires, RejectStale, DropIfStale
<1>2. ASSUME NEW r \in Requests, NEW x \in Quotes, NEW o \in Ops,
             NEW a \in BOOLEAN, BuildBegin(r, x, o, a)
      PROVE  quotes[q].claimed => quotes'[q].claimed
  BY <1>2 DEF TypeOK, BuildBegin, Claim
<1>3. ASSUME NEW r \in Requests, Handler(r), ~UnwindLanded(r)
      PROVE  quotes' = quotes
  BY <1>3 DEF Handler, OpenTransfer, BuildTx, ProviderFails, RecordBuild, SubmitLands,
              SubmitAgain, SubmitRefused, SubmitTimesOut, CompletePayment, notifyPaymentDone, FundTransfer,
              FailFinalStep, FailUnwind, RecordUnwind
<1>4. ASSUME NEW r \in Requests, UnwindLanded(r)
      PROVE  quotes[q].claimed => quotes'[q].claimed
  BY <1>4 DEF UnwindLanded, DropIfStale, TypeOK
<1>5. ASSUME Restart PROVE quotes[q].claimed => quotes'[q].claimed
  BY <1>5 DEF Restart, TypeOK
<1>6. ASSUME NEW t \in Txs, LateLanding(t) \/ TxDies(t) PROVE quotes' = quotes
  BY <1>6 DEF LateLanding, TxDies
<1>7. ASSUME NEW r \in Requests, NEW o \in Ops, NEW s \in Steps, NEW t \in Txs,
             ExecuteBegin(r, o, s, t)
      PROVE  quotes' = quotes
  BY <1>7 DEF ExecuteBegin
<1>8. ASSUME UNCHANGED vars PROVE quotes' = quotes
  BY <1>8 DEF vars
<1> QED BY <1>1, <1>2, <1>3, <1>4, <1>5, <1>6, <1>7, <1>8, StepCases

\* An operation changes when it is recorded, and in the last step of a request
\* made for it.
LEMMA OpStep ==
  ASSUME TypeOK, [Next]_vars, NEW o \in Ops
  PROVE  \/ ops'[o] = ops[o]
         \/ \E r \in Requests, q \in Quotes, a \in BOOLEAN : BuildBegin(r, q, o, a)
         \/ \E r \in Requests :
               /\ req[r].op = o
               /\ \/ RecordBuild(r) \/ RecordUnwind(r) \/ FailUnwind(r)
                  \/ CompletePayment(r) \/ FundTransfer(r) \/ FailFinalStep(r)
<1> DEFINE Goal == \/ ops'[o] = ops[o]
                   \/ \E r \in Requests, q \in Quotes, a \in BOOLEAN : BuildBegin(r, q, o, a)
                   \/ \E r \in Requests :
                         /\ req[r].op = o
                         /\ \/ RecordBuild(r) \/ RecordUnwind(r) \/ FailUnwind(r)
                            \/ CompletePayment(r) \/ FundTransfer(r) \/ FailFinalStep(r)
<1>1. ASSUME NEW r \in Requests, NEW q \in Quotes, NEW x \in Ops,
             NEW a \in BOOLEAN, BuildBegin(r, q, x, a)
      PROVE  Goal
  <2>1. CASE x = o
    BY <1>1, <2>1
  <2>2. CASE x # o
    <3>1. ops'[o] = ops[o]
      BY <1>1, <2>2 DEF BuildBegin, TypeOK
    <3> QED BY <3>1
  <2> QED BY <2>1, <2>2
<1>2. ASSUME NEW r \in Requests, Handler(r)
      PROVE  ops'[o] = ops[o] \/
             /\ req[r].op = o
             /\ \/ RecordBuild(r) \/ RecordUnwind(r) \/ FailUnwind(r)
                \/ CompletePayment(r) \/ FundTransfer(r) \/ FailFinalStep(r)
  BY <1>2 DEF Handler, OpenTransfer, BuildTx, ProviderFails, RecordBuild, SubmitLands,
              SubmitAgain, SubmitRefused, SubmitTimesOut, CompletePayment, notifyPaymentDone, FundTransfer,
              FailFinalStep, FailUnwind, UnwindLanded, RecordUnwind, Settle, TypeOK
<1>3. ASSUME NEW r \in Requests, NEW x \in Ops, NEW s \in Steps, NEW t \in Txs,
             ExecuteBegin(r, x, s, t)
      PROVE  ops' = ops
  BY <1>3 DEF ExecuteBegin
<1>4. ASSUME \/ UNCHANGED <<ops, txs, req>> \/ UNCHANGED vars \/ Restart
             \/ \E t \in Txs : LateLanding(t) \/ TxDies(t)
      PROVE  ops' = ops
  BY <1>4 DEF LateLanding, TxDies, Restart, vars
<1>5. ASSUME ops' = ops PROVE Goal
  BY <1>5
<1>6. ASSUME NEW r \in Requests, Handler(r) PROVE Goal
  BY <1>6, <1>2
<1> HIDE DEF Goal
<1>7. Goal
  BY <1>1, <1>3, <1>4, <1>5, <1>6, StepCases
<1> QED BY <1>7 DEF Goal

\* A request comes to rest or goes from one await of its handler to the next.
LEMMA RequestStep ==
  ASSUME TypeOK, [Next]_vars, NEW r \in Requests
  PROVE  \/ req'[r] = req[r]
         \/ req'[r] = Idle
         \/ \E q \in Quotes, o \in Ops, a \in BOOLEAN : BuildBegin(r, q, o, a)
         \/ \E o \in Ops, s \in Steps, t \in Txs : ExecuteBegin(r, o, s, t)
         \/ \E k \in Transfers : OpenTransfer(r, k)
         \/ \E t \in Txs : BuildTx(r, t)
         \/ \E pc \in PCs : SubmitLands(r, pc) \/ SubmitAgain(r, pc) \/ SubmitRefused(r, pc)
         \/ UnwindLanded(r)
<1>1. ASSUME NEW x \in Requests, Handler(x), x # r PROVE req'[r] = req[r]
  BY <1>1 DEF Handler, OpenTransfer, BuildTx, ProviderFails, RecordBuild, SubmitLands,
              SubmitAgain, SubmitRefused, SubmitTimesOut, CompletePayment, notifyPaymentDone, FundTransfer,
              FailFinalStep, FailUnwind, UnwindLanded, RecordUnwind, Answered, TypeOK
<1>2. ASSUME \/ ProviderFails(r) \/ RecordBuild(r) \/ SubmitTimesOut(r)
             \/ CompletePayment(r) \/ FundTransfer(r) \/ FailFinalStep(r)
             \/ FailUnwind(r) \/ RecordUnwind(r)
      PROVE  req'[r] = Idle
  BY <1>2 DEF ProviderFails, RecordBuild, SubmitTimesOut, CompletePayment, notifyPaymentDone, FundTransfer,
              FailFinalStep, FailUnwind, RecordUnwind, TypeOK
<1>3. ASSUME NEW x \in Requests, NEW q \in Quotes, NEW o \in Ops,
             NEW a \in BOOLEAN, BuildBegin(x, q, o, a), x # r
      PROVE  req'[r] = req[r]
  BY <1>3 DEF BuildBegin, TypeOK
<1>4. ASSUME NEW x \in Requests, NEW o \in Ops, NEW s \in Steps, NEW t \in Txs,
             ExecuteBegin(x, o, s, t), x # r
      PROVE  req'[r] = req[r]
  BY <1>4 DEF ExecuteBegin, TypeOK
<1>5. ASSUME Restart PROVE req'[r] = Idle
  BY <1>5 DEF Restart
<1>6. ASSUME (\E t \in Txs : LateLanding(t) \/ TxDies(t)) \/ UNCHANGED vars
      PROVE  req' = req
  BY <1>6 DEF LateLanding, TxDies, vars
<1>7. ASSUME Handler(r)
      PROVE  \/ req'[r] = Idle
             \/ \E k \in Transfers : OpenTransfer(r, k)
             \/ \E t \in Txs : BuildTx(r, t)
             \/ \E pc \in PCs : SubmitLands(r, pc) \/ SubmitAgain(r, pc) \/ SubmitRefused(r, pc)
             \/ UnwindLanded(r)
  BY <1>7, <1>2 DEF Handler
<1> QED BY <1>1, <1>3, <1>4, <1>5, <1>6, <1>7, StepCases

\* A transaction that is built keeps the operation and the step it was built
\* for, it never returns to be unbuilt, and what has landed or died stays so; it
\* is usable once the request that built it has recorded it.
LEMMA TxStep ==
  ASSUME TypeOK, [Next]_vars, NEW t \in Txs
  PROVE  /\ Built(t) => /\ Built(t)' /\ txs'[t].op = txs[t].op /\ txs'[t].step = txs[t].step
                        /\ txs'[t].transfer = txs[t].transfer
         /\ txs[t].state \in {"landed", "dead"} => txs'[t].state = txs[t].state
         /\ ~Built(t) /\ Built(t)' => \E r \in Requests : BuildTx(r, t)
         /\ ~Usable(t) /\ Usable(t)' =>
               \E r \in Requests : req[r].built = t /\ (RecordBuild(r) \/ RecordUnwind(r))
<1> DEFINE Kept == /\ Built(t) => /\ Built(t)' /\ txs'[t].op = txs[t].op /\ txs'[t].step = txs[t].step
                                  /\ txs'[t].transfer = txs[t].transfer
                   /\ txs[t].state \in {"landed", "dead"} => txs'[t].state = txs[t].state
           New  == /\ ~Built(t) /\ Built(t)' => \E r \in Requests : BuildTx(r, t)
                   /\ ~Usable(t) /\ Usable(t)' =>
                         \E r \in Requests : req[r].built = t /\ (RecordBuild(r) \/ RecordUnwind(r))
           Old  == (Built(t)' => Built(t)) /\ (Usable(t)' => Usable(t))
<1>1. ASSUME txs' = txs PROVE Kept /\ Old
  BY <1>1 DEF Built, Usable
<1>2. ASSUME NEW u \in Txs, Landed(u), txs[u].state \in {"open", "floating"}
      PROVE  Kept /\ Old
  BY <1>2 DEF Landed, Built, Usable, TypeOK, Transaction
<1>3. ASSUME NEW u \in Txs, HandOut(u)
      PROVE  Kept /\ (Built(t)' => Built(t)) /\ (t # u /\ Usable(t)' => Usable(t))
  <2>1. CASE t = u
    BY <1>3, <2>1 DEF HandOut, Built, Usable, TypeOK, Transaction
  <2>2. CASE t # u
    <3>1. txs'[t] = txs[t]
      BY <1>3, <2>2 DEF HandOut, TypeOK
    <3> QED BY <3>1, <2>2 DEF Built, Usable
  <2> QED BY <2>1, <2>2
<1>4. ASSUME NEW r \in Requests, Handler(r) PROVE Kept /\ New
  <2>1. CASE \E u \in Txs : BuildTx(r, u)
    <3>1. PICK u \in Txs : BuildTx(r, u)
      BY <2>1
    <3>2. CASE t = u
      BY <3>1, <3>2 DEF BuildTx, Built, Usable, TypeOK
    <3>3. CASE t # u
      <4>1. txs'[t] = txs[t]
        BY <3>1, <3>3 DEF BuildTx, TypeOK
      <4> QED BY <4>1 DEF Built, Usable
    <3> QED BY <3>2, <3>3
  <2>2. CASE RecordBuild(r) \/ RecordUnwind(r)
    <3>1. HandOut(req[r].built) /\ req[r].built \in Txs
      BY <2>2 DEF RecordBuild, RecordUnwind, TypeOK, WellFormed
    <3> HIDE DEF Kept
    <3> QED BY <2>2, <3>1, <1>3
  <2>3. CASE \E pc \in PCs : SubmitLands(r, pc)
    <3>1. req[r].tx \in Txs
      BY <2>3 DEF SubmitLands, TypeOK, WellFormed
    <3> HIDE DEF Kept
    <3>2. Kept /\ Old
      BY <2>3, <3>1, <1>2 DEF SubmitLands
    <3> QED BY <3>2
  <2>4. CASE \/ \E pc \in PCs : SubmitRefused(r, pc)
             \/ SubmitTimesOut(r)
    <3>1. Kept /\ Old
      BY <2>4 DEF SubmitRefused, SubmitTimesOut, Built, Usable, TypeOK, Transaction
    <3> QED BY <3>1
  <2>5. CASE \/ \E k \in Transfers : OpenTransfer(r, k)
             \/ ProviderFails(r)
             \/ \E pc \in PCs : SubmitAgain(r, pc)
             \/ CompletePayment(r) \/ FundTransfer(r) \/ FailFinalStep(r)
             \/ FailUnwind(r) \/ UnwindLanded(r)
    <3>1. txs' = txs
      BY <2>5 DEF OpenTransfer, ProviderFails, SubmitAgain, CompletePayment, notifyPaymentDone,
                FundTransfer, FailFinalStep, FailUnwind, UnwindLanded
    <3> HIDE DEF Kept
    <3>2. Kept /\ Old
      BY <3>1, <1>1
    <3> QED BY <3>2
  <2> HIDE DEF Kept, New
  <2> QED BY <1>4, <2>1, <2>2, <2>3, <2>4, <2>5 DEF Handler
<1>5. ASSUME NEW u \in Txs, LateLanding(u) PROVE Kept /\ Old
  BY <1>5, <1>2 DEF LateLanding
<1>6. ASSUME NEW u \in Txs, TxDies(u) PROVE Kept /\ Old
  BY <1>6 DEF TxDies, Built, Usable, TypeOK, Transaction
<1>7. ASSUME Restart PROVE Kept /\ Old
  BY <1>7 DEF Restart, Built, Usable, TypeOK, Transaction
<1>8. ASSUME UNCHANGED <<ops, txs, req>> \/ UNCHANGED vars PROVE Kept /\ Old
  BY <1>8, <1>1 DEF vars
<1>9. ASSUME NEW r \in Requests, NEW q \in Quotes, NEW o \in Ops,
             NEW a \in BOOLEAN, BuildBegin(r, q, o, a)
      PROVE  Kept /\ Old
  BY <1>9, <1>1 DEF BuildBegin
<1>10. ASSUME NEW r \in Requests, NEW o \in Ops, NEW s \in Steps, NEW u \in Txs,
              ExecuteBegin(r, o, s, u)
       PROVE  Kept /\ Old
  BY <1>10, <1>1 DEF ExecuteBegin
<1>11. Old => New
  OBVIOUS
<1> HIDE DEF Kept, New, Old
<1>12. Kept /\ New
  BY <1>4, <1>5, <1>6, <1>7, <1>8, <1>9, <1>10, <1>11, StepCases
<1> QED BY <1>12 DEF Kept, New

\* A request that is under way stays with its operation and step until it
\* rests.
LEMMA RequestKept ==
  ASSUME TypeOK, [Next]_vars, NEW r \in Requests
  PROVE  \/ req'[r] = Idle
         \/ req[r].pc # "idle" /\ req'[r].op = req[r].op /\ req'[r].step = req[r].step
              /\ req'[r].tx = req[r].tx /\ req'[r].snap = req[r].snap
         \/ req'[r] = req[r]
         \/ \E q \in Quotes, o \in Ops, a \in BOOLEAN : BuildBegin(r, q, o, a)
         \/ \E o \in Ops, s \in Steps, t \in Txs : ExecuteBegin(r, o, s, t)
<1> DEFINE Same == /\ req[r].pc # "idle" /\ req'[r].op = req[r].op /\ req'[r].step = req[r].step
                   /\ req'[r].tx = req[r].tx /\ req'[r].snap = req[r].snap
<1>1. ASSUME \/ \E k \in Transfers : OpenTransfer(r, k)
             \/ \E t \in Txs : BuildTx(r, t)
             \/ \E pc \in PCs : SubmitLands(r, pc) \/ SubmitAgain(r, pc) \/ SubmitRefused(r, pc)
             \/ UnwindLanded(r)
      PROVE  Same \/ req'[r] = Idle
  BY <1>1 DEF OpenTransfer, BuildTx, SubmitLands, SubmitAgain, SubmitRefused,
              UnwindLanded, Answered, Advance, TypeOK
<1> QED BY <1>1, RequestStep

----------------------------------------------------------------------------
(* Every step preserves each part of the invariant *)

\* The update that ends a request leaves the quote of its operation.
LEMMA QuoteKept ==
  ASSUME TypeOK, NEW r \in Requests,
         \/ RecordBuild(r) \/ RecordUnwind(r) \/ FailUnwind(r)
         \/ CompletePayment(r) \/ FundTransfer(r) \/ FailFinalStep(r)
  PROVE  \A o \in Ops : ops'[o].quote = ops[o].quote
<1>1. CASE RecordBuild(r) \/ RecordUnwind(r) \/ FailUnwind(r)
  BY <1>1 DEF RecordBuild, RecordUnwind, FailUnwind, TypeOK
<1>2. CASE CompletePayment(r) \/ FundTransfer(r) \/ FailFinalStep(r)
  BY <1>2 DEF CompletePayment, notifyPaymentDone, FundTransfer, FailFinalStep, Settle, TypeOK
<1> QED BY <1>1, <1>2

\* The quote of an operation is set by the build that records it, under the
\* first claim of that quote, and never again.
LEMMA QuoteSet ==
  ASSUME TypeOK, [Next]_vars, NEW o \in Ops
  PROVE  \/ ops'[o].quote = ops[o].quote
         \/ /\ ops[o].quote = None
            /\ ops'[o].quote \in Quotes
            /\ ~quotes[ops'[o].quote].claimed
            /\ quotes'[ops'[o].quote].claimed
            /\ \A x \in Ops \ {o} : ops'[x] = ops[x]
<1>1. ASSUME NEW r \in Requests, NEW q \in Quotes, NEW a \in BOOLEAN,
             BuildBegin(r, q, o, a)
      PROVE  /\ ops[o].quote = None
             /\ ops'[o].quote = q
             /\ ~quotes[q].claimed
             /\ quotes'[q].claimed
             /\ \A x \in Ops \ {o} : ops'[x] = ops[x]
  <2>1. ops'[o] = NewOperation(q) /\ \A x \in Ops \ {o} : ops'[x] = ops[x]
    BY <1>1 DEF BuildBegin, TypeOK
  <2>2. NewOperation(q).quote = q
    BY DEF NewOperation, NoOperation
  <2> QED BY <1>1, <2>1, <2>2 DEF BuildBegin, Claim, TypeOK
<1> QED BY <1>1, OpStep, QuoteKept

\* A claim that succeeds is the first of its quote, so the operation that is
\* recorded under it is the only one.
LEMMA ClaimsStep ==
  ASSUME TypeOK, Claims, [Next]_vars
  PROVE  Claims'
<1>1. ASSUME NEW o \in Ops, ops'[o].quote # None
      PROVE  quotes'[ops'[o].quote].claimed
  BY <1>1, QuoteSet, QuoteStep DEF Claims, TypeOK, Operation
<1>2. ASSUME NEW o1 \in Ops, NEW o2 \in Ops,
             ops'[o1].quote # None, ops'[o1].quote = ops'[o2].quote, o1 # o2
      PROVE  FALSE
  <2>1. CASE ops'[o1].quote = ops[o1].quote /\ ops'[o2].quote = ops[o2].quote
    BY <1>2, <2>1 DEF Claims, OneOperationPerQuote
  <2>2. CASE ops'[o1].quote # ops[o1].quote
    BY <1>2, <2>2, QuoteSet DEF Claims
  <2>3. CASE ops'[o2].quote # ops[o2].quote
    BY <1>2, <2>3, QuoteSet DEF Claims
  <2> QED BY <2>1, <2>2, <2>3
<1> QED BY <1>1, <1>2 DEF Claims, OneOperationPerQuote

\* Requests are made for recorded operations, and what they build is built for
\* the operation of the request.
LEMMA RecordedStep ==
  ASSUME TypeOK, Recorded, [Next]_vars
  PROVE  Recorded'
<1>1. \A o \in Ops : ops[o].quote # None => ops'[o].quote # None
  BY QuoteSet
<1>2. ASSUME NEW t \in Txs, Built(t)'
      PROVE  txs'[t].op \in Ops /\ ops'[txs'[t].op].quote # None
  <2>1. CASE Built(t)
    BY <2>1, <1>1, TxStep DEF Recorded
  <2>2. CASE ~Built(t)
    <3>1. PICK r \in Requests : BuildTx(r, t)
      BY <1>2, <2>2, TxStep
    <3>2. txs'[t].op = req[r].op /\ req[r].op \in Ops /\ ops[req[r].op].quote # None
      BY <3>1 DEF BuildTx, Recorded, TypeOK, WellFormed
    <3> QED BY <3>2, <1>1
  <2> QED BY <2>1, <2>2
<1>3. ASSUME NEW r \in Requests, req'[r].pc # "idle"
      PROVE  ops'[req'[r].op].quote # None
  <2>1. CASE req[r].pc # "idle" /\ req'[r].op = req[r].op
    BY <2>1, <1>1 DEF Recorded, TypeOK, WellFormed
  <2>2. ASSUME NEW q \in Quotes, NEW o \in Ops, NEW a \in BOOLEAN, BuildBegin(r, q, o, a)
        PROVE  ops'[req'[r].op].quote # None
    <3>1. req'[r] = NewBuild(q, o) /\ ops'[o] = NewOperation(q)
      BY <2>2 DEF BuildBegin, TypeOK
    <3>2. NewBuild(q, o).op = o /\ NewOperation(q).quote = q
      BY DEF NewBuild, Idle, NewOperation, NoOperation
    <3> QED BY <3>1, <3>2, PaymentAssumption
  <2>3. ASSUME NEW o \in Ops, NEW s \in Steps, NEW t \in Txs, ExecuteBegin(r, o, s, t)
        PROVE  ops'[req'[r].op].quote # None
    <3>1. req'[r] = NewExecution(o, s, t) /\ ops' = ops /\ ops[o].quote # None
      BY <2>3 DEF ExecuteBegin, TypeOK
    <3>2. NewExecution(o, s, t).op = o
      BY DEF NewExecution, Idle
    <3> QED BY <3>1, <3>2
  <2>4. Idle.pc = "idle"
    BY DEF Idle
  <2> QED BY <1>3, <2>1, <2>2, <2>3, <2>4, RequestKept
<1> QED BY <1>1, <1>2, <1>3 DEF Recorded

\* An operation that has a step has a hash too, and it is compared.
LEMMA HashIsCompared ==
  ASSUME Pinned, NEW o \in Ops, ops[o].step \in Steps, NEW t \in Txs, HashMatches(o, t)
  PROVE  ops[o].expected = t
  BY PaymentAssumption DEF Pinned, HashMatches

\* An operation takes its step and its hash together, from a request or from
\* its snapshot; a request takes them together from the operation.
LEMMA PinnedStep ==
  ASSUME TypeOK, Pinned, [Next]_vars
  PROVE  Pinned'
<1> DEFINE After(t, o, s) == txs'[t].state # "unbuilt" /\ txs'[t].op = o /\ txs'[t].step = s
<1>0. \A t \in Txs : \A o, s : BuiltFor(t, o, s) => After(t, o, s)
  BY TxStep DEF BuiltFor, Built
<1> HIDE DEF After
<1>1. ASSUME NEW o \in Ops, ops'[o].step # None
      PROVE  ops'[o].expected \in Txs /\ After(ops'[o].expected, o, ops'[o].step)
  <2>1. CASE ops'[o] = ops[o]
    BY <1>1, <2>1, <1>0 DEF Pinned
  <2>2. ASSUME NEW r \in Requests, NEW q \in Quotes, NEW a \in BOOLEAN, BuildBegin(r, q, o, a)
        PROVE  FALSE
    <3>1. ops'[o] = NewOperation(q)
      BY <2>2 DEF BuildBegin, TypeOK
    <3>2. NewOperation(q).step = None
      BY DEF NewOperation, NoOperation
    <3> QED BY <1>1, <3>1, <3>2
  <2>3. ASSUME NEW r \in Requests, req[r].op = o, RecordBuild(r) \/ RecordUnwind(r)
        PROVE  ops'[o].expected \in Txs /\ After(ops'[o].expected, o, ops'[o].step)
    <3>1. ops'[o].expected = req[r].built /\ ops'[o].step = req[r].next
      BY <2>3 DEF RecordBuild, RecordUnwind, TypeOK
    <3>2. req[r].built \in Txs /\ BuiltFor(req[r].built, o, req[r].next)
      BY <2>3 DEF RecordBuild, RecordUnwind, TypeOK, WellFormed, Pinned
    <3> QED BY <3>1, <3>2, <1>0
  <2>4. ASSUME NEW r \in Requests, req[r].op = o, FailUnwind(r)
        PROVE  ops'[o].expected \in Txs /\ After(ops'[o].expected, o, ops'[o].step)
    <3>1. ops'[o].expected = req[r].snap.expected /\ ops'[o].step = req[r].snap.step
      BY <2>4 DEF FailUnwind, TypeOK
    <3>2. Submitting(r) /\ req[r].tx \in Txs
      BY <2>4 DEF FailUnwind, Submitting, TypeOK, WellFormed
    <3> QED BY <2>4, <3>1, <3>2, <1>0 DEF Pinned
  <2>5. ASSUME NEW r \in Requests, req[r].op = o,
               CompletePayment(r) \/ FundTransfer(r) \/ FailFinalStep(r)
        PROVE  ops'[o].step = None
    BY <2>5 DEF CompletePayment, notifyPaymentDone, FundTransfer, FailFinalStep, Settle, TypeOK
  <2> QED BY <1>1, <2>1, <2>2, <2>3, <2>4, <2>5, OpStep
<1>2. ASSUME NEW r \in Requests, req'[r].pc = "record"
      PROVE  After(req'[r].built, req'[r].op, req'[r].next)
  <2>1. CASE req'[r] = req[r]
    BY <1>2, <2>1, <1>0 DEF Pinned, TypeOK, WellFormed
  <2>2. ASSUME NEW t \in Txs, BuildTx(r, t)
        PROVE  After(req'[r].built, req'[r].op, req'[r].next)
    <3>1. /\ req'[r].built = t /\ req'[r].op = req[r].op /\ req'[r].next = req[r].next
          /\ txs'[t] = [op |-> req[r].op, step |-> req[r].next,
                        transfer |-> req[r].transfer, state |-> "built"]
      BY <2>2 DEF BuildTx, Advance, TypeOK
    <3> QED BY <3>1 DEF After
  <2>3. ASSUME \/ \E q \in Quotes, o \in Ops, a \in BOOLEAN : BuildBegin(r, q, o, a)
               \/ \E o \in Ops, s \in Steps, t \in Txs : ExecuteBegin(r, o, s, t)
        PROVE  FALSE
    <3>1. \/ \E q \in Quotes, o \in Ops : req'[r] = NewBuild(q, o)
          \/ \E o \in Ops, s \in Steps, t \in Txs : req'[r] = NewExecution(o, s, t)
      BY <2>3 DEF BuildBegin, ExecuteBegin, TypeOK
    <3>2. /\ \A q \in Quotes, o \in Ops : NewBuild(q, o).pc = "call"
          /\ \A o \in Ops, s \in Steps, t \in Txs : NewExecution(o, s, t).pc = "submit"
      BY DEF NewBuild, NewExecution, Idle
    <3> QED BY <1>2, <3>1, <3>2
  <2>4. ASSUME \/ req'[r] = Idle
               \/ \E k \in Transfers : OpenTransfer(r, k)
               \/ \E pc \in PCs : SubmitLands(r, pc) \/ SubmitAgain(r, pc) \/ SubmitRefused(r, pc)
               \/ UnwindLanded(r)
        PROVE  FALSE
    BY <1>2, <2>4 DEF OpenTransfer, SubmitLands, SubmitAgain, SubmitRefused, UnwindLanded,
                      Answered, Advance, Idle, TypeOK
  <2> QED BY <2>1, <2>2, <2>3, <2>4, RequestStep
<1>3. ASSUME NEW r \in Requests, Submitting(r)'
      PROVE  /\ req'[r].snap.step = req'[r].step
             /\ req'[r].snap.expected = req'[r].tx
             /\ After(req'[r].tx, req'[r].op, req'[r].step)
  <2>1. ASSUME NEW o \in Ops, NEW s \in Steps, NEW t \in Txs, ExecuteBegin(r, o, s, t)
        PROVE  /\ req'[r].snap.step = req'[r].step
               /\ req'[r].snap.expected = req'[r].tx
               /\ After(req'[r].tx, req'[r].op, req'[r].step)
    <3>1. req'[r] = NewExecution(o, s, t) /\ ops[o].step = s /\ ops[o].expected = t
      BY <2>1, HashIsCompared DEF ExecuteBegin, TypeOK
    <3>2. /\ NewExecution(o, s, t).snap = ops[o] /\ NewExecution(o, s, t).step = s
          /\ NewExecution(o, s, t).tx = t /\ NewExecution(o, s, t).op = o
      BY DEF NewExecution, Idle
    <3>3. BuiltFor(t, o, s)
      BY <3>1, PaymentAssumption DEF Pinned
    <3> QED BY <3>1, <3>2, <3>3, <1>0
  <2>2. CASE Submitting(r) /\ req'[r].op = req[r].op /\ req'[r].step = req[r].step
               /\ req'[r].tx = req[r].tx /\ req'[r].snap = req[r].snap
    <3>1. req[r].tx \in Txs
      BY <2>2 DEF Submitting, TypeOK, WellFormed
    <3> QED BY <2>2, <3>1, <1>0 DEF Pinned
  <2>3. CASE Submitting(r) /\ req'[r] = req[r]
    BY <2>2, <2>3
  <2>4. ASSUME NEW q \in Quotes, NEW o \in Ops, NEW a \in BOOLEAN, BuildBegin(r, q, o, a)
        PROVE  FALSE
    <3>1. req'[r] = NewBuild(q, o)
      BY <2>4 DEF BuildBegin, TypeOK
    <3> QED BY <1>3, <3>1 DEF Submitting, NewBuild, Idle
  <2>5. CASE \E pc \in PCs : SubmitLands(r, pc) \/ SubmitAgain(r, pc) \/ SubmitRefused(r, pc)
    BY <1>3, <2>2, <2>5 DEF SubmitLands, SubmitAgain, SubmitRefused, Answered, Advance,
                            Submitting, Idle, TypeOK
  <2>6. ASSUME \/ req'[r] = Idle
               \/ \E k \in Transfers : OpenTransfer(r, k)
               \/ \E t \in Txs : BuildTx(r, t)
               \/ UnwindLanded(r)
        PROVE  FALSE
    BY <1>3, <2>6 DEF OpenTransfer, BuildTx, UnwindLanded, Advance, Idle, Submitting, TypeOK
  <2>7. CASE req'[r] = req[r]
    BY <1>3, <2>3, <2>7 DEF Submitting
  <2> QED BY <2>1, <2>4, <2>5, <2>6, <2>7, RequestStep
<1> QED BY <1>1, <1>2, <1>3 DEF Pinned, After, BuiltFor, Built

\* What has landed for an operation stays landed for it.
LEMMA LandedKept ==
  ASSUME TypeOK, [Next]_vars, NEW o, NEW S, NEW t \in LandedTxs(o, S)
  PROVE  t \in LandedTxs(o, S)'
<1>1. t \in Txs /\ txs[t].state = "landed" /\ txs[t].op = o /\ txs[t].step \in S
  BY DEF LandedTxs
<1>2. txs'[t].state = "landed" /\ txs'[t].op = o /\ txs'[t].step \in S
  BY <1>1, TxStep DEF Built
<1> QED BY <1>1, <1>2 DEF LandedTxs

\* A request hears of success from the step that put its transaction on the
\* ledger, and an operation completes only in a request that heard of it.
LEMMA AppliedStep ==
  ASSUME TypeOK, Pinned, Applied, [Next]_vars
  PROVE  Applied'
<1>1. ASSUME NEW r \in Requests, req'[r].pc = "ok"
      PROVE  txs'[req'[r].tx].state = "landed"
  <2>1. CASE req'[r] = req[r]
    BY <1>1, <2>1, TxStep DEF Applied, TypeOK, WellFormed
  <2>2. ASSUME NEW pc \in PCs, SubmitLands(r, pc)
        PROVE  txs'[req'[r].tx].state = "landed"
    <3>1. req'[r].tx = req[r].tx /\ req[r].tx \in Txs /\ Landed(req[r].tx)
      BY <1>1, <2>2 DEF SubmitLands, Answered, Advance, Idle, TypeOK, WellFormed
    <3> QED BY <3>1 DEF Landed, TypeOK, Transaction
  <2>3. ASSUME NEW pc \in PCs, SubmitAgain(r, pc)
        PROVE  txs'[req'[r].tx].state = "landed"
    BY <1>1, <2>3 DEF SubmitAgain, Answered, Advance, Idle, TypeOK
  <2>4. ASSUME NEW pc \in PCs, SubmitRefused(r, pc)
        PROVE  FALSE
    BY <1>1, <2>4 DEF SubmitRefused, Answered, Advance, Idle, TypeOK
  <2>5. ASSUME \/ req'[r] = Idle
               \/ \E k \in Transfers : OpenTransfer(r, k)
               \/ \E t \in Txs : BuildTx(r, t)
               \/ UnwindLanded(r)
        PROVE  FALSE
    BY <1>1, <2>5 DEF OpenTransfer, BuildTx, UnwindLanded, Advance, Idle, TypeOK
  <2>6. ASSUME \/ \E q \in Quotes, o \in Ops, a \in BOOLEAN : BuildBegin(r, q, o, a)
               \/ \E o \in Ops, s \in Steps, t \in Txs : ExecuteBegin(r, o, s, t)
        PROVE  FALSE
    <3>1. \/ \E q \in Quotes, o \in Ops : req'[r] = NewBuild(q, o)
          \/ \E o \in Ops, s \in Steps, t \in Txs : req'[r] = NewExecution(o, s, t)
      BY <2>6 DEF BuildBegin, ExecuteBegin, TypeOK
    <3>2. /\ \A q \in Quotes, o \in Ops : NewBuild(q, o).pc = "call"
          /\ \A o \in Ops, s \in Steps, t \in Txs : NewExecution(o, s, t).pc = "submit"
      BY DEF NewBuild, NewExecution, Idle
    <3> QED BY <1>1, <3>1, <3>2
  <2> QED BY <2>1, <2>2, <2>3, <2>4, <2>5, <2>6, RequestStep
<1>2. ASSUME NEW o \in Ops, ops'[o].status = "completed"
      PROVE  LandedTxs(o, FinalSteps)' # {}
  <2>1. CASE ops'[o] = ops[o]
    BY <1>2, <2>1, LandedKept DEF Applied, CompletedIsPaid
  <2>2. ASSUME NEW r \in Requests, NEW q \in Quotes, NEW a \in BOOLEAN, BuildBegin(r, q, o, a)
        PROVE  FALSE
    <3>1. ops'[o] = NewOperation(q)
      BY <2>2 DEF BuildBegin, TypeOK
    <3>2. NewOperation(q).status # "completed"
      BY DEF NewOperation, NoOperation
    <3> QED BY <1>2, <3>1, <3>2
  <2>3. ASSUME NEW r \in Requests, req[r].op = o, CompletePayment(r)
        PROVE  LandedTxs(o, FinalSteps)' # {}
    <3>1. /\ req[r].tx \in Txs /\ txs[req[r].tx].state = "landed"
          /\ txs[req[r].tx].op = o /\ txs[req[r].tx].step \in FinalSteps
      BY <2>3 DEF CompletePayment, notifyPaymentDone, Applied, Pinned, Submitting, BuiltFor, FinalSteps,
                  TypeOK, WellFormed
    <3>2. req[r].tx \in LandedTxs(o, FinalSteps)
      BY <3>1 DEF LandedTxs
    <3> QED BY <3>2, LandedKept
  <2>4. ASSUME NEW r \in Requests, req[r].op = o,
               \/ RecordBuild(r) \/ RecordUnwind(r) \/ FailUnwind(r)
               \/ FundTransfer(r) \/ FailFinalStep(r)
        PROVE  FALSE
    BY <1>2, <2>4 DEF RecordBuild, RecordUnwind, FailUnwind, FundTransfer, FailFinalStep,
                      Settle, TypeOK
  <2> QED BY <2>1, <2>2, <2>3, <2>4, OpStep
<1> QED BY <1>1, <1>2 DEF Applied, CompletedIsPaid

\* Only an unwind that has landed leads on to the final transaction.
LEMMA OrderedStep ==
  ASSUME TypeOK, Pinned, Applied, Recorded, Ordered, [Next]_vars
  PROVE  Ordered'
<1>1. \A o \in Ops : ops[o].quote # None => ops'[o].quote = ops[o].quote
  BY QuoteSet
<1>2. \A o : Unwound(o) => Unwound(o)'
  BY LandedKept DEF Unwound
<1>3. ASSUME NEW r \in Requests, Building(r)', req'[r].next \in FinalSteps,
             ops'[req'[r].op].quote \in NeedsUnwind
      PROVE  \E o : o = req'[r].op /\ Unwound(o)'
  <2>1. CASE /\ Building(r)
             /\ req'[r].op = req[r].op
             /\ req'[r].next = req[r].next
    <3>1. req[r].op \in Ops /\ ops[req[r].op].quote # None
      BY <2>1 DEF Building, Recorded, TypeOK, WellFormed
    <3>2. Unwound(req[r].op)
      BY <1>1, <1>3, <2>1, <3>1 DEF Ordered
    <3> QED BY <1>2, <2>1, <3>2
  <2>2. CASE req'[r] = req[r]
    BY <1>3, <2>1, <2>2 DEF Building
  <2>3. CASE (\E k \in Transfers : OpenTransfer(r, k)) \/ \E t \in Txs : BuildTx(r, t)
    BY <2>1, <2>3 DEF OpenTransfer, BuildTx, Advance, Building, TypeOK
  <2>4. ASSUME NEW q \in Quotes, NEW o \in Ops, NEW a \in BOOLEAN, BuildBegin(r, q, o, a)
        PROVE  FALSE
    <3>1. req'[r] = NewBuild(q, o) /\ ops'[o] = NewOperation(q)
      BY <2>4 DEF BuildBegin, TypeOK
    <3>2. /\ NewBuild(q, o).op = o /\ NewOperation(q).quote = q
          /\ q \in NeedsUnwind => NewBuild(q, o).next = "yield_withdraw"
      BY DEF NewBuild, Idle, NewOperation, NoOperation
    <3> QED BY <1>3, <3>1, <3>2 DEF FinalSteps
  <2>5. CASE UnwindLanded(r)
    <3>1. /\ req'[r].op = req[r].op
          /\ req[r].tx \in Txs /\ txs[req[r].tx].state = "landed"
          /\ txs[req[r].tx].op = req[r].op /\ txs[req[r].tx].step = "yield_withdraw"
      BY <1>3, <2>5 DEF UnwindLanded, Building, Idle, Advance, Applied, Pinned, Submitting,
                        BuiltFor, TypeOK, WellFormed
    <3>2. Unwound(req[r].op)
      BY <3>1 DEF Unwound, LandedTxs
    <3> QED BY <1>2, <3>1, <3>2
  <2>6. ASSUME NEW o \in Ops, NEW s \in Steps, NEW t \in Txs, ExecuteBegin(r, o, s, t)
        PROVE  FALSE
    <3>1. req'[r] = NewExecution(o, s, t)
      BY <2>6 DEF ExecuteBegin, TypeOK
    <3>2. NewExecution(o, s, t).pc = "submit"
      BY DEF NewExecution, Idle
    <3> QED BY <1>3, <3>1, <3>2 DEF Building
  <2>7. ASSUME \/ req'[r] = Idle
               \/ \E pc \in PCs : SubmitLands(r, pc) \/ SubmitAgain(r, pc) \/ SubmitRefused(r, pc)
        PROVE  FALSE
    BY <1>3, <2>7 DEF SubmitLands, SubmitAgain, SubmitRefused, Answered, Advance, Idle,
                      Building, TypeOK
  <2> QED BY <2>2, <2>3, <2>4, <2>5, <2>6, <2>7, RequestStep
<1>4. ASSUME NEW t \in Txs, Built(t)', txs'[t].step \in FinalSteps,
             ops'[txs'[t].op].quote \in NeedsUnwind
      PROVE  \E o : o = txs'[t].op /\ Unwound(o)'
  <2>1. CASE Built(t)
    <3>1. txs'[t].op = txs[t].op /\ txs'[t].step = txs[t].step
      BY <2>1, TxStep
    <3>2. txs[t].op \in Ops /\ ops[txs[t].op].quote # None
      BY <2>1 DEF Recorded
    <3>3. Unwound(txs[t].op)
      BY <1>1, <1>4, <2>1, <3>1, <3>2 DEF Ordered
    <3> QED BY <1>2, <3>1, <3>3
  <2>2. CASE ~Built(t)
    <3>1. PICK r \in Requests : BuildTx(r, t)
      BY <1>4, <2>2, TxStep
    <3>2. /\ Building(r) /\ req[r].op \in Ops /\ ops[req[r].op].quote # None
          /\ txs'[t].op = req[r].op /\ txs'[t].step = req[r].next
      BY <3>1 DEF BuildTx, Building, Recorded, TypeOK, WellFormed
    <3>3. Unwound(req[r].op)
      BY <1>1, <1>4, <3>2 DEF Ordered
    <3> QED BY <1>2, <3>2, <3>3
  <2> QED BY <2>1, <2>2
<1> QED BY <1>3, <1>4 DEF Ordered, Unwound, LandedTxs

\* A request that is under way after a step was under way before, for the same
\* operation and step, or begins with that step.
LEMMA UnderWay ==
  ASSUME TypeOK, [Next]_vars, NEW r \in Requests, req'[r].pc # "idle"
  PROVE  \/ req[r].pc # "idle" /\ req'[r].op = req[r].op /\ req'[r].step = req[r].step
         \/ \E q \in Quotes, o \in Ops, a \in BOOLEAN :
               BuildBegin(r, q, o, a) /\ req'[r].op = o /\ ops[o].quote = None
         \/ \E o \in Ops, s \in Steps, t \in Txs :
               ExecuteBegin(r, o, s, t) /\ req'[r].op = o /\ req'[r].step = s /\ Submitting(r)'
<1>1. Idle.pc = "idle"
  BY DEF Idle
<1>2. ASSUME NEW q \in Quotes, NEW o \in Ops, NEW a \in BOOLEAN, BuildBegin(r, q, o, a)
      PROVE  req'[r].op = o /\ ops[o].quote = None
  <2>1. req'[r] = NewBuild(q, o) /\ ops[o].quote = None
    BY <1>2 DEF BuildBegin, TypeOK
  <2>2. NewBuild(q, o).op = o
    BY DEF NewBuild, Idle
  <2> QED BY <2>1, <2>2
<1>3. ASSUME NEW o \in Ops, NEW s \in Steps, NEW t \in Txs, ExecuteBegin(r, o, s, t)
      PROVE  req'[r].op = o /\ req'[r].step = s /\ req'[r].pc = "submit"
  <2>1. req'[r] = NewExecution(o, s, t)
    BY <1>3 DEF ExecuteBegin, TypeOK
  <2>2. /\ NewExecution(o, s, t).op = o /\ NewExecution(o, s, t).step = s
        /\ NewExecution(o, s, t).pc = "submit"
    BY DEF NewExecution, Idle
  <2> QED BY <2>1, <2>2
<1> QED BY <1>1, <1>2, <1>3, RequestKept DEF Submitting

\* The unwind is asked for by the one build that recorded the operation.
LEMMA SingleStep ==
  ASSUME TypeOK, Recorded, Single, [Next]_vars
  PROVE  Single'
<1> DEFINE Asks(r) == req[r].pc = "call" /\ req[r].next = "yield_withdraw"
           AsksNext(r) == req'[r].pc = "call" /\ req'[r].next = "yield_withdraw"
<1>1. ASSUME NEW r \in Requests, req'[r].pc = "funding"
      PROVE  req'[r].next = "anchor_withdraw"
  <2>1. CASE req'[r] = req[r]
    BY <1>1, <2>1 DEF Single
  <2>2. CASE \E k \in Transfers : OpenTransfer(r, k)
    BY <2>2 DEF OpenTransfer, Advance, TypeOK
  <2>3. ASSUME \/ \E q \in Quotes, o \in Ops, a \in BOOLEAN : BuildBegin(r, q, o, a)
               \/ \E o \in Ops, s \in Steps, t \in Txs : ExecuteBegin(r, o, s, t)
        PROVE  FALSE
    <3>1. \/ \E q \in Quotes, o \in Ops : req'[r] = NewBuild(q, o)
          \/ \E o \in Ops, s \in Steps, t \in Txs : req'[r] = NewExecution(o, s, t)
      BY <2>3 DEF BuildBegin, ExecuteBegin, TypeOK
    <3>2. /\ \A q \in Quotes, o \in Ops : NewBuild(q, o).pc = "call"
          /\ \A o \in Ops, s \in Steps, t \in Txs : NewExecution(o, s, t).pc = "submit"
      BY DEF NewBuild, NewExecution, Idle
    <3> QED BY <1>1, <3>1, <3>2
  <2>4. ASSUME \/ req'[r] = Idle
               \/ \E t \in Txs : BuildTx(r, t)
               \/ \E pc \in PCs : SubmitLands(r, pc) \/ SubmitAgain(r, pc) \/ SubmitRefused(r, pc)
               \/ UnwindLanded(r)
        PROVE  FALSE
    BY <1>1, <2>4 DEF BuildTx, SubmitLands, SubmitAgain, SubmitRefused, UnwindLanded,
                      Answered, Advance, Idle, TypeOK
  <2> QED BY <2>1, <2>2, <2>3, <2>4, RequestStep
<1>2. ASSUME NEW r \in Requests, AsksNext(r)
      PROVE  \/ Asks(r) /\ req'[r] = req[r]
             \/ \E q \in Quotes, o \in Ops, a \in BOOLEAN :
                   BuildBegin(r, q, o, a) /\ req'[r].op = o /\ ops[o].quote = None
  <2>1. CASE req'[r] = req[r]
    BY <1>2, <2>1
  <2>2. ASSUME UnwindLanded(r) PROVE FALSE
    <3>1. req[r].snap.quote \in Quotes
      BY <2>2 DEF UnwindLanded, TypeOK, WellFormed
    <3>2. req'[r].next = FinalStep(req[r].snap.quote) \/ req'[r] = Idle
      BY <2>2 DEF UnwindLanded, Advance, TypeOK
    <3> QED BY <1>2, <3>1, <3>2, FinalStepType DEF FinalSteps, Idle
  <2>3. ASSUME \/ req'[r] = Idle
               \/ \E k \in Transfers : OpenTransfer(r, k)
               \/ \E t \in Txs : BuildTx(r, t)
               \/ \E pc \in PCs : SubmitLands(r, pc) \/ SubmitAgain(r, pc) \/ SubmitRefused(r, pc)
        PROVE  FALSE
    BY <1>2, <2>3 DEF OpenTransfer, BuildTx, SubmitLands, SubmitAgain, SubmitRefused,
                      Answered, Advance, Idle, TypeOK
  <2>4. ASSUME NEW o \in Ops, NEW s \in Steps, NEW t \in Txs, ExecuteBegin(r, o, s, t)
        PROVE  FALSE
    <3>1. req'[r] = NewExecution(o, s, t)
      BY <2>4 DEF ExecuteBegin, TypeOK
    <3>2. NewExecution(o, s, t).pc = "submit"
      BY DEF NewExecution, Idle
    <3> QED BY <1>2, <3>1, <3>2
  <2>5. CASE \E q \in Quotes, o \in Ops, a \in BOOLEAN : BuildBegin(r, q, o, a)
    <3>1. PICK q \in Quotes, o \in Ops, a \in BOOLEAN : BuildBegin(r, q, o, a)
      BY <2>5
    <3>2. req'[r] = NewBuild(q, o) /\ ops[o].quote = None
      BY <3>1 DEF BuildBegin, TypeOK
    <3>3. NewBuild(q, o).op = o
      BY DEF NewBuild, Idle
    <3> QED BY <3>1, <3>2, <3>3
  <2> QED BY <2>1, <2>2, <2>3, <2>4, <2>5, RequestStep
<1>3. ASSUME NEW r \in Requests, NEW t \in Txs, BuildTx(r, t)
      PROVE  /\ ~AsksNext(r)
             /\ req[r].op \in Ops /\ ops[req[r].op].quote # None
             /\ txs'[t].op = req[r].op /\ txs'[t].step = req[r].next
             /\ txs'[t].step = "yield_withdraw" => Asks(r)
             /\ ops' = ops /\ ~Built(t)
             /\ \A u \in Txs \ {t} : txs'[u] = txs[u]
  <2>1. /\ txs'[t].op = req[r].op /\ txs'[t].step = req[r].next /\ ops' = ops /\ ~Built(t)
        /\ \A u \in Txs \ {t} : txs'[u] = txs[u]
        /\ req'[r].pc = "record"
    BY <1>3 DEF BuildTx, Built, Advance, TypeOK
  <2>2. req[r].op \in Ops /\ ops[req[r].op].quote # None
    BY <1>3 DEF BuildTx, Recorded, TypeOK, WellFormed
  <2>3. req[r].next = "yield_withdraw" => Asks(r)
    BY <1>3 DEF BuildTx, Single
  <2> QED BY <2>1, <2>2, <2>3
<1>4. ASSUME NEW r \in Requests, NEW t \in Txs, Asks(r), Built(t), txs[t].op = req[r].op
      PROVE  txs[t].step # "yield_withdraw"
  BY <1>4 DEF Single
<1>5. ASSUME NEW r1 \in Requests, NEW r2 \in Requests, Asks(r1), Asks(r2), req[r1].op = req[r2].op
      PROVE  r1 = r2
  BY <1>5 DEF Single
<1>6. \A r \in Requests : Asks(r) => req[r].op \in Ops /\ ops[req[r].op].quote # None
  BY DEF Recorded, TypeOK, WellFormed
<1>7. \A r, x \in Requests, q \in Quotes, o \in Ops, a \in BOOLEAN :
        BuildBegin(r, q, o, a) /\ x # r => req'[x] = req[x]
  BY DEF BuildBegin, TypeOK
<1>8. \A r \in Requests, q \in Quotes, o \in Ops, a \in BOOLEAN : BuildBegin(r, q, o, a) => txs' = txs
  BY DEF BuildBegin
<1>9. \A t \in Txs : Built(t)' => \/ Built(t) /\ txs'[t].op = txs[t].op /\ txs'[t].step = txs[t].step
                                  \/ ~Built(t) /\ \E r \in Requests : BuildTx(r, t)
  BY TxStep
<1>10. \A t \in Txs : Built(t) => txs[t].op \in Ops /\ ops[txs[t].op].quote # None
  BY DEF Recorded
<1> HIDE DEF Asks, AsksNext
<1>11. ASSUME NEW r1 \in Requests, NEW r2 \in Requests,
              AsksNext(r1), AsksNext(r2), req'[r1].op = req'[r2].op, r1 # r2
       PROVE  FALSE
  <2>1. ASSUME NEW x \in Requests, NEW y \in Requests, x # y, AsksNext(y),
               req'[x].op = req'[y].op,
               \E q \in Quotes, o \in Ops, a \in BOOLEAN :
                  BuildBegin(x, q, o, a) /\ req'[x].op = o /\ ops[o].quote = None
        PROVE  FALSE
    <3>1. req'[y] = req[y]
      BY <2>1, <1>7
    <3>2. Asks(y)
      BY <2>1, <3>1 DEF Asks, AsksNext
    <3> QED BY <2>1, <3>1, <3>2, <1>6
  <2> QED BY <1>11, <2>1, <1>2, <1>5
<1>12. ASSUME NEW r \in Requests, NEW t \in Txs,
              AsksNext(r), Built(t)', txs'[t].op = req'[r].op, txs'[t].step = "yield_withdraw"
       PROVE  FALSE
  <2>1. CASE Asks(r) /\ req'[r] = req[r]
    BY <1>12, <2>1, <1>3, <1>4, <1>5, <1>9
  <2>2. CASE \E q \in Quotes, o \in Ops, a \in BOOLEAN :
                BuildBegin(r, q, o, a) /\ req'[r].op = o /\ ops[o].quote = None
    <3>1. txs' = txs /\ Built(t)
      BY <1>12, <2>2, <1>8 DEF Built
    <3> QED BY <1>12, <2>2, <3>1, <1>10
  <2> QED BY <1>12, <2>1, <2>2, <1>2
<1>13. ASSUME NEW t \in Txs, NEW u \in Txs, Built(t)', txs'[t].step = "yield_withdraw",
              Built(u)', txs'[u].step = "yield_withdraw", txs'[t].op = txs'[u].op, t # u
       PROVE  FALSE
  <2>1. CASE Built(t) /\ Built(u)
    BY <1>13, <2>1, <1>9 DEF Single
  <2>2. ASSUME NEW x \in Txs, NEW y \in Txs, x # y, txs'[x].step = "yield_withdraw",
               Built(y)', txs'[y].step = "yield_withdraw", txs'[x].op = txs'[y].op,
               \E r \in Requests : BuildTx(r, x)
        PROVE  FALSE
    <3>1. PICK r \in Requests : BuildTx(r, x)
      BY <2>2
    <3>2. txs'[y] = txs[y] /\ Asks(r) /\ txs'[x].op = req[r].op
      BY <2>2, <3>1, <1>3
    <3>3. Built(y)
      BY <2>2, <3>2 DEF Built
    <3> QED BY <2>2, <3>2, <3>3, <1>4
  <2> QED BY <1>13, <2>1, <2>2, <1>9
<1> QED BY <1>1, <1>11, <1>12, <1>13 DEF Single, AsksNext, Built

\* A transaction becomes usable when its request records it and ends, and by
\* then no other request works on the operation.
LEMMA SerialStep ==
  ASSUME TypeOK, Pinned, Recorded, Serial, OneStepAtATime, [Next]_vars
  PROVE  Serial'
<1> DEFINE FinalNow(t) == Usable(t) /\ txs[t].step \in FinalSteps
           FinalNext(t) == Usable(t)' /\ txs'[t].step \in FinalSteps
<1>1. ASSUME NEW r1 \in Requests, NEW r2 \in Requests,
             req'[r1].pc # "idle", req'[r2].pc # "idle", req'[r1].op = req'[r2].op, r1 # r2
      PROVE  FALSE
  <2>1. ASSUME NEW x \in Requests, NEW y \in Requests, x # y, req'[y].pc # "idle",
               req'[x].op = req'[y].op,
               \/ \E q \in Quotes, o \in Ops, a \in BOOLEAN :
                     BuildBegin(x, q, o, a) /\ req'[x].op = o /\ ops[o].quote = None
               \/ \E o \in Ops, s \in Steps, t \in Txs :
                     ExecuteBegin(x, o, s, t) /\ req'[x].op = o /\ req'[x].step = s
        PROVE  FALSE
    <3>1. req'[y] = req[y]
      BY <2>1 DEF BuildBegin, ExecuteBegin, TypeOK
    <3>2. ops[req[y].op].quote # None
      BY <2>1, <3>1 DEF Recorded
    <3>3. ASSUME NEW o \in Ops, NEW s \in Steps, NEW t \in Txs,
                 ExecuteBegin(x, o, s, t), req'[x].op = o
          PROVE  FALSE
      BY <2>1, <3>1, <3>3 DEF ExecuteBegin, InFlight
    <3> QED BY <2>1, <3>1, <3>2, <3>3
  <2>2. CASE /\ req[r1].pc # "idle" /\ req'[r1].op = req[r1].op
             /\ req[r2].pc # "idle" /\ req'[r2].op = req[r2].op
    BY <1>1, <2>2 DEF Serial
  <2> QED BY <1>1, <2>1, <2>2, UnderWay
<1>2. ASSUME NEW t \in Txs, FinalNext(t)
      PROVE  /\ txs'[t].op = txs[t].op /\ txs[t].op \in Ops
             /\ \/ FinalNow(t)
                \/ /\ ~Usable(t)
                   /\ \E r \in Requests :
                         /\ req[r].built = t /\ req[r].op = txs[t].op
                         /\ req[r].next = txs[t].step /\ txs[t].step \in FinalSteps
                         /\ RecordBuild(r) \/ RecordUnwind(r)
  <2>1. CASE Usable(t)
    <3>1. Built(t)
      BY <2>1 DEF Usable, Built
    <3> QED BY <1>2, <2>1, <3>1, TxStep DEF Recorded
  <2>2. CASE ~Usable(t)
    <3>1. PICK r \in Requests : req[r].built = t /\ (RecordBuild(r) \/ RecordUnwind(r))
      BY <1>2, <2>2, TxStep
    <3>2. BuiltFor(t, req[r].op, req[r].next)
      BY <3>1 DEF RecordBuild, RecordUnwind, Pinned
    <3> QED BY <1>2, <2>2, <3>1, <3>2, TxStep DEF BuiltFor, Recorded
  <2> QED BY <2>1, <2>2
<1>3. ASSUME NEW t \in Txs, NEW r \in Requests, FinalNow(t),
             req[r].pc # "idle", req[r].op = txs[t].op
      PROVE  Submitting(r) /\ req[r].step \in FinalSteps
  BY <1>3 DEF Serial
<1>4. ASSUME NEW r \in Requests, RecordBuild(r) \/ RecordUnwind(r)
      PROVE  /\ req[r].pc = "record" /\ req[r].op \in Ops /\ req' = [req EXCEPT ![r] = Idle]
             /\ ops'[req[r].op].step = req[r].next
  BY <1>4 DEF RecordBuild, RecordUnwind, TypeOK, WellFormed
<1>5. ASSUME NEW t \in Txs, NEW u \in Txs, FinalNext(t), FinalNext(u), txs'[t].op = txs'[u].op, t # u
      PROVE  FALSE
  <2>1. CASE FinalNow(t) /\ FinalNow(u)
    BY <1>2, <1>5, <2>1 DEF Serial
  <2>2. ASSUME NEW x \in Txs, NEW y \in Txs, x # y, FinalNext(y), txs'[y].op = txs[x].op, ~Usable(x),
               \E r \in Requests :
                  /\ req[r].built = x /\ req[r].op = txs[x].op
                  /\ RecordBuild(r) \/ RecordUnwind(r)
        PROVE  FALSE
    <3>1. PICK r \in Requests : /\ req[r].built = x /\ req[r].op = txs[x].op
                                /\ RecordBuild(r) \/ RecordUnwind(r)
      BY <2>2
    <3>2. txs[y].op = req[r].op
      BY <1>2, <2>2, <3>1
    <3>3. CASE FinalNow(y)
      <4>1. Submitting(r)
        BY <1>3, <1>4, <3>1, <3>2, <3>3
      <4> QED BY <1>4, <3>1, <4>1 DEF Submitting
    <3>4. CASE ~FinalNow(y)
      <4>1. PICK p \in Requests : req[p].built = y /\ (RecordBuild(p) \/ RecordUnwind(p))
        BY <1>2, <2>2, <3>4
      <4>2. p # r
        BY <2>2, <3>1, <4>1
      <4>3. req'[p] = req[p] /\ req'[p] = Idle /\ req[p].pc = "record"
        BY <1>4, <3>1, <4>1, <4>2 DEF TypeOK
      <4> QED BY <4>3 DEF Idle
    <3> QED BY <3>3, <3>4
  <2> QED BY <1>2, <1>5, <2>1, <2>2
<1>6. ASSUME NEW t \in Txs, FinalNext(t), ops'[txs'[t].op].step = "yield_withdraw"
      PROVE  FALSE
  <2>1. CASE FinalNow(t)
    <3> DEFINE o == txs[t].op
    <3>1. o \in Ops /\ txs'[t].op = o /\ ops[o].step # "yield_withdraw" /\ ops[o].quote # None
      BY <1>2, <1>6, <2>1 DEF Serial, Recorded, Usable, Built
    <3>2. ASSUME NEW r \in Requests, NEW q \in Quotes, NEW a \in BOOLEAN, BuildBegin(r, q, o, a)
          PROVE  FALSE
      BY <3>1, <3>2 DEF BuildBegin
    <3>3. ASSUME NEW r \in Requests, req[r].op = o, RecordBuild(r) \/ RecordUnwind(r)
          PROVE  FALSE
      BY <1>3, <1>4, <2>1, <3>3 DEF Submitting
    <3>4. ASSUME NEW r \in Requests, req[r].op = o, FailUnwind(r)
          PROVE  FALSE
      <4>1. req[r].pc # "idle" /\ req[r].step = "yield_withdraw"
        BY <3>4 DEF FailUnwind
      <4> QED BY <1>3, <2>1, <3>4, <4>1 DEF FinalSteps
    <3>5. ASSUME NEW r \in Requests, req[r].op = o,
                 CompletePayment(r) \/ FundTransfer(r) \/ FailFinalStep(r)
          PROVE  ops'[o].step = None
      BY <3>1, <3>5 DEF CompletePayment, notifyPaymentDone, FundTransfer, FailFinalStep, Settle, TypeOK
    <3> HIDE DEF o
    <3>6. ops'[o].step # "yield_withdraw"
      BY <3>1, <3>2, <3>3, <3>4, <3>5, OpStep, PaymentAssumption DEF Steps
    <3> QED BY <1>6, <3>1, <3>6
  <2>2. CASE ~FinalNow(t)
    BY <1>2, <1>4, <1>6, <2>2 DEF FinalSteps
  <2> QED BY <2>1, <2>2
<1>7. ASSUME NEW t \in Txs, FinalNext(t), NEW r \in Requests,
             req'[r].pc # "idle", req'[r].op = txs'[t].op
      PROVE  Submitting(r)' /\ req'[r].step \in FinalSteps
  <2>1. CASE FinalNow(t)
    <3>1. /\ txs'[t].op = txs[t].op
          /\ ops[txs[t].op].quote # None /\ ops[txs[t].op].step # "yield_withdraw"
      BY <1>2, <1>7, <2>1 DEF Serial, Recorded, Usable, Built
    <3>2. ASSUME NEW q \in Quotes, NEW o \in Ops, NEW a \in BOOLEAN,
                 BuildBegin(r, q, o, a), req'[r].op = o, ops[o].quote = None
          PROVE  FALSE
      BY <1>7, <3>2, <3>1
    <3>3. ASSUME NEW o \in Ops, NEW s \in Steps, NEW u \in Txs,
                 ExecuteBegin(r, o, s, u), req'[r].op = o, req'[r].step = s, Submitting(r)'
          PROVE  Submitting(r)' /\ req'[r].step \in FinalSteps
      <4>1. ops[o].step = s
        BY <3>3 DEF ExecuteBegin
      <4>2. ops[o].step # "yield_withdraw"
        BY <1>7, <3>3, <3>1
      <4> QED BY <3>3, <4>1, <4>2 DEF Steps
    <3>4. CASE req[r].pc # "idle" /\ req'[r].op = req[r].op /\ req'[r].step = req[r].step
      <4>1. Submitting(r) /\ req[r].step \in FinalSteps
        BY <1>2, <1>3, <1>7, <2>1, <3>4
      <4>2. req[r].step # "yield_withdraw" /\ req[r].pc \notin {"call", "funding", "idle", "record"}
        BY <4>1 DEF Submitting, FinalSteps
      <4>3. CASE req'[r] = req[r]
        BY <4>1, <4>3 DEF Submitting
      <4>4. CASE \E pc \in PCs : SubmitLands(r, pc) \/ SubmitAgain(r, pc) \/ SubmitRefused(r, pc)
        BY <1>7, <3>4, <4>1, <4>4 DEF SubmitLands, SubmitAgain, SubmitRefused, Answered, Advance,
                            Submitting, Idle, TypeOK
      <4>5. ASSUME \/ req'[r] = Idle
                   \/ \E q \in Quotes, o \in Ops, a \in BOOLEAN : BuildBegin(r, q, o, a)
                   \/ \E o \in Ops, s \in Steps, u \in Txs : ExecuteBegin(r, o, s, u)
                   \/ \E k \in Transfers : OpenTransfer(r, k)
                   \/ \E u \in Txs : BuildTx(r, u)
                   \/ UnwindLanded(r)
            PROVE  FALSE
        BY <1>7, <4>2, <4>5 DEF BuildBegin, ExecuteBegin, OpenTransfer, BuildTx, UnwindLanded, Idle
      <4> QED BY <4>3, <4>4, <4>5, RequestStep
    <3> QED BY <1>7, <3>2, <3>3, <3>4, UnderWay
  <2>2. CASE ~FinalNow(t)
    <3>1. PICK x \in Requests : /\ req[x].op = txs[t].op
                                /\ RecordBuild(x) \/ RecordUnwind(x)
      BY <1>2, <1>7, <2>2
    <3>2. req'[x] = Idle /\ (r # x => req'[r] = req[r]) /\ req[x].pc # "idle"
      BY <1>4, <3>1 DEF TypeOK
    <3>3. r # x
      BY <1>7, <3>2 DEF Idle
    <3>4. req[r].op = req[x].op /\ req[r].pc # "idle"
      BY <1>2, <1>7, <3>1, <3>2, <3>3
    <3> QED BY <3>2, <3>3, <3>4 DEF Serial
  <2> QED BY <2>1, <2>2
<1> HIDE DEF FinalNext
<1>8. Serial' <=> /\ \A r1, r2 \in Requests :
                       /\ req'[r1].pc # "idle" /\ req'[r2].pc # "idle"
                       /\ req'[r1].op = req'[r2].op
                       => r1 = r2
                  /\ \A t, u \in Txs : FinalNext(t) /\ FinalNext(u) /\ txs'[t].op = txs'[u].op => t = u
                  /\ \A t \in Txs : FinalNext(t) =>
                       /\ ops'[txs'[t].op].step # "yield_withdraw"
                       /\ \A r \in Requests : req'[r].pc # "idle" /\ req'[r].op = txs'[t].op =>
                             Submitting(r)' /\ req'[r].step \in FinalSteps
  BY DEF Serial, FinalNext, Usable, Submitting
<1> QED BY <1>1, <1>5, <1>6, <1>7, <1>8

\* An operation that is settled is not taken up again.
LEMMA SettledStep ==
  ASSUME TypeOK, [Next]_vars, NEW o \in Ops, Settled(o)
  PROVE  Settled(o)' /\ ops'[o] = ops[o]
<1>1. \A r \in Requests : req[r].op = o => req[r].pc = "idle"
  BY DEF Settled, InFlight
<1>2. ops'[o] = ops[o]
  <2>1. \A r \in Requests, q \in Quotes, a \in BOOLEAN : ~BuildBegin(r, q, o, a)
    BY DEF Settled, BuildBegin
  <2>2. ASSUME NEW r \in Requests, req[r].op = o,
               \/ RecordBuild(r) \/ RecordUnwind(r) \/ FailUnwind(r)
               \/ CompletePayment(r) \/ FundTransfer(r) \/ FailFinalStep(r)
        PROVE  FALSE
    BY <1>1, <2>2 DEF RecordBuild, RecordUnwind, FailUnwind, CompletePayment, notifyPaymentDone, FundTransfer,
                      FailFinalStep
  <2> QED BY <2>1, <2>2, OpStep
<1>3. ASSUME NEW r \in Requests, req'[r].pc # "idle", req'[r].op = o
      PROVE  FALSE
  <2>1. ASSUME NEW s \in Steps, NEW t \in Txs, ExecuteBegin(r, o, s, t)
        PROVE  FALSE
    BY <2>1, PaymentAssumption DEF Settled, ExecuteBegin
  <2> QED BY <1>1, <1>3, <2>1, UnderWay DEF Settled
<1> QED BY <1>2, <1>3 DEF Settled, InFlight

\* An announcement is the last step of a request that completes its operation.
LEMMA NotifiedStep ==
  ASSUME TypeOK, [Next]_vars, NEW o \in Ops
  PROVE  notified'[o] = notified[o] \/ \E r \in Requests : req[r].op = o /\ CompletePayment(r)
<1>1. ASSUME NEW r \in Requests, CompletePayment(r), req[r].op # o
      PROVE  notified'[o] = notified[o]
  BY <1>1 DEF CompletePayment, notifyPaymentDone, TypeOK
<1>2. ASSUME NEW r \in Requests, Handler(r), ~CompletePayment(r)
      PROVE  notified' = notified
  BY <1>2 DEF Handler, OpenTransfer, BuildTx, ProviderFails, RecordBuild, SubmitLands,
              SubmitAgain, SubmitRefused, SubmitTimesOut, FundTransfer,
              FailFinalStep, FailUnwind, UnwindLanded, RecordUnwind
<1>3. ASSUME ~\E r \in Requests : Handler(r)
      PROVE  notified' = notified
  BY <1>3 DEF Next, SaveQuote, QuoteExpires, RejectStale, BuildBegin, ExecuteBegin,
              LateLanding, TxDies, Restart, vars
<1> QED BY <1>1, <1>2, <1>3

\* A handler is told of a failure by the step that found, or made, its
\* transaction dead.
LEMMA RefusedStep ==
  ASSUME TypeOK, Refused, [Next]_vars
  PROVE  Refused'
<1> SUFFICES ASSUME NEW r \in Requests, req'[r].pc = "failed"
             PROVE  txs'[req'[r].tx].state = "dead"
  BY DEF Refused
<1>1. CASE req'[r] = req[r]
  BY <1>1, TxStep DEF Refused, TypeOK, WellFormed
<1>2. ASSUME NEW pc \in PCs, SubmitRefused(r, pc)
      PROVE  txs'[req'[r].tx].state = "dead"
  BY <1>2 DEF SubmitRefused, Answered, Advance, Idle, TypeOK, WellFormed, Transaction
<1>3. ASSUME NEW pc \in PCs, SubmitLands(r, pc) \/ SubmitAgain(r, pc)
      PROVE  FALSE
  BY <1>3 DEF SubmitLands, SubmitAgain, Answered, Advance, Idle, TypeOK
<1>4. ASSUME \/ req'[r] = Idle
             \/ \E k \in Transfers : OpenTransfer(r, k)
             \/ \E t \in Txs : BuildTx(r, t)
             \/ UnwindLanded(r)
      PROVE  FALSE
  BY <1>4 DEF OpenTransfer, BuildTx, UnwindLanded, Advance, Idle, TypeOK
<1>5. ASSUME \/ \E q \in Quotes, o \in Ops, a \in BOOLEAN : BuildBegin(r, q, o, a)
             \/ \E o \in Ops, s \in Steps, t \in Txs : ExecuteBegin(r, o, s, t)
      PROVE  FALSE
  <2>1. \/ \E q \in Quotes, o \in Ops : req'[r] = NewBuild(q, o)
        \/ \E o \in Ops, s \in Steps, t \in Txs : req'[r] = NewExecution(o, s, t)
    BY <1>5 DEF BuildBegin, ExecuteBegin, TypeOK
  <2>2. /\ \A q \in Quotes, o \in Ops : NewBuild(q, o).pc = "call"
        /\ \A o \in Ops, s \in Steps, t \in Txs : NewExecution(o, s, t).pc = "submit"
    BY DEF NewBuild, NewExecution, Idle
  <2> QED BY <2>1, <2>2
<1> QED BY <1>1, <1>2, <1>3, <1>4, <1>5, RequestStep

\* A build carries the transfer it opened into its transaction, and asks for an
\* unwind only for a quote that takes from the earn balance.
LEMMA CarriedStep ==
  ASSUME TypeOK, Pinned, Recorded, Carried, [Next]_vars
  PROVE  Carried'
<1>1. \A o \in Ops : ops[o].quote # None => ops'[o].quote = ops[o].quote
  BY QuoteSet
<1>2. ASSUME NEW r \in Requests, Building(r)'
      PROVE  \/ req'[r] = req[r]
             \/ \E q \in Quotes, o \in Ops, a \in BOOLEAN : BuildBegin(r, q, o, a)
             \/ \E k \in Transfers : OpenTransfer(r, k)
             \/ \E t \in Txs : BuildTx(r, t)
             \/ UnwindLanded(r)
  <2>1. ASSUME NEW o \in Ops, NEW s \in Steps, NEW t \in Txs, ExecuteBegin(r, o, s, t)
        PROVE  FALSE
    <3>1. req'[r] = NewExecution(o, s, t)
      BY <2>1 DEF ExecuteBegin, TypeOK
    <3>2. NewExecution(o, s, t).pc = "submit"
      BY DEF NewExecution, Idle
    <3> QED BY <1>2, <3>1, <3>2 DEF Building
  <2>2. ASSUME \/ req'[r] = Idle
               \/ \E pc \in PCs : SubmitLands(r, pc) \/ SubmitAgain(r, pc) \/ SubmitRefused(r, pc)
        PROVE  FALSE
    BY <1>2, <2>2 DEF SubmitLands, SubmitAgain, SubmitRefused, Answered, Advance, Idle,
                      Building, TypeOK
  <2> QED BY <2>1, <2>2, RequestStep
<1>3. ASSUME NEW r \in Requests, UnwindLanded(r), Building(r)'
      PROVE  req'[r].pc = "call" /\ req'[r].next \in FinalSteps
  <2>1. req[r].snap.quote \in Quotes
    BY <1>3 DEF UnwindLanded, TypeOK, WellFormed
  <2>2. req'[r].pc = "call" /\ req'[r].next = FinalStep(req[r].snap.quote)
    BY <1>3 DEF UnwindLanded, Building, Idle, Advance, TypeOK
  <2> QED BY <2>1, <2>2, FinalStepType
<1>4. ASSUME NEW r \in Requests, NEW q \in Quotes, NEW o \in Ops, NEW a \in BOOLEAN,
             BuildBegin(r, q, o, a)
      PROVE  /\ req'[r].pc = "call" /\ req'[r].op = o /\ ops'[o].quote = q
             /\ req'[r].next = "yield_withdraw" => q \in NeedsUnwind
  <2>1. req'[r] = NewBuild(q, o) /\ ops'[o] = NewOperation(q)
    BY <1>4 DEF BuildBegin, TypeOK
  <2>2. /\ NewBuild(q, o).op = o /\ NewBuild(q, o).pc = "call" /\ NewOperation(q).quote = q
        /\ q \notin NeedsUnwind => NewBuild(q, o).next = FinalStep(q)
    BY DEF NewBuild, Idle, NewOperation, NoOperation
  <2> QED BY <2>1, <2>2, FinalStepType DEF FinalSteps
<1>5. ASSUME NEW r \in Requests, NEW k \in Transfers, OpenTransfer(r, k)
      PROVE  /\ Building(r) /\ req'[r].pc = "funding" /\ req'[r].transfer = k
             /\ req'[r].next = "anchor_withdraw" /\ req'[r].op = req[r].op
  BY <1>5 DEF OpenTransfer, Advance, Building, TypeOK
<1>6. ASSUME NEW r \in Requests, NEW t \in Txs, BuildTx(r, t)
      PROVE  /\ Building(r) /\ req'[r].pc = "record" /\ req'[r].built = t
             /\ req'[r].next = req[r].next /\ req'[r].transfer = req[r].transfer
             /\ req'[r].op = req[r].op
             /\ txs'[t].transfer = req[r].transfer /\ txs'[t].op = req[r].op
             /\ txs'[t].step = req[r].next
             /\ req[r].next = "anchor_withdraw" => req[r].pc = "funding"
  BY <1>6 DEF BuildTx, Advance, Building, TypeOK
<1>7. ASSUME NEW r \in Requests, req'[r].pc \in {"funding", "record"},
             req'[r].next = "anchor_withdraw"
      PROVE  req'[r].transfer \in Transfers
  <2>1. Building(r)'
    BY <1>7 DEF Building
  <2> QED BY <1>2, <1>3, <1>4, <1>5, <1>6, <1>7, <2>1 DEF Carried
<1>8. ASSUME NEW r \in Requests, req'[r].pc = "record"
      PROVE  txs'[req'[r].built].transfer = req'[r].transfer
  <2>1. Building(r)'
    BY <1>8 DEF Building
  <2>2. CASE req'[r] = req[r]
    <3>1. req[r].built \in Txs /\ Built(req[r].built)
      BY <1>8, <2>2 DEF TypeOK, WellFormed, Pinned, BuiltFor
    <3> QED BY <1>8, <2>2, <3>1, TxStep DEF Carried
  <2> QED BY <1>2, <1>3, <1>4, <1>5, <1>6, <1>8, <2>1, <2>2
<1>9. ASSUME NEW r \in Requests, Building(r)', req'[r].next = "yield_withdraw"
      PROVE  ops'[req'[r].op].quote \in NeedsUnwind
  <2>1. CASE Building(r) /\ req'[r].op = req[r].op /\ req'[r].next = req[r].next
    BY <1>1, <1>9, <2>1 DEF Carried, Recorded, Building, TypeOK, WellFormed
  <2>2. CASE req'[r] = req[r]
    BY <1>9, <2>1, <2>2 DEF Building
  <2> QED BY <1>2, <1>3, <1>4, <1>5, <1>6, <1>9, <2>1, <2>2 DEF FinalSteps
<1>10. ASSUME NEW t \in Txs, Built(t)', txs'[t].step = "yield_withdraw"
       PROVE  ops'[txs'[t].op].quote \in NeedsUnwind
  <2>1. CASE Built(t)
    BY <1>1, <1>10, <2>1, TxStep DEF Carried, Recorded
  <2>2. CASE ~Built(t)
    <3>1. PICK r \in Requests : BuildTx(r, t)
      BY <1>10, <2>2, TxStep
    <3>2. req[r].op \in Ops /\ ops[req[r].op].quote # None
      BY <3>1 DEF BuildTx, Recorded, TypeOK, WellFormed
    <3> QED BY <1>1, <1>6, <1>10, <3>1, <3>2 DEF Carried
  <2> QED BY <2>1, <2>2
<1> QED BY <1>7, <1>8, <1>9, <1>10 DEF Carried, Building, Built

\* A final transaction that is usable after a step was usable before it, or is
\* handed out by the step, which ends the request that built it.
LEMMA FinalStepOrNew ==
  ASSUME TypeOK, Pinned, Recorded, [Next]_vars, NEW t \in Txs, Final(t)'
  PROVE  /\ txs'[t].op = txs[t].op /\ txs'[t].step = txs[t].step
         /\ txs'[t].transfer = txs[t].transfer
         /\ txs[t].op \in Ops /\ ops[txs[t].op].quote # None
         /\ \/ Final(t)
            \/ \E r \in Requests :
                  /\ req[r].built = t /\ req[r].op = txs[t].op /\ req[r].next = txs[t].step
                  /\ req[r].pc = "record"
                  /\ RecordBuild(r) \/ RecordUnwind(r)
<1>1. CASE Usable(t)
  <2>1. Built(t)
    BY <1>1 DEF Usable, Built
  <2> QED BY <1>1, <2>1, TxStep DEF Recorded, Final
<1>2. CASE ~Usable(t)
  <2>1. PICK r \in Requests : req[r].built = t /\ (RecordBuild(r) \/ RecordUnwind(r))
    BY <1>2, TxStep DEF Final
  <2>2. BuiltFor(t, req[r].op, req[r].next) /\ req[r].pc = "record"
    BY <2>1 DEF RecordBuild, RecordUnwind, Pinned
  <2> QED BY <2>1, <2>2, TxStep DEF BuiltFor, Recorded
<1> QED BY <1>1, <1>2

\* What the last step of a request leaves in its operation.
LEMMA Updates ==
  ASSUME TypeOK, NEW r \in Requests
  PROVE  LET o == req[r].op IN
         /\ RecordBuild(r) \/ RecordUnwind(r) =>
               /\ req[r].pc = "record" /\ ops'[o].expected = req[r].built
               /\ ops'[o].status = "awaiting_signature" /\ ops'[o].step = req[r].next
               /\ req[r].transfer # None => ops'[o].transfer = req[r].transfer
         /\ FailUnwind(r) =>
               /\ req[r].pc = "failed" /\ req[r].step = "yield_withdraw"
               /\ ops'[o].status = "failed" /\ ops'[o].step = req[r].snap.step
         /\ CompletePayment(r) \/ FundTransfer(r) \/ FailFinalStep(r) =>
               /\ req[r].pc \in {"ok", "failed"} /\ req[r].step \in FinalSteps
               /\ ops'[o].step = None
               /\ ops'[o].transfer = MergeRef(ops[o].transfer, req[r].snap.transfer)
         /\ CompletePayment(r) => ops'[o].status = "completed"
         /\ FundTransfer(r) => ops'[o].status = "processing"
         /\ FailFinalStep(r) => req[r].pc = "failed" /\ ops'[o].status = "failed"
         /\ \/ RecordBuild(r) \/ RecordUnwind(r) \/ FailUnwind(r)
            \/ CompletePayment(r) \/ FundTransfer(r) \/ FailFinalStep(r)
            => req' = [req EXCEPT ![r] = Idle] /\ req[r].pc # "idle" /\ o \in Ops
<1>1. req[r].pc # "idle" => req[r].op \in Ops
  BY DEF TypeOK, WellFormed
<1>2. ASSUME RecordBuild(r) \/ RecordUnwind(r)
      PROVE  LET o == req[r].op IN
             /\ req[r].pc = "record" /\ ops'[o].expected = req[r].built
             /\ ops'[o].status = "awaiting_signature" /\ ops'[o].step = req[r].next
             /\ req[r].transfer # None => ops'[o].transfer = req[r].transfer
             /\ req' = [req EXCEPT ![r] = Idle]
  BY <1>1, <1>2 DEF RecordBuild, RecordUnwind, MergeRef, TypeOK
<1>3. ASSUME FailUnwind(r)
      PROVE  /\ req[r].pc = "failed" /\ req[r].step = "yield_withdraw"
             /\ ops'[req[r].op].status = "failed" /\ ops'[req[r].op].step = req[r].snap.step
             /\ req' = [req EXCEPT ![r] = Idle]
  BY <1>1, <1>3 DEF FailUnwind, TypeOK
<1>4. ASSUME NEW s, Settle(r, s), req[r].pc # "idle"
      PROVE  LET o == req[r].op IN
             /\ ops'[o].step = None /\ ops'[o].status = s
             /\ ops'[o].transfer = MergeRef(ops[o].transfer, req[r].snap.transfer)
  BY <1>1, <1>4 DEF Settle, TypeOK
<1>5. ASSUME CompletePayment(r)
      PROVE  /\ req[r].pc = "ok" /\ req[r].step \in FinalSteps /\ Settle(r, "completed")
             /\ req' = [req EXCEPT ![r] = Idle]
  BY <1>5 DEF CompletePayment, notifyPaymentDone, FinalSteps
<1>6. ASSUME FundTransfer(r)
      PROVE  /\ req[r].pc = "ok" /\ req[r].step \in FinalSteps /\ Settle(r, "processing")
             /\ req' = [req EXCEPT ![r] = Idle]
  BY <1>6 DEF FundTransfer, FinalSteps
<1>7. ASSUME FailFinalStep(r)
      PROVE  /\ req[r].pc = "failed" /\ req[r].step \in FinalSteps /\ Settle(r, "failed")
             /\ req' = [req EXCEPT ![r] = Idle]
  BY <1>7 DEF FailFinalStep
<1> QED BY <1>1, <1>2, <1>3, <1>4, <1>5, <1>6, <1>7

\* An operation with a usable final transaction is changed by nothing but the
\* end of a request that has submitted that transaction.
LEMMA OnlyItsSubmission ==
  ASSUME TypeOK, Recorded, Serial, Current, OneStepAtATime, [Next]_vars, NEW t \in Txs, Final(t)
  PROVE  LET o == txs[t].op IN
         /\ o \in Ops /\ ops[o].quote # None
         /\ \/ ops'[o] = ops[o]
            \/ \E r \in Requests :
                  /\ req[r].op = o /\ req[r].tx = t /\ req[r].snap = ops[o]
                  /\ CompletePayment(r) \/ FundTransfer(r) \/ FailFinalStep(r)
<1> DEFINE o == txs[t].op
<1>1. o \in Ops /\ ops[o].quote # None
  BY DEF Final, Usable, Built, Recorded
<1>2. ASSUME NEW r \in Requests, req[r].op = o, req[r].pc # "idle"
      PROVE  Submitting(r) /\ req[r].step \in FinalSteps /\ req[r].tx = t
  BY <1>2 DEF Serial, Current, Final
<1>3. ASSUME NEW r \in Requests, NEW q \in Quotes, NEW a \in BOOLEAN, BuildBegin(r, q, o, a)
      PROVE  FALSE
  BY <1>1, <1>3 DEF BuildBegin
<1>4. ASSUME NEW r \in Requests, req[r].op = o, RecordBuild(r) \/ RecordUnwind(r) \/ FailUnwind(r)
      PROVE  FALSE
  BY <1>2, <1>4, Updates DEF Submitting, FinalSteps
<1>5. ASSUME NEW r \in Requests, req[r].op = o,
             CompletePayment(r) \/ FundTransfer(r) \/ FailFinalStep(r)
      PROVE  req[r].tx = t /\ req[r].snap = ops[o]
  <2>1. req[r].pc # "idle" /\ req[r].step \in FinalSteps
    BY <1>5, Updates
  <2>2. req[r].step # None
    BY <2>1, PaymentAssumption DEF Steps
  <2> QED BY <1>2, <1>5, <2>1, <2>2 DEF Current
<1> QED BY <1>1, <1>3, <1>4, <1>5, OpStep

\* A client that awaits each execute-step never finds the operation, its last
\* transaction, its transfer or its announcement out of step with each other.
LEMMA CurrentStep ==
  ASSUME TypeOK, Pinned, Recorded, Carried, Refused, Serial, Current, OneStepAtATime, [Next]_vars
  PROVE  Current'
<1>1. \A r1, r2 \in Requests :
        req[r1].pc # "idle" /\ req[r2].pc # "idle" /\ req[r1].op = req[r2].op => r1 = r2
  BY DEF Serial
<1>2. ASSUME NEW o \in Ops, NEW r \in Requests, req[r].pc # "idle", req[r].op = o
      PROVE  ops[o].quote # None /\ ops[o].status # "completed"
  BY <1>2 DEF Recorded, Current, Settled, InFlight
<1>3. ASSUME NEW r \in Requests, req'[r].pc # "idle", req'[r].step # None
      PROVE  req'[r].snap = ops'[req'[r].op]
  <2>1. CASE /\ req[r].pc # "idle" /\ req'[r].op = req[r].op /\ req'[r].step = req[r].step
             /\ req'[r].tx = req[r].tx /\ req'[r].snap = req[r].snap
    <3> DEFINE o == req[r].op
    <3>1. o \in Ops /\ req[r].snap = ops[o] /\ ops[o].quote # None
      BY <1>2, <1>3, <2>1 DEF Current, TypeOK, WellFormed
    <3>2. ASSUME NEW x \in Requests, req[x].op = o,
                 \/ RecordBuild(x) \/ RecordUnwind(x) \/ FailUnwind(x)
                 \/ CompletePayment(x) \/ FundTransfer(x) \/ FailFinalStep(x)
          PROVE  FALSE
      <4>1. req[x].pc # "idle" /\ req' = [req EXCEPT ![x] = Idle]
        BY <3>2, Updates
      <4>2. req'[r] = Idle
        BY <1>1, <2>1, <3>2, <4>1 DEF TypeOK
      <4> QED BY <1>3, <4>2 DEF Idle
    <3>3. ASSUME NEW x \in Requests, NEW q \in Quotes, NEW a \in BOOLEAN, BuildBegin(x, q, o, a)
          PROVE  FALSE
      BY <3>1, <3>3 DEF BuildBegin
    <3>4. ops'[o] = ops[o]
      BY <3>1, <3>2, <3>3, OpStep
    <3> QED BY <2>1, <3>1, <3>4
  <2>2. ASSUME NEW o \in Ops, NEW s \in Steps, NEW t \in Txs, ExecuteBegin(r, o, s, t)
        PROVE  req'[r].snap = ops'[req'[r].op]
    <3>1. req'[r] = NewExecution(o, s, t) /\ ops' = ops
      BY <2>2 DEF ExecuteBegin, TypeOK
    <3>2. NewExecution(o, s, t).snap = ops[o] /\ NewExecution(o, s, t).op = o
      BY DEF NewExecution, Idle
    <3> QED BY <3>1, <3>2
  <2>3. ASSUME NEW q \in Quotes, NEW o \in Ops, NEW a \in BOOLEAN, BuildBegin(r, q, o, a)
        PROVE  FALSE
    <3>1. req'[r] = NewBuild(q, o)
      BY <2>3 DEF BuildBegin, TypeOK
    <3> QED BY <1>3, <3>1 DEF NewBuild, Idle
  <2>4. req'[r] # Idle
    BY <1>3 DEF Idle
  <2> QED BY <1>3, <2>1, <2>2, <2>3, <2>4, RequestKept
<1>4. ASSUME NEW t \in Txs, Final(t)', ops'[txs'[t].op].step \in FinalSteps
      PROVE  ops'[txs'[t].op].expected = t
  <2>1. CASE Final(t)
    <3>1. ops'[txs[t].op] = ops[txs[t].op]
      BY <1>4, <2>1, FinalStepOrNew, OnlyItsSubmission, Updates, PaymentAssumption DEF Steps
    <3> QED BY <1>4, <2>1, <3>1, FinalStepOrNew DEF Current
  <2> QED BY <1>4, <2>1, FinalStepOrNew, Updates
<1>5. ASSUME NEW t \in Txs, Final(t)', NEW r \in Requests, Submitting(r)', req'[r].op = txs'[t].op
      PROVE  req'[r].tx = t
  <2> DEFINE o == txs[t].op
  <2>0. /\ txs'[t].op = o /\ o \in Ops /\ ops[o].quote # None
        /\ Submitting(r)' => req'[r].pc # "idle"
    BY <1>5, FinalStepOrNew DEF Submitting
  <2>1. CASE Final(t)
    <3>1. ASSUME NEW s \in Steps, NEW u \in Txs, ExecuteBegin(r, o, s, u)
          PROVE  req'[r].tx = t
      <4>1. req'[r] = NewExecution(o, s, u) /\ ops[o].step = s /\ ops[o].expected = u
        BY <2>0, <3>1, HashIsCompared DEF ExecuteBegin, TypeOK
      <4>2. NewExecution(o, s, u).tx = u
        BY DEF NewExecution, Idle
      <4>3. s \in FinalSteps
        BY <2>1, <4>1 DEF Serial, Final, Steps
      <4> QED BY <2>1, <4>1, <4>2, <4>3 DEF Current
    <3>2. CASE req[r].pc # "idle" /\ req'[r].op = req[r].op /\ req'[r].tx = req[r].tx
      BY <1>5, <2>0, <2>1, <3>2 DEF Serial, Current, Final
    <3>3. ASSUME NEW q \in Quotes, NEW x \in Ops, NEW a \in BOOLEAN, BuildBegin(r, q, x, a)
          PROVE  FALSE
      <4>1. req'[r] = NewBuild(q, x)
        BY <3>3 DEF BuildBegin, TypeOK
      <4> QED BY <1>5, <4>1 DEF NewBuild, Idle, Submitting
    <3>4. ASSUME NEW x \in Ops, NEW s \in Steps, NEW u \in Txs, ExecuteBegin(r, x, s, u)
          PROVE  x = o
      <4>1. req'[r] = NewExecution(x, s, u)
        BY <3>4 DEF ExecuteBegin, TypeOK
      <4> QED BY <1>5, <2>0, <4>1 DEF NewExecution, Idle
    <3>5. req'[r] # Idle /\ (req'[r] = req[r] => req[r].pc # "idle")
      BY <1>5, <2>0 DEF Idle
    <3> QED BY <3>1, <3>2, <3>3, <3>4, <3>5, RequestKept
  <2>2. ASSUME NEW x \in Requests, req[x].op = o, RecordBuild(x) \/ RecordUnwind(x)
        PROVE  FALSE
    <3>1. req[x].pc # "idle" /\ req' = [req EXCEPT ![x] = Idle]
      BY <2>2, Updates
    <3>2. r # x
      BY <1>5, <2>0, <3>1 DEF Idle, TypeOK
    <3>3. req'[r] = req[r]
      BY <3>1, <3>2 DEF TypeOK
    <3> QED BY <1>1, <1>5, <2>0, <2>2, <3>1, <3>2, <3>3
  <2> QED BY <1>5, <2>1, <2>2, FinalStepOrNew
<1>6. ASSUME NEW t \in Txs, Final(t)'
      PROVE  ops'[txs'[t].op].status # "failed"
  <2>1. CASE Final(t)
    <3>1. ASSUME NEW r \in Requests, req[r].tx = t, FailFinalStep(r)
          PROVE  FALSE
      BY <2>1, <3>1 DEF FailFinalStep, Refused, Final, Usable
    <3> QED BY <1>6, <2>1, <3>1, FinalStepOrNew, OnlyItsSubmission, Updates DEF Current
  <2> QED BY <1>6, <2>1, FinalStepOrNew, Updates
<1>7. ASSUME NEW t \in Txs, Final(t)', txs'[t].step = "anchor_withdraw"
      PROVE  ops'[txs'[t].op].transfer = txs'[t].transfer
  <2>1. CASE Final(t)
    <3>1. ops[txs[t].op].transfer = txs[t].transfer
      BY <1>7, <2>1, FinalStepOrNew DEF Current
    <3>2. ASSUME NEW r \in Requests, req[r].op = txs[t].op, req[r].snap = ops[txs[t].op],
                 CompletePayment(r) \/ FundTransfer(r) \/ FailFinalStep(r)
          PROVE  ops'[txs[t].op].transfer = txs[t].transfer
      BY <3>1, <3>2, Updates DEF MergeRef
    <3> QED BY <1>7, <2>1, <3>1, <3>2, FinalStepOrNew, OnlyItsSubmission
  <2>2. ASSUME NEW r \in Requests, req[r].built = t, req[r].op = txs[t].op,
               req[r].next = txs[t].step, req[r].pc = "record",
               RecordBuild(r) \/ RecordUnwind(r)
        PROVE  ops'[txs[t].op].transfer = txs[t].transfer
    <3>1. req[r].transfer = txs[t].transfer /\ req[r].transfer \in Transfers
      BY <1>7, <2>2, FinalStepOrNew DEF Carried
    <3> QED BY <2>2, <3>1, Updates, PaymentAssumption
  <2> QED BY <1>7, <2>1, <2>2, FinalStepOrNew
<1>8. ASSUME NEW o \in Ops, ops'[o].status = "completed", ~Settled(o)
      PROVE  \E r \in Requests : req[r].op = o /\ CompletePayment(r)
  <2>1. ops[o].status # "completed"
    BY <1>8 DEF Current
  <2>2. ASSUME NEW r \in Requests, NEW q \in Quotes, NEW a \in BOOLEAN, BuildBegin(r, q, o, a)
        PROVE  FALSE
    <3>1. ops'[o] = NewOperation(q)
      BY <2>2 DEF BuildBegin, TypeOK
    <3> QED BY <1>8, <3>1 DEF NewOperation, NoOperation
  <2> QED BY <1>8, <2>1, <2>2, OpStep, Updates
<1>9. ASSUME NEW o \in Ops, NEW r \in Requests, req[r].op = o, CompletePayment(r)
      PROVE  Settled(o)' /\ ops'[o].status = "completed" /\ notified'[o] = 1
  <2>1. /\ req[r].pc # "idle" /\ req' = [req EXCEPT ![r] = Idle]
        /\ ops'[o].step = None /\ ops'[o].status = "completed"
        /\ req[r].step # None
    BY <1>9, Updates, PaymentAssumption DEF Steps
  <2>2. ops[o].quote # None /\ ops[o].status # "completed" /\ ops'[o].quote = ops[o].quote
    BY <1>2, <1>9, <2>1, QuoteKept
  <2>3. ASSUME NEW x \in Requests, req'[x].pc # "idle", req'[x].op = o
        PROVE  FALSE
    <3>1. x # r /\ req'[x] = req[x]
      BY <2>1, <2>3 DEF Idle, TypeOK
    <3> QED BY <1>1, <1>9, <2>1, <2>3, <3>1
  <2>4. req[r].snap = ops[o]
    BY <1>9, <2>1 DEF Current
  <2>5. notified[o] = 0
    BY <2>2 DEF Current, NotifiedOnCompletionOnly
  <2>6. notified'[o] = 1
    BY <1>9, <2>2, <2>4, <2>5 DEF CompletePayment, notifyPaymentDone, TypeOK
  <2> QED BY <2>1, <2>2, <2>3, <2>6 DEF Settled, InFlight
<1>10. ASSUME NEW o \in Ops, ops'[o].status = "completed"
       PROVE  Settled(o)'
  BY <1>8, <1>9, <1>10, SettledStep
<1>11. ASSUME NEW o \in Ops
       PROVE  notified'[o] = IF ops'[o].status = "completed" THEN 1 ELSE 0
  <2>1. CASE \E r \in Requests : req[r].op = o /\ CompletePayment(r)
    BY <1>9, <2>1
  <2>2. CASE ~\E r \in Requests : req[r].op = o /\ CompletePayment(r)
    <3>1. notified'[o] = notified[o]
      BY <2>2, NotifiedStep
    <3>2. notified[o] = IF ops[o].status = "completed" THEN 1 ELSE 0
      BY DEF Current, NotifiedOnCompletionOnly
    <3>3. ops[o].status = "completed" => Settled(o) /\ ops'[o] = ops[o]
      BY SettledStep DEF Current
    <3>4. ops'[o].status = "completed" => Settled(o)
      BY <1>8, <2>2
    <3>5. Settled(o) => ops'[o] = ops[o]
      BY SettledStep
    <3> QED BY <3>1, <3>2, <3>3, <3>4, <3>5
  <2> QED BY <2>1, <2>2
<1>12. NotifiedOnCompletionOnly'
  BY <1>11 DEF NotifiedOnCompletionOnly
<1> HIDE DEF Final
<1>13. Current' <=>
         (OneStepAtATime =>
          /\ \A r \in Requests : req'[r].pc # "idle" /\ req'[r].step # None =>
                req'[r].snap = ops'[req'[r].op]
          /\ \A t \in Txs : Final(t)' =>
                /\ ops'[txs'[t].op].step \in FinalSteps => ops'[txs'[t].op].expected = t
                /\ \A r \in Requests : Submitting(r)' /\ req'[r].op = txs'[t].op => req'[r].tx = t
                /\ ops'[txs'[t].op].status # "failed"
                /\ txs'[t].step = "anchor_withdraw" => ops'[txs'[t].op].transfer = txs'[t].transfer
          /\ \A o \in Ops : ops'[o].status = "completed" => Settled(o)'
          /\ NotifiedOnCompletionOnly')
  BY DEF Current
<1> QED BY <1>3, <1>4, <1>5, <1>6, <1>7, <1>10, <1>12, <1>13

----------------------------------------------------------------------------
(* The theorems *)

PaymentInv ==
    /\ TypeOK /\ Claims /\ Pinned /\ Applied /\ Recorded /\ Ordered /\ Single
    /\ Carried /\ Refused /\ Serial /\ Current

\* The strengthened invariant holds at the start.
LEMMA InvInit == Init => PaymentInv
<1> SUFFICES ASSUME Init PROVE PaymentInv
  OBVIOUS
<1>1. TypeOK
  BY NoOperationType, NoTransactionType, IdleType, IdleWellFormed DEF Init, TypeOK
<1>2. /\ \A o \in Ops : ops[o].quote = None /\ ops[o].step = None /\ ops[o].status = "created"
      /\ \A t \in Txs : ~Built(t) /\ ~Usable(t)
      /\ \A r \in Requests : req[r].pc = "idle"
  BY DEF Init, NoOperation, NoTransaction, Idle, Built, Usable
<1>3. Claims
  BY <1>2 DEF Claims, OneOperationPerQuote
<1>4. Pinned
  BY <1>2 DEF Pinned, Submitting
<1>5. Applied
  BY <1>2 DEF Applied, CompletedIsPaid
<1>6. Recorded
  BY <1>2 DEF Recorded
<1>7. Ordered
  BY <1>2 DEF Ordered, Building
<1>8. Single
  BY <1>2 DEF Single
<1>9. Serial
  BY <1>2 DEF Serial
<1>10. Carried
  BY <1>2 DEF Carried, Building
<1>11. Refused
  BY <1>2 DEF Refused
<1>12. NotifiedOnCompletionOnly
  BY <1>2 DEF Init, NotifiedOnCompletionOnly
<1>13. Current
  BY <1>2, <1>12 DEF Current, Final
<1> QED BY <1>1, <1>3, <1>4, <1>5, <1>6, <1>7, <1>8, <1>9, <1>10, <1>11, <1>13 DEF PaymentInv

\* Every step keeps the strengthened invariant.
LEMMA InvStep == PaymentInv /\ [Next]_vars => PaymentInv'
<1> SUFFICES ASSUME PaymentInv, [Next]_vars PROVE PaymentInv'
  OBVIOUS
<1>1. TypeOK'
  BY TypeStep DEF PaymentInv
<1>2. Claims' /\ Pinned' /\ Applied' /\ Recorded' /\ Ordered' /\ Single'
  BY ClaimsStep, PinnedStep, AppliedStep, RecordedStep, OrderedStep, SingleStep
     DEF PaymentInv
<1>3. Carried' /\ Refused'
  BY CarriedStep, RefusedStep DEF PaymentInv
<1>4. CASE OneStepAtATime
  BY <1>1, <1>2, <1>3, <1>4, SerialStep, CurrentStep DEF PaymentInv
<1>5. CASE ~OneStepAtATime
  BY <1>1, <1>2, <1>3, <1>5 DEF PaymentInv, Serial, Current
<1> QED BY <1>4, <1>5

\* The strengthened invariant holds of every reachable state.
THEOREM Inductive == Spec => []PaymentInv
BY InvInit, InvStep, PTL DEF Spec

\* QuoteStore.claim: no two operations are ever recorded for one quote,
\* whatever the number of concurrent builds, the expiries and the restarts.
THEOREM QuoteFundsOneOperation == Spec => []OneOperationPerQuote
<1>1. PaymentInv => OneOperationPerQuote
  BY DEF PaymentInv, Claims
<1> QED BY <1>1, Inductive, PTL

\* executeStep submits for an operation nothing but what was built for it and
\* for the step it submits.
THEOREM SubmissionsAreBuilt == Spec => []SubmissionsMatchOperation
<1>1. PaymentInv => SubmissionsMatchOperation
  BY DEF PaymentInv, Pinned, Submitting, BuiltFor, SubmissionsMatchOperation
<1> QED BY <1>1, Inductive, PTL

\* An operation the store calls completed is paid on the ledger.
THEOREM CompletionIsPayment == Spec => []CompletedIsPaid
<1>1. PaymentInv => CompletedIsPaid
  BY DEF PaymentInv, Applied
<1> QED BY <1>1, Inductive, PTL

\* A payment that needs an earn unwind never lands before its unwind.
THEOREM UnwindComesFirst == Spec => []UnwindPrecedesPayment
<1>1. PaymentInv => UnwindPrecedesPayment
  <2> SUFFICES ASSUME PaymentInv, NEW o \in Ops, ops[o].quote \in NeedsUnwind,
                      NEW t \in LandedTxs(o, FinalSteps)
               PROVE  LandedTxs(o, {"yield_withdraw"}) # {}
    BY DEF UnwindPrecedesPayment
  <2>1. t \in Txs /\ Built(t) /\ txs[t].op = o /\ txs[t].step \in FinalSteps
    BY DEF LandedTxs, Built
  <2> QED BY <2>1 DEF PaymentInv, Ordered, Unwound
<1> QED BY <1>1, Inductive, PTL

\* The earn position is unwound at most once for a quote, with any number of
\* builds and execute-steps racing for it.
THEOREM UnwindHappensOnce == Spec => []OneUnwindPerQuote
<1>1. PaymentInv => OneUnwindPerQuote
  <2> SUFFICES ASSUME PaymentInv, NEW q \in Quotes,
                      NEW o1 \in Ops, ops[o1].quote = q,
                      NEW t \in LandedTxs(o1, {"yield_withdraw"}),
                      NEW o2 \in Ops, ops[o2].quote = q,
                      NEW u \in LandedTxs(o2, {"yield_withdraw"})
               PROVE  t = u
    BY DEF OneUnwindPerQuote, AtMostOne
  <2>1. o1 = o2
    BY PaymentAssumption DEF PaymentInv, Claims, OneOperationPerQuote
  <2>2. /\ t \in Txs /\ Built(t) /\ txs[t].op = o1 /\ txs[t].step = "yield_withdraw"
        /\ u \in Txs /\ Built(u) /\ txs[u].op = o1 /\ txs[u].step = "yield_withdraw"
    BY <2>1 DEF LandedTxs, Built
  <2> QED BY <2>2 DEF PaymentInv, Single
<1> QED BY <1>1, Inductive, PTL

\* A quote is paid at most once, whatever expires, fails, times out or restarts,
\* provided the client awaits each execute-step of an operation.
THEOREM QuotePaysOnce ==
  ASSUME OneStepAtATime
  PROVE  Spec => []OnePaymentPerQuote
<1>1. PaymentInv => OnePaymentPerQuote
  <2> SUFFICES ASSUME PaymentInv, NEW q \in Quotes,
                      NEW o1 \in Ops, ops[o1].quote = q, NEW t \in LandedTxs(o1, FinalSteps),
                      NEW o2 \in Ops, ops[o2].quote = q, NEW u \in LandedTxs(o2, FinalSteps)
               PROVE  t = u
    BY DEF OnePaymentPerQuote, AtMostOne
  <2>1. o1 = o2
    BY PaymentAssumption DEF PaymentInv, Claims, OneOperationPerQuote
  <2>2. /\ t \in Txs /\ Usable(t) /\ txs[t].op = o1 /\ txs[t].step \in FinalSteps
        /\ u \in Txs /\ Usable(u) /\ txs[u].op = o1 /\ txs[u].step \in FinalSteps
    BY <2>1 DEF LandedTxs, Usable
  <2> QED BY <2>2 DEF PaymentInv, Serial
<1> QED BY <1>1, Inductive, PTL

\* executeStep never takes up a settled operation again, whichever calls the
\* client overlaps, repeats or sends late.
THEOREM SettledForGood == Spec => SettledIsFinal
<1>1. TypeOK /\ [Next]_vars =>
        [\A o \in Ops : Settled(o) => Settled(o)' /\ ops'[o] = ops[o]]_vars
  BY SettledStep
<1> QED BY <1>1, TypeCorrect, PTL DEF Spec, SettledIsFinal

\* An operation marked failed has not paid and will not, provided the client
\* awaits each execute-step: what may still land is dead or is not a payment.
THEOREM FailureIsUnpaid ==
  ASSUME OneStepAtATime
  PROVE  Spec => []FailedIsUnpaid
<1>1. PaymentInv => FailedIsUnpaid
  <2> SUFFICES ASSUME PaymentInv, NEW o \in Ops, ops[o].status = "failed",
                      NEW t \in LandedTxs(o, FinalSteps)
               PROVE  FALSE
    BY DEF FailedIsUnpaid
  <2>1. t \in Txs /\ Final(t) /\ txs[t].op = o
    BY DEF LandedTxs, Final, Usable
  <2> QED BY <2>1 DEF PaymentInv, Current
<1> QED BY <1>1, Inductive, PTL

\* The owner is told once of a payment that completed, and of no other,
\* provided the client awaits each execute-step.
THEOREM NotifiedOnce ==
  ASSUME OneStepAtATime
  PROVE  Spec => []NotifiedOnCompletionOnly
<1>1. PaymentInv => NotifiedOnCompletionOnly
  BY DEF PaymentInv, Current
<1> QED BY <1>1, Inductive, PTL

\* The operation of a cash-out polls the transfer its payment funded, however
\* often its unwind was executed, provided the client awaits each execute-step.
THEOREM FundedIsTracked ==
  ASSUME OneStepAtATime
  PROVE  Spec => []FundedTransferIsTracked
<1>1. PaymentInv => FundedTransferIsTracked
  <2> SUFFICES ASSUME PaymentInv, NEW o \in Ops, NEW t \in LandedTxs(o, {"anchor_withdraw"})
               PROVE  ops[o].transfer = txs[t].transfer
    BY DEF FundedTransferIsTracked
  <2>1. t \in Txs /\ Final(t) /\ txs[t].op = o /\ txs[t].step = "anchor_withdraw"
    BY DEF LandedTxs, Final, Usable, FinalSteps
  <2> QED BY <2>1 DEF PaymentInv, Current
<1> QED BY <1>1, Inductive, PTL

----------------------------------------------------------------------------
(* The payment path implements PaymentPromise *)

\* The operation a quote was claimed for is the only one that stands for it.
LEMMA TheOperation ==
  ASSUME TypeOK, Claims, NEW o \in Ops, ops[o].quote # None
  PROVE  ops[o].quote \in Quotes /\ OpsOf(ops[o].quote) = {o}
BY DEF TypeOK, Operation, Claims, OneOperationPerQuote, OpsOf

\* What PaymentPromise sees of a quote, in terms of its operation.
LEMMA Mapped ==
  ASSUME NEW q, NEW o, OpsOf(q) = {o}
  PROVE  (\A S : LandedFor(q, S) = LandedTxs(o, S)) /\ AnnouncedFor(q) = notified[o]
<1>1. (CHOOSE x \in {o} : TRUE) = o
  OBVIOUS
<1>2. \A S : UNION {LandedTxs(x, S) : x \in {o}} = LandedTxs(o, S)
  OBVIOUS
<1> QED BY <1>1, <1>2 DEF LandedFor, AnnouncedFor

\* What it sees of a quote that no operation was recorded for.
LEMMA Unmapped ==
  ASSUME NEW q, OpsOf(q) = {}
  PROVE  (\A S : LandedFor(q, S) = {}) /\ AnnouncedFor(q) = 0
BY DEF LandedFor, AnnouncedFor

\* The same, after a step.
LEMMA MappedNext ==
  ASSUME NEW q, NEW o, OpsOf(q)' = {o}
  PROVE  (\A S : LandedFor(q, S)' = LandedTxs(o, S)') /\ AnnouncedFor(q)' = notified'[o]
<1>1. (CHOOSE x \in {o} : TRUE) = o
  OBVIOUS
<1>2. \A S : UNION {LandedTxs(x, S)' : x \in {o}} = LandedTxs(o, S)'
  OBVIOUS
<1> QED BY <1>1, <1>2 DEF LandedFor, AnnouncedFor

LEMMA UnmappedNext ==
  ASSUME NEW q, OpsOf(q)' = {}
  PROVE  (\A S : LandedFor(q, S)' = {}) /\ AnnouncedFor(q)' = 0
BY DEF LandedFor, AnnouncedFor

\* What changes the ledger for an operation is one transaction that lands.
LEMMA LandedStep ==
  ASSUME TypeOK, [Next]_vars
  PROVE  \/ \A o, S : LandedTxs(o, S)' = LandedTxs(o, S)
         \/ \E t \in Txs : /\ txs[t].state \in {"open", "floating"} /\ Landed(t)
                           /\ ops' = ops /\ notified' = notified
<1> DEFINE Same == \A o, S : LandedTxs(o, S)' = LandedTxs(o, S)
           Lands == \E t \in Txs : /\ txs[t].state \in {"open", "floating"} /\ Landed(t)
                                   /\ ops' = ops /\ notified' = notified
<1>1. ASSUME \A t \in Txs : txs'[t].state = "landed" => txs[t].state = "landed"
      PROVE  Same
  <2> SUFFICES ASSUME NEW o, NEW S PROVE LandedTxs(o, S)' = LandedTxs(o, S)
    OBVIOUS
  <2>1. ASSUME NEW t \in LandedTxs(o, S)' PROVE t \in LandedTxs(o, S)
    <3>1. t \in Txs /\ txs'[t].state = "landed" /\ txs'[t].op = o /\ txs'[t].step \in S
      BY DEF LandedTxs
    <3>2. txs'[t].op = txs[t].op /\ txs'[t].step = txs[t].step
      BY <1>1, <3>1, TxStep DEF Built
    <3> QED BY <1>1, <3>1, <3>2 DEF LandedTxs
  <2> QED BY <2>1, LandedKept
<1> HIDE DEF Same
<1>2. ASSUME txs' = txs PROVE Same
  BY <1>1, <1>2
<1>3. ASSUME NEW r \in Requests, NEW pc \in PCs, SubmitLands(r, pc) PROVE Lands
  BY <1>3 DEF SubmitLands, TypeOK, WellFormed
<1>4. ASSUME NEW t \in Txs, LateLanding(t) PROVE Lands
  BY <1>4 DEF LateLanding
<1>5. ASSUME NEW r \in Requests, (\E t \in Txs : BuildTx(r, t)) \/ RecordBuild(r) \/ RecordUnwind(r)
      PROVE  Same
  <2>1. CASE \E t \in Txs : BuildTx(r, t)
    BY <1>1, <2>1 DEF BuildTx, TypeOK
  <2>2. CASE RecordBuild(r) \/ RecordUnwind(r)
    <3>1. HandOut(req[r].built) /\ req[r].built \in Txs
      BY <2>2 DEF RecordBuild, RecordUnwind, TypeOK, WellFormed
    <3>2. \A t \in Txs : txs'[t].state = "landed" => txs[t].state = "landed"
      BY <3>1 DEF HandOut, TypeOK, Transaction
    <3> QED BY <1>1, <3>2
  <2> QED BY <1>5, <2>1, <2>2
<1>6. ASSUME NEW r \in Requests, (\E pc \in PCs : SubmitRefused(r, pc)) \/ SubmitTimesOut(r)
      PROVE  Same
  <2>1. \A t \in Txs : txs'[t].state = "landed" => txs[t].state = "landed"
    BY <1>6 DEF SubmitRefused, SubmitTimesOut, TypeOK, WellFormed, Transaction
  <2> QED BY <1>1, <2>1
<1>7. ASSUME (\E t \in Txs : TxDies(t)) \/ Restart PROVE Same
  <2>1. \A t \in Txs : txs'[t].state = "landed" => txs[t].state = "landed"
    BY <1>7 DEF TxDies, Restart, TypeOK, Transaction
  <2> QED BY <1>1, <2>1
<1>9. ASSUME NEW r \in Requests,
             \/ \E k \in Transfers : OpenTransfer(r, k)
             \/ ProviderFails(r)
             \/ \E pc \in PCs : SubmitAgain(r, pc)
             \/ CompletePayment(r) \/ FundTransfer(r) \/ FailFinalStep(r)
             \/ FailUnwind(r) \/ UnwindLanded(r)
      PROVE  txs' = txs
  BY <1>9 DEF OpenTransfer, ProviderFails, SubmitAgain, CompletePayment, notifyPaymentDone, FundTransfer,
              FailFinalStep, FailUnwind, UnwindLanded
<1>10. ASSUME \/ \E r \in Requests, q \in Quotes, o \in Ops, a \in BOOLEAN : BuildBegin(r, q, o, a)
              \/ \E r \in Requests, o \in Ops, s \in Steps, t \in Txs : ExecuteBegin(r, o, s, t)
              \/ UNCHANGED <<ops, txs, req>> \/ UNCHANGED vars
       PROVE  txs' = txs
  BY <1>10 DEF BuildBegin, ExecuteBegin, vars
<1> HIDE DEF Same, Lands
<1>11. ASSUME NEW r \in Requests, Handler(r) PROVE Same \/ Lands
  BY <1>2, <1>3, <1>5, <1>6, <1>9, <1>11 DEF Handler
<1>12. Same \/ Lands
  BY <1>2, <1>4, <1>7, <1>10, <1>11, StepCases
<1> QED BY <1>12 DEF Same, Lands

\* A quote that keeps its operation, with what landed and was announced for it,
\* is the same to PaymentPromise.
LEMMA SameFor ==
  ASSUME TypeOK, TypeOK', Claims, Claims', NEW q \in Quotes, OpsOf(q)' = OpsOf(q),
         NEW S, \A o \in OpsOf(q) : LandedTxs(o, S)' = LandedTxs(o, S)
  PROVE  LandedFor(q, S)' = LandedFor(q, S)
<1>1. CASE OpsOf(q) = {}
  BY <1>1, Unmapped, UnmappedNext
<1>2. ASSUME NEW o \in OpsOf(q) PROVE LandedFor(q, S)' = LandedFor(q, S)
  <2>1. OpsOf(q) = {o}
    BY <1>2, TheOperation, PaymentAssumption DEF OpsOf
  <2>2. OpsOf(q)' = {o}
    BY <2>1
  <2>3. LandedFor(q, S) = LandedTxs(o, S)
    BY <2>1, Mapped
  <2>4. LandedFor(q, S)' = LandedTxs(o, S)'
    BY <2>2, MappedNext
  <2>5. LandedTxs(o, S)' = LandedTxs(o, S)
    BY <1>2
  <2> QED BY <2>3, <2>4, <2>5
<1> QED BY <1>1, <1>2

LEMMA SameAnnounced ==
  ASSUME TypeOK, TypeOK', Claims, Claims', NEW q \in Quotes, OpsOf(q)' = OpsOf(q),
         \A o \in OpsOf(q) : notified'[o] = notified[o]
  PROVE  AnnouncedFor(q)' = AnnouncedFor(q)
<1>1. CASE OpsOf(q) = {}
  BY <1>1, Unmapped, UnmappedNext
<1>2. ASSUME NEW o \in OpsOf(q) PROVE AnnouncedFor(q)' = AnnouncedFor(q)
  <2>1. OpsOf(q) = {o}
    BY <1>2, TheOperation, PaymentAssumption DEF OpsOf
  <2> QED BY <2>1, Mapped, MappedNext
<1> QED BY <1>1, <1>2

\* Nothing is committed, unwound, paid or announced at the start.
LEMMA PromiseInit == Init => Promise!Init
<1> SUFFICES ASSUME Init PROVE Promise!Init
  OBVIOUS
<1>1. \A q \in Quotes : OpsOf(q) = {}
  BY PaymentAssumption DEF Init, OpsOf, NoOperation
<1>2. \A q \in Quotes : AnnouncedFor(q) = 0 /\ \A S : LandedFor(q, S) = {}
  BY <1>1, Unmapped
<1> QED BY <1>1, <1>2 DEF Promise!Init

\* A build that records an operation commits its quote.
LEMMA CommitStep ==
  ASSUME PaymentInv, PaymentInv', OneStepAtATime,
         NEW r \in Requests, NEW q \in Quotes, NEW o \in Ops, NEW a \in BOOLEAN,
         BuildBegin(r, q, o, a)
  PROVE  Promise!Commit(q)
<1> USE DEF PaymentInv
<1>1. ops'[o] = NewOperation(q) /\ \A x \in Ops \ {o} : ops'[x] = ops[x]
  BY DEF BuildBegin, TypeOK
<1>2. NewOperation(q).quote = q
  BY DEF NewOperation, NoOperation
<1>3. ops[o].quote = None /\ ~quotes[q].claimed /\ txs' = txs /\ notified' = notified
  BY DEF BuildBegin, Claim
<1>4. OpsOf(q) = {} /\ OpsOf(q)' = {o}
  <2>1. \A x \in Ops : ops[x].quote # q
    BY <1>3, PaymentAssumption DEF Claims
  <2> QED BY <1>1, <1>2, <2>1 DEF OpsOf
<1>5. \A p \in Quotes \ {q} : OpsOf(p)' = OpsOf(p)
  BY <1>1, <1>2, <1>3, PaymentAssumption DEF OpsOf
<1>6. \A x, S : LandedTxs(x, S)' = LandedTxs(x, S)
  BY <1>3 DEF LandedTxs
<1>7. \A S : LandedTxs(o, S) = {}
  BY <1>3 DEF Recorded, LandedTxs, Built
<1>8. notified[o] = 0
  BY <1>3 DEF Current, NotifiedOnCompletionOnly, Settled
<1>9. ASSUME NEW p \in Quotes, NEW S PROVE LandedFor(p, S)' = LandedFor(p, S)
  <2>1. CASE p = q
    <3>1. LandedFor(q, S) = {}
      BY <1>4, Unmapped
    <3>2. LandedFor(q, S)' = LandedTxs(o, S)'
      BY <1>4, MappedNext
    <3>3. LandedTxs(o, S)' = {}
      BY <1>6, <1>7
    <3> QED BY <2>1, <3>1, <3>2, <3>3
  <2>2. CASE p # q
    <3>1. \A x \in OpsOf(p) : LandedTxs(x, S)' = LandedTxs(x, S)
      BY <1>6
    <3> QED BY <1>5, <2>2, <3>1, SameFor
  <2> QED BY <2>1, <2>2
<1>10. \A p \in Quotes : AnnouncedFor(p)' = AnnouncedFor(p)
  BY <1>3, <1>4, <1>5, <1>8, SameAnnounced, Unmapped, MappedNext
<1>11. {p \in Quotes : OpsOf(p) # {}}' = {p \in Quotes : OpsOf(p) # {}} \cup {q}
  BY <1>4, <1>5
<1> QED BY <1>4, <1>9, <1>10, <1>11 DEF Promise!Commit

\* t was built for the operation o of the quote q.
BuiltForQuote(t, o, q) == txs[t].op = o /\ ops[o].quote = q

\* A transaction that lands unwinds or pays its quote, for the first time.
LEMMA LandStep ==
  ASSUME PaymentInv, PaymentInv', OneStepAtATime, [Next]_vars,
         NEW t \in Txs, txs[t].state \in {"open", "floating"}, Landed(t),
         ops' = ops, notified' = notified,
         NEW o, NEW q, BuiltForQuote(t, o, q)
  PROVE  \/ q \in Quotes /\ (Promise!Unwind(q, t) \/ Promise!Pay(q, t))
         \/ UNCHANGED Promise!vars
<1> USE DEF PaymentInv
<1>1. /\ o \in Ops /\ txs[t].op = o /\ q # None /\ ops[o].quote = q
      /\ Built(t) /\ Usable(t) /\ txs[t].state # "landed"
  BY DEF Recorded, Built, Usable, BuiltForQuote
<1>2. q \in Quotes /\ OpsOf(q) = {o}
  BY <1>1, TheOperation
<1>3. \A p \in Quotes : OpsOf(p)' = OpsOf(p) /\ AnnouncedFor(p)' = AnnouncedFor(p)
  BY DEF OpsOf, AnnouncedFor
<1>4. \A u \in Txs \ {t} : txs'[u].op = txs[u].op /\ txs'[u].step = txs[u].step
                           /\ (txs'[u].state = "landed" <=> txs[u].state = "landed")
  BY DEF Landed, TypeOK, Transaction
<1>5. txs'[t].op = o /\ txs'[t].step = txs[t].step /\ txs'[t].state = "landed"
  BY <1>1 DEF Landed, TypeOK, Transaction
<1>6. ASSUME NEW x, NEW S, x # o \/ txs[t].step \notin S
      PROVE  LandedTxs(x, S)' = LandedTxs(x, S)
  BY <1>1, <1>4, <1>5, <1>6 DEF LandedTxs
<1>7. ASSUME NEW S, txs[t].step \in S, LandedTxs(o, S) = {}
      PROVE  LandedTxs(o, S)' = {t}
  BY <1>4, <1>5, <1>7 DEF LandedTxs
<1>8. ASSUME NEW S, NEW p \in Quotes, p # q \/ txs[t].step \notin S
      PROVE  LandedFor(p, S)' = LandedFor(p, S)
  <2>1. \A x \in OpsOf(p) : LandedTxs(x, S)' = LandedTxs(x, S)
    BY <1>1, <1>6, <1>8 DEF OpsOf
  <2> QED BY <1>3, <2>1, SameFor
<1>9. ASSUME NEW S, txs[t].step \in S, LandedTxs(o, S) = {}
      PROVE  LandedFor(q, S) = {} /\ LandedFor(q, S)' = {t}
  <2>1. OpsOf(q)' = {o}
    BY <1>2, <1>3
  <2>2. LandedFor(q, S)' = LandedTxs(o, S)'
    BY <2>1, MappedNext
  <2>3. LandedFor(q, S) = LandedTxs(o, S)
    BY <1>2, Mapped
  <2> QED BY <1>7, <1>9, <2>2, <2>3
<1>10. CASE txs[t].step = "yield_withdraw"
  <2>1. LandedTxs(o, {"yield_withdraw"}) = {}
    BY <1>1, <1>10 DEF Single, LandedTxs, Built
  <2>2. q \in NeedsUnwind
    BY <1>1, <1>10 DEF Carried
  <2>3. txs[t].step \notin FinalSteps
    BY <1>10 DEF FinalSteps
  <2>4. Promise!Unwind(q, t)
    BY <1>2, <1>3, <1>8, <1>9, <1>10, <2>1, <2>2, <2>3 DEF Promise!Unwind
  <2> QED BY <1>2, <2>4
<1>11. CASE txs[t].step \in FinalSteps
  <2>1. LandedTxs(o, FinalSteps) = {}
    BY <1>1, <1>11 DEF Serial, LandedTxs, Usable
  <2>2. q \in NeedsUnwind => LandedFor(q, {"yield_withdraw"}) # {}
    <3>1. q \in NeedsUnwind => LandedTxs(o, {"yield_withdraw"}) # {}
      BY <1>1, <1>11 DEF Ordered, Unwound
    <3> QED BY <1>2, <3>1, Mapped
  <2>3. txs[t].step \notin {"yield_withdraw"}
    BY <1>11 DEF FinalSteps
  <2>4. Promise!Pay(q, t)
    BY <1>2, <1>3, <1>8, <1>9, <1>11, <2>1, <2>2, <2>3 DEF Promise!Pay
  <2> QED BY <1>2, <2>4
<1>12. CASE txs[t].step \notin FinalSteps \cup {"yield_withdraw"}
  <2>1. \A p \in Quotes : /\ LandedFor(p, {"yield_withdraw"})' = LandedFor(p, {"yield_withdraw"})
                         /\ LandedFor(p, FinalSteps)' = LandedFor(p, FinalSteps)
    BY <1>8, <1>12
  <2>2. UNCHANGED Promise!vars
    BY <1>3, <2>1 DEF Promise!vars
  <2> QED BY <2>2
<1> QED BY <1>10, <1>11, <1>12

\* A step that records no operation, lands nothing and announces nothing is a
\* stutter.
LEMMA StutterStep ==
  ASSUME PaymentInv, PaymentInv',
         \A o \in Ops : ops'[o].quote = ops[o].quote /\ notified'[o] = notified[o],
         \A o, S : LandedTxs(o, S)' = LandedTxs(o, S)
  PROVE  UNCHANGED Promise!vars
<1>1. \A q \in Quotes : OpsOf(q)' = OpsOf(q)
  BY DEF OpsOf
<1>2. \A q \in Quotes : AnnouncedFor(q)' = AnnouncedFor(q)
  BY <1>1, SameAnnounced DEF PaymentInv, OpsOf
<1>3. ASSUME NEW q \in Quotes, NEW S PROVE LandedFor(q, S)' = LandedFor(q, S)
  BY <1>1, SameFor DEF PaymentInv
<1> QED BY <1>1, <1>2, <1>3 DEF Promise!vars

\* The request that completes an operation announces its quote.
LEMMA AnnounceStep ==
  ASSUME PaymentInv, PaymentInv', OneStepAtATime, [Next]_vars,
         NEW r \in Requests, CompletePayment(r),
         NEW o, o = req[r].op, NEW q, q = ops[o].quote
  PROVE  q \in Quotes /\ Promise!Announce(q)
<1> USE DEF PaymentInv
<1>1. o \in Ops /\ req[r].pc # "idle" /\ ops'[o].status = "completed" /\ txs' = txs
  BY Updates DEF CompletePayment, notifyPaymentDone
<1>2. q \in Quotes /\ OpsOf(q) = {o}
  BY <1>1, TheOperation DEF Recorded
<1>3. \A x \in Ops : ops'[x].quote = ops[x].quote
  BY QuoteKept
<1>4. \A p \in Quotes : OpsOf(p)' = OpsOf(p)
  BY <1>3 DEF OpsOf
<1>5. \A x, S : LandedTxs(x, S)' = LandedTxs(x, S)
  BY <1>1 DEF LandedTxs
<1>6. notified[o] = 0 /\ notified'[o] = 1
  <2>1. ops[o].status # "completed"
    BY <1>1 DEF Current, Settled, InFlight
  <2> QED BY <1>1, <2>1 DEF Current, NotifiedOnCompletionOnly
<1>7. \A x \in Ops \ {o} : notified'[x] = notified[x]
  BY DEF CompletePayment, notifyPaymentDone, TypeOK
<1>8. ASSUME NEW p \in Quotes, NEW S PROVE LandedFor(p, S)' = LandedFor(p, S)
  BY <1>4, <1>5, SameFor
<1>9. LandedFor(q, FinalSteps) # {}
  <2>1. LandedTxs(o, FinalSteps)' # {}
    BY <1>1 DEF Applied, CompletedIsPaid
  <2> QED BY <1>2, <1>5, <2>1, Mapped
<1>10. AnnouncedFor(q) = 0 /\ AnnouncedFor(q)' = 1
  <2>1. OpsOf(q)' = {o}
    BY <1>2, <1>4
  <2> QED BY <1>2, <1>6, <2>1, Mapped, MappedNext
<1>11. \A p \in Quotes \ {q} : AnnouncedFor(p)' = AnnouncedFor(p)
  <2> SUFFICES ASSUME NEW p \in Quotes \ {q} PROVE AnnouncedFor(p)' = AnnouncedFor(p)
    OBVIOUS
  <2>1. \A x \in OpsOf(p) : notified'[x] = notified[x]
    BY <1>7 DEF OpsOf
  <2> QED BY <1>4, <2>1, SameAnnounced
<1>12. Promise!Announce(q)
  BY <1>2, <1>4, <1>8, <1>9, <1>10, <1>11 DEF Promise!Announce
<1> QED BY <1>2, <1>12

\* Every step of the payment path is a step of PaymentPromise, or none.
LEMMA PromiseStep ==
  ASSUME PaymentInv, PaymentInv', OneStepAtATime, [Next]_vars
  PROVE  [Promise!Next]_(Promise!vars)
<1>1. CASE \E r \in Requests, q \in Quotes, o \in Ops, a \in BOOLEAN : BuildBegin(r, q, o, a)
  BY <1>1, CommitStep DEF Promise!Next
<1>2. CASE \E r \in Requests : CompletePayment(r)
  BY <1>2, AnnounceStep DEF Promise!Next
<1>3. CASE \E t \in Txs : /\ txs[t].state \in {"open", "floating"} /\ Landed(t)
                         /\ ops' = ops /\ notified' = notified
  BY <1>3, LandStep DEF Promise!Next, BuiltForQuote
<1>4. CASE /\ ~\E r \in Requests, q \in Quotes, o \in Ops, a \in BOOLEAN : BuildBegin(r, q, o, a)
           /\ ~\E r \in Requests : CompletePayment(r)
           /\ \A o, S : LandedTxs(o, S)' = LandedTxs(o, S)
  <2>1. \A o \in Ops : ops'[o].quote = ops[o].quote
    BY <1>4, OpStep, QuoteKept DEF PaymentInv
  <2>2. \A o \in Ops : notified'[o] = notified[o]
    BY <1>4, NotifiedStep DEF PaymentInv
  <2> QED BY <1>4, <2>1, <2>2, StutterStep
<1> QED BY <1>1, <1>2, <1>3, <1>4, LandedStep DEF PaymentInv

\* With a client that awaits each execute-step, builds, retries, timeouts, late
\* landings, expiries and restarts amount to PaymentPromise: a quote is committed
\* once, unwound at most once, then paid at most once, then announced once.
THEOREM PaymentKeepsPromise ==
  ASSUME OneStepAtATime
  PROVE  Spec => KeepsPromise
<1>1. PaymentInv /\ PaymentInv' /\ [Next]_vars => [Promise!Next]_(Promise!vars)
  BY PromiseStep
<1> QED BY <1>1, PromiseInit, Inductive, PTL DEF Spec, KeepsPromise, Promise!Spec
=============================================================================
