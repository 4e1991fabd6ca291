------------------------- MODULE PaymentExecution -------------------------
(***************************************************************************)
(* The payment path of the backend: a quote is claimed by POST             *)
(* /payments/build (PaymentRouter.build), which records an operation and   *)
(* hands out the unsigned transaction of its first step; the client signs  *)
(* it and posts it to /payments/execute-step                               *)
(* (PaymentExecutionService.executeStep), which submits it and either      *)
(* settles the operation or hands out the transaction of the next step.    *)
(*                                                                         *)
(* Node runs one callback at a time, so a handler is atomic between two    *)
(* awaits and interleaves with every other handler at each await: a        *)
(* request in flight is a record whose pc names the await it stands at.    *)
(* What it read before the await it keeps as a snapshot (snap) and writes  *)
(* back afterwards, as the code does with its `op` and `meta` constants.   *)
(*                                                                         *)
(* All quotes belong to one wallet, so its transactions share a sequence   *)
(* number: one landing kills every other one built before it.              *)
(***************************************************************************)
EXTENDS Naturals, FiniteSets

CONSTANTS
    Quotes,          \* quote ids
    Ops,             \* operation ids
    Txs,             \* transactions, numbered as they are built, which bounds the builds
    Transfers,       \* SEP-6 transfer ids; their number bounds the anchor calls
    Requests,        \* the HTTP requests the server has in flight at a time
    None,            \* an undefined field
    RouteOf,         \* the route type the router chose for each quote
    NeedsUnwind,     \* the quotes whose funding takes from the earn balance
    OneStepAtATime,  \* the client awaits each execute-step of an operation
    MayRestart       \* the server process may die and come back

Routes == {"stellar_transfer", "stellar_swap_transfer", "fiat_payout"}

FinalSteps == {"stellar_payment", "soroswap_swap", "anchor_withdraw"}

Steps == FinalSteps \cup {"yield_withdraw"}

ASSUME PaymentAssumption ==
    /\ Txs \subseteq Nat
    /\ RouteOf \in [Quotes -> Routes]
    /\ NeedsUnwind \subseteq Quotes
    /\ OneStepAtATime \in BOOLEAN
    /\ MayRestart \in BOOLEAN
    /\ None \notin Quotes \cup Ops \cup Transfers
    /\ None \notin Txs
    /\ None \notin Steps

VARIABLES
    quotes,     \* QuoteStore: the Map entry of every quote and its claim
    ops,        \* OperationStore: the operations, persisted
    txs,        \* the transactions built and what the ledger did with them
    transfers,  \* the SEP-6 transfers the anchor has opened
    req,        \* the requests in flight
    notified    \* "payment completed" notifications sent for each operation

vars == <<quotes, ops, txs, transfers, req, notified>>

Statuses == {"created", "awaiting_signature", "processing", "completed", "failed"}

Operation == [quote: Quotes \cup {None}, status: Statuses,
              step: Steps \cup {None}, completed: SUBSET Steps,
              expected: Txs \cup {None}, txHash: Txs \cup {None},
              transfer: Transfers \cup {None}]

NoOperation == [quote |-> None, status |-> "created", step |-> None,
                completed |-> {}, expected |-> None, txHash |-> None,
                transfer |-> None]

\* A transaction that is handed out is "open"; it is "floating" when it was
\* submitted and the answer never came, so that it may still land.
TxStates == {"unbuilt", "built", "open", "floating", "landed", "dead"}

Transaction == [op: Ops \cup {None}, step: Steps \cup {None},
                transfer: Transfers \cup {None}, state: TxStates]

NoTransaction == [op |-> None, step |-> None, transfer |-> None,
                  state |-> "unbuilt"]

\* "call": before the provider that builds the next transaction; "funding":
\* between SEP-6 withdraw and its funding payment; "record": before the
\* operation is updated with what was built; "submit": before the submission;
\* "ok", "failed": its answer has come.
PCs == {"idle", "call", "funding", "record", "submit", "ok", "failed"}

Request == [pc: PCs, op: Ops \cup {None}, step: Steps \cup {None},
            tx: Txs \cup {None}, snap: Operation, next: Steps \cup {None},
            built: Txs \cup {None}, transfer: Transfers \cup {None}]

Idle == [pc |-> "idle", op |-> None, step |-> None, tx |-> None,
         snap |-> NoOperation, next |-> None, built |-> None,
         transfer |-> None]

\* A handler that goes on to its next await keeps what it was asked and what
\* it read.
Advance(x, pc, next, built, transfer) ==
    [pc |-> pc, op |-> x.op, step |-> x.step, tx |-> x.tx, snap |-> x.snap,
     next |-> next, built |-> built, transfer |-> transfer]

Init ==
    /\ quotes = [q \in Quotes |-> [entry |-> "unsaved", claimed |-> FALSE]]
    /\ ops = [o \in Ops |-> NoOperation]
    /\ txs = [t \in Txs |-> NoTransaction]
    /\ transfers = {}
    /\ req = [r \in Requests |-> Idle]
    /\ notified = [o \in Ops |-> 0]

----------------------------------------------------------------------------
(* The quote store *)

FinalStep(q) == CASE RouteOf[q] = "stellar_transfer"      -> "stellar_payment"
                  [] RouteOf[q] = "stellar_swap_transfer" -> "soroswap_swap"
                  [] RouteOf[q] = "fiat_payout"           -> "anchor_withdraw"

\* QuoteStore.get succeeds: the entry is in the Map and not past its expiry.
Fresh(q) == quotes[q].entry = "fresh"

SaveQuote(q) ==
    /\ quotes[q].entry = "unsaved"
    /\ quotes' = [quotes EXCEPT ![q].entry = "fresh"]
    /\ UNCHANGED <<ops, txs, transfers, req, notified>>

\* Time passes the local TTL or the provider's expiry; the entry stays in the
\* Map until somebody asks for it.
QuoteExpires(q) ==
    /\ Fresh(q)
    /\ quotes' = [quotes EXCEPT ![q].entry = "stale"]
    /\ UNCHANGED <<ops, txs, transfers, req, notified>>

\* assertNotExpired deletes the stale entry it is asked about.
DropIfStale(q) ==
    quotes' = [quotes EXCEPT ![q].entry = IF @ = "stale" THEN "deleted" ELSE @]

\* A build or an execute-step on a stale quote answers QUOTE_EXPIRED, and its
\* only effect is the deletion.
RejectStale(q) ==
    /\ quotes[q].entry = "stale"
    /\ DropIfStale(q)
    /\ UNCHANGED <<ops, txs, transfers, req, notified>>

----------------------------------------------------------------------------
(* POST /payments/build *)

\* Mutant: the claim does not look at an earlier claim.
ClaimUnchecked(q) ==
    /\ Fresh(q)
    /\ quotes' = [quotes EXCEPT ![q].claimed = TRUE]

\* The quote is claimed for a random id, so a second claim always fails.
Claim(q) ==
    /\ Fresh(q)
    /\ ~quotes[q].claimed
    /\ quotes' = [quotes EXCEPT ![q].claimed = TRUE]

\* The operation a build records before it has anything to sign.
NewOperation(q) ==
    [NoOperation EXCEPT
        !.quote = q,
        !.status = IF q \in NeedsUnwind THEN "created" ELSE "awaiting_signature"]

\* A build that waits for the provider of its first transaction.
NewBuild(q, o) ==
    [Idle EXCEPT
        !.pc = "call", !.op = o,
        !.next = IF q \in NeedsUnwind THEN "yield_withdraw" ELSE FinalStep(q)]

\* Everything up to the first provider call is synchronous: the approval
\* check, the claim, and the operation that is recorded.
BuildBegin(r, q, o, approveEarnUnwind) ==
    /\ req[r].pc = "idle"
    /\ q \in NeedsUnwind => approveEarnUnwind
    /\ Claim(q)
    /\ ops[o].quote = None
    /\ ops' = [ops EXCEPT ![o] = NewOperation(q)]
    /\ req' = [req EXCEPT ![r] = NewBuild(q, o)]
    /\ UNCHANGED <<txs, transfers, notified>>

\* anchor.sep6Withdraw: the anchor opens a transfer and names its treasury.
OpenTransfer(r, k) ==
    /\ req[r].pc = "call"
    /\ req[r].next = "anchor_withdraw"
    /\ k \notin transfers
    /\ transfers' = transfers \cup {k}
    /\ req' = [req EXCEPT ![r] = Advance(@, "funding", @.next, None, k)]
    /\ UNCHANGED <<quotes, ops, txs, notified>>

\* A hash has no meaning: a new transaction takes the first free number.
IsNextNumber(t) == \A u \in Txs : u < t => txs[u].state # "unbuilt"

\* Horizon, DeFindex or Soroswap answers with an unsigned transaction.
BuildTx(r, t) ==
    /\ \/ req[r].pc = "call" /\ req[r].next # "anchor_withdraw"
       \/ req[r].pc = "funding"
    /\ txs[t].state = "unbuilt"
    /\ IsNextNumber(t)
    /\ txs' = [txs EXCEPT ![t] = [op |-> req[r].op, step |-> req[r].next,
                                  transfer |-> req[r].transfer,
                                  state |-> "built"]]
    /\ req' = [req EXCEPT ![r] = Advance(@, "record", @.next, t, @.transfer)]
    /\ UNCHANGED <<quotes, ops, transfers, notified>>

\* A provider call throws and the handler answers an error; what was claimed,
\* recorded or opened before it stays.
ProviderFails(r) ==
    /\ req[r].pc \in {"call", "funding"}
    /\ req' = [req EXCEPT ![r] = Idle]
    /\ UNCHANGED <<quotes, ops, txs, transfers, notified>>

HandOut(t) ==
    txs' = [txs EXCEPT ![t].state = IF @ = "built" THEN "open" ELSE @]

\* externalRefs: {...op.externalRefs, ...}: a key the snapshot has wins, a key
\* it lacks keeps the stored value.
MergeRef(old, snapped) == IF snapped # None THEN snapped ELSE old

\* The update at the end of a build: the next step and the hash it is pinned
\* to. Only the earn unwind resets completedSteps, and it is then empty anyway.
RecordBuild(r) ==
    /\ req[r].pc = "record"
    /\ req[r].step = None
    /\ ops' = [ops EXCEPT ![req[r].op] =
                 [quote |-> @.quote, status |-> "awaiting_signature",
                  step |-> req[r].next, completed |-> @.completed,
                  expected |-> req[r].built, txHash |-> @.txHash,
                  transfer |-> MergeRef(@.transfer, req[r].transfer)]]
    /\ HandOut(req[r].built)
    /\ req' = [req EXCEPT ![r] = Idle]
    /\ UNCHANGED <<quotes, transfers, notified>>

----------------------------------------------------------------------------
(* POST /payments/execute-step *)

\* assertSignedMatchesBuilt: the signed envelope hashes to what was built; an
\* operation without a hash is not checked.
HashMatches(o, t) == ops[o].expected \in {None, t}

\* A client has nothing to sign until the server has handed it out.
HandedOut(t) == txs[t].state \notin {"unbuilt", "built"}

InFlight(o) == {r \in Requests : req[r].pc # "idle" /\ req[r].op = o}

\* An execute-step that waits for its submission, with the operation it read.
NewExecution(o, s, t) ==
    [Idle EXCEPT !.pc = "submit", !.op = o, !.step = s, !.tx = t, !.snap = ops[o]]

\* Mutant: currentStep is not compared with the step of the request.
ExecuteAnyStep(r, o, s, t) ==
    /\ req[r].pc = "idle"
    /\ OneStepAtATime => InFlight(o) = {}
    /\ ops[o].quote # None
    /\ s \notin ops[o].completed
    /\ ops[o].status = "completed" => s = "anchor_withdraw"
    /\ Fresh(ops[o].quote)
    /\ HandedOut(t)
    /\ HashMatches(o, t)
    /\ req' = [req EXCEPT ![r] = NewExecution(o, s, t)]
    /\ UNCHANGED <<quotes, ops, txs, transfers, notified>>

\* The checks of executeStep in their order, up to the submission.
ExecuteBegin(r, o, s, t) ==
    /\ req[r].pc = "idle"
    /\ OneStepAtATime => InFlight(o) = {}
    /\ ops[o].quote # None
    /\ s \notin ops[o].completed
    /\ ops[o].status = "completed" => s = "anchor_withdraw"
    /\ ops[o].step = s
    /\ Fresh(ops[o].quote)
    /\ HandedOut(t)
    /\ HashMatches(o, t)
    /\ req' = [req EXCEPT ![r] = NewExecution(o, s, t)]
    /\ UNCHANGED <<quotes, ops, txs, transfers, notified>>

\* The ledger applies t; every other pending transaction of the wallet has a
\* sequence number that is now used up.
Landed(t) ==
    txs' = [u \in Txs |->
              IF u = t THEN [txs[u] EXCEPT !.state = "landed"]
              ELSE IF txs[u].state \in {"built", "open", "floating"}
              THEN [txs[u] EXCEPT !.state = "dead"]
              ELSE txs[u]]

\* The answer of a submission reaches the handler, or an exception ends it.
Answered(r, pc) ==
    req' = [req EXCEPT ![r] = IF pc = "idle" THEN Idle
                              ELSE Advance(@, pc, None, None, None)]

\* The submission lands, and its answer is heard or lost: a lost answer is an
\* exception in the handler.
SubmitLands(r, pc) ==
    /\ req[r].pc = "submit"
    /\ pc \in {"ok", "idle"}
    /\ txs[req[r].tx].state \in {"open", "floating"}
    /\ Landed(req[r].tx)
    /\ Answered(r, pc)
    /\ UNCHANGED <<quotes, ops, transfers, notified>>

\* Resubmitting a transaction that has landed answers as the first time, or
\* throws.
SubmitAgain(r, pc) ==
    /\ req[r].pc = "submit"
    /\ pc \in {"ok", "idle"}
    /\ txs[req[r].tx].state = "landed"
    /\ Answered(r, pc)
    /\ UNCHANGED <<quotes, ops, txs, transfers, notified>>

\* The network refuses the transaction for good: the provider reports it
\* (success: false) or throws.
SubmitRefused(r, pc) ==
    /\ req[r].pc = "submit"
    /\ pc \in {"failed", "idle"}
    /\ txs[req[r].tx].state \in {"open", "floating", "dead"}
    /\ txs' = [txs EXCEPT ![req[r].tx].state = "dead"]
    /\ Answered(r, pc)
    /\ UNCHANGED <<quotes, ops, transfers, notified>>

\* Mutant: a timeout is taken for a refusal.
TimeoutIsFailure(r) ==
    /\ req[r].pc = "submit"
    /\ txs[req[r].tx].state \in {"open", "floating"}
    /\ txs' = [txs EXCEPT ![req[r].tx].state = "floating"]
    /\ Answered(r, "failed")
    /\ UNCHANGED <<quotes, ops, transfers, notified>>

\* The submission times out: the handler throws, the transaction may land yet.
SubmitTimesOut(r) ==
    /\ req[r].pc = "submit"
    /\ txs[req[r].tx].state \in {"open", "floating"}
    /\ txs' = [txs EXCEPT ![req[r].tx].state = "floating"]
    /\ req' = [req EXCEPT ![r] = Idle]
    /\ UNCHANGED <<quotes, ops, transfers, notified>>

\* The update after a final step: everything but the status, the receipt and
\* the step comes from the snapshot.
Settle(r, status) ==
    ops' = [ops EXCEPT ![req[r].op] =
              [quote |-> @.quote, status |-> status, step |-> None,
               completed |-> req[r].snap.completed \cup {req[r].step},
               expected |-> req[r].snap.expected, txHash |-> req[r].tx,
               transfer |-> MergeRef(@.transfer, req[r].snap.transfer)]]

\* The owner is told of a completion, unless the snapshot is completed already.
notifyPaymentDone(r) ==
    notified' = [notified EXCEPT ![req[r].op] =
                   IF req[r].snap.status = "completed" THEN @ ELSE @ + 1]

\* stellar_payment and soroswap_swap.
CompletePayment(r) ==
    /\ req[r].pc = "ok"
    /\ req[r].step \in {"stellar_payment", "soroswap_swap"}
    /\ Settle(r, "completed")
    /\ notifyPaymentDone(r)
    /\ req' = [req EXCEPT ![r] = Idle]
    /\ UNCHANGED <<quotes, txs, transfers>>

\* anchor_withdraw: the payout itself is followed by polling the anchor.
FundTransfer(r) ==
    /\ req[r].pc = "ok"
    /\ req[r].step = "anchor_withdraw"
    /\ Settle(r, "processing")
    /\ req' = [req EXCEPT ![r] = Idle]
    /\ UNCHANGED <<quotes, txs, transfers, notified>>

\* Mutant: the success of the submission is not looked at.
CompleteAnyway(r) ==
    /\ req[r].pc = "failed"
    /\ req[r].step \in FinalSteps
    /\ Settle(r, "completed")
    /\ req' = [req EXCEPT ![r] = Idle]
    /\ UNCHANGED <<quotes, txs, transfers, notified>>

\* The provider reports the final transaction as refused.
FailFinalStep(r) ==
    /\ req[r].pc = "failed"
    /\ req[r].step \in FinalSteps
    /\ Settle(r, "failed")
    /\ req' = [req EXCEPT ![r] = Idle]
    /\ UNCHANGED <<quotes, txs, transfers, notified>>

\* A refused unwind writes the snapshot's metadata back, current step included,
\* so that the step may be tried again.
FailUnwind(r) ==
    /\ req[r].pc = "failed"
    /\ req[r].step = "yield_withdraw"
    /\ ops' = [ops EXCEPT ![req[r].op] =
                 [quote |-> @.quote, status |-> "failed",
                  step |-> req[r].snap.step, completed |-> req[r].snap.completed,
                  expected |-> req[r].snap.expected, txHash |-> @.txHash,
                  transfer |-> @.transfer]]
    /\ req' = [req EXCEPT ![r] = Idle]
    /\ UNCHANGED <<quotes, txs, transfers, notified>>

\* Mutant: the tail is built whether or not the unwind was refused.
UnwindAssumed(r) ==
    /\ req[r].pc \in {"ok", "failed"}
    /\ req[r].step = "yield_withdraw"
    /\ LET q == req[r].snap.quote IN
       IF Fresh(q)
       THEN /\ req' = [req EXCEPT ![r] = Advance(@, "call", FinalStep(q), None, None)]
            /\ UNCHANGED quotes
       ELSE /\ req' = [req EXCEPT ![r] = Idle]
            /\ DropIfStale(q)
    /\ UNCHANGED <<ops, txs, transfers, notified>>

\* Mutant: a quote that has gone leaves the request without an answer.
UnwindOnLiveQuote(r) ==
    /\ req[r].pc = "ok"
    /\ req[r].step = "yield_withdraw"
    /\ Fresh(req[r].snap.quote)
    /\ req' = [req EXCEPT ![r] =
                 Advance(@, "call", FinalStep(@.snap.quote), None, None)]
    /\ UNCHANGED <<quotes, ops, txs, transfers, notified>>

\* The unwind is on the ledger. The quote is read a second time: if it has gone
\* the handler throws and nothing records the unwind.
UnwindLanded(r) ==
    /\ req[r].pc = "ok"
    /\ req[r].step = "yield_withdraw"
    /\ LET q == req[r].snap.quote IN
       IF Fresh(q)
       THEN /\ req' = [req EXCEPT ![r] = Advance(@, "call", FinalStep(q), None, None)]
            /\ UNCHANGED quotes
       ELSE /\ req' = [req EXCEPT ![r] = Idle]
            /\ DropIfStale(q)
    /\ UNCHANGED <<ops, txs, transfers, notified>>

\* Mutant: the new transfer id is left out of externalRefs.
RecordUnwindUntracked(r) ==
    /\ req[r].pc = "record"
    /\ req[r].step = "yield_withdraw"
    /\ ops' = [ops EXCEPT ![req[r].op] =
                 [quote |-> @.quote, status |-> "awaiting_signature",
                  step |-> req[r].next,
                  completed |-> req[r].snap.completed \cup {"yield_withdraw"},
                  expected |-> req[r].built, txHash |-> req[r].tx,
                  transfer |-> @.transfer]]
    /\ HandOut(req[r].built)
    /\ req' = [req EXCEPT ![r] = Idle]
    /\ UNCHANGED <<quotes, transfers, notified>>

\* The update after an earn unwind, over the snapshot's metadata.
RecordUnwind(r) ==
    /\ req[r].pc = "record"
    /\ req[r].step = "yield_withdraw"
    /\ ops' = [ops EXCEPT ![req[r].op] =
                 [quote |-> @.quote, status |-> "awaiting_signature",
                  step |-> req[r].next,
                  completed |-> req[r].snap.completed \cup {"yield_withdraw"},
                  expected |-> req[r].built, txHash |-> req[r].tx,
                  transfer |-> MergeRef(MergeRef(@.transfer, req[r].snap.transfer),
                                        req[r].transfer)]]
    /\ HandOut(req[r].built)
    /\ req' = [req EXCEPT ![r] = Idle]
    /\ UNCHANGED <<quotes, transfers, notified>>

----------------------------------------------------------------------------
(* The network and the process *)

LateLanding(t) ==
    /\ txs[t].state = "floating"
    /\ Landed(t)
    /\ UNCHANGED <<quotes, ops, transfers, req, notified>>

\* The time bounds of a transaction pass, or another transaction of the wallet
\* (a yield deposit, a trustline) takes its sequence number.
TxDies(t) ==
    /\ txs[t].state \in {"built", "open", "floating"}
    /\ txs' = [txs EXCEPT ![t].state = "dead"]
    /\ UNCHANGED <<quotes, ops, transfers, req, notified>>

\* The process dies at any await. Quotes live in memory, operations in
\* operations.json; a submission that was under way may land later.
Restart ==
    /\ MayRestart
    /\ txs' = [t \in Txs |->
                 IF /\ txs[t].state = "open"
                    /\ \E r \in Requests : req[r].pc = "submit" /\ req[r].tx = t
                 THEN [txs[t] EXCEPT !.state = "floating"]
                 ELSE txs[t]]
    /\ req' = [r \in Requests |-> Idle]
    /\ quotes' = [q \in Quotes |->
                    [quotes[q] EXCEPT !.entry = IF @ = "unsaved" THEN @ ELSE "deleted"]]
    /\ UNCHANGED <<ops, transfers, notified>>

----------------------------------------------------------------------------

\* The steps a request takes once it is in flight.
Handler(r) ==
    \/ \E k \in Transfers : OpenTransfer(r, k)
    \/ \E t \in Txs : BuildTx(r, t)
    \/ ProviderFails(r)
    \/ RecordBuild(r)
    \/ \E pc \in PCs : SubmitLands(r, pc) \/ SubmitAgain(r, pc) \/ SubmitRefused(r, pc)
    \/ SubmitTimesOut(r)
    \/ CompletePayment(r)
    \/ FundTransfer(r)
    \/ FailFinalStep(r)
    \/ FailUnwind(r)
    \/ UnwindLanded(r)
    \/ RecordUnwind(r)

Next ==
    \/ \E q \in Quotes : SaveQuote(q) \/ QuoteExpires(q) \/ RejectStale(q)
    \/ \E r \in Requests, q \in Quotes, o \in Ops, approve \in BOOLEAN :
          BuildBegin(r, q, o, approve)
    \/ \E r \in Requests, o \in Ops, s \in Steps, t \in Txs :
          ExecuteBegin(r, o, s, t)
    \/ \E r \in Requests : Handler(r)
    \/ \E t \in Txs : LateLanding(t) \/ TxDies(t)
    \/ Restart

Spec == Init /\ [][Next]_vars

\* Every promise the server awaits settles, so a request in flight moves on.
FairSpec == Spec /\ \A r \in Requests : WF_vars(Handler(r))

----------------------------------------------------------------------------
(* Properties *)

AtMostOne(S) == \A x, y \in S : x = y

LandedTxs(o, steps) ==
    {t \in Txs : txs[t].state = "landed" /\ txs[t].op = o /\ txs[t].step \in steps}

\* No step left to take and no request at work on it: completed, failed for
\* good, or a build that broke before it pinned a step.
Settled(o) == ops[o].quote # None /\ ops[o].step = None /\ InFlight(o) = {}

\* What a request carries at each await.
WellFormed(x) ==
    /\ x.pc # "idle" => x.op \in Ops
    /\ x.pc \in {"call", "funding", "record"} => x.next \in Steps
    /\ x.pc = "record" => x.built \in Txs
    /\ x.pc \in {"submit", "ok", "failed"} => x.step # None
    /\ x.step # None => x.tx \in Txs /\ x.snap.quote \in Quotes

\* Every variable has its type, and a request what its await needs.
TypeOK ==
    /\ quotes \in [Quotes -> [entry: {"unsaved", "fresh", "stale", "deleted"},
                              claimed: BOOLEAN]]
    /\ ops \in [Ops -> Operation]
    /\ txs \in [Txs -> Transaction]
    /\ transfers \in SUBSET Transfers
    /\ req \in [Requests -> Request]
    /\ \A r \in Requests : WellFormed(req[r])
    /\ notified \in [Ops -> Nat]

\* However many builds race for one quote, and across restarts and expiries,
\* QuoteStore.claim lets at most one operation be recorded for it.
OneOperationPerQuote ==
    \A o1, o2 \in Ops :
        ops[o1].quote # None /\ ops[o1].quote = ops[o2].quote => o1 = o2

\* expectedTxHash: a transaction that executeStep is submitting was built for
\* that operation and that step, however the operation changed meanwhile.
SubmissionsMatchOperation ==
    \A r \in Requests :
        req[r].pc \in {"submit", "ok", "failed"} =>
            /\ txs[req[r].tx].op = req[r].op
            /\ txs[req[r].tx].step = req[r].step

\* A payment that needs an earn unwind reaches the ledger only after its
\* unwind did: executeStep hands the final transaction out no sooner.
UnwindPrecedesPayment ==
    \A o \in Ops :
        ops[o].quote \in NeedsUnwind /\ LandedTxs(o, FinalSteps) # {} =>
            LandedTxs(o, {"yield_withdraw"}) # {}

\* The earn position is unwound at most once for a quote, although builds race
\* for it and executeStep may submit the unwind many times, for several requests.
OneUnwindPerQuote ==
    \A q \in Quotes :
        AtMostOne(UNION {LandedTxs(o, {"yield_withdraw"}) : o \in {x \in Ops : ops[x].quote = q}})

\* An operation the store calls completed has its payment on the ledger,
\* although two executeStep calls may write it over each other's snapshot.
CompletedIsPaid ==
    \A o \in Ops : ops[o].status = "completed" => LandedTxs(o, FinalSteps) # {}

\* executeStep never takes up a settled operation again: not after a replay, a
\* late landing, a restart, nor when its build broke and its quote is spent.
SettledIsFinal ==
    [][\A o \in Ops : Settled(o) => Settled(o)' /\ ops'[o] = ops[o]]_vars

\* QuoteStore.claim and the step checks of executeStep together: at most one
\* final transaction lands for a quote.
OnePaymentPerQuote ==
    \A q \in Quotes :
        AtMostOne(UNION {LandedTxs(o, FinalSteps) : o \in {x \in Ops : ops[x].quote = q}})

\* An operation that executeStep marks failed has not paid, and will not: a
\* user who starts over does not pay twice.
FailedIsUnpaid ==
    \A o \in Ops : ops[o].status = "failed" => LandedTxs(o, FinalSteps) = {}

\* notifyPaymentDone fires on the transition to completed and only on it.
NotifiedOnCompletionOnly ==
    \A o \in Ops : notified[o] = IF ops[o].status = "completed" THEN 1 ELSE 0

\* The SEP-6 transfer the operation polls is the one its landed funding
\* payment went to, although an unwind executed again opens another.
FundedTransferIsTracked ==
    \A o \in Ops : \A t \in LandedTxs(o, {"anchor_withdraw"}) :
        ops[o].transfer = txs[t].transfer

\* No request hangs: whatever the providers answer, a handler of build or
\* executeStep ends.
HandlersEnd == \A r \in Requests : req[r].pc # "idle" ~> req[r].pc = "idle"
============================================================================
