# A TLA+ model of trinqa

trinqa is a testnet payments product on Stellar: a Fastify backend
(`src/backend`), an Expo app (`src/apps/mobile`) and a Soroban contract
(`src/contracts/trinqa-policy`). The backend never holds the client's funds in
the payment path: it quotes, builds unsigned transactions, checks that what
comes back signed is what it built, submits it, and keeps a record (an
*operation*) of how far it got. This directory holds a model of that system in
TLA+, the TLC runs that check it on small instances, and the theorems about it
that TLAPS checks for every instance.

    tlc -config payment_racing.cfg MCPaymentExecution   # a run
    tlc -config wallet_phone.cfg MCDeviceWallet
    tlapm PaymentExecution_proofs.tla                   # proofs
    tlapm DeviceWallet_proofs.tla

Each of the nine models `M` comes with `MCM`, its instances for TLC, and one
`.cfg` per question; `M_proofs` holds the theorems about it (those about
`AnchorDirectory` are in `RoutePlanning_proofs`). `PROJECT.json` maps each
definition to the lines it stands for.

## 1. The system

### Components, their state and operations

| component | source | state | operations | model |
|---|---|---|---|---|
| quote store | `services/quote-store.service.ts` | Map of quotes with expiry and claim, in memory | save, get (deletes an expired entry), claim | PaymentExecution |
| operation store | `services/operation-store.ts` | operations, written to `operations.json` on each change | create, get, update (merges `externalRefs` and `metadata`, key by key), list, findByExternalRef | PaymentExecution |
| payment router | `services/payment-router.service.ts` | none | quote (chooses a route, saves it), build (claims a quote, records an operation, builds its first transaction) | RoutePlanning, PaymentExecution |
| payment execution | `services/payment-execution.service.ts` | none; `metadata` of the operation | executeStep, buildEarnUnwindStep, computeFunding | PaymentExecution, RoutePlanning |
| anchor transfers | `routes/v1/anchor.ts` | `externalRefs.anchorTransferId` | open a deposit or withdrawal, poll a transfer and move its operation | AnchorTransfers |
| yield service | `services/yield.service.ts` | operations of its own kinds | buildDeposit (policy gate), buildWithdraw, executeSignedXdr; strategies, positions, recommendations | YieldDeposit, EarnProvider |
| policy service, adapter | `services/policy.service.ts`, `adapters/trinqa-policy.adapter.ts` | none | build, simulate and submit the contract's calls | YieldDeposit |
| allocation policy | `contracts/.../src/lib.rs` | one `UserPolicy` per account, with a TTL | set_policy, update_*, set_strategy_allowed, authorize_*, pause_automation | AllocationPolicy |
| payment watcher | `services/incoming-payment-watcher.service.ts`, `horizon-cursor-store.ts` | a cursor per account, on disk | tick: read what came after the cursor, announce it, advance | PaymentWatcher |
| push | `services/push-sender.service.ts`, `push-tokens.service.ts` | token registry, on disk | register, remove, notify (prunes tokens Expo calls dead) | PaymentWatcher |
| anchor directory | `anchor-registry`, `adapters/sep-discovery-anchor`, `adapters/tr-mock-anchor` | caches of `stellar.toml`, `/info` and snapshots | list, prices, firm quote, limits | AnchorDirectory |
| route choice | `route-planner`, `route-filter`, `route-scorer`, `adapters/jev-advisor.ts` | none | discover, filter, price, advise, score, sort | RoutePlanning |
| custodial wallets, anchor sessions | `custodial-wallet.service.ts`, `anchor-session-store.service.ts`, `routes/v1/demo.ts` | accounts on the network, a session Map in memory | provision, sign, SEP-10, SEP-12, create and resolve a session | DeviceWallet |
| yield provider | `adapters/defindex-yield.adapter.ts`, `util/provider-retry.ts`, `deterministic-risk-engine.ts`, `capability.service.ts` | none | health, vault, APY, balance, builds; a bounded retry of 429; scores | EarnProvider |
| app: wallet and start | `services/signer.ts`, `session.ts`, `bootstrap.ts` | wallet file, cached session, ledger view | bootstrapAccount, resolveAll, ensureAnchorSession | DeviceWallet |
| app: screens and flows | `services/flows.ts`, `useLiveQuote.ts`, `features/*` | step, input, live quote | the four money screens and their flows | MobileFlows |
| waitlist, activity, configuration, web site, scripts | | | | not modelled |

### How they interact

    app --quote--> router --save--> quote store
    app --build--> router --claim--> quote store
                          --create--> operation store
                          --build tx--> Horizon / DeFindex / Soroswap / anchor
    app --execute-step (signed)--> execution --get--> both stores
                          --submit--> Horizon / DeFindex / Soroswap
                          --update--> operation store   --notify--> push --> Expo
    app --poll transfer--> anchor route --ask--> anchor
                          --update--> operation store   --notify--> push --> Expo
    timer --tick--> watcher --read--> Horizon           --notify--> push --> Expo
    yield service --simulate--> policy contract

All stores are shared by all handlers of one Node process. A handler is atomic
between two `await`s on I/O and interleaves with every other one at each of
them. The stores' own methods are `async` but do their work synchronously, so
reading a store, deciding and writing it back *without* a provider call in
between is one step; with one in between, it is two.

### What is hard in it

- `executeStep` reads an operation, waits for a network, and writes back what
  it read: overlapping requests, answers lost after the network acted, a quote
  that expires between the two reads of it, a restart at any await (operations
  survive, quotes and claims do not).
- A build spends its quote before it knows whether it can build anything.
- Polls of one transfer overlap, their answers come out of order, and a poll may
  name another operation than the transfer's own; each decides on a notification
  with the status another one may have taken back.
- The yield service submits between its check and its update; its policy check
  is a simulation at build time.
- The watcher announces a window of payments and then moves its cursor; its
  timer may fire while a pass is under way, and its process may die in one.
- A snapshot of an anchor is cached when its last request ends, and is made of
  answers that were cached themselves; calls at one anchor overlap.
- An advisor, a price or an anchor answers late, wrongly or never.
- A screen can be left while its flow runs, its quote changes under it, and a
  flow replaces an expiring quote on its own.
- Provisions of one account overlap, between the phones that resolve the same
  contact and between the retries of one phone; keys, sessions and answers are
  lost at different ends.
- The backend may be deployed with another vault between two requests of one
  flow of the app.

The list, line by line, with the property that covers each item or the reason
why none does, is `hazards` in `PROJECT.json`.

### What makes each component correct

- quote store, router: a quote commits to at most one operation; its funding
  adds up.
- execution: a quote pays at most once; an unwind happens at most once and
  before the payment; only what was built for a step is submitted for it; the
  stored status does not lie about the ledger; a settled operation stays settled.
- anchor transfers: an end that is stored or announced is the anchor's; it is
  stored as long as somebody polls, and is announced once; the transfer that was
  funded is the one polled.
- yield, policy: no deposit of a share the policy refuses; a revoked strategy
  is refused; statuses are what the ledger says; a deposit goes to the vault its
  client named, and only to one that takes its asset.
- watcher, push: each payment is handed to the sender, in order; whether one that
  Expo refuses is sent again.
- directory: what is handed over is not older than the age limits say.
- route choice: the best route that can serve the request, whatever the advisor
  answers, and every request answered; what the app says beside it agrees with it.
- wallet: an account in use can hold what it receives; a wallet that was saved
  is never exchanged; a session the phone trusts is honoured.
- app: what is confirmed is what moves; money leaves Earn only as approved; a
  success that is shown is one; no screen waits for ever.

## 2. Plan

In this order; what is ticked is done.

1. [x] `PaymentExecution` (quote store, operation store, build, execute-step,
   the ledger, restarts), `PaymentPromise` (what it promises),
   `PaymentRefinement` (that it keeps the promise); proofs of the types and of
   the safety invariants.
2. [x] `AnchorTransfers`; proof that polls report only ends that are the
   anchor's, whatever operation they name.
3. [x] `AllocationPolicy`, the contract; `YieldDeposit` composing it with the
   deposit gate, the Grow-money flow and `executeSignedXdr`; proofs of its
   invariants.
4. [x] `PaymentWatcher`: ticks, cursors, the token registry, the sender and what Expo
   makes of the notices; proofs.
5. [x] `MobileFlows`: live quote, review, the flows; proofs.
6. [x] `AnchorDirectory`, the caches of the directory, with proofs; extended by
   `RoutePlanning`, the decision on a route and the funding of a quote.
7. [x] `DeviceWallet`: provisioning, the phone's wallet, sessions; proofs.
8. [x] `EarnProvider`: capabilities, strategies, advice, what the provider is
   asked to build.
9. [x] proofs of the rest of the safety properties: `SettledIsFinal`,
   `FailedIsUnpaid`, `NotifiedOnCompletionOnly`, `FundedTransferIsTracked` and the
   step simulation of `PaymentRefinement`; `AnnouncedAsItEnded` and
   `ToldIsRecorded`; the invariants of `RoutePlanning` and of `EarnProvider`.
10. [ ] the order and the limit of the activity view (its states are in
   `AnchorTransfers`), the Receive screen, the asset listing of swaps.

## 3. The payment path

### PaymentExecution

The state is `quotes` (the QuoteStore's Map: entry and claim), `ops` (the
operations: quote, status, `currentStep`, `completedSteps`, `expectedTxHash`,
`externalRefs.txHash`, `externalRefs.anchorTransferId`), `txs` (what happened
to each transaction that was built), `transfers` (opened by the anchor), `req`
(the handlers in flight) and `notified` (a count of `paymentSent` per
operation).

A handler in flight is a record: `pc` is the await it stands at, `snap` the
operation it read before (`op` and `meta` in `executeStep`), `next`, `built`
and `transfer` what it obtained since. Each action is the code from one await
to the next:

| actions | code |
|---|---|
| `SaveQuote`, `QuoteExpires`, `RejectStale`, `Claim` | QuoteStore |
| `BuildBegin`, `OpenTransfer`, `BuildTx`, `ProviderFails`, `RecordBuild` | PaymentRouter.build |
| `ExecuteBegin` | the checks of executeStep, in their order |
| `SubmitLands`, `SubmitAgain`, `SubmitRefused`, `SubmitTimesOut` | the outcome of a submission, and whether its answer is heard |
| `CompletePayment`, `FundTransfer`, `FailFinalStep` | the updates of a final step |
| `FailUnwind`, `UnwindLanded`, `RecordUnwind` | the same for an earn unwind, whose tail is built by the same handler |
| `LateLanding`, `TxDies`, `Restart` | the network and the process |

The ledger: all quotes belong to one wallet, whose transactions carry a
sequence number, so that one landing makes every other transaction built before
it fail (`Landed`). A transaction may also die by its time bounds. A provider
reports `success: false`, and Horizon an error with a result code, only of a
transaction the network has refused; when the outcome is not known the client
library throws (`SubmitTimesOut`), and the transaction may land later. This is
an assumption about the providers, and `FailedIsUnpaid` and `CompletedIsPaid`
rest on it.

A build is taken to return a transaction to sign: `executeBuiltPayment` calls a
payment without one a success (`session.ts:89`), which no build of the backend
leads to, and that branch is left out here and in `MobileFlows`.

What is left out: amounts and destinations (a transaction is what it was built
for), titles and wording, the anchor session a payout uses, and polling, which
is `AnchorTransfers`.

`OneStepAtATime` is the client of the app: `executeBuiltPayment`
(`session.ts:66-92`) awaits each execute-step before it sends another. It may
retry after an error, at any time. Without it any number of requests for one
operation overlap.

### PaymentPromise and PaymentRefinement

What the owner of the wallet may rely on, without requests or stores: a quote
is committed once, unwound at most once and only if it needs it, paid at most
once and after the unwind, announced at most once and after the payment.
`PaymentRefinement` reads that state off `PaymentExecution`; `KeepsPromise`
says that every behaviour of a client that awaits its steps is one of the
promise.

### Runs

| run | instance | question |
|---|---|---|
| `payment_racing` | 2 quotes (one with an unwind), 3 operations, 4 transactions, 1 transfer, 2 requests at a time, any client, restarts | what holds however the client behaves |
| `payment_stepwise` | a cash-out with an unwind and a swap, 2 operations, 3 transactions, 2 transfers, 2 requests, a client that awaits its steps, restarts, fairness | what holds in addition for the app: the refinement of the promise, and that each handler ends |
| `payment_paid_twice` | one quote with an unwind, 3 transactions, two overlapping execute-steps | violated: `OnePaymentPerQuote` |

The bounds are the sizes of the sets. Two requests are enough for every race
between a handler and another one; three are not needed for one update to
overwrite another. Four transactions allow two payments of two steps each, or
one payment with two failed attempts; three allow a payment of two steps beside
one of one, or with one failed attempt. Two transfers let an unwind be executed
a second time and open another transfer. Transactions are numbered as they are built,
since a hash means nothing but itself; in the other ids each run is symmetric,
except the one that checks liveness. `CHECK_DEADLOCK FALSE` is set because a bounded
instance runs out of transactions and then stops.

Fairness: `WF_vars(Handler(r))` for each request and nothing else. Every
promise a handler awaits settles (the provider clients have timeouts, and an
error is an answer), and Node runs its continuation. Nothing is assumed of
clients, of expiry, or of a transaction landing.

### What the runs show

With any client: no payment before its unwind; one unwind per quote; a completed
operation is paid; a settled operation is final (`SettledIsFinal`). Two of these
are not obvious for a program without a lock per operation: they hold because
one envelope lands once and because the sequence number kills rivals.

Only with a client that awaits its steps: one payment per quote, one
notification per payment, failed means unpaid, the transfer polled is the
transfer funded. `payment_paid_twice` shows that the first of them needs that
client, and that a comment in the code promises more (`findings` in
`PROJECT.json`): with two overlapping requests for the unwind the slower one
writes a fresh payment over an operation that has completed. Two overlapping
requests for the final step likewise both announce it: each compares with the
status it read before its submission.

## 4. Anchor transfers

### AnchorTransfers

The state is `ops` (status and `anchorTransferId` of the operations),
`opening` (a POST whose transfer the anchor has opened and whose operation is
not recorded yet), `own` (the transfer an operation was recorded with, which is
the one its client knows), `anchor` (what the anchor says of each transfer),
`funding` and `ledger` (the execute-step that pays a payout's transfer, and that
payment), `polls` (the GETs in flight), `loop` (the app's `pollTransfer` for
each operation) and `sent` (the notifications, counted per operation and
wording up to `MaxSent` = 2, since only none, one and more are told apart).
`links` is history: the transfers an operation has been linked to. The activity
screen reads `ops`: `listActivity` is the answer of the backend,
`activityToTransaction` and `transactionStatusLabel` what the app makes of it.

| actions | code |
|---|---|
| `OpenTransfer`, `RecordTransfer`, `OpeningLost` | POST /anchor/deposits and /anchor/withdrawals; the same two awaits in the build of a payout |
| `FundBegin`, `FundingDecided`, `FundSettled`, `FundUnheard` | executeStep of `anchor_withdraw` |
| `AnchorMoves` | the anchor |
| `AskAnchor`, `AnchorAnswers`, `PollApplied`, `PollFails` | GET /anchor/transfers/:id |
| `LoopPolls`, `GiveUp`, and the end of the loop in `PollApplied` | pollTransfer |
| `OtherPolls` | any other client of that route, with any operation's id or none and any transfer the anchor knows |
| `Labels` (an operator) | GET /activity, and what the screen says of an operation |

The route does not ask whether the operation a poll names has to do with the
transfer, or with the session: it links the two, stores the transfer's status and
announces its end. So `OtherPolls` may name any operation of the store, one of
kind "elsewhere" included (a deposit to earn, say, which never has a transfer of
its own and whose status its own component, not modelled here, writes), with any
transfer, one that nobody recorded included. A poll without an id is for whichever
operation is linked to the transfer; when several are, the model takes any of
them. A payout that is not recorded with its transfer yet cannot be named.

After the anchor's answer the handler reads the operation, updates it and
decides on the notification without I/O in between, so that is one step; the
anchor makes up its answer some time before, which is the race. A restart of
the process is the loss of what is in flight: `OpeningLost`, `FundUnheard`,
`PollFails`. Of a payout, `PaymentExecution` models how it comes to be funded
and this module what the polls do to its operation; they meet in the
operation's status.

Assumptions about the anchor: a transfer ends once, with `completed`, `error`
or `refunded`, and one that pays out moves on (other than to `error`) only when
it has been funded. Statuses the handler does not know are mapped as `pending`
is, and are left out.

`InTurn` are the operations that only their own clients poll, with their own
transfer, and whose polls do not overlap; a payout of them is only polled when its
funding has been answered. This is what the app does. The polls of any other
operation overlap and cross freely. `Unwinds` are the payouts that unwind an earn
position first: their transfer is opened after the build, and the app does not
learn of it.

### Runs

| run | instance | question |
|---|---|---|
| `transfers_polled` | a withdrawal and a payout, two transfers, the app's loop for each and one more client, fairness; the payout is in `InTurn` | what holds for operations polled in turn, beside one that is polled by two clients at once, which may also name it with a transfer that is nobody's |

Two polls in flight are enough for one answer to overtake another. A second
transfer lets an opening be lost and repeated, a transfer be nobody's, and the
withdrawal be relinked to it. A larger instance, with an operation of another part of
the backend as a third one to cross to, takes longer than a run may; the theorem
`PollsAreTrue` covers it, and any other. `CHECK_DEADLOCK FALSE`: when every transfer
has ended and nobody polls, the instance stops.

Fairness: `WF_vars(PollMoves(p))`, since the anchor client answers or throws,
and `WF_vars(LoopPolls(o))`, since the loop's timer fires. The anchor, the
network and the user's patience are free.

What they show. Whatever a poll names and whichever answer comes last, an
operation stored as ended is linked to a transfer that ended that way, and an end
that was announced is that of a transfer the operation was linked to
(`TrueToAnchor`); that this transfer is the operation's own is not kept by the
code, and not claimed. In turn, there is one announcement per end
(`AnnouncedAsItEnded`), an end is stored unless the app gives up
(`EndIsStored`), and what the activity screen says when the loop has ended is
which end it was, while before it never claims one (`ToldIsRecorded`).

### Seen while modelling

Polls of one transfer that overlap announce its end twice: an answer older than the
end is applied after it, takes the operation back to processing (`anchor.ts:253`),
and the next poll finds a transition again. `PUSH_NOTIFICATIONS.md:58-60` says that
comparing against the stored status makes it fire once. The app awaits each poll
before the next, so it takes a second device or another client; `AnnouncedAsItEnded`
is therefore stated of operations in `InTurn` only.

The completion of a cash-out, which is an operation of kind `payment`, is
announced with the words for a deposit. A cash-out that unwinds first is never
polled by the app, since the id of its transfer is in an answer the app drops. A
poll can link an operation to the transfer of another account. The model reaches all
three, and no text of the repository denies them.

## 5. The policy contract and earn deposits

### AllocationPolicy

The Soroban contract. A call loads and stores the entry of the user who
authorised it, so the state is one entry: `policy` (a `UserPolicy` or
`NoPolicy`), `liveUntil` (the ledger up to which its time to live reaches) and
`now`. The calls are actions with the contract's names; one that returns an
error changes nothing and is no action. `Store` is `store_policy`, which each
call that succeeds ends with, the `authorize_*` calls included.

The allow-list is a `Vec<Symbol>` that `set_policy` stores as it is given,
duplicates included, and whose order nothing looks at: it is modelled as the
number of copies of each strategy. The values tried include ones the contract
must refuse (risk 3, target times that have passed). One clock stands for
ledger timestamps and ledger numbers, and the TTL constants (30 and 120 days of
ledgers in the code) are `BumpThreshold` and `BumpTo`, any two numbers in the
proofs. An entry whose time to live is over is archived, not lost: the
transaction or simulation that needs it restores it. So archiving changes no
result here, and `UsedIsAlive` is about what `extend_ttl` is there for.

`word` and `used` are history variables: the strategies whose last mention by
the user was a yes, and the time of the last call that succeeded.

### YieldDeposit

Extends the contract with the backend and one flow of the app:

| actions | code |
|---|---|
| `PlanSent`, `PlanDeferred`, `PlanAnswered` | executePutToWork's policy transaction in submitSignedPolicyTx: sent, answered TRY_AGAIN_LATER, polled |
| `DepositChecked`, `DepositDenied` | buildDeposit up to the answer of the simulation |
| `DepositRecorded`, `WithdrawalRecorded`, `BuildFails` | the rest of buildDeposit, buildWithdraw, and their failures |
| `ExecuteBegin`, `ExecuteEnd`, `ExecuteUnheard` | executeSignedXdr: the check and the submission, the update and the notification, an exception or the end of the process |
| `PlanLands`, `PlanFails`, `NetworkDecides`, `LedgerCloses` | the network |
| the calls of `AllocationPolicy` | any client of the contract, at any time |

The state is `ops` (status and `metadata.policyCheck`), `building` (a deposit
between the gate and the answer of DeFindex, with what the gate found),
`denied` (the reason of the last refusal), `flow` and `plan` (where
executePutToWork stands, and its policy transaction), `txs` (the transactions
built), `req` (the executions in flight) and `notified`.

Assumptions about the network are those of section 3: an answer that says a
transaction succeeded or failed is the ledger's, and one whose outcome is not
known is an exception. The RPC may answer TRY_AGAIN_LATER to a policy
transaction. DUPLICATE, for an envelope that was sent before, takes the same
branch in the code and is left out, since the flow sends its envelope once.

Left out: the amounts of shares and balances on the vault, recommendations and
positions (read-only), and titles. `Share` is computed on whole numbers; the
code's decimals are rounded up in the same place.

### Run

`yield_deposits`: a Grow-money deposit and a withdrawal, two executions at a
time, one strategy with up to two copies given, any calls of the contract. It
shows that the contract, the gate and the executions keep their invariants.

Two copies are the first number at which removing one and removing all differ.
An execution brings the transaction of any operation, and the code compares its
hash with what it built (`SignedMatchesBuilt`). Two executions are enough for one to
overwrite the other's end. `MaxTime` 2
with `BumpThreshold` 1 and `BumpTo` 2 lets an entry be extended, be used
without an extension, and pass its threshold. The amounts and balances reach
each end of `Share`: nothing asked, no balance, more than the balance, and a
share of less than a basis point. Refusals of the contract for a wrong
strategy come from lists without the vault's. No liveness is checked, so no
fairness is assumed. `CHECK_DEADLOCK FALSE`: when the clock is at its bound and
every operation has ended, the instance stops.

An overlap of executions cannot make a status untrue, since both hear of the
same transaction; an end is nevertheless announced by each of two overlapping
executions. Two more things were seen while modelling, and no run claims them:
the comment at `flows.ts:315` takes a simulation for enforcement, although the
gate is asked at the build and a policy that changes after it does not stop the
money; and the flow's promise to write a policy first depends on an answer of
the RPC (TRY_AGAIN_LATER) that `submitSignedPolicyTx` does not tell from a
success. `TakenPolicyIsAsked` therefore speaks of policies the network took.

## 6. Incoming payments

### PaymentWatcher

The state is the `ledger` (the network's payments, whose paging tokens are
their places in it), `cursor` and `registry` (the two files), `ticking` (the
watcher's flag), `pass` and `send` (where each pass of the timer, and the
delivery it awaits, stand), and of the app on each device `wallet`, `note` (the
registration it believes it has made) and `posting`. `pinned` and `announced`
are history.

| actions | code |
|---|---|
| `PassBegin`, `CheckAccount`, `Pin`, `PageRead`, `HorizonFails`, `PassEnd` | tick and checkAccount, an action from one answer of Horizon to the next |
| `RecordIgnored`, `RecordAnnounced`, `PageDone` | the loop over a page and the single write of the cursor after it |
| `BatchAnswered`, `BatchFailed`, `NotifyEnd` | PushSender.notify: the request to Expo, and the tokens it drops |
| `RegisterBegin`, `RegisterStored`, `RegisterNoted`, `RegisterLost`, `Unregister` | registerPushToken of the app and the two routes |
| `Pay`, `DeviceTurns`, `Reinstall`, `Restart` | the network, the phone and the process |

A restart loses passes and deliveries and keeps both files.

`watcher_passes`: two accounts of which one is paid, one device, one record per
page, at most two payments (one that credits, one that is ignored, in any
order and twice the same), one restart. With a page of one record every page
ends at its limit, so an ignored record fills a page, which is the case in
which a watcher could stop for ever. A second tick may fire at any time, and a
second account makes a pass go on after one has failed. It shows that no
payment between where a cursor began and where it is was skipped
(`NoneSkipped`), that a cursor never goes back and what it has passed is never
announced again (`PassedIsPast`), so that two announcements of one payment have
a restart between them, and that of what lies ahead of it Expo answers in the end,
unless the account is without a device then (`NewsIsAnswered`): a crash between the
hand-over and the answer leaves the cursor where it was, so the notice is repeated.

Fairness: weak for the timer, for the steps of a pass and for the sender, whose
request has a timeout; strong for the answers of Horizon, which may fail any
number of times but not for ever. `announced` counts what was handed to the
sender, `outcome` is what became of the last notice of a payment.

`NewsIsAnswered` does not say that a phone was told, and that would be false. The
comment at `incoming-payment-watcher.service.ts:78-79` and
`PUSH_NOTIFICATIONS.md:51-52` say that an Expo error leaves the cursor untouched so
that the window is retried; `notify` catches the error and counts it in a result,
`checkAccount` ignores the result (line 154), and the cursor moves past the payment.
In the model `BatchFailed` sets the outcome to `refused` and the pass goes on to
`PageDone`.

## 7. The app's screens

### MobileFlows

The state is the open screen (`opened`, `flow`, `step` and its inputs `amount`,
`currency`, `to`), what it resolves (`account`, `directory`), its live quote
(`live`, `timer`, `fetches`), the quotes given (`offers`), the balance the app
shows, and `job`, the flow each screen has started, which survives the screen.

| actions | code |
|---|---|
| `TimerFires`, `QuoteAnswered`, `QuoteFails`, `RetryQuote`, and `Effect` in every change of the input | useLiveQuote |
| `DirectoryAnswered`, `DirectoryFails` | resolveAccounts of `contacts.ts` |
| `OpenPay` .. `OpenPutToWork`, `TypeAmount`, `ChooseCurrency`, `PickRecipient`, `PickDestination`, the `Continue`s, `GoBack`, `Back`, `Done`, `SwipeBack` | the four `*FlowScreen.tsx` |
| `ConfirmPay`, `ConfirmWithdraw`, `ConfirmAddMoney`, `ConfirmPutToWork` | what each review's Confirm hands to its flow |
| `Requoted`, `Built`, `BuildFails`, `Landed`, `SendFails`, `PolicyAlone`, `LedgerReloaded` | executePayment, executeWithdraw, executeAddMoney, executePutToWork |

A handler, the render it causes and the effects of that render are one step.
What the backend does is a choice here: it accepts, refuses or does not answer.
Three parts of the code have no action because nothing reaches them: the
`record*` functions of the mock state have no caller, the sheet that asks for an
approval in the pay screen cannot open since `quotePay` asks for the available
balance only, and the destination a withdrawal was given is not passed on.

`flows_confirmed`: two screens one after the other, of any kind, two contacts,
one currency that can be quoted and one that is blocked, two quotes. The first
screen may be left while its flow runs and the second opened over it. Two
quotes let an answer overtake another, a quote expire and be replaced, and the
replacement differ in what it needs from Earn. It shows that a screen that is
not waiting for a quote shows that of its input (`AnswerIsCurrent`), that money
leaves Earn only as the confirmed review said (`UnwindIsApproved`), that success
is reported only of a flow that moved money or says it did not
(`SuccessIsTrue`), and that processing, which has no way back, ends
(`ProcessingEnds`), under weak fairness of each flow's steps: every request of
`api.ts` ends, and `pollTransfer` gives up.

`flows_stale_quote` is violated: `ReviewIsWhatMoves`. While the quote for a new
input loads, the hook keeps the old one, Continue and Confirm look at the data
alone, and the payment is built from the id of the old quote (`findings`).

## 8. Anchors and routes

### AnchorDirectory

The state is the three caches, `tomls`, `infos` and `snaps`, and `jobs`, what
each call is doing at each anchor. Each entry carries an age that `Tick`
advances; a request to a discovered anchor lasts at most `FetchTime`.

| actions | code |
|---|---|
| `List`, `AskPrices`, `AskFirm`, `AskLimits`, `Collect` | the calls of the registry and of the adapters, and their Promise.all |
| `TomlArrives`, `TomlRetried`, `TomlMissed` | getToml with its second attempt, discover |
| `InfoArrives`, `InfoFails`, `FiatArrives`, `FiatFails`, `ProbeEnds`, `PriceEnds` | buildSnapshot, request by request; indicativePrice, sep38Quote |
| `Throws` | a failure of the executable anchor that the adapter does not catch |

`directory_calls`: one discovered anchor, two calls that overlap at it, `TTL` 2,
`FailTTL` 1, `FetchTime` 1, an anchor with everything or with SEP-24 only, out
of reach at any request. Every age at which an entry expires is reached, with a
request in flight across it. `ServedIsRecent` bounds the age of what is handed
over; the caches are nested, so the stellar.toml of a snapshot may be almost two
age limits old. While modelling it was seen that `ok` of `cacheTtl` looks at the
health alone, so that a snapshot that lost its prices or its probe, and is
healthy, is kept for the full age limit; the property allows it.

### RoutePlanning

Extends the directory with `calls`: previews and quotes under way.

| actions | code |
|---|---|
| `Preview`, `Listed`, `Priced`, `PricingTimesOut` | preview of the planner, withTimeout |
| `Unadvised`, `AdviceComes`, `AdviceFails`, `AdviceIsLate` | decideRoute and what the advisor answers |
| `Quote`, `QuoteWithoutSession`, `FirmEnds`, `LimitsEnd` | quote of a payout: firm quote, withdraw limits, preview |
| `QuoteTransfer`, `QuoteSwap`, `SwapEnds`, `BalancesRead`, `BalancesFail` | the other two routes, and the balances of all |
| `Reasons`, `Deterministic`, `Score`, `Usable`, `Merged`, `Decision`, `Funding`, `RouteScore` (operators) | filterRoutes, scoreRoutes, normalize, computeFunding, scoreRoute |
| `SheetNote`, `ReviewNote`, `MovesMoney`, `ShownWeights` (operators) | RoutePreviewSheet, routeDecisionSubtitle, ANCHOR_STATUS_COPY, ROUTE_FACTORS |

Scores are in tenths and amounts are small, so that the weights of the code are
kept as they are. What the advisor is told is left out; it may answer anything,
late or not at all. A grade of its answer has the scale it was made on, the highest
index of its legend, and `Normalized` divides by it.

`routes_previewed`: the executable anchor and a discovered one, wide and narrow
limits, with and without fees, amounts 0 to 2, an advisor that is sure, unsure in
part (and on another scale) or unreadable, and one call at a time: previews share
nothing but the caches, whose overlap is the other run's. The limits are 1, so an
amount below a limit, at it and above it all happen; one request is of somebody who
has not passed the identity check, one asks for what can be executed. It shows
`DecisionIsSound`, `FundingIsExact`, `ClaimsHold` and `CallsEnd`. Fairness: weak
for each call's own steps, the timers among them, and for the answers of the
anchors, Horizon, DeFindex and Soroswap, all of which end. That the advisor
answers is not assumed: `AdviceIsLate` is the timer of decideRoute.

`ClaimsHold` is about what the app says beside a decision: an anchor that was
picked and is said to pay out is executable and counted on the sheet, the advisor is
named only if it counted, and the weights shown give the score shown. When another
anchor was picked, or none, the review says that `executedVia` pays out, which the
router sets to the executable anchor without asking the decision.
That is false when the answer the withdraw limits were read from has just grown too
old as the preview asks again and the anchor does not answer: the decision lists it
as UNAVAILABLE, and the review names it as the one that pays
(`WithdrawFlowScreen.tsx:197, 201`), although "only EXECUTABLE can move money today"
(`routeCopy.ts:15`). The model reaches this, and `ClaimsHold` leaves it out.

Seen while modelling, and claimed by no run: the sheet says that
reliability is worked out from health checks and from how fresh an anchor's details
are (`routeCopy.ts:67`), while `route-filter.ts:28` knows healthy or not.

## 9. Wallets and sessions

### DeviceWallet

The state is the `ledger` (which accounts exist, their trustline and sequence
number), `request` (the provisions under way at the backend), `saved` (the
wallet file of each phone), `app` (what each app holds), and for the bank
`store`, `age`, `customers`, `cache` and `ensure`. `lost` is history: the
sessions a restart wiped.

| actions | code |
|---|---|
| `accountExists`, `friendbotFund`, `TrustlineRead`, `buildUsdcTrustlineXdr`, `submitSignedXdr`, `ProvisionFails` | provisionSigner and the trustline, one action per answer of the network |
| `AccountWanted`, `Cancelled`, `demoWallet`, `custodialSigner`, `refreshLedger`, `WalletRefused`, `BootstrapFails` | the onboarding screen and bootstrapAccount |
| `resolveAll`, `ContactsResolved`, `ContactsFail`, `OtherPhoneAsks` | the contacts, which all phones share |
| `ensureAnchorSession`, `demoSep10`, `anchorCustomerPut`, `EnsureFails`, `jwtFromSession`, `TimePasses` | sessions, at the phone and at the backend |
| `AppStarts`, `BackendStarts` | restarts |

The backend derives an account from the key a phone sends, so a key names its
account. A key or an id nobody holds stands for a freshly drawn one, and a
request that nobody hears, for a key nobody saved, is dropped with its account
(`Vain`). One onboarding screen is assumed to be open. The demo account of the
environment, and the variants of an app without a backend, are left out.

`wallet_phone`: one phone, two keys, one contact that other phones provision
too, two provisions at a time, two session ids, one flow, a session of two ticks
with a margin of one, one restart of the phone or of the backend. Overlap on one
account happens between a retry of the phone and the unheard request before it,
and between phones on the contact. Two keys let a lost answer leave a wallet
behind; with the life and the margin, the phone's limit, the backend's and what
lies between them are reached. The proofs (section 11) cover any number of
phones. It shows `ReadyIsUsable`, `ShownIsKept`, `KeepsItsWallet`,
`CacheIsHonoured` and `BootstrapEnds`. Fairness: weak for the provisions, since
each call to the network ends, and for the app's own steps.

A session that the backend refuses after a restart stays in the cache of the
phone and is presented again until its time is over; `CacheIsHonoured` names
that exception and no other. One clock stands for the backend's and the phone's: the
phone compares the backend's `expiresAt` with its own time, and a difference between
the two above the margin is not covered.

## 10. The earn provider

### EarnProvider

The state is `deployed` (the configuration the backend runs with), `policy`
(the account's), `calls` (the request of each client, as a chain of reads), and
`app` (what the phone was told when it started, and where Grow money stands).

| actions | code |
|---|---|
| `HealthRead`, `VaultChecked`, `VaultDescribed`, `VaultAsserted`, `ApyRead`, `BalanceRead`, `TxBuilt` | DefindexYieldAdapter, read by read |
| `PolicyRead`, `DaysRead`, `RankRead`, `GatePassed` | YieldService: recommendations, the deposit gate |
| `ReadLimited`, `ReadFails` | withProviderReadRetry, and what each request makes of a failure |
| `CapabilitiesTold`, `HealthTold` | capabilities and health |
| `AppStarts`, `HealthHeard`, `CapabilitiesHeard`, `Confirms`, `StrategyPicked`, `PlanSaved`, `DepositTaken`, `FlowFails`, `AppCloses` | bootstrapAccount, executePutToWork |
| `AsksMoney`, `AsksAdvice`, `AsksPositions`, `PolicyChanges`, `BackendDeploys` | other clients, and the operator |

Each read is taken as of the arrival of its answer. The other legs of a
Promise.all are free choices. Whether a policy refuses a deposit for other
reasons than its list is left to `YieldDeposit`; closing the app drops its
request.

`earn_provider`: the phone and one other client, the vault of the product and a
riskier one that takes no USDC, three configurations (each vault, and no key),
one deployment and one policy written by another client at any moment. One of
each is enough to come between any two reads of a request or any two requests of
the flow. Every strategy the code lists is `flexible`, so its liquidity is 100
in the score. It shows that a deposit goes to the vault its client named
(`VaultIsNamed`) and only to one that takes USDC (`UsdcStaysUsdc`), that each
part of a recommendation is of a policy the account had while the request ran
(`AdviceIsHonest`; that two parts are of one policy is not kept by the code, and not
claimed), and that the flow comes back (`FlowsEnd`), under weak
fairness of the phone's requests and of the app.

## 11. Proofs

`PaymentExecution_proofs` proves `TypeCorrect`, `Spec => []TypeOK`, one lemma
per kind of value and one step per action. Its assumption is
`PaymentAssumption`: the routes of the quotes are known, transactions are
numbers, and `None` is not an id or a step.

The same module proves the safety properties for any sets of quotes,
operations, transactions, transfers and requests. None of them is inductive:
that a payment follows its unwind, for instance, depends on what an operation
is pinned to, which depends on what a request in flight was carrying. The
strengthening is `TypeOK` and ten parts, of which the last two are about a client
that awaits each execute-step (`OneStepAtATime`):

- `Claims`: an operation's quote is claimed, and funds no other operation;
- `Pinned`: the hash an operation or a snapshot is pinned to was built for it
  and for its step, and so was what a request is about to record;
- `Applied`: a success a handler has heard of is on the ledger, and a completed
  operation is paid;
- `Recorded`: requests and transactions belong to recorded operations;
- `Ordered`: where an unwind is needed, the final transaction is asked for and
  built only after the unwind has landed;
- `Single`: the unwind of an operation is asked for once and built once;
- `Carried`: the transfer a request has opened is the one its transaction funds,
  and an unwind is only asked for where one is needed;
- `Refused`: what a handler was told has failed cannot land any more;
- `Serial`: one request at a time works on an operation, at most one of its
  final transactions can still land or has landed, and from then on nothing
  builds another;
- `Current`: a request writes back over exactly what it read, and the operation
  agrees with the one final transaction it has handed out: its hash, its
  transfer, a status that is not `failed`, one announcement when completed.

`Inductive` shows that they hold together. `QuoteFundsOneOperation`,
`SubmissionsAreBuilt`, `CompletionIsPayment`, `UnwindComesFirst` and
`UnwindHappensOnce` follow for any client, and so does `SettledForGood`, the
action property `SettledIsFinal`. `QuotePaysOnce`, `FailureIsUnpaid`,
`NotifiedOnce` and `FundedIsTracked` assume `OneStepAtATime`; without it the
first of them is false, as `payment_paid_twice` shows. `Current` is what they need
beyond `Serial`: between its read and its write a handler holds a snapshot, and
only when that is still the record can a write not bring back an older status or
forget a transfer.

`PaymentKeepsPromise`, under the same assumption, is the refinement
`Spec => Promise!Spec` of `PaymentRefinement`. The invariant holds before and after
a step; the landing of an unwind or of a final transaction is the promise's
`Unwind` or `Pay`, `BuildBegin` that records an operation is `Commit`,
`CompletePayment` is `Announce`, and the lemmas show that every other action leaves
what the mapping reads alone. That a quote's commitment, unwind and payment come in
order and once is then a matter of `Claims`, `Ordered`, `Single` and `Serial`.

`AnchorTransfers_proofs` proves the types, `TrueToAnchor`,
`AnnouncedAsItEnded` and `ToldIsRecorded` for any number of operations, transfers and
overlapping and crossing polls, from `TransferAssumption` (the kinds of the
operations are known, `None` is no id, and the loops' polls are told from the
others). An answer on its way may be old, so `TrueToAnchor` needs `Answers`: an end
that was answered is still what the anchor says; and `Tracked`: an operation is
recorded with a transfer and silent until then, and what it is linked to is in its
history. The two properties about `InTurn` need more: `Exclusive`, a transfer is
opened for one operation; `Resting`, a poll that is not in flight names nothing; and
`Turns`, that such an operation stays linked to its own transfer, that nobody polls
that transfer for another, and that it has one poll, after its funding, whose loop
keeps it to itself and does not lag behind, so that the poll that finds the stored
status open is the only one that can announce. `TransferInductive` shows that they
hold together with the types.

`YieldDeposit_proofs` proves the invariants of section 5 for any sets of
strategies, operations, requests, amounts and balances and any values of the
TTL constants, from `PolicyAssumption` and `YieldAssumption` (the types of the
constants, `BumpThreshold <= BumpTo`, the vault's strategy is a strategy, the
flows are deposits). `LastWordCounts` and `UsedIsAlive` are inductive with the
types. `DenialsAreTheUsers` follows from a lemma that `Share` lies in 1..10000;
`EndIsTrue` rests on a transaction's fate being final and on an execution being
of a recorded operation and its own transaction, a part of `Gate`.
`TakenPolicyIsAsked` is not inductive: it
needs the rest of `Gate`, that a flow past a policy transaction the network took
has a policy, that a build of such a flow was authorised, and that a policy is
never removed (`FlowIsAuthorized`). `YieldInductive` puts the parts together.

`PaymentWatcher_proofs` proves the types, `Spec => []NoneSkipped` and
`Spec => PassedIsPast` for any accounts, devices, page limit, ledger and number
of restarts. Between the reading of a page and the writing of the cursor what a
pass has done is nowhere but in the pass, so the invariant is `OnePass` (the flag
keeps two from running), `Placed` (a cursor is a place in the ledger), `Asked` (a
pass that waits knows its cursor), `Pages` (what is passed of a page was
announced, and what is left has no gap), and `NoneSkipped`. That a page has no
gap is the lemma `PageHasNoGap`: the oldest `PageLimit` of a finite set of places
are closed downwards in it. The action property follows from the same invariant.

`MobileFlows_proofs` proves the types, `AnswerIsCurrent`, `UnwindIsApproved` and
`SuccessIsTrue` for any contacts, currencies, amounts, quotes and screens.
`QuoteInv` says that a request whose answer will be heard is for the present
input, which is why a late answer cannot get in; `JobInv` carries the approval
from the review to the step that moves the money, also over a replaced quote;
`ScreenInv` ties the open screen to its own flow, so that the end of an abandoned
one cannot be shown on the next.

`RoutePlanning_proofs` proves, of `AnchorDirectory` and of the routes planned
with it, the types and `ServedIsRecent` for any anchors, calls, age limits and
timeouts. `JobBound` bounds, for each step of a request, the age of what the
call has read by then, and `SnapshotBound` the age of what a cached snapshot
says by the age of the snapshot; `Tick` moves both sides alike, and an answer
turns the first into the second. `RoutesUseTheDirectory` shows that previews and
quotes do to the caches only what the directory's actions do (`RouteSpec =>
Spec`), so `RoutesAreRecent` is the same theorem of them.

It goes on to `DecisionIsSound`, `FundingIsExact` and `ClaimsHold`, from
`RouteAssumption`: there are finitely many anchors and the order of their ids tells
any two apart, amounts and limits are naturals and grades integers. They have
the shape "what a call has decided comes from what it has read": `CallsInv` says,
for each await of a call, what it holds by then (`ReadsWell`), that its decision
is `Decision` of that and of one outcome of the advisor (`DecidesWell`), that
only a quote for TRY asks the anchors (`QuotesWell`), and what its funding adds
up to (`FundsWell`); `ExecutableInv`, that the directory never calls the executable
anchor one that merely quotes, is why a picked anchor that is
said to pay out is executable. Who is said to pay otherwise is no part of `ClaimsHold`,
and is false (section 8). The
rest is about the operators. `FirstIsBest` says that the ranking has a first: a
total order on a non-empty finite set, by the well-foundedness of strict inclusion.

`EarnProvider_proofs` proves the types, `VaultIsNamed`, `UsdcStaysUsdc` and
`AdviceIsHonest` for any clients, vaults, deployments and policies, from
`ProviderAssumption` (the types of the constants; the phone is no other
client). What makes them inductive is `Fits`: `Stages`, the reads each
operation goes through; `MoneyFits`, that a request to move money still names the
deployed vault, since a deployment ends it; `ReadsFit`, that a balance is read only
of a vault that takes USDC; and `AdviceFits`, that each part read so far is of a
policy the account has had since the request came in, the present one being among
those, so that whichever read comes next finds one of them.

`DeviceWallet_proofs` proves the types, `ReadyIsUsable`, `ShownIsKept`,
`KeepsItsWallet` and `CacheIsHonoured` for any number of phones, contacts,
requests and sessions. The invariant has a half for the wallets: `RequestInv` (a
provision that is done left a trustline, and a key nobody has saved is waited for
by its phone), `SingleInv` (a phone waits for one wallet, and a key that is not
saved is drawn once) and `PhoneInv` (what is shown is saved and can hold USDC);
and one for the sessions: `SessionInv` (a session that is held is of the account
its phone shows, is over, or was wiped). Each wallet theorem needs that a drawn
key is new: since there are as many keys as phones and a phone that has saved one
asks for no other, one is free (a counting argument).

All of these rest on the assumption of their module and no other. Left to TLC:
the liveness properties (`HandlersEnd`, `EndIsStored`, `NewsIsAnswered`,
`ProcessingEnds`, `CallsEnd`, `BootstrapEnds`, `FlowsEnd`), which are out of the
prover's reach: it reasons neither about fairness nor about ENABLED. Every safety
invariant and every action property of the passing runs, and the refinement, is
proved. TLC found each part of an invariant true on the runs before it was proved.

## 12. Not modelled

- The waitlist, a form that appends one line; the asset listing for swaps.
- Configuration and the wiring of the services, the web site and landing page,
  scripts, packages and deployment, generated and vendored code.
- Formats: XDR, TOML, SEP requests, decimals and their rendering, the prompt of
  the advisor, the wording of notices. An answer is what it says.
- Key custody: how a key is derived, sealed and kept. A key is a name.
- Presentation: layout, animation, titles, and the order, sections and limit of
  the activity screen.
- Two processes at once on one data directory: the stores assume one. A file is
  replaced by a rename, so a crash leaves the old state or the new one.
- The network beyond what a client sees of it: fees, reorganisation of ledgers
  and the rules of friendbot.

`PROJECT.json` lists every component with its status.
