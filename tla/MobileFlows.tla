---------------------------- MODULE MobileFlows ----------------------------
(***************************************************************************)
(* The four screens of the app that move money. Each keeps the user's input *)
(* and a live quote for it (useLiveQuote), and, once the user confirms,     *)
(* runs a flow of flows.ts: a new quote if the old one is about to expire,  *)
(* the build, the signed steps, the reload of the ledger. A screen may be   *)
(* left at any time (the routes allow the back gesture); its flow goes on.  *)
(*                                                                         *)
(* An event handler, the render it causes and the effects of that render    *)
(* are one step: nothing of the app runs between them. What the backend     *)
(* does with a build or a step is in PaymentExecution, AnchorTransfers and  *)
(* YieldDeposit; here it accepts, refuses or does not answer.               *)
(***************************************************************************)
EXTENDS Integers, Sequences

CONSTANTS
    Contacts,   \* the contacts of the pay screen
    First,      \* the one it opens with
    Currencies, \* what the menus offer
    Rail,       \* the one currency a flow can move
    Blocked,    \* currencies the capabilities rule out
    MaxAmount,  \* the bound on amounts
    MaxOffers,  \* the bound on quotes
    MaxScreens, \* the bound on screens opened
    None        \* no contact

ASSUME FlowsAssumption ==
    /\ First \in Contacts
    /\ None \notin Contacts
    /\ Rail \in Currencies
    /\ Blocked \subseteq Currencies \ {Rail}
    /\ MaxAmount \in Nat \ {0}
    /\ MaxOffers \in Nat
    /\ MaxScreens \in Nat

VARIABLES
    opened,    \* screens opened so far; the last one is the open one
    flow,      \* the flow of the open screen, or "home"
    step,      \* its step
    amount,    \* the amount typed
    currency,  \* the currency chosen
    to,        \* pay: the contact; withdraw: the kind of destination; addMoney: the source
    deposited, \* putToWork: whether the flow deposited
    account,   \* pay: the contact whose account is resolved
    directory, \* the cached request for the contacts' accounts
    available, \* the balance the app shows
    live,      \* the state of useLiveQuote
    timer,     \* its debounce timer is running
    fetches,   \* its requests whose answer will be heard
    offers,    \* the quotes given
    job        \* the flow each screen has started

inputVars == <<opened, flow, to, deposited>>
contactVars == <<account, directory>>
quoteVars == <<live, timer, fetches>>
vars == <<inputVars, step, amount, currency, contactVars, available, quoteVars, offers, job>>

Amounts == 0..MaxAmount

Screens == 1..MaxScreens

Flows == {"pay", "withdraw", "addMoney", "putToWork"}

NoQuote == [data |-> 0, loading |-> FALSE]

NoKey == [flow |-> "home", currency |-> Rail, amount |-> 0, account |-> None]

NoJob == [at |-> "idle", offer |-> 0, key |-> NoKey, shown |-> 0,
          approve |-> FALSE, moved |-> FALSE]

Init ==
    /\ opened = 0
    /\ flow = "home"
    /\ step = "home"
    /\ amount = 0
    /\ currency = Rail
    /\ to = None
    /\ deposited = TRUE
    /\ account = None
    /\ directory = "unknown"
    /\ available \in Amounts
    /\ live = NoQuote
    /\ timer = FALSE
    /\ fetches = {}
    /\ offers = << >>
    /\ job = [s \in Screens |-> NoJob]

----------------------------------------------------------------------------
(* The live quote *)

\* What a quote depends on.
KeyOf(f, c, a, r) == [flow |-> f, currency |-> c, amount |-> a, account |-> r]

Key == KeyOf(flow, currency, amount, account)

\* The screens' `enabled`: only pay and withdraw look at the capabilities.
PayAsks(k) == k.amount > 0 /\ k.currency \notin Blocked /\ k.account # None

WithdrawAsks(k) == k.amount > 0 /\ k.currency \notin Blocked

AddMoneyAsks(k) == k.amount > 0

Asks(k) ==
    \/ k.flow = "pay" /\ PayAsks(k)
    \/ k.flow = "withdraw" /\ WithdrawAsks(k)
    \/ k.flow = "addMoney" /\ AddMoneyAsks(k)

\* Mutant: the clean-up forgets the request.
StillHeard == fetches

\* The clean-up of the effect: whatever its request answers now is dropped.
Cancelled == {}

\* The effect: a key that asks starts a timer and keeps the data it has, another
\* one clears the state.
Effect(k, data) ==
    /\ live' = IF Asks(k) THEN [data |-> data, loading |-> TRUE] ELSE NoQuote
    /\ timer' = Asks(k)
    /\ fetches' = Cancelled

\* It runs again when the key has changed.
EffectIfNew(k) == IF k = Key THEN UNCHANGED quoteVars ELSE Effect(k, live.data)

TimerFires ==
    /\ timer
    /\ timer' = FALSE
    /\ fetches' = fetches \cup {Key}
    /\ UNCHANGED <<inputVars, step, amount, currency, contactVars, available, live, offers, job>>

\* quotePay and quoteWithdrawTry move one currency, quoteAddMoney a bank deposit.
PayQuotable(k) == k.currency = Rail /\ k.account # None

WithdrawQuotable(k) == k.currency = Rail

AddMoneyQuotable(k) == k.currency = Rail /\ to = "bank"

Quotable(k) ==
    \/ k.flow = "pay" /\ PayQuotable(k)
    \/ k.flow = "withdraw" /\ WithdrawQuotable(k)
    \/ k.flow = "addMoney" /\ AddMoneyQuotable(k)

\* A new quote. A payment is quoted on the available balance; a cash-out may need
\* money from Earn.
Offered(k, unwind) ==
    /\ Len(offers) < MaxOffers
    /\ unwind => k.flow = "withdraw"
    /\ offers' = Append(offers, [key |-> k, unwind |-> unwind, expiring |-> FALSE, spent |-> FALSE])

QuoteAnswered(k, unwind) ==
    /\ k \in fetches
    /\ Quotable(k)
    /\ Offered(k, unwind)
    /\ fetches' = fetches \ {k}
    /\ live' = [data |-> Len(offers) + 1, loading |-> FALSE]
    /\ UNCHANGED <<inputVars, step, amount, currency, contactVars, available, timer, job>>

QuoteFails(k) ==
    /\ k \in fetches
    /\ fetches' = fetches \ {k}
    /\ live' = NoQuote
    /\ UNCHANGED <<inputVars, step, amount, currency, contactVars, available, timer, offers, job>>

\* The button beside a failed quote. In its place the pay screen shows that the account
\* is missing, and both show that the currency is blocked.
PayRetry == flow = "pay" /\ PayAsks(Key)

WithdrawRetry == flow = "withdraw" /\ WithdrawAsks(Key)

AddMoneyRetry == flow = "addMoney" /\ AddMoneyAsks(Key)

RetryQuote ==
    /\ step = "amount"
    /\ PayRetry \/ WithdrawRetry \/ AddMoneyRetry
    /\ live = NoQuote
    /\ Effect(Key, 0)
    /\ UNCHANGED <<inputVars, step, amount, currency, contactVars, available, offers, job>>

\* A quote in use enters the last half minute of its life, in which no flow builds on it.
OfferExpires(o) ==
    /\ o \in DOMAIN offers
    /\ o = live.data \/ \E s \in Screens : job[s].at = "start" /\ job[s].offer = o
    /\ ~offers[o].expiring
    /\ offers' = [offers EXCEPT ![o].expiring = TRUE]
    /\ UNCHANGED <<inputVars, step, amount, currency, contactVars, available, quoteVars, job>>

----------------------------------------------------------------------------
(* The contacts' accounts: one request for all of them, cached *)

DirectoryAnswered ==
    /\ directory = "loading"
    /\ directory' = "known"
    /\ account' = IF flow = "pay" THEN to ELSE account
    /\ EffectIfNew(KeyOf(flow, currency, amount, account'))
    /\ UNCHANGED <<inputVars, step, amount, currency, available, offers, job>>

DirectoryFails ==
    /\ directory = "loading"
    /\ directory' = "unknown"
    /\ UNCHANGED <<inputVars, step, amount, currency, account, available, quoteVars, offers, job>>

----------------------------------------------------------------------------
(* The screens *)

Open(f, source, first) ==
    /\ flow = "home"
    /\ opened < MaxScreens
    /\ opened' = opened + 1
    /\ flow' = f
    /\ step' = first
    /\ amount' = 1
    /\ currency' = Rail
    /\ to' = source
    /\ deposited' = TRUE

\* The contacts are resolved as soon as the pay screen opens.
OpenPay ==
    /\ Open("pay", First, "recipient")
    /\ account' = IF directory = "known" THEN First ELSE None
    /\ directory' = IF directory = "unknown" THEN "loading" ELSE directory
    /\ Effect(KeyOf("pay", Rail, 1, account'), 0)
    /\ UNCHANGED <<available, offers, job>>

OpenWithdraw ==
    /\ Open("withdraw", "bank", "amount")
    /\ account' = None
    /\ Effect(KeyOf("withdraw", Rail, 1, None), 0)
    /\ UNCHANGED <<directory, available, offers, job>>

\* The source sheet; receiving is a screen of its own.
Sources == {"bank", "wallet", "card"}

OpenAddMoney(source) ==
    /\ Open("addMoney", source, IF source = "wallet" THEN "network" ELSE "amount")
    /\ account' = None
    /\ Effect(KeyOf("addMoney", Rail, 1, None), 0)
    /\ UNCHANGED <<directory, available, offers, job>>

OpenPutToWork ==
    /\ Open("putToWork", None, "amount")
    /\ account' = None
    /\ Effect(KeyOf("putToWork", Rail, 1, None), 0)
    /\ UNCHANGED <<directory, available, offers, job>>

\* The amount step of a flow.
Enters(f) == flow = f /\ step = "amount"

\* Typing, or a quick amount.
TypeAmount(a) ==
    /\ \E f \in Flows \ {"putToWork"} : Enters(f)
    /\ a # amount
    /\ amount' = a
    /\ EffectIfNew(KeyOf(flow, currency, a, account))
    /\ UNCHANGED <<inputVars, step, currency, contactVars, available, offers, job>>

ChooseCurrency(c) ==
    /\ \E f \in Flows \ {"putToWork"} : Enters(f)
    /\ c # currency
    /\ currency' = c
    /\ EffectIfNew(KeyOf(flow, c, amount, account))
    /\ UNCHANGED <<inputVars, step, amount, contactVars, available, offers, job>>

\* The put-to-work screen has no quote and clamps to the balance it shows.
TypeAmountToWork(a) ==
    /\ Enters("putToWork")
    /\ amount' = IF a <= available THEN a ELSE available
    /\ UNCHANGED <<inputVars, step, currency, contactVars, available, quoteVars, offers, job>>

Goes(next) ==
    /\ step' = next
    /\ UNCHANGED <<inputVars, amount, currency, contactVars, available, quoteVars, offers, job>>

\* The recipient step: the contacts, and other ways that stand for one of them.
ChoosesRecipient == flow = "pay" /\ step = "recipient"

\* A contact is chosen, and a currency it can be paid in. With the accounts at hand
\* the old one is replaced within one render, or it is cleared in a render before;
\* without them it is cleared until they arrive.
PickRecipient(c, cur, cleared) ==
    LET known == c = to \/ directory = "known"
        next == IF c = to THEN account ELSE IF known THEN c ELSE None
        k == KeyOf("pay", cur, amount, next)
    IN
    /\ ChoosesRecipient
    /\ cur \notin Blocked
    /\ cleared => c # to
    /\ to' = c
    /\ step' = "amount"
    /\ currency' = cur
    /\ account' = next
    /\ directory' = IF known \/ directory # "unknown" THEN directory ELSE "loading"
    /\ IF k = Key THEN UNCHANGED quoteVars ELSE Effect(k, IF cleared THEN 0 ELSE live.data)
    /\ UNCHANGED <<opened, flow, deposited, amount, available, offers, job>>

\* A data set loading is not waited for: Continue looks at the data alone.
PayContinue ==
    /\ Enters("pay")
    /\ amount > 0 /\ account # None /\ live.data # 0
    /\ Goes("review")

WithdrawContinue ==
    /\ Enters("withdraw")
    /\ amount > 0 /\ live.data # 0
    /\ Goes("destination")

AddMoneyContinue ==
    /\ Enters("addMoney")
    /\ amount > 0 /\ live.data # 0
    /\ Goes("review")

PickNetwork ==
    /\ flow = "addMoney" /\ step = "network"
    /\ Goes("amount")

\* The listed destinations.
ChoosesDestination == flow = "withdraw" /\ step = "destination"

PickDestination(d) ==
    /\ ChoosesDestination
    /\ to' = d
    /\ step' = "review"
    /\ UNCHANGED <<opened, flow, deposited, amount, currency, contactVars, available,
                   quoteVars, offers, job>>

\* A saved new account is picked when its sheet is dismissed.
NewBankAccount == PickDestination("bank")

PutToWorkContinue ==
    /\ Enters("putToWork")
    /\ amount > 0 /\ amount <= available
    /\ Goes("strategy")

PickStrategy ==
    /\ flow = "putToWork" /\ step = "strategy"
    /\ Goes("review")

\* goBack: none in processing.
PayBack == [amount |-> "recipient", review |-> "amount"]

WithdrawBack == [destination |-> "amount", review |-> "destination"]

AddMoneyBack == [amount |-> "network", review |-> "amount"]

PutToWorkBack == [strategy |-> "amount", review |-> "strategy"]

GoBack ==
    \/ flow = "pay" /\ step \in DOMAIN PayBack /\ Goes(PayBack[step])
    \/ flow = "withdraw" /\ step \in DOMAIN WithdrawBack /\ Goes(WithdrawBack[step])
    \/ /\ flow = "addMoney" /\ step \in DOMAIN AddMoneyBack
       /\ step = "amount" => to = "wallet"
       /\ Goes(AddMoneyBack[step])
    \/ flow = "putToWork" /\ step \in DOMAIN PutToWorkBack /\ Goes(PutToWorkBack[step])

\* The screen goes. A flow under way goes on.
Left ==
    /\ flow' = "home"
    /\ step' = "home"
    /\ live' = NoQuote
    /\ timer' = FALSE
    /\ fetches' = Cancelled
    /\ amount' = 0 /\ currency' = Rail /\ to' = None /\ account' = None /\ deposited' = TRUE
    /\ job' = [job EXCEPT ![opened] = IF @.at = "idle" THEN NoJob ELSE @]
    /\ UNCHANGED <<opened, directory, available, offers>>

\* The back button of a first step.
Back ==
    /\ \/ flow \in {"withdraw", "putToWork"} /\ step = "amount"
       \/ flow = "addMoney" /\ step = IF to = "wallet" THEN "network" ELSE "amount"
       \/ ChoosesRecipient
    /\ Left

\* Done, close, or the way to another screen.
Done == step = "success" /\ Left

\* The gesture, which every route allows, in any step.
SwipeBack == flow # "home" /\ Left

----------------------------------------------------------------------------
(* The flows *)

\* The review of a flow.
Reviews(f) == flow = f /\ step = "review"

\* A button that is busy takes no press.
isSubmitting == job[opened].at # "idle"

\* The flow runs on what the screen held when Confirm was pressed; `shown` is the
\* amount its review showed.
Confirm(offer, shown, approve) ==
    /\ ~isSubmitting
    /\ job' = [job EXCEPT ![opened] =
                 [at |-> IF flow = "putToWork" THEN "send" ELSE "start", offer |-> offer,
                  key |-> Key, shown |-> shown, approve |-> approve, moved |-> FALSE]]
    /\ step' = "processing"
    /\ UNCHANGED <<inputVars, amount, currency, contactVars, available, quoteVars, offers>>

\* What a review makes of its quote: the amount, and whether money leaves Earn.
PayShown == offers[live.data].key.amount

AddMoneyShown == offers[live.data].key.amount

PayUnwinds == offers[live.data].unwind

WithdrawUnwinds == offers[live.data].unwind

\* Confirm is enabled with a quote and, in the pay review, an account.
PayConfirmable == Reviews("pay") /\ live.data # 0 /\ account # None

WithdrawConfirmable == Reviews("withdraw") /\ live.data # 0

AddMoneyConfirmable == Reviews("addMoney") /\ live.data # 0

PutToWorkConfirmable == Reviews("putToWork")

ConfirmPay == PayConfirmable /\ Confirm(live.data, PayShown, PayUnwinds)

\* The withdraw review shows the amount typed. A wallet is refused on the spot.
ConfirmWithdraw ==
    /\ WithdrawConfirmable
    /\ to = "bank"
    /\ Confirm(live.data, amount, WithdrawUnwinds)

ConfirmAddMoney == AddMoneyConfirmable /\ Confirm(live.data, AddMoneyShown, FALSE)

ConfirmPutToWork == PutToWorkConfirmable /\ Confirm(0, amount, FALSE)

\* A flow has ended. The screen that started it shows how, if it is still there.
Ended(s, outcome) ==
    /\ job' = [job EXCEPT ![s] = IF flow # "home" /\ s = opened
                                   THEN [@ EXCEPT !.at = "idle"] ELSE NoJob]
    /\ step' = IF flow # "home" /\ s = opened THEN outcome ELSE step

\* The flow goes on.
JobMoves(s, at, offer, moved) ==
    /\ job' = [job EXCEPT ![s] = [@ EXCEPT !.at = at, !.offer = offer, !.moved = moved]]
    /\ UNCHANGED step

others == <<inputVars, amount, currency, contactVars, quoteVars>>

isExpiring(s) == offers[job[s].offer].expiring

\* A quote about to expire is replaced by one for the input; the approval stays.
Requoted(s, unwind) ==
    /\ job[s].at = "start" /\ isExpiring(s)
    /\ Offered(job[s].key, unwind)
    /\ JobMoves(s, "build", Len(offers) + 1, FALSE)
    /\ UNCHANGED <<others, available>>

\* Mutant: a quote that needs more than was approved is built all the same.
BuiltUnapproved(s) ==
    LET o == job[s].offer IN
    /\ job[s].at = "build" \/ (job[s].at = "start" /\ ~isExpiring(s))
    /\ ~offers[o].spent \/ job[s].key.flow = "addMoney"
    /\ offers' = [offers EXCEPT ![o].spent = TRUE]
    /\ JobMoves(s, "send", o, FALSE)
    /\ UNCHANGED <<others, available>>

\* build takes a quote once and wants an unwind approved; a deposit is opened on a
\* quote of the anchor, which may refuse.
Built(s) ==
    LET o == job[s].offer IN
    /\ job[s].at = "build" \/ (job[s].at = "start" /\ ~isExpiring(s))
    /\ ~offers[o].spent \/ job[s].key.flow = "addMoney"
    /\ offers[o].unwind => job[s].approve
    /\ offers' = [offers EXCEPT ![o].spent = TRUE]
    /\ JobMoves(s, "send", o, FALSE)
    /\ UNCHANGED <<others, available>>

\* Mutant: the failure is caught, and the screen not told.
BuildFailsUntold(s, spent) ==
    /\ job[s].at \in {"start", "build"}
    /\ spent => job[s].at = "build" \/ ~isExpiring(s)
    /\ offers' = [offers EXCEPT ![job[s].offer].spent = @ \/ spent]
    /\ job' = [job EXCEPT ![s] = NoJob]
    /\ UNCHANGED <<others, available, step>>

\* The quote or the build fails; a build may have taken the quote all the same.
BuildFails(s, spent) ==
    LET o == job[s].offer IN
    /\ job[s].at \in {"start", "build"}
    /\ spent => job[s].at = "build" \/ ~isExpiring(s)
    /\ offers' = [offers EXCEPT ![o].spent = @ \/ spent]
    /\ Ended(s, "review")
    /\ UNCHANGED <<others, available>>

\* The steps are signed and executed: the last of them lands.
Landed(s) ==
    /\ job[s].at = "send"
    /\ JobMoves(s, "landed", job[s].offer, TRUE)
    /\ UNCHANGED <<others, available, offers>>

\* Mutant: a failed step is taken for the end.
SendFailsAsSuccess(s) ==
    /\ job[s].at = "send" \/ (job[s].at = "landed" /\ job[s].moved)
    /\ Ended(s, "success")
    /\ UNCHANGED <<others, available, offers>>

\* A step fails, or one that landed goes unheard, or its transfer is polled for too long.
SendFails(s) ==
    /\ job[s].at = "send" \/ (job[s].at = "landed" /\ job[s].moved)
    /\ Ended(s, "review")
    /\ UNCHANGED <<others, available, offers>>

\* executePutToWork without a strategy writes the policy alone.
PolicyAlone(s) ==
    /\ job[s].at = "send" /\ job[s].key.flow = "putToWork"
    /\ JobMoves(s, "landed", 0, FALSE)
    /\ UNCHANGED <<others, available, offers>>

\* refreshLedgerQuietly: the balances become what the backend says by now, or stay.
LedgerReloaded(s, balance) ==
    /\ job[s].at = "landed"
    /\ available' = balance
    /\ Ended(s, "success")
    /\ deposited' = IF flow = "putToWork" /\ s = opened THEN job[s].moved ELSE deposited
    /\ UNCHANGED <<opened, flow, to, amount, currency, contactVars, quoteVars, offers>>

----------------------------------------------------------------------------
UserStep ==
    \/ OpenPay \/ OpenWithdraw \/ OpenPutToWork
    \/ \E source \in Sources : OpenAddMoney(source)
    \/ \E a \in Amounts : TypeAmount(a) \/ TypeAmountToWork(a)
    \/ \E c \in Currencies : ChooseCurrency(c)
    \/ \E c \in Contacts, cur \in Currencies, cleared \in BOOLEAN : PickRecipient(c, cur, cleared)
    \/ PayContinue \/ WithdrawContinue \/ AddMoneyContinue \/ PutToWorkContinue
    \/ PickNetwork \/ PickStrategy
    \/ NewBankAccount \/ \E d \in {"bank", "wallet"} : PickDestination(d)
    \/ RetryQuote \/ GoBack \/ Back \/ Done \/ SwipeBack
    \/ ConfirmPay \/ ConfirmWithdraw \/ ConfirmAddMoney \/ ConfirmPutToWork

QuoteStep ==
    \/ TimerFires
    \/ \E k \in fetches : QuoteFails(k) \/ \E unwind \in BOOLEAN : QuoteAnswered(k, unwind)
    \/ \E o \in 1..MaxOffers : OfferExpires(o)
    \/ DirectoryAnswered \/ DirectoryFails

JobStep(s) ==
    \/ \E unwind \in BOOLEAN : Requoted(s, unwind)
    \/ Built(s)
    \/ \E spent \in BOOLEAN : BuildFails(s, spent)
    \/ Landed(s) \/ SendFails(s) \/ PolicyAlone(s)
    \/ \E balance \in Amounts : LedgerReloaded(s, balance)

Next == UserStep \/ QuoteStep \/ \E s \in Screens : JobStep(s)

Spec == Init /\ [][Next]_vars

\* A flow goes on: each of its requests ends, and its poll gives up after two minutes.
FairSpec == Spec /\ \A s \in Screens : WF_vars(JobStep(s))

----------------------------------------------------------------------------
Keys == [flow : Flows \cup {"home"}, currency : Currencies, amount : Amounts,
         account : Contacts \cup {None}]

\* The shape of the state.
TypeOK ==
    /\ opened \in 0..MaxScreens
    /\ flow \in Flows \cup {"home"}
    /\ step \in {"home", "recipient", "network", "amount", "destination", "strategy",
                 "review", "processing", "success"}
    /\ amount \in Amounts
    /\ currency \in Currencies
    /\ to \in Contacts \cup Sources \cup {None}
    /\ deposited \in BOOLEAN
    /\ account \in Contacts \cup {None}
    /\ directory \in {"unknown", "loading", "known"}
    /\ available \in Amounts
    /\ live \in [data : 0..Len(offers), loading : BOOLEAN]
    /\ timer \in BOOLEAN
    /\ fetches \subseteq Keys
    /\ offers \in Seq([key : Keys, unwind : BOOLEAN, expiring : BOOLEAN, spent : BOOLEAN])
    /\ job \in [Screens -> [at : {"idle", "start", "build", "send", "landed"}, offer : 0..Len(offers),
                            key : Keys, shown : Amounts, approve : BOOLEAN, moved : BOOLEAN]]

\* A screen that is not waiting for a quote shows the quote of its present input:
\* answers that come out of order, or after the input went back, do not get in.
AnswerIsCurrent ==
    live.data # 0 /\ ~live.loading => offers[live.data].key = Key

\* Money leaves Earn only where the review the user confirmed said so, whatever the
\* quote that replaced an expiring one asks for.
UnwindIsApproved ==
    \A s \in Screens : job[s].moved /\ job[s].offer # 0 /\ offers[job[s].offer].unwind => job[s].approve

\* A screen that reports success reports it of a flow that moved the money, except for
\* the plan that was saved without a deposit, which it says.
SuccessIsTrue ==
    step = "success" => job[opened].moved \/ (flow = "putToWork" /\ ~deposited)

\* A screen that is processing, which has no way back, comes to an end.
ProcessingEnds == step = "processing" ~> step # "processing"

\* flows.ts: `tryAmount` is what lands in the bank, and a payment credits the account
\* of the contact. What moves is what the confirmed review showed.
ReviewIsWhatMoves ==
    \A s \in Screens : job[s].moved /\ job[s].key.flow \in {"pay", "withdraw"} =>
        /\ offers[job[s].offer].key.amount = job[s].shown
        /\ offers[job[s].offer].key.account = job[s].key.account
============================================================================
