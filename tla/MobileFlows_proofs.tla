-------------------------- MODULE MobileFlows_proofs --------------------------
(***************************************************************************)
(* Theorems about MobileFlows, for any contacts, currencies, amounts and    *)
(* numbers of screens and quotes: a screen shows the quote of its input,    *)
(* money leaves Earn as approved, and success is not shown in vain.         *)
(***************************************************************************)
EXTENDS MobileFlows, SequenceTheorems, TLAPS

Offers == [key : Keys, unwind : BOOLEAN, expiring : BOOLEAN, spent : BOOLEAN]

\* What useLiveQuote still waits for is the quote of the present input, and without
\* an input to quote it holds and waits for nothing.
QuoteInv ==
    /\ fetches \subseteq {Key}
    /\ AnswerIsCurrent
    /\ ~Asks(Key) => live = NoQuote /\ ~timer /\ fetches = {}

\* A flow that sends builds on a quote whose unwind was approved, and one that has
\* landed without moving money is a plan.
JobInv(j, given) ==
    /\ (j.at \in {"send", "landed"} \/ j.moved) /\ j.offer # 0 /\ given[j.offer].unwind => j.approve
    /\ j.at = "landed" => j.moved \/ j.key.flow = "putToWork"
    /\ j.at \in {"start", "build"} => j.offer # 0

\* The open screen waits for its own flow, and no screen yet to open has one.
ScreenInv ==
    /\ flow = "home" => step = "home"
    /\ flow # "home" => opened \in Screens
    /\ flow = "pay" => to \in Contacts
    /\ flow # "home" /\ job[opened].at # "idle" =>
          step = "processing" /\ job[opened].key.flow = flow
    /\ \A s \in Screens : s > opened => job[s] = NoJob

FlowsInv ==
    /\ TypeOK
    /\ QuoteInv
    /\ \A s \in Screens : JobInv(job[s], offers)
    /\ ScreenInv
    /\ SuccessIsTrue

----------------------------------------------------------------------------
(* Types *)

LEMMA KeyTypes ==
  /\ NoKey \in Keys
  /\ \A f \in Flows \cup {"home"}, c \in Currencies, a \in Amounts, r \in Contacts \cup {None} :
        /\ KeyOf(f, c, a, r) \in Keys
        /\ KeyOf(f, c, a, r).flow = f
  /\ First \in Contacts /\ Rail \in Currencies /\ 0 \in Amounts /\ 1 \in Amounts
  /\ MaxAmount \in Nat /\ MaxScreens \in Nat /\ MaxOffers \in Nat
  BY FlowsAssumption DEF NoKey, Keys, KeyOf, Amounts, Flows

\* The flows of the screens when n quotes have been given.
Jobs(n) == [at : {"idle", "start", "build", "send", "landed"}, offer : 0..n,
            key : Keys, shown : Amounts, approve : BOOLEAN, moved : BOOLEAN]

LEMMA TypeParts ==
  TypeOK <=>
    /\ opened \in 0..MaxScreens
    /\ flow \in Flows \cup {"home"}
    /\ step \in {"home", "recipient", "network", "amount", "destination", "strategy",
                 "review", "processing", "success"}
    /\ amount \in Amounts
    /\ currency \in Currencies
    /\ to \in Contacts \cup Sources \cup {None}
    /\ deposited \in BOOLEAN
    /\ account \in Contacts \cup {None}
    /\ directory \in {"unknown", "loading", "known"}
    /\ available \in Amounts
    /\ live \in [data : 0..Len(offers), loading : BOOLEAN]
    /\ timer \in BOOLEAN
    /\ fetches \subseteq Keys
    /\ offers \in Seq(Offers)
    /\ job \in [Screens -> Jobs(Len(offers))]
  BY DEF TypeOK, Offers, Jobs

LEMMA KeyType == TypeOK => Key \in Keys /\ Key.flow = flow
  BY KeyTypes DEF TypeOK, Key

LEMMA NoJobGood ==
  ASSUME NEW n \in Nat, NEW given
  PROVE  NoJob \in Jobs(n) /\ JobInv(NoJob, given)
  BY KeyTypes DEF NoJob, Jobs, JobInv

LEMMA OfferTypes ==
  ASSUME TypeOK
  PROVE  /\ offers \in Seq(Offers) /\ Len(offers) \in Nat
         /\ \A o \in 1..Len(offers) : offers[o] \in Offers
  BY TypeParts

LEMMA FlowsInit == Init => FlowsInv
<1> SUFFICES ASSUME Init PROVE FlowsInv
  OBVIOUS
<1>1. offers = << >> /\ offers \in Seq(Offers) /\ Len(offers) = 0
  BY DEF Init
<1>2. NoJob \in Jobs(0) /\ JobInv(NoJob, offers)
  BY NoJobGood
<1>3. job = [s \in Screens |-> NoJob]
  BY Zenon DEF Init
<1>4. NoQuote \in [data : 0..Len(offers), loading : BOOLEAN] /\ NoQuote.data = 0
  BY <1>1 DEF NoQuote
<1>5. TypeOK
  <2>1. job \in [Screens -> Jobs(Len(offers))]
    BY <1>1, <1>2, <1>3
  <2>2. /\ opened = 0 /\ flow = "home" /\ step = "home" /\ amount = 0 /\ currency = Rail
        /\ to = None /\ deposited = TRUE /\ account = None /\ directory = "unknown"
        /\ available \in Amounts /\ live = NoQuote /\ timer = FALSE /\ fetches = {}
    BY Zenon DEF Init
  <2>3. /\ opened \in 0..MaxScreens /\ amount \in Amounts /\ currency \in Currencies
        /\ to \in Contacts \cup Sources \cup {None} /\ account \in Contacts \cup {None}
    BY <2>2, KeyTypes
  <2>4. timer \in BOOLEAN /\ deposited \in BOOLEAN /\ fetches \subseteq Keys
    BY <2>2
  <2>5. live \in [data : 0..Len(offers), loading : BOOLEAN]
    BY <1>4, <2>2
  <2> QED BY <1>1, <2>1, <2>2, <2>3, <2>4, <2>5, TypeParts
<1>6. QuoteInv
  BY <1>4 DEF Init, QuoteInv, AnswerIsCurrent
<1>7. \A s \in Screens : JobInv(job[s], offers)
  BY <1>2, <1>3
<1>8. ScreenInv
  BY <1>3 DEF Init, ScreenInv
<1>9. SuccessIsTrue
  BY DEF Init, SuccessIsTrue
<1> QED BY <1>5, <1>6, <1>7, <1>8, <1>9 DEF FlowsInv

----------------------------------------------------------------------------
(* What the steps have in common *)

LEMMA EffectGood ==
  ASSUME TypeOK, NEW k, NEW data \in 0..Len(offers), Effect(k, data)
  PROVE  /\ live' \in [data : 0..Len(offers), loading : BOOLEAN]
         /\ timer' \in BOOLEAN
         /\ fetches' = {}
         /\ live'.data # 0 => live'.loading
         /\ ~Asks(k) => live' = NoQuote /\ ~timer'
<1>1. Asks(k) \in BOOLEAN
  BY DEF Asks, PayAsks, WithdrawAsks, AddMoneyAsks
<1>2. 0 \in 0..Len(offers)
  BY OfferTypes
<1> QED BY <1>1, <1>2 DEF Effect, NoQuote, Cancelled

\* After the effect of a new key the live quote is in order.
LEMMA EffectKeeps ==
  ASSUME TypeOK, NEW data \in 0..Len(offers), Effect(Key', data), offers' = offers
  PROVE  QuoteInv'
<1>1. /\ fetches' = {} /\ (live'.data # 0 => live'.loading)
      /\ ~Asks(Key') => live' = NoQuote /\ ~timer'
  BY EffectGood
<1>2. (AnswerIsCurrent)'
  BY <1>1 DEF AnswerIsCurrent
<1> QED BY <1>1, <1>2 DEF QuoteInv

\* A step of the open screen, whose flow is not under way: what it shows changes,
\* and with it the key of its quote.
LEMMA ScreenKeeps ==
  ASSUME FlowsInv,
         UNCHANGED <<opened, flow, deposited, available, offers, job>>,
         \/ step' = step
         \/ /\ flow # "home" /\ step # "processing"
            /\ step' \in {"recipient", "network", "amount", "destination", "strategy", "review"},
         amount' \in Amounts, currency' \in Currencies,
         to' \in Contacts \cup Sources \cup {None}, flow = "pay" => to' \in Contacts,
         account' \in Contacts \cup {None},
         directory' \in {"unknown", "loading", "known"},
         \/ UNCHANGED quoteVars /\ (Key' = Key \/ flow = "putToWork")
         \/ \E data \in 0..Len(offers) : Effect(Key', data)
  PROVE  FlowsInv'
<1>0. TypeOK /\ QuoteInv /\ ScreenInv /\ SuccessIsTrue
  BY DEF FlowsInv
<1>1. TypeOK'
  <2>1. /\ live' \in [data : 0..Len(offers'), loading : BOOLEAN]
        /\ timer' \in BOOLEAN /\ fetches' \subseteq Keys
    BY <1>0, EffectGood, TypeParts DEF quoteVars
  <2> QED BY <1>0, <2>1, TypeParts DEF TypeOK
<1>2. QuoteInv'
  <2>1. CASE \E data \in 0..Len(offers) : Effect(Key', data)
    BY <1>0, <2>1, EffectKeeps
  <2>2. CASE UNCHANGED quoteVars /\ Key' = Key
    BY <1>0, <2>2 DEF QuoteInv, AnswerIsCurrent, quoteVars
  <2>3. CASE UNCHANGED quoteVars /\ flow = "putToWork"
    <3>1. Key.flow = "putToWork" /\ Key'.flow = "putToWork"
      BY <2>3 DEF Key, KeyOf
    <3>2. ~Asks(Key) /\ ~Asks(Key')
      BY <3>1 DEF Asks
    <3>3. live' = NoQuote /\ ~timer' /\ fetches' = {}
      BY <1>0, <2>3, <3>2 DEF QuoteInv, quoteVars
    <3> QED BY <3>3 DEF QuoteInv, AnswerIsCurrent, NoQuote
  <2> QED BY <2>1, <2>2, <2>3
<1>3. (\A s \in Screens : JobInv(job[s], offers))'
  BY DEF FlowsInv, JobInv
<1>4. ScreenInv'
  BY <1>0 DEF ScreenInv
<1>5. SuccessIsTrue'
  BY <1>0 DEF SuccessIsTrue
<1> QED BY <1>1, <1>2, <1>3, <1>4, <1>5 DEF FlowsInv

\* What has been given stays: a new quote is added, or a mark is set on one.
Extends(new) ==
    /\ new \in Seq(Offers) /\ Len(offers) <= Len(new)
    /\ \A o \in 1..Len(offers) :
          new[o].key = offers[o].key /\ new[o].unwind = offers[o].unwind

LEMMA ExtendsKeeps ==
  ASSUME FlowsInv, Extends(offers')
  PROVE  /\ Len(offers') \in Nat
         /\ \A s \in Screens : job[s] \in Jobs(Len(offers')) /\ JobInv(job[s], offers')
         /\ live \in [data : 0..Len(offers'), loading : BOOLEAN]
         /\ live.data # 0 => offers'[live.data].key = offers[live.data].key
<1>0. TypeOK /\ Len(offers) \in Nat /\ Len(offers') \in Nat
  BY OfferTypes DEF FlowsInv, Extends
<1>1. live \in [data : 0..Len(offers), loading : BOOLEAN] /\ job \in [Screens -> Jobs(Len(offers))]
  BY <1>0, TypeParts
<1>2. ASSUME NEW s \in Screens PROVE job[s] \in Jobs(Len(offers')) /\ JobInv(job[s], offers')
  <2>1. job[s] \in Jobs(Len(offers)) /\ JobInv(job[s], offers)
    BY <1>1 DEF FlowsInv
  <2>2. job[s] \in Jobs(Len(offers')) /\ job[s].offer \in 0..Len(offers)
    BY <1>0, <2>1 DEF Extends, Jobs
  <2>3. job[s].offer # 0 => offers'[job[s].offer].unwind = offers[job[s].offer].unwind
    BY <1>0, <2>2 DEF Extends
  <2> QED BY <2>1, <2>2, <2>3 DEF JobInv
<1>3. live \in [data : 0..Len(offers'), loading : BOOLEAN]
  BY <1>0, <1>1 DEF Extends
<1>4. live.data # 0 => offers'[live.data].key = offers[live.data].key
  BY <1>0, <1>1 DEF Extends
<1> QED BY <1>0, <1>2, <1>3, <1>4

LEMMA SameOffers == TypeOK /\ offers' = offers => Extends(offers')
  BY OfferTypes DEF Extends

LEMMA MoreOffers ==
  ASSUME TypeOK, NEW k \in Keys, NEW unwind \in BOOLEAN, Offered(k, unwind)
  PROVE  /\ Extends(offers') /\ Len(offers') = Len(offers) + 1
         /\ offers'[Len(offers) + 1].key = k /\ offers'[Len(offers) + 1].unwind = unwind
<1> DEFINE o == [key |-> k, unwind |-> unwind, expiring |-> FALSE, spent |-> FALSE]
<1>1. o \in Offers /\ offers' = Append(offers, o)
  BY DEF Offers, Offered
<1>2. o.key = k /\ o.unwind = unwind
  OBVIOUS
<1> HIDE DEF o
<1>3. offers \in Seq(Offers)
  BY OfferTypes
<1>4. /\ offers' \in Seq(Offers) /\ Len(offers') = Len(offers) + 1
      /\ offers'[Len(offers) + 1] = o
      /\ \A i \in 1..Len(offers) : offers'[i] = offers[i]
  BY <1>1, <1>3, AppendProperties
<1> QED BY <1>2, <1>3, <1>4, OfferTypes DEF Extends

----------------------------------------------------------------------------
(* The screens *)

LEMMA OpenKeeps ==
  ASSUME FlowsInv, NEW f \in Flows, NEW source \in Contacts \cup Sources \cup {None},
         f = "pay" => source \in Contacts,
         NEW first \in {"recipient", "network", "amount"},
         Open(f, source, first), NEW r \in Contacts \cup {None}, account' = r,
         directory' \in {"unknown", "loading", "known"},
         Effect(KeyOf(f, Rail, 1, r), 0), UNCHANGED <<available, offers, job>>
  PROVE  FlowsInv'
<1>0. TypeOK /\ ScreenInv /\ Len(offers) \in Nat
  BY OfferTypes DEF FlowsInv
<1>1. /\ flow = "home" /\ opened' = opened + 1 /\ opened < MaxScreens /\ flow' = f
      /\ step' = first /\ amount' = 1 /\ currency' = Rail /\ to' = source /\ deposited' = TRUE
  BY DEF Open
<1>2. opened \in 0..MaxScreens /\ opened' \in Screens /\ opened' \in 0..MaxScreens
  BY <1>0, <1>1, KeyTypes, TypeParts DEF Screens
<1>3. Key' = KeyOf(f, Rail, 1, r)
  BY <1>1 DEF Key
<1>4. TypeOK'
  <2>1. /\ live' \in [data : 0..Len(offers'), loading : BOOLEAN]
        /\ timer' \in BOOLEAN /\ fetches' \subseteq Keys
    BY <1>0, EffectGood
  <2>2. amount' \in Amounts /\ currency' \in Currencies /\ deposited' \in BOOLEAN
    BY <1>1, KeyTypes
  <2> QED BY <1>0, <1>1, <1>2, <2>1, <2>2, TypeParts DEF TypeOK
<1>5. QuoteInv'
  BY <1>0, <1>3, EffectKeeps
<1>6. (\A s \in Screens : JobInv(job[s], offers))'
  BY DEF FlowsInv, JobInv
<1>7. job[opened'] = NoJob
  BY <1>0, <1>1, <1>2 DEF ScreenInv
<1>8. ScreenInv'
  <2>1. ASSUME NEW s \in Screens, s > opened' PROVE job'[s] = NoJob
    BY <1>0, <1>1, <1>2, <2>1 DEF ScreenInv, Screens
  <2>2. job'[opened'].at = "idle" /\ flow' # "home"
    BY <1>1, <1>7 DEF NoJob, Flows
  <2>3. flow' = "pay" => to' \in Contacts
    BY <1>1
  <2> QED BY <1>2, <2>1, <2>2, <2>3 DEF ScreenInv
<1>9. SuccessIsTrue'
  BY <1>1 DEF SuccessIsTrue
<1> QED BY <1>4, <1>5, <1>6, <1>8, <1>9 DEF FlowsInv

LEMMA OpenSteps ==
  ASSUME FlowsInv, OpenPay \/ OpenWithdraw \/ OpenPutToWork \/ \E source \in Sources : OpenAddMoney(source)
  PROVE  FlowsInv'
<1>0. /\ directory \in {"unknown", "loading", "known"}
      /\ "pay" \in Flows /\ "withdraw" \in Flows /\ "addMoney" \in Flows /\ "putToWork" \in Flows
      /\ "bank" \in Sources /\ First \in Contacts
  BY TypeParts, KeyTypes DEF FlowsInv, Flows, Sources
<1>1. CASE OpenPay
  <2>1. /\ account' \in Contacts \cup {None} /\ directory' \in {"unknown", "loading", "known"}
        /\ Open("pay", First, "recipient") /\ Effect(KeyOf("pay", Rail, 1, account'), 0)
        /\ UNCHANGED <<available, offers, job>>
    BY <1>0, <1>1 DEF OpenPay
  <2> QED BY <1>0, <2>1, OpenKeeps
<1>2. CASE OpenWithdraw
  BY <1>0, <1>2, OpenKeeps DEF OpenWithdraw
<1>3. CASE OpenPutToWork
  BY <1>0, <1>3, OpenKeeps DEF OpenPutToWork
<1>4. ASSUME NEW source \in Sources, OpenAddMoney(source) PROVE FlowsInv'
  BY <1>0, <1>4, OpenKeeps DEF OpenAddMoney
<1> QED BY <1>1, <1>2, <1>3, <1>4

LEMMA InputSteps ==
  ASSUME FlowsInv,
         \/ \E a \in Amounts : TypeAmount(a) \/ TypeAmountToWork(a)
         \/ \E c \in Currencies : ChooseCurrency(c)
         \/ \E c \in Contacts, cur \in Currencies, cleared \in BOOLEAN : PickRecipient(c, cur, cleared)
         \/ RetryQuote
  PROVE  FlowsInv'
<1>0. /\ TypeOK /\ amount \in Amounts /\ currency \in Currencies /\ account \in Contacts \cup {None}
      /\ to \in Contacts \cup Sources \cup {None} /\ directory \in {"unknown", "loading", "known"}
      /\ available \in Amounts /\ live.data \in 0..Len(offers) /\ 0 \in 0..Len(offers)
      /\ (flow = "pay" => to \in Contacts)
  BY TypeParts, OfferTypes DEF FlowsInv, ScreenInv
<1>1. ASSUME NEW a \in Amounts, TypeAmount(a) PROVE FlowsInv'
  <2>1. Key' = KeyOf(flow, currency, a, account)
    BY <1>1 DEF TypeAmount, Key, inputVars, contactVars
  <2>2. (UNCHANGED quoteVars /\ Key' = Key) \/ Effect(Key', live.data)
    BY <1>1, <2>1 DEF TypeAmount, EffectIfNew
  <2>3. /\ UNCHANGED <<opened, flow, deposited, available, offers, job>>
        /\ UNCHANGED <<step, currency, to, account, directory>> /\ amount' = a
    BY <1>1 DEF TypeAmount, inputVars, contactVars
  <2> QED BY <1>0, <2>2, <2>3, ScreenKeeps
<1>2. ASSUME NEW a \in Amounts, TypeAmountToWork(a) PROVE FlowsInv'
  <2>1. /\ UNCHANGED <<opened, flow, deposited, available, offers, job>>
        /\ UNCHANGED <<step, currency, to, account, directory>> /\ amount' \in Amounts
        /\ UNCHANGED quoteVars /\ flow = "putToWork"
    BY <1>0, <1>2 DEF TypeAmountToWork, Enters, inputVars, contactVars
  <2> QED BY <1>0, <2>1, ScreenKeeps
<1>3. ASSUME NEW c \in Currencies, ChooseCurrency(c) PROVE FlowsInv'
  <2>1. Key' = KeyOf(flow, c, amount, account)
    BY <1>3 DEF ChooseCurrency, Key, inputVars, contactVars
  <2>2. (UNCHANGED quoteVars /\ Key' = Key) \/ Effect(Key', live.data)
    BY <1>3, <2>1 DEF ChooseCurrency, EffectIfNew
  <2>3. /\ UNCHANGED <<opened, flow, deposited, available, offers, job>>
        /\ UNCHANGED <<step, amount, to, account, directory>> /\ currency' = c
    BY <1>3 DEF ChooseCurrency, inputVars, contactVars
  <2> QED BY <1>0, <2>2, <2>3, ScreenKeeps
<1>4. ASSUME NEW c \in Contacts, NEW cur \in Currencies, NEW cleared \in BOOLEAN,
             PickRecipient(c, cur, cleared)
      PROVE  FlowsInv'
  <2>1. /\ UNCHANGED <<opened, flow, deposited, available, offers, job>>
        /\ amount' = amount /\ currency' = cur /\ to' = c /\ step' = "amount"
        /\ account' \in Contacts \cup {None}
        /\ directory' \in {"unknown", "loading", "known"}
        /\ flow = "pay" /\ step = "recipient"
    BY <1>0, <1>4 DEF PickRecipient, ChoosesRecipient
  <2>2. Key' = KeyOf("pay", cur, amount, account')
    BY <2>1 DEF Key
  <2>3. \/ UNCHANGED quoteVars /\ Key' = Key
        \/ Effect(Key', 0)
        \/ Effect(Key', live.data)
    BY <1>4, <2>2 DEF PickRecipient
  <2> QED BY <1>0, <2>1, <2>3, ScreenKeeps
<1>5. CASE RetryQuote
  <2>1. /\ UNCHANGED <<opened, flow, deposited, available, offers, job>>
        /\ UNCHANGED <<step, amount, currency, to, account, directory>>
        /\ Effect(Key, 0)
    BY <1>5 DEF RetryQuote, inputVars, contactVars
  <2>2. Key' = Key
    BY <2>1 DEF Key
  <2> QED BY <1>0, <2>1, <2>2, ScreenKeeps
<1> QED BY <1>1, <1>2, <1>3, <1>4, <1>5

LEMMA WayKeeps ==
  ASSUME FlowsInv, flow # "home", step # "processing",
         step' \in {"recipient", "network", "amount", "destination", "strategy", "review"},
         to' \in Contacts \cup Sources \cup {None}, flow = "pay" => to' \in Contacts,
         UNCHANGED <<opened, flow, deposited, amount, currency, contactVars, available,
                     quoteVars, offers, job>>
  PROVE  FlowsInv'
<1>1. /\ amount \in Amounts /\ currency \in Currencies /\ account \in Contacts \cup {None}
      /\ directory \in {"unknown", "loading", "known"}
  BY TypeParts DEF FlowsInv
<1>2. Key' = Key
  BY DEF Key, contactVars
<1> QED BY <1>1, <1>2, ScreenKeeps DEF contactVars

LEMMA WaySteps ==
  ASSUME FlowsInv,
         \/ PayContinue \/ WithdrawContinue \/ AddMoneyContinue \/ PutToWorkContinue
         \/ PickNetwork \/ PickStrategy \/ GoBack
         \/ \E d \in {"bank", "wallet"} : PickDestination(d)
  PROVE  FlowsInv'
<1>0. to \in Contacts \cup Sources \cup {None} /\ (flow = "pay" => to \in Contacts)
  BY TypeParts DEF FlowsInv, ScreenInv
<1>1. ASSUME flow # "home", step # "processing",
             NEW next \in {"recipient", "network", "amount", "destination", "strategy", "review"},
             Goes(next)
      PROVE  FlowsInv'
  BY <1>0, <1>1, WayKeeps DEF Goes, inputVars
<1>2. CASE PayContinue
  BY <1>1, <1>2 DEF PayContinue, Enters
<1>3. CASE WithdrawContinue
  BY <1>1, <1>3 DEF WithdrawContinue, Enters
<1>4. CASE AddMoneyContinue
  BY <1>1, <1>4 DEF AddMoneyContinue, Enters
<1>5. CASE PutToWorkContinue
  BY <1>1, <1>5 DEF PutToWorkContinue, Enters
<1>6. CASE PickNetwork
  BY <1>1, <1>6 DEF PickNetwork
<1>7. CASE PickStrategy
  BY <1>1, <1>7 DEF PickStrategy
<1>8. CASE GoBack
  <2>1. CASE flow = "pay" /\ step \in DOMAIN PayBack /\ Goes(PayBack[step])
    BY <1>1, <2>1 DEF PayBack
  <2>2. CASE flow = "withdraw" /\ step \in DOMAIN WithdrawBack /\ Goes(WithdrawBack[step])
    BY <1>1, <2>2 DEF WithdrawBack
  <2>3. CASE flow = "addMoney" /\ step \in DOMAIN AddMoneyBack /\ Goes(AddMoneyBack[step])
    BY <1>1, <2>3 DEF AddMoneyBack
  <2>4. CASE flow = "putToWork" /\ step \in DOMAIN PutToWorkBack /\ Goes(PutToWorkBack[step])
    BY <1>1, <2>4 DEF PutToWorkBack
  <2> QED BY <1>8, <2>1, <2>2, <2>3, <2>4 DEF GoBack
<1>9. ASSUME NEW d \in {"bank", "wallet"}, PickDestination(d) PROVE FlowsInv'
  <2>1. d \in Sources BY DEF Sources
  <2> QED BY <1>9, <2>1, WayKeeps DEF PickDestination, ChoosesDestination
<1> QED BY <1>2, <1>3, <1>4, <1>5, <1>6, <1>7, <1>8, <1>9

\* The screen goes: it holds nothing any more, and its flow is kept if it is under way.
LEMMA LeftKeeps ==
  ASSUME FlowsInv, flow # "home", Left
  PROVE  FlowsInv'
<1>0. /\ TypeOK /\ ScreenInv /\ opened \in Screens /\ Len(offers) \in Nat
      /\ job \in [Screens -> Jobs(Len(offers))]
  BY OfferTypes, TypeParts DEF FlowsInv, ScreenInv
<1>1. /\ flow' = "home" /\ step' = "home" /\ live' = NoQuote /\ timer' = FALSE /\ fetches' = {}
      /\ amount' = 0 /\ currency' = Rail /\ to' = None /\ account' = None /\ deposited' = TRUE
      /\ UNCHANGED <<opened, directory, available, offers>>
      /\ job' = [job EXCEPT ![opened] = IF @.at = "idle" THEN NoJob ELSE @]
  BY DEF Left, Cancelled
<1>2. /\ job' \in [Screens -> Jobs(Len(offers))]
      /\ \A s \in Screens : job'[s] = job[s] \/ job'[s] = NoJob
  BY <1>0, <1>1, NoJobGood
<1>3. live' \in [data : 0..Len(offers), loading : BOOLEAN] /\ live'.data = 0
  BY <1>0, <1>1 DEF NoQuote
<1>4. TypeOK'
  <2>1. /\ amount' \in Amounts /\ currency' \in Currencies
        /\ to' \in Contacts \cup Sources \cup {None} /\ account' \in Contacts \cup {None}
        /\ timer' \in BOOLEAN /\ deposited' \in BOOLEAN /\ fetches' \subseteq Keys
        /\ opened' \in 0..MaxScreens /\ directory' \in {"unknown", "loading", "known"}
        /\ available' \in Amounts /\ offers' = offers /\ offers \in Seq(Offers)
        /\ flow' \in Flows \cup {"home"}
    BY <1>0, <1>1, KeyTypes, TypeParts
  <2>2. /\ step' \in {"home", "recipient", "network", "amount", "destination", "strategy",
                       "review", "processing", "success"}
        /\ live' \in [data : 0..Len(offers'), loading : BOOLEAN]
        /\ job' \in [Screens -> Jobs(Len(offers'))]
    BY <1>1, <1>2, <1>3
  <2>3. offers' \in Seq(Offers)
    BY <2>1
  <2> HIDE DEF Keys
  <2> QED BY <2>1, <2>2, <2>3 DEF TypeOK, Offers, Jobs
<1>5. QuoteInv'
  BY <1>1, <1>3 DEF QuoteInv, AnswerIsCurrent
<1>6. (\A s \in Screens : JobInv(job[s], offers))'
  BY <1>1, <1>2, <1>0, NoJobGood DEF FlowsInv, JobInv
<1>7. ScreenInv'
  BY <1>0, <1>1, <1>2 DEF ScreenInv
<1>8. SuccessIsTrue'
  BY <1>1 DEF SuccessIsTrue
<1> QED BY <1>4, <1>5, <1>6, <1>7, <1>8 DEF FlowsInv

LEMMA LeaveSteps ==
  ASSUME FlowsInv, Back \/ Done \/ SwipeBack
  PROVE  FlowsInv'
<1>1. flow # "home" /\ Left
  BY DEF FlowsInv, ScreenInv, Back, Done, SwipeBack, ChoosesRecipient
<1> QED BY <1>1, LeftKeeps

\* Confirm starts a flow on what the screen holds; a flow on no quote is one to put to work.
LEMMA ConfirmKeeps ==
  ASSUME FlowsInv, flow # "home", NEW offer \in 0..Len(offers), NEW shown \in Amounts,
         NEW approve \in BOOLEAN, offer = 0 <=> flow = "putToWork",
         Confirm(offer, shown, approve)
  PROVE  FlowsInv'
<1> DEFINE k == [at |-> IF flow = "putToWork" THEN "send" ELSE "start", offer |-> offer,
                 key |-> Key, shown |-> shown, approve |-> approve, moved |-> FALSE]
<1>0. /\ TypeOK /\ QuoteInv /\ ScreenInv /\ opened \in Screens /\ Len(offers) \in Nat
      /\ job \in [Screens -> Jobs(Len(offers))] /\ Key \in Keys /\ Key.flow = flow
  BY OfferTypes, TypeParts, KeyType DEF FlowsInv, ScreenInv
<1>1. job' = [job EXCEPT ![opened] = k] /\ step' = "processing"
  BY DEF Confirm
<1>2. /\ k \in Jobs(Len(offers)) /\ k.key.flow = flow /\ k.at # "idle"
  BY <1>0 DEF Jobs
<1>3. JobInv(k, offers)
  BY DEF JobInv
<1> HIDE DEF k
<1>4. /\ UNCHANGED <<opened, flow, to, deposited, amount, currency, account, directory, available,
                     live, timer, fetches, offers>>
  BY DEF Confirm, inputVars, contactVars, quoteVars
<1>5. /\ job' \in [Screens -> Jobs(Len(offers))] /\ job'[opened] = k
      /\ \A s \in Screens : s # opened => job'[s] = job[s]
  BY <1>0, <1>1, <1>2
<1>6. TypeOK'
  BY <1>0, <1>1, <1>4, <1>5, TypeParts DEF TypeOK, Jobs
<1>7. QuoteInv'
  <2>1. Key' = Key
    BY <1>4 DEF Key
  <2> QED BY <1>0, <1>4, <2>1 DEF QuoteInv, AnswerIsCurrent
<1>8. (\A s \in Screens : JobInv(job[s], offers))'
  BY <1>3, <1>4, <1>5 DEF FlowsInv, JobInv
<1>9. ScreenInv'
  BY <1>0, <1>1, <1>2, <1>4, <1>5 DEF ScreenInv, Screens
<1>10. SuccessIsTrue'
  BY <1>1 DEF SuccessIsTrue
<1> QED BY <1>6, <1>7, <1>8, <1>9, <1>10 DEF FlowsInv

LEMMA ConfirmSteps ==
  ASSUME FlowsInv, ConfirmPay \/ ConfirmWithdraw \/ ConfirmAddMoney \/ ConfirmPutToWork
  PROVE  FlowsInv'
<1>0. /\ amount \in Amounts /\ live.data \in 0..Len(offers) /\ 0 \in 0..Len(offers)
      /\ \A o \in 1..Len(offers) : offers[o].key.amount \in Amounts /\ offers[o].unwind \in BOOLEAN
  BY TypeParts, OfferTypes DEF FlowsInv, Offers, Keys
<1>1. ASSUME live.data # 0
      PROVE  offers[live.data].key.amount \in Amounts /\ offers[live.data].unwind \in BOOLEAN
  BY <1>0, <1>1, OfferTypes DEF FlowsInv
<1>2. CASE ConfirmPay
  BY <1>0, <1>1, <1>2, ConfirmKeeps
     DEF ConfirmPay, PayConfirmable, Reviews, PayShown, PayUnwinds
<1>3. CASE ConfirmWithdraw
  BY <1>0, <1>1, <1>3, ConfirmKeeps
     DEF ConfirmWithdraw, WithdrawConfirmable, Reviews, WithdrawUnwinds
<1>4. CASE ConfirmAddMoney
  BY <1>0, <1>1, <1>4, ConfirmKeeps
     DEF ConfirmAddMoney, AddMoneyConfirmable, Reviews, AddMoneyShown
<1>5. CASE ConfirmPutToWork
  BY <1>0, <1>5, ConfirmKeeps DEF ConfirmPutToWork, PutToWorkConfirmable, Reviews
<1> QED BY <1>2, <1>3, <1>4, <1>5

----------------------------------------------------------------------------
(* The live quote and the contacts' accounts *)

\* A step in which the quotes grow and the screen, unchanged, shows what it shows, or
\* the answer it waited for.
LEMMA QuoteKeeps ==
  ASSUME FlowsInv, Extends(offers'),
         UNCHANGED <<inputVars, step, amount, currency, contactVars, available, job>>,
         live' \in [data : 0..Len(offers'), loading : BOOLEAN], timer' \in BOOLEAN,
         fetches' \subseteq {Key},
         live'.data # 0 /\ ~live'.loading => offers'[live'.data].key = Key,
         ~Asks(Key) => live' = NoQuote /\ ~timer' /\ fetches' = {}
  PROVE  FlowsInv'
<1>0. TypeOK /\ ScreenInv /\ SuccessIsTrue /\ Key \in Keys
  BY KeyType DEF FlowsInv
<1>1. /\ UNCHANGED <<opened, flow, to, deposited, step, amount, currency, account, directory,
                     available, job>>
      /\ Key' = Key
  BY DEF inputVars, contactVars, Key
<1>2. \A s \in Screens : job[s] \in Jobs(Len(offers')) /\ JobInv(job[s], offers')
  BY ExtendsKeeps
<1>3. TypeOK'
  <2>1. job' \in [Screens -> Jobs(Len(offers'))] /\ offers' \in Seq(Offers)
    BY <1>0, <1>1, <1>2, TypeParts DEF Extends
  <2> QED BY <1>0, <1>1, <2>1, TypeParts DEF TypeOK, Offers, Jobs
<1>4. QuoteInv'
  BY <1>1 DEF QuoteInv, AnswerIsCurrent
<1>5. (\A s \in Screens : JobInv(job[s], offers))'
  BY <1>1, <1>2
<1>6. ScreenInv'
  BY <1>0, <1>1 DEF ScreenInv
<1>7. SuccessIsTrue'
  BY <1>0, <1>1 DEF SuccessIsTrue
<1> QED BY <1>3, <1>4, <1>5, <1>6, <1>7 DEF FlowsInv

LEMMA QuoteSteps ==
  ASSUME FlowsInv, QuoteStep
  PROVE  FlowsInv'
<1>0. /\ TypeOK /\ QuoteInv /\ Len(offers) \in Nat /\ Key \in Keys
      /\ live \in [data : 0..Len(offers), loading : BOOLEAN] /\ timer \in BOOLEAN
      /\ fetches \subseteq {Key} /\ timer \in BOOLEAN
  BY OfferTypes, TypeParts, KeyType DEF FlowsInv, QuoteInv
<1>1. CASE TimerFires
  <2>1. Extends(offers') /\ offers' = offers
    BY <1>0, <1>1, SameOffers DEF TimerFires
  <2>2. UNCHANGED <<inputVars, step, amount, currency, contactVars, available, job, live>>
    BY <1>1 DEF TimerFires
  <2>3. timer /\ timer' = FALSE /\ fetches' \subseteq {Key}
    BY <1>0, <1>1 DEF TimerFires
  <2>4. Asks(Key) /\ AnswerIsCurrent
    BY <1>0, <2>3 DEF QuoteInv
  <2> QED BY <1>0, <2>1, <2>2, <2>3, <2>4, QuoteKeeps DEF AnswerIsCurrent
<1>2. ASSUME NEW k \in fetches, QuoteFails(k) PROVE FlowsInv'
  <2>1. Extends(offers')
    BY <1>0, <1>2, SameOffers DEF QuoteFails
  <2>2. UNCHANGED <<inputVars, step, amount, currency, contactVars, available, job, timer>>
    BY <1>2 DEF QuoteFails
  <2>3. live' = NoQuote /\ fetches' \subseteq {Key} /\ Asks(Key)
    BY <1>0, <1>2 DEF QuoteFails, QuoteInv
  <2>4. NoQuote \in [data : 0..Len(offers'), loading : BOOLEAN] /\ NoQuote.data = 0
    BY <2>1 DEF NoQuote, Extends
  <2> QED BY <1>0, <2>1, <2>2, <2>3, <2>4, QuoteKeeps
<1>3. ASSUME NEW k \in fetches, NEW unwind \in BOOLEAN, QuoteAnswered(k, unwind)
      PROVE  FlowsInv'
  <2>1. k = Key /\ Asks(Key)
    BY <1>0 DEF QuoteInv
  <2>2. Offered(k, unwind)
    BY <1>3 DEF QuoteAnswered
  <2>3. /\ Extends(offers') /\ Len(offers') = Len(offers) + 1
        /\ offers'[Len(offers) + 1].key = Key
    BY <1>0, <2>1, <2>2, MoreOffers
  <2>4. UNCHANGED <<inputVars, step, amount, currency, contactVars, available, job, timer>>
    BY <1>3 DEF QuoteAnswered
  <2>5. live' = [data |-> Len(offers) + 1, loading |-> FALSE] /\ fetches' \subseteq {Key}
    BY <1>0, <1>3 DEF QuoteAnswered
  <2>6. live' \in [data : 0..Len(offers'), loading : BOOLEAN] /\ live'.data = Len(offers) + 1
    BY <1>0, <2>3, <2>5
  <2> QED BY <1>0, <2>1, <2>3, <2>4, <2>5, <2>6, QuoteKeeps
<1>4. ASSUME NEW o \in 1..MaxOffers, OfferExpires(o) PROVE FlowsInv'
  <2>1. /\ o \in 1..Len(offers) /\ offers' = [offers EXCEPT ![o].expiring = TRUE]
        /\ UNCHANGED <<inputVars, step, amount, currency, contactVars, available, job,
                       live, timer, fetches>>
    BY <1>0, <1>4, OfferTypes DEF OfferExpires, quoteVars
  <2>2. Extends(offers')
    <3>1. offers[o] \in Offers
      BY <1>0, <2>1, OfferTypes
    <3>2. /\ [offers[o] EXCEPT !.expiring = TRUE] \in Offers
          /\ [offers[o] EXCEPT !.expiring = TRUE].key = offers[o].key
          /\ [offers[o] EXCEPT !.expiring = TRUE].unwind = offers[o].unwind
      BY <3>1 DEF Offers
    <3>3. offers' = [offers EXCEPT ![o] = [offers[o] EXCEPT !.expiring = TRUE]]
      BY <2>1
    <3>4. /\ offers' \in Seq(Offers) /\ Len(offers') = Len(offers)
          /\ \A i \in 1..Len(offers) :
                offers'[i] = IF i = o THEN [offers[o] EXCEPT !.expiring = TRUE] ELSE offers[i]
      BY <1>0, <2>1, <3>2, <3>3, OfferTypes
    <3>5. ASSUME NEW i \in 1..Len(offers)
          PROVE  offers'[i].key = offers[i].key /\ offers'[i].unwind = offers[i].unwind
      <4>1. CASE i = o
        <5>1. offers'[i] = [offers[o] EXCEPT !.expiring = TRUE]
          BY <3>4, <4>1
        <5> QED BY <3>2, <4>1, <5>1
      <4>2. CASE i # o
        BY <3>4, <4>2
      <4> QED BY <4>1, <4>2
    <3>6. Len(offers) <= Len(offers')
      BY <1>0, <3>4
    <3> QED BY <3>4, <3>5, <3>6 DEF Extends
  <2>3. /\ live \in [data : 0..Len(offers'), loading : BOOLEAN]
        /\ live.data # 0 => offers'[live.data].key = offers[live.data].key
    BY <2>2, ExtendsKeeps
  <2>4. live.data # 0 /\ ~live.loading => offers'[live.data].key = Key
    BY <1>0, <2>3 DEF QuoteInv, AnswerIsCurrent
  <2>5. ~Asks(Key) => live = NoQuote /\ ~timer /\ fetches = {}
    BY <1>0 DEF QuoteInv
  <2> QED BY <1>0, <2>1, <2>2, <2>3, <2>4, <2>5, QuoteKeeps
<1>5. CASE DirectoryAnswered \/ DirectoryFails
  <2>1. /\ amount \in Amounts /\ currency \in Currencies /\ account \in Contacts \cup {None}
        /\ to \in Contacts \cup Sources \cup {None} /\ (flow = "pay" => to \in Contacts)
        /\ live.data \in 0..Len(offers)
    BY <1>0, TypeParts DEF FlowsInv, ScreenInv
  <2>2. /\ UNCHANGED <<opened, flow, to, deposited, step, amount, currency, available, offers, job>>
        /\ account' \in Contacts \cup {None} /\ directory' \in {"unknown", "loading", "known"}
    BY <1>5, <2>1 DEF DirectoryAnswered, DirectoryFails, inputVars
  <2>3. Key' = KeyOf(flow, currency, amount, account')
    BY <2>2 DEF Key
  <2>4. (UNCHANGED quoteVars /\ Key' = Key) \/ Effect(Key', live.data)
    <3>1. CASE DirectoryAnswered
      BY <2>3, <3>1 DEF DirectoryAnswered, EffectIfNew
    <3>2. CASE DirectoryFails
      BY <2>3, <3>2 DEF DirectoryFails, Key
    <3> QED BY <1>5, <3>1, <3>2
  <2> QED BY <2>1, <2>2, <2>4, ScreenKeeps
<1> QED BY <1>1, <1>2, <1>3, <1>4, <1>5 DEF QuoteStep

----------------------------------------------------------------------------
(* The flows *)

\* A flow that goes on: its screen still waits for it.
LEMMA JobGoesOn ==
  ASSUME FlowsInv, Extends(offers'),
         NEW s \in Screens, job[s].at # "idle",
         NEW at \in {"build", "send", "landed"}, NEW offer \in 0..Len(offers'),
         NEW moved \in BOOLEAN, JobMoves(s, at, offer, moved),
         UNCHANGED <<others, available>>,
         (at \in {"send", "landed"} \/ moved) /\ offer # 0 /\ offers'[offer].unwind
            => job[s].approve,
         at = "landed" => moved \/ job[s].key.flow = "putToWork",
         at = "build" => offer # 0
  PROVE  FlowsInv'
<1> DEFINE k == [job[s] EXCEPT !.at = at, !.offer = offer, !.moved = moved]
<1>0. /\ TypeOK /\ QuoteInv /\ ScreenInv /\ SuccessIsTrue
      /\ Len(offers) \in Nat /\ Len(offers') \in Nat /\ Len(offers) <= Len(offers')
      /\ job \in [Screens -> Jobs(Len(offers))]
  BY OfferTypes, TypeParts, ExtendsKeeps DEF FlowsInv, Extends
<1>1. /\ k \in Jobs(Len(offers')) /\ k.at = at /\ k.offer = offer /\ k.moved = moved
      /\ k.key = job[s].key /\ k.approve = job[s].approve
  <2>1. job[s] \in Jobs(Len(offers')) /\ offer \in 0..Len(offers')
    BY ExtendsKeeps
  <2> QED BY <2>1 DEF Jobs
<1>2. job' = [job EXCEPT ![s] = k] /\ step' = step
  BY DEF JobMoves
<1> HIDE DEF k
<1>3. JobInv(k, offers')
  BY <1>1 DEF JobInv
<1>4. /\ UNCHANGED <<opened, flow, to, deposited, amount, currency, account, directory, available,
                     live, timer, fetches, step>>
      /\ Key' = Key
  BY <1>2 DEF others, inputVars, contactVars, quoteVars, Key
<1>5. /\ \A r \in Screens : job[r] \in Jobs(Len(offers')) /\ JobInv(job[r], offers')
      /\ live \in [data : 0..Len(offers'), loading : BOOLEAN]
      /\ live.data # 0 => offers'[live.data].key = offers[live.data].key
  BY ExtendsKeeps
<1>6. /\ job' \in [Screens -> Jobs(Len(offers'))] /\ job'[s] = k
      /\ \A r \in Screens : r # s => job'[r] = job[r]
  BY <1>0, <1>1, <1>2, <1>5
<1>7. TypeOK'
  <2>1. offers' \in Seq(Offers)
    BY DEF Extends
  <2> QED BY <1>0, <1>4, <1>5, <1>6, <2>1, TypeParts DEF TypeOK, Offers, Jobs
<1>8. QuoteInv'
  BY <1>0, <1>4, <1>5 DEF QuoteInv, AnswerIsCurrent
<1>9. (\A r \in Screens : JobInv(job[r], offers))'
  BY <1>3, <1>5, <1>6
<1>10. ScreenInv'
  <2>1. job[s] # NoJob
    BY DEF NoJob
  <2>2. \A r \in Screens : r > opened => job'[r] = NoJob
    BY <1>0, <1>6, <2>1 DEF ScreenInv
  <2>3. flow # "home" /\ job'[opened].at # "idle" =>
          step = "processing" /\ job'[opened].key.flow = flow
    BY <1>0, <1>1, <1>6 DEF ScreenInv
  <2> QED BY <1>0, <1>4, <2>2, <2>3 DEF ScreenInv
<1>11. SuccessIsTrue'
  <2>1. step = "success" => s # opened
    BY <1>0 DEF ScreenInv
  <2>2. step = "success" => opened \in Screens
    BY <1>0 DEF ScreenInv
  <2> QED BY <1>0, <1>4, <1>6, <2>1, <2>2 DEF SuccessIsTrue
<1> QED BY <1>7, <1>8, <1>9, <1>10, <1>11 DEF FlowsInv

\* A flow that ends: its screen, if it is still there, shows how.
LEMMA JobEnds ==
  ASSUME FlowsInv, Extends(offers'),
         NEW s \in Screens, job[s].at # "idle",
         NEW outcome \in {"review", "success"}, Ended(s, outcome),
         UNCHANGED <<opened, flow, to, amount, currency, contactVars, quoteVars>>,
         available' \in Amounts, deposited' \in BOOLEAN,
         s # opened => deposited' = deposited,
         outcome = "success" => job[s].moved \/ (flow = "putToWork" /\ ~deposited')
                                \/ s # opened \/ flow = "home"
  PROVE  FlowsInv'
<1> DEFINE k == [job[s] EXCEPT !.at = "idle"]
<1>0. /\ TypeOK /\ QuoteInv /\ ScreenInv /\ SuccessIsTrue
      /\ Len(offers') \in Nat /\ job \in [Screens -> Jobs(Len(offers))]
      /\ \A r \in Screens : JobInv(job[r], offers)
  BY OfferTypes, TypeParts, ExtendsKeeps DEF FlowsInv
<1>1. /\ \A r \in Screens : job[r] \in Jobs(Len(offers')) /\ JobInv(job[r], offers')
      /\ live \in [data : 0..Len(offers'), loading : BOOLEAN]
      /\ live.data # 0 => offers'[live.data].key = offers[live.data].key
  BY ExtendsKeeps
<1>2. /\ k \in Jobs(Len(offers')) /\ k.at = "idle" /\ k.moved = job[s].moved
      /\ k.offer = job[s].offer /\ k.approve = job[s].approve
  BY <1>1 DEF Jobs
<1>3. /\ job' = [job EXCEPT ![s] = IF flow # "home" /\ s = opened THEN k ELSE NoJob]
      /\ step' = IF flow # "home" /\ s = opened THEN outcome ELSE step
  BY DEF Ended
<1>4. JobInv(k, offers')
  BY <1>1, <1>2 DEF JobInv
<1> HIDE DEF k
<1>5. NoJob \in Jobs(Len(offers')) /\ JobInv(NoJob, offers') /\ NoJob.at = "idle"
  BY <1>0, NoJobGood DEF NoJob
<1>6. /\ job' \in [Screens -> Jobs(Len(offers'))]
      /\ job'[s] = k \/ job'[s] = NoJob
      /\ flow # "home" /\ s = opened => job'[s] = k
      /\ \A r \in Screens : r # s => job'[r] = job[r]
  BY <1>0, <1>1, <1>2, <1>3, <1>5
<1>7. /\ UNCHANGED <<opened, flow, to, amount, currency, account, directory, live, timer, fetches>>
      /\ Key' = Key
  BY DEF contactVars, quoteVars, Key
<1>8. TypeOK'
  <2>1. offers' \in Seq(Offers)
    BY DEF Extends
  <2>2. step' \in {"home", "recipient", "network", "amount", "destination", "strategy",
                   "review", "processing", "success"}
    BY <1>0, <1>3, TypeParts
  <2> QED BY <1>0, <1>1, <1>6, <1>7, <2>1, <2>2, TypeParts DEF TypeOK, Offers, Jobs
<1>9. QuoteInv'
  BY <1>0, <1>1, <1>7 DEF QuoteInv, AnswerIsCurrent
<1>10. (\A r \in Screens : JobInv(job[r], offers))'
  BY <1>1, <1>4, <1>5, <1>6
<1>11. ScreenInv'
  <2>1. job[s] # NoJob
    BY DEF NoJob
  <2>2. \A r \in Screens : r > opened => job'[r] = NoJob
    BY <1>0, <1>6, <2>1 DEF ScreenInv
  <2>3. flow = "home" => step' = "home"
    BY <1>0, <1>3 DEF ScreenInv
  <2>4. flow # "home" /\ job'[opened].at # "idle" =>
          step' = "processing" /\ job'[opened].key.flow = flow
    BY <1>0, <1>2, <1>3, <1>6 DEF ScreenInv
  <2> QED BY <1>0, <1>7, <2>2, <2>3, <2>4 DEF ScreenInv
<1>12. SuccessIsTrue'
  <2>1. CASE flow # "home" /\ s = opened
    <3>1. step' = outcome /\ job'[opened].moved = job[s].moved
      BY <1>2, <1>3, <1>6, <2>1
    <3> QED BY <1>7, <2>1, <3>1 DEF SuccessIsTrue
  <2>2. CASE flow = "home"
    BY <1>0, <1>3, <2>2 DEF ScreenInv, SuccessIsTrue
  <2>3. CASE flow # "home" /\ s # opened
    <3>1. step' = step /\ job'[opened] = job[opened] /\ deposited' = deposited
      BY <1>0, <1>3, <1>6, <2>3 DEF ScreenInv
    <3> QED BY <1>0, <1>7, <3>1 DEF SuccessIsTrue
  <2> QED BY <2>1, <2>2, <2>3
<1> QED BY <1>8, <1>9, <1>10, <1>11, <1>12 DEF FlowsInv

\* A quote is marked as taken.
LEMMA Taken ==
  ASSUME TypeOK, NEW o \in 1..Len(offers), NEW spent,
         spent \in BOOLEAN,
         offers' = [offers EXCEPT ![o].spent = spent]
  PROVE  Extends(offers')
<1> DEFINE k == [offers[o] EXCEPT !.spent = spent]
<1>0. offers \in Seq(Offers) /\ Len(offers) \in Nat /\ offers[o] \in Offers
  BY OfferTypes
<1>1. k \in Offers /\ k.key = offers[o].key /\ k.unwind = offers[o].unwind
  BY <1>0 DEF Offers
<1>2. offers' = [offers EXCEPT ![o] = k]
  OBVIOUS
<1> HIDE DEF k
<1>3. /\ offers' \in Seq(Offers) /\ Len(offers') = Len(offers)
      /\ \A i \in 1..Len(offers) : offers'[i] = IF i = o THEN k ELSE offers[i]
  BY <1>0, <1>1, <1>2
<1>4. ASSUME NEW i \in 1..Len(offers)
      PROVE  offers'[i].key = offers[i].key /\ offers'[i].unwind = offers[i].unwind
  <2>1. CASE i = o
    BY <1>1, <1>3, <2>1
  <2>2. CASE i # o
    BY <1>3, <2>2
  <2> QED BY <2>1, <2>2
<1>5. Len(offers) <= Len(offers')
  BY <1>0, <1>3
<1> QED BY <1>3, <1>4, <1>5 DEF Extends

LEMMA JobSteps ==
  ASSUME FlowsInv, NEW s \in Screens, JobStep(s)
  PROVE  FlowsInv'
<1>0. /\ TypeOK /\ Len(offers) \in Nat /\ job[s] \in Jobs(Len(offers)) /\ JobInv(job[s], offers)
      /\ available \in Amounts /\ deposited \in BOOLEAN
      /\ \A o \in 1..Len(offers) : offers[o].spent \in BOOLEAN
  BY OfferTypes, TypeParts DEF FlowsInv, Offers
<1>1. /\ job[s].offer \in 0..Len(offers) /\ job[s].key \in Keys /\ job[s].moved \in BOOLEAN
  BY <1>0 DEF Jobs
<1>2. job[s].at \in {"start", "build"} => job[s].offer \in 1..Len(offers)
  BY <1>0, <1>1 DEF JobInv
<1>3. offers' = offers => Extends(offers')
  BY <1>0, SameOffers
<1>4. ASSUME NEW unwind \in BOOLEAN, Requoted(s, unwind) PROVE FlowsInv'
  <2>1. /\ job[s].at = "start" /\ Offered(job[s].key, unwind)
        /\ JobMoves(s, "build", Len(offers) + 1, FALSE) /\ UNCHANGED <<others, available>>
    BY <1>4 DEF Requoted
  <2>2. Extends(offers') /\ Len(offers') = Len(offers) + 1
    BY <1>0, <1>1, <2>1, MoreOffers
  <2>3. Len(offers) + 1 \in 0..Len(offers') /\ Len(offers) + 1 # 0
    BY <1>0, <2>2
  <2> QED BY <2>1, <2>2, <2>3, JobGoesOn
<1>5. CASE Built(s)
  <2> DEFINE o == job[s].offer
  <2>1. /\ job[s].at \in {"start", "build"} /\ offers' = [offers EXCEPT ![o].spent = TRUE]
        /\ offers[o].unwind => job[s].approve
        /\ JobMoves(s, "send", o, FALSE) /\ UNCHANGED <<others, available>>
    BY <1>5 DEF Built
  <2>2. o \in 1..Len(offers)
    BY <1>2, <2>1
  <2>3. Extends(offers')
    BY <1>0, <2>1, <2>2, Taken
  <2>4. offers'[o].unwind = offers[o].unwind /\ o \in 0..Len(offers')
    BY <1>0, <2>2, <2>3 DEF Extends
  <2> QED BY <2>1, <2>3, <2>4, JobGoesOn
<1>6. ASSUME NEW spent \in BOOLEAN, BuildFails(s, spent) PROVE FlowsInv'
  <2> DEFINE o == job[s].offer
  <2>1. /\ job[s].at \in {"start", "build"}
        /\ offers' = [offers EXCEPT ![o].spent = offers[o].spent \/ spent]
        /\ Ended(s, "review") /\ UNCHANGED <<others, available>>
    BY <1>6 DEF BuildFails
  <2>2. o \in 1..Len(offers)
    BY <1>2, <2>1
  <2>3. (offers[o].spent \/ spent) \in BOOLEAN
    BY <1>0, <2>2
  <2>4. Extends(offers')
    BY <1>0, <2>1, <2>2, <2>3, Taken
  <2>5. /\ UNCHANGED <<opened, flow, to, amount, currency, contactVars, quoteVars>>
        /\ available' \in Amounts /\ deposited' = deposited /\ deposited' \in BOOLEAN
    BY <1>0, <2>1 DEF others, inputVars
  <2> QED BY <2>1, <2>4, <2>5, JobEnds
<1>7. CASE Landed(s)
  <2>1. /\ job[s].at = "send" /\ JobMoves(s, "landed", job[s].offer, TRUE)
        /\ UNCHANGED <<others, available>> /\ offers' = offers
    BY <1>7 DEF Landed
  <2>2. job[s].offer # 0 /\ offers[job[s].offer].unwind => job[s].approve
    BY <1>0, <2>1 DEF JobInv
  <2> QED BY <1>1, <1>3, <2>1, <2>2, JobGoesOn
<1>8. CASE SendFails(s)
  <2>1. /\ job[s].at # "idle" /\ Ended(s, "review") /\ offers' = offers
        /\ UNCHANGED <<opened, flow, to, amount, currency, contactVars, quoteVars>>
        /\ available' \in Amounts /\ deposited' = deposited /\ deposited' \in BOOLEAN
    BY <1>0, <1>8 DEF SendFails, others, inputVars
  <2> QED BY <1>3, <2>1, JobEnds
<1>9. CASE PolicyAlone(s)
  <2>1. /\ job[s].at = "send" /\ job[s].key.flow = "putToWork" /\ JobMoves(s, "landed", 0, FALSE)
        /\ UNCHANGED <<others, available>> /\ offers' = offers
    BY <1>9 DEF PolicyAlone
  <2>2. 0 \in 0..Len(offers')
    BY <1>0, <2>1
  <2> QED BY <1>3, <2>1, <2>2, JobGoesOn
<1>10. ASSUME NEW balance \in Amounts, LedgerReloaded(s, balance) PROVE FlowsInv'
  <2>1. /\ job[s].at = "landed" /\ Ended(s, "success") /\ offers' = offers
        /\ UNCHANGED <<opened, flow, to, amount, currency, contactVars, quoteVars>>
        /\ available' \in Amounts
        /\ deposited' = IF flow = "putToWork" /\ s = opened THEN job[s].moved ELSE deposited
    BY <1>10 DEF LedgerReloaded
  <2>2. deposited' \in BOOLEAN /\ (s # opened => deposited' = deposited)
    BY <1>0, <1>1, <2>1
  <2>3. job[s].moved \/ job[s].key.flow = "putToWork"
    BY <1>0, <2>1 DEF JobInv
  <2>4. flow # "home" /\ s = opened => job[s].key.flow = flow
    BY <2>1 DEF FlowsInv, ScreenInv
  <2>5. job[s].moved \/ (flow = "putToWork" /\ ~deposited') \/ s # opened \/ flow = "home"
    BY <2>1, <2>3, <2>4
  <2> QED BY <1>3, <2>1, <2>2, <2>5, JobEnds
<1> QED BY <1>4, <1>5, <1>6, <1>7, <1>8, <1>9, <1>10 DEF JobStep

----------------------------------------------------------------------------
LEMMA FlowsStep == FlowsInv /\ [Next]_vars => FlowsInv'
<1> SUFFICES ASSUME FlowsInv, [Next]_vars PROVE FlowsInv'
  OBVIOUS
<1>1. CASE UserStep
  <2>1. NewBankAccount => \E d \in {"bank", "wallet"} : PickDestination(d)
    BY DEF NewBankAccount
  <2> QED BY <1>1, <2>1, OpenSteps, InputSteps, WaySteps, LeaveSteps, ConfirmSteps DEF UserStep
<1>2. CASE QuoteStep
  BY <1>2, QuoteSteps
<1>3. CASE \E s \in Screens : JobStep(s)
  BY <1>3, JobSteps
<1>4. CASE UNCHANGED vars
  <2>1. /\ UNCHANGED <<opened, flow, to, deposited, step, amount, currency, account, directory,
                       available, live, timer, fetches, offers, job>>
        /\ Key' = Key
    BY <1>4 DEF vars, inputVars, contactVars, quoteVars, Key
  <2>2. TypeOK'
    BY <2>1 DEF FlowsInv, TypeOK
  <2>3. QuoteInv'
    BY <2>1 DEF FlowsInv, QuoteInv, AnswerIsCurrent
  <2>4. (\A s \in Screens : JobInv(job[s], offers))'
    BY <2>1 DEF FlowsInv
  <2>5. ScreenInv' /\ SuccessIsTrue'
    BY <2>1 DEF FlowsInv, ScreenInv, SuccessIsTrue
  <2> QED BY <2>2, <2>3, <2>4, <2>5 DEF FlowsInv
<1> QED BY <1>1, <1>2, <1>3, <1>4 DEF Next

\* The invariant from which the following theorems are read off: what a screen waits
\* for, what its flow was allowed, and which flow it waits for.
THEOREM FlowsInductive == Spec => []FlowsInv
  BY FlowsInit, FlowsStep, PTL DEF Spec

\* The state of the screens has its shape.
THEOREM FlowsTypes == Spec => []TypeOK
<1>1. FlowsInv => TypeOK
  BY DEF FlowsInv
<1> QED BY <1>1, FlowsInductive, PTL

\* However answers of useLiveQuote are delayed or reordered against the input, the
\* quote of a screen that has stopped loading is that of its present input.
THEOREM AnswersAreCurrent == Spec => []AnswerIsCurrent
<1>1. FlowsInv => AnswerIsCurrent
  BY DEF FlowsInv, QuoteInv
<1> QED BY <1>1, FlowsInductive, PTL

\* Money leaves Earn only if the review the user confirmed said so, also where the
\* flow had to ask for another quote.
THEOREM UnwindsAreApproved == Spec => []UnwindIsApproved
<1>1. FlowsInv => UnwindIsApproved
  BY DEF FlowsInv, JobInv, UnwindIsApproved
<1> QED BY <1>1, FlowsInductive, PTL

\* A screen that reports success reports it of its own flow, which moved the money, or
\* says that a plan alone was saved.
THEOREM SuccessIsTold == Spec => []SuccessIsTrue
<1>1. FlowsInv => SuccessIsTrue
  BY DEF FlowsInv
<1> QED BY <1>1, FlowsInductive, PTL
=============================================================================
