---------------------------- MODULE RoutePlanning ----------------------------
(***************************************************************************)
(* How a payout route is decided and a cash-out priced. A preview           *)
(* (route-planner.service.ts) lists the anchors, drops those that cannot    *)
(* serve the request with every reason there is (route-filter.ts), asks the *)
(* ones that can only quote for a price, lets the advisor judge             *)
(* (jev-advisor.ts) and scores (route-scorer.ts). A TRY quote               *)
(* (payment-router.service.ts) is the anchor's firm quote, held against its *)
(* limits and annotated with a preview, a quote for XLM is Soroswap's, and  *)
(* each is split over the user's balances.                                  *)
(* What the app tells the user of a decision is at the end.                 *)
(*                                                                         *)
(* The steps of the anchors are those of AnchorDirectory. Amounts are whole *)
(* units; a score is in tenths, a confidence in tenths.                     *)
(***************************************************************************)
EXTENDS AnchorDirectory, FiniteSetsExt

CONSTANTS
    Requests,      \* the previews that are asked for
    Sources,       \* the balances a quote may be asked to draw on
    Amounts,       \* amounts, and balances
    NoLimit,       \* a limit or a fee that /info does not publish
    Answers,       \* what the advisor may answer of one route
    NoGrade,       \* an answer that cannot be used
    HasAdvisor,    \* an advisor is configured
    MinFactor,     \* the confidence below which one judgment is dropped
    MinConfidence, \* the confidence below which the advice on a route is dropped
    Spread,        \* the fee an indicative price carries
    Order,         \* the order of the anchors' ids
    NoAnchor       \* no route

VARIABLE calls \* the previews and quotes under way

routeVars == <<vars, calls>>

RejectReasons ==
    {"UNAVAILABLE", "SEP_MISSING", "DIRECTION_UNSUPPORTED", "CURRENCY_UNSUPPORTED",
     "BELOW_MIN", "ABOVE_MAX", "KYC_REQUIRED", "NOT_EXECUTABLE"}

KycStatuses == {"ACCEPTED", "NEEDS_INFO", "PROCESSING", "REJECTED", "UNKNOWN"}

\* conservative: the user's risk profile is 0; soon: the target is at most 7 days away.
RouteRequest ==
    [direction : Directions, fiat : Fiat, amount : Nat, kyc : KycStatuses,
     requireExecutable : BOOLEAN, conservative : BOOLEAN, soon : BOOLEAN]

\* The five grades an advisor gives.
JudgmentFactors == {"reliability", "liquidity", "horizonFit", "riskFit", "yieldImpact"}

\* A grade, the best one its rubric (or the legend of the answer) has, and how sure.
Grade == [score : Int, scale : Nat \ {0}, confidence : Int]

\* A limit or a fee of a rail.
Limit == Nat \cup {NoLimit}

ASSUME RouteAssumption ==
    /\ Requests \subseteq RouteRequest
    /\ Amounts \subseteq Nat
    /\ Rails \subseteq [enabled : BOOLEAN, min : Limit, max : Limit,
                        feePercent : Limit, feeFixed : Limit]
    /\ Answers \subseteq [JudgmentFactors -> Grade \cup {NoGrade}]
    /\ Spread \in Nat
    /\ Order \in [Anchors -> Nat]
    /\ \A a, b \in Anchors : Order[a] = Order[b] => a = b
    /\ IsFiniteSet(Anchors)
    /\ NoAnchor \notin Anchors

\* What previewTryCashOutRoute asks of a debit.
CashOut(amount) ==
    [direction |-> "withdraw", fiat |-> HomeFiat, amount |-> amount, kyc |-> "UNKNOWN",
     requireExecutable |-> FALSE, conservative |-> FALSE, soon |-> FALSE]

----------------------------------------------------------------------------
(* The filter *)

Served(s, r) == s.info[r.direction] # NoRail /\ s.info[r.direction].enabled

BelowMin(rail, amount) == rail.min # NoLimit /\ amount < rail.min

\* Mutant: an amount just above the limit passes.
AboveMaxByMore(rail, amount) == rail.max # NoLimit /\ amount > rail.max + 1

AboveMax(rail, amount) == rail.max # NoLimit /\ amount > rail.max

\* Every reason that applies; a limit is looked at once the currency is right.
Reasons(s, r) ==
    LET rail == s.info[r.direction]
        settles == Served(s, r) /\ r.fiat \in s.fiat
    IN  {x \in RejectReasons :
            \/ x = "UNAVAILABLE" /\ s.status = "UNAVAILABLE"
            \/ x = "SEP_MISSING" /\ ~({"sep6", "sep10"} \subseteq s.seps)
            \/ x = "DIRECTION_UNSUPPORTED" /\ ~Served(s, r)
            \/ x = "CURRENCY_UNSUPPORTED" /\ Served(s, r) /\ ~settles
            \/ x = "BELOW_MIN" /\ settles /\ BelowMin(rail, r.amount)
            \/ x = "ABOVE_MAX" /\ settles /\ AboveMax(rail, r.amount)
            \/ x = "KYC_REQUIRED" /\ s.status = "EXECUTABLE" /\ r.kyc \in {"NEEDS_INFO", "REJECTED"}
            \/ x = "NOT_EXECUTABLE" /\ s.status # "EXECUTABLE" /\ r.requireExecutable}

Candidates(snapshots, r) == {a \in Anchors : Reasons(snapshots[a], r) = {}}

----------------------------------------------------------------------------
(* The scores *)

Factors == {"netCost", "speed"} \cup JudgmentFactors

Clamp(n) == IF n < 0 THEN 0 ELSE IF n > 100 THEN 100 ELSE n

Published(fee) == IF fee = NoLimit THEN 0 ELSE fee

\* Twenty points for each per cent of the amount; neutral when no fee is published.
NetCost(rail, amount, priced) ==
    IF rail.feePercent = NoLimit /\ rail.feeFixed = NoLimit THEN 50
    ELSE LET fixed == IF amount = 0 THEN 0
                      ELSE (2000 * (Published(rail.feeFixed) + IF priced THEN Spread ELSE 0)) \div amount
         IN  Clamp(100 - 20 * Published(rail.feePercent) - fixed)

Minutes(direction) == IF direction = "deposit" THEN 2 ELSE 30

Speed(s, r) == IF s.status = "EXECUTABLE" THEN Clamp(100 - 2 * Minutes(r.direction)) ELSE 50

Reliability(s) == IF s.healthy THEN 90 ELSE 30

Liquidity(rail, amount) ==
    IF rail.max = NoLimit \/ rail.max = 0 THEN 70 ELSE Clamp(((rail.max - amount) * 100) \div rail.max)

Deterministic(s, r, priced) ==
    [netCost |-> NetCost(s.info[r.direction], r.amount, priced),
     speed |-> Speed(s, r),
     reliability |-> Reliability(s),
     liquidity |-> Liquidity(s.info[r.direction], r.amount),
     horizonFit |-> IF r.soon THEN Speed(s, r) ELSE 50,
     riskFit |-> IF r.conservative THEN Reliability(s) ELSE 50,
     yieldImpact |-> 50]

Weights ==
    [netCost |-> 35, speed |-> 15, reliability |-> 15, liquidity |-> 10,
     horizonFit |-> 10, riskFit |-> 10, yieldImpact |-> 5]

\* Mutant: the app shows another weight for the cost.
OldShownWeights == [Weights EXCEPT !.netCost = 40, !.yieldImpact = 0]

\* The app restates the weights beside the factors (ROUTE_FACTORS).
ShownWeights ==
    [netCost |-> 35, speed |-> 15, reliability |-> 15, liquidity |-> 10,
     horizonFit |-> 10, riskFit |-> 10, yieldImpact |-> 5]

\* In tenths, rounded like Math.round.
Score(w, f) ==
    (w.netCost * f.netCost + w.speed * f.speed + w.reliability * f.reliability
     + w.liquidity * f.liquidity + w.horizonFit * f.horizonFit + w.riskFit * f.riskFit
     + w.yieldImpact * f.yieldImpact + 5) \div 10

----------------------------------------------------------------------------
(* The advice *)

\* A grade as a share of the scale it was given on, rounded like Math.round; one that
\* cannot be read drops the route.
Normalized(g) == Clamp((200 * g.score + g.scale) \div (2 * g.scale))

Judged(answer) == {k \in JudgmentFactors : answer[k].confidence >= MinFactor}

Advises(answer) == (\A k \in JudgmentFactors : answer[k] # NoGrade) /\ Judged(answer) # {}

\* The mean over the judgments that passed is held against the threshold.
Usable(answer) ==
    /\ Advises(answer)
    /\ MapThenSumSet(LAMBDA k : answer[k].confidence, Judged(answer))
         >= MinConfidence * Cardinality(Judged(answer))

\* What there is of advice: none was asked, it came, it failed (the advisor answers
\* with nothing), or it was too late.
Fallback(candidates, outcome, answers) ==
    CASE outcome = "unasked" -> IF HasAdvisor THEN "no_routes" ELSE "disabled"
      [] outcome = "late" -> "timeout"
      [] outcome = "failed" -> "invalid_output"
      [] OTHER -> IF \A a \in candidates : ~Advises(answers[a]) THEN "invalid_output"
                  ELSE IF \A a \in candidates : ~Usable(answers[a]) THEN "low_confidence"
                  ELSE "none"

----------------------------------------------------------------------------
(* The decision *)

Merged(f, answer) ==
    [k \in Factors |-> IF k \in Judged(answer) THEN Normalized(answer[k]) ELSE f[k]]

Scored(s, r, priced, advised, answer) ==
    LET own == Deterministic(s, r, priced)
        f == IF advised THEN Merged(own, answer) ELSE own
    IN  [status |-> s.status, factors |-> f, advised |-> advised, score |-> Score(Weights, f)]

\* The order of the sort: the score, then what can be executed, then the id.
Outranks(eligible, a, b) ==
    \/ eligible[a].score > eligible[b].score
    \/ /\ eligible[a].score = eligible[b].score
       /\ \/ eligible[a].status = "EXECUTABLE" /\ eligible[b].status # "EXECUTABLE"
          \/ /\ (eligible[a].status = "EXECUTABLE") = (eligible[b].status = "EXECUTABLE")
             /\ Order[a] < Order[b]

First(eligible) ==
    IF DOMAIN eligible = {} THEN NoAnchor
    ELSE CHOOSE a \in DOMAIN eligible :
            \A b \in DOMAIN eligible \ {a} : Outranks(eligible, a, b)

Decision(snapshots, r, priced, outcome, answers) ==
    LET candidates == Candidates(snapshots, r)
        advised(a) == outcome = "came" /\ Usable(answers[a])
        eligible == [a \in candidates |->
                        Scored(snapshots[a], r, a \in priced, advised(a), answers[a])]
        chosen == First(eligible)
    IN  [eligible |-> eligible,
         rejected |-> [a \in Anchors \ candidates |-> Reasons(snapshots[a], r)],
         chosen |-> chosen,
         executable |-> chosen # NoAnchor /\ eligible[chosen].status = "EXECUTABLE",
         used |-> \E a \in candidates : advised(a),
         fallback |-> Fallback(candidates, outcome, answers)]

----------------------------------------------------------------------------
(* The route of a quote *)

\* The routes, with what a quote puts down for them.
Options ==
    [stellar_transfer |-> [to |-> "USDC", minutes |-> 2, netPayout |-> 95,
         reliability |-> 95, kycFriction |-> 100, limits |-> 90],
     fiat_payout |-> [to |-> "TRY", minutes |-> 30, netPayout |-> 85,
         reliability |-> 90, kycFriction |-> 70, limits |-> 80],
     stellar_swap_transfer |-> [to |-> "XLM", minutes |-> 5, netPayout |-> 80,
         reliability |-> 85, kycFriction |-> 100, limits |-> 75]]

\* scoreRoute, in hundredths.
RouteScore(o) ==
    40 * o.netPayout + 20 * Clamp(100 - 2 * o.minutes) + 15 * o.reliability
        + 15 * o.kycFriction + 10 * o.limits

\* The best of the routes that pay out in a currency.
RouteTo(currency) ==
    CHOOSE t \in DOMAIN Options :
        /\ Options[t].to = currency
        /\ \A u \in DOMAIN Options :
             Options[u].to = currency => RouteScore(Options[u]) <= RouteScore(Options[t])

----------------------------------------------------------------------------
(* The balances of a quote *)

Least(m, n) == IF m < n THEN m ELSE n

Split(ok, available, earn) ==
    [ok |-> ok, available |-> available, earn |-> earn, unwind |-> earn > 0]

\* Mutant: what is missing is taken from the earn balance before the available one is empty.
FundingEarnFirst(available, earning, debit, source) ==
    IF debit > available + earning THEN Split(FALSE, 0, 0)
    ELSE Split(TRUE, debit - Least(earning, debit), Least(earning, debit))

\* computeFunding.
Funding(available, earning, debit, source) ==
    CASE source = "available" ->
           IF debit > available THEN Split(FALSE, 0, 0) ELSE Split(TRUE, debit, 0)
      [] source = "earn" ->
           IF debit > available + earning THEN Split(FALSE, 0, 0)
           ELSE Split(TRUE, debit - Least(earning, debit), Least(earning, debit))
      [] OTHER ->
           IF debit > available + earning THEN Split(FALSE, 0, 0)
           ELSE Split(TRUE, Least(available, debit), debit - Least(available, debit))

----------------------------------------------------------------------------
(* The calls *)

NoRequest == CashOut(0)

NoDecision ==
    [eligible |-> << >>, rejected |-> << >>, chosen |-> NoAnchor, executable |-> FALSE,
     used |-> FALSE, fallback |-> "none"]

NoFunding == [source |-> "any", of |-> <<0, 0>>, split |-> Split(FALSE, 0, 0)]

NoSnapshots == [a \in Anchors |-> NoSnapshot]

NoCall ==
    [kind |-> "none", to |-> "none", at |-> "idle", request |-> NoRequest,
     snapshots |-> NoSnapshots, priced |-> {}, decision |-> NoDecision, funding |-> NoFunding]

RouteInit == Init /\ calls = [c \in Calls |-> NoCall]

Sets(c, fields) == calls' = [calls EXCEPT ![c] = fields]

\* GET /routes/preview.
Preview(c, r) ==
    /\ calls[c] = NoCall
    /\ List(c)
    /\ Sets(c, [NoCall EXCEPT !.kind = "preview", !.at = "listing", !.request = r])

\* POST /payments/quote for TRY: without a session that is still valid nothing is asked.
Quote(c) ==
    /\ calls[c] = NoCall
    /\ \E a \in Executables : AskFirm(c, a)
    /\ Sets(c, [NoCall EXCEPT !.kind = "quote", !.to = "TRY", !.at = "firm"])

\* POST /payments/quote for USDC debits what is received; nobody else is asked.
QuoteTransfer(c) ==
    /\ calls[c] = NoCall
    /\ \E debit \in Amounts :
         Sets(c, [NoCall EXCEPT !.kind = "quote", !.to = "USDC", !.at = "balances",
                                !.request = CashOut(debit)])
    /\ UNCHANGED vars

\* POST /payments/quote for XLM asks Soroswap what the amount costs.
QuoteSwap(c) ==
    /\ calls[c] = NoCall
    /\ Sets(c, [NoCall EXCEPT !.kind = "quote", !.to = "XLM", !.at = "swap"])
    /\ UNCHANGED vars

\* A quote that is refused says nothing of what was read for it.
Refused == [NoCall EXCEPT !.kind = "quote", !.at = "refused"]

\* Soroswap lists no such pair, fails, or says what is debited.
SwapEnds(c) ==
    /\ calls[c].at = "swap"
    /\ \/ Sets(c, Refused)
       \/ \E debit \in Amounts :
            Sets(c, [calls[c] EXCEPT !.at = "balances", !.request = CashOut(debit)])
    /\ UNCHANGED vars

\* So is a quote in a currency that has no rail.
QuoteWithoutSession(c) ==
    /\ calls[c] = NoCall
    /\ Sets(c, Refused)
    /\ UNCHANGED vars

\* The firm quote says what is debited.
FirmEnds(c) ==
    /\ calls[c].at = "firm"
    /\ \E a \in Executables :
        \/ /\ jobs[c][a].ok
           /\ AskLimits(c, a)
           /\ \E debit \in Amounts :
                Sets(c, [calls[c] EXCEPT !.at = "limits", !.request = CashOut(debit)])
        \/ ~jobs[c][a].ok /\ Collect(c) /\ Sets(c, Refused)

\* assertWithinWithdrawLimits, then the preview; a rail that is not enabled has limits too.
LimitsEnd(c) ==
    /\ calls[c].at = "limits"
    /\ \E a \in Executables :
        LET rail == jobs[c][a].info["withdraw"]
            amount == calls[c].request.amount
            out == rail # NoRail /\ (BelowMin(rail, amount) \/ AboveMax(rail, amount))
        IN  \/ jobs[c][a].ok /\ ~out /\ List(c) /\ Sets(c, [calls[c] EXCEPT !.at = "listing"])
            \/ (~jobs[c][a].ok \/ out) /\ Collect(c) /\ Sets(c, Refused)

\* The list is complete; the candidates that only quote are asked for a price.
Listed(c) ==
    LET snapshots == [a \in Anchors |-> jobs[c][a].snap]
        quoting == {a \in Candidates(snapshots, calls[c].request) :
                        snapshots[a].status = "QUOTE_ONLY"}
        call == [calls[c] EXCEPT !.snapshots = snapshots]
    IN  /\ calls[c].at = "listing"
        /\ \/ AskPrices(c, quoting) /\ Sets(c, [call EXCEPT !.at = "pricing"])
           \/ quoting = {} /\ Collect(c) /\ Sets(c, [call EXCEPT !.at = "advising"])

Prices(c) == {a \in Anchors : jobs[c][a].goal = "price" /\ jobs[c][a].ok}

Priced(c) ==
    /\ calls[c].at = "pricing"
    /\ Collect(c)
    /\ Sets(c, [calls[c] EXCEPT !.at = "advising", !.priced = Prices(c)])

\* withTimeout: the candidates that have not answered go on without a price; their
\* requests, and what they write to the caches, go on too.
PricingTimesOut(c) ==
    /\ calls[c].at = "pricing"
    /\ ~AllDone(c)
    /\ Sets(c, [calls[c] EXCEPT !.at = "advising", !.priced = Prices(c)])
    /\ UNCHANGED vars

Chosen(c) == Candidates(calls[c].snapshots, calls[c].request)

\* The decision of a preview is its answer; a quote goes on to the balances.
Decides(c, outcome, answers) ==
    /\ calls[c].at = "advising"
    /\ (outcome = "unasked") = (~HasAdvisor \/ Chosen(c) = {})
    /\ Sets(c, [calls[c] EXCEPT
                   !.at = IF calls[c].kind = "quote" THEN "balances" ELSE "answered",
                   !.decision = Decision(calls[c].snapshots, calls[c].request,
                                         calls[c].priced, outcome, answers)])
    /\ UNCHANGED vars

Unadvised(c) == Decides(c, "unasked", << >>)

AdviceComes(c) == \E answers \in [Chosen(c) -> Answers] : Decides(c, "came", answers)

\* The advisor gives up by itself, or decideRoute stops waiting for it.
AdviceFails(c) == Decides(c, "failed", << >>)

\* Mutant: nothing limits how long an advisor is waited for.
AdviceIsAwaited(c) == ~HasAdvisor /\ Decides(c, "late", << >>)

AdviceIsLate(c) == Decides(c, "late", << >>)

\* resolveBalances: an account that does not exist holds nothing. The source the user
\* asked for counts only here.
BalancesRead(c) ==
    /\ calls[c].at = "balances"
    /\ \E available \in Amounts, earning \in Amounts, source \in Sources :
        LET split == Funding(available, earning, calls[c].request.amount, source)
        IN  Sets(c, IF ~split.ok THEN Refused
                    ELSE [calls[c] EXCEPT !.at = "answered",
                                          !.funding = [source |-> source, split |-> split,
                                                       of |-> <<available, earning>>]])
    /\ UNCHANGED vars

BalancesFail(c) ==
    /\ calls[c].at = "balances"
    /\ Sets(c, Refused)
    /\ UNCHANGED vars

\* The answer is sent. The name of a call is used again when nothing of it is under way.
Answered(c) ==
    /\ calls[c].at \in {"answered", "refused"}
    /\ Collect(c)
    /\ Sets(c, NoCall)

Starts(c) ==
    \/ \E r \in Requests : Preview(c, r)
    \/ Quote(c)
    \/ QuoteWithoutSession(c)
    \/ QuoteTransfer(c)
    \/ QuoteSwap(c)

\* What the process does as soon as it can, its timers among it.
Proceeds(c) ==
    \/ FirmEnds(c)
    \/ LimitsEnd(c)
    \/ Listed(c)
    \/ Priced(c)
    \/ PricingTimesOut(c)
    \/ Unadvised(c)
    \/ AdviceIsLate(c)
    \/ Answered(c)

\* Horizon, DeFindex or Soroswap answers, or fails.
BalancesEnd(c) == BalancesFail(c) \/ BalancesRead(c) \/ SwapEnds(c)

AnchorAnswers(c, a) == (RequestEnds(c, a) \/ Throws(c, a)) /\ UNCHANGED calls

RouteNext ==
    \/ \E c \in Calls : Starts(c) \/ Proceeds(c) \/ BalancesEnd(c)
    \/ \E c \in Calls : AdviceComes(c) \/ AdviceFails(c)
    \/ \E c \in Calls, a \in Anchors : AnchorAnswers(c, a)
    \/ Tick /\ UNCHANGED calls

\* The requests to the anchors, to Horizon and to DeFindex end, by an answer, a failure
\* or a timeout, and the process goes on. That the advisor answers is not assumed.
GoesOn(c) == Proceeds(c) \/ BalancesEnd(c) \/ \E a \in Anchors : AnchorAnswers(c, a)

RouteFairness == \A c \in Calls : WF_routeVars(GoesOn(c))

RouteSpec == RouteInit /\ [][RouteNext]_routeVars

FairRouteSpec == RouteSpec /\ RouteFairness

----------------------------------------------------------------------------
(* What the app says of a decision *)

MovesMoney(d) == {a \in DOMAIN d.eligible : d.eligible[a].status = "EXECUTABLE"}

\* The sheet: which of the candidates can move money.
SheetNote(d) ==
    IF MovesMoney(d) = {} THEN "none"
    ELSE IF Cardinality(MovesMoney(d)) = 1 THEN "only one" ELSE "several"

\* The review: who was picked, whether the advisor is named, and who pays out, which
\* is always executedVia, TR_ANCHOR_DOMAIN.
ReviewNote(d) ==
    [pick |-> d.chosen, names |-> d.chosen # NoAnchor /\ d.used, pays |-> Executables]

----------------------------------------------------------------------------
(* Properties *)

Decided(c) == calls[c].decision # NoDecision

\* The route a decision names could serve the request by what the directory said of
\* its anchor (filterRoutes drops for a reason, this states what must be there), no
\* other eligible route scores more, and a decision that fell back for whatever
\* reason is the one that no advice at all would have given (decideRoute).
DecisionIsSound ==
    \A c \in Calls : Decided(c) =>
        LET d == calls[c].decision
            r == calls[c].request
            s == calls[c].snapshots[d.chosen]
            rail == s.info[r.direction]
        IN  /\ d.chosen # NoAnchor =>
                 /\ s.status # "UNAVAILABLE"
                 /\ {"sep6", "sep10"} \subseteq s.seps
                 /\ rail # NoRail /\ rail.enabled /\ r.fiat \in s.fiat
                 /\ rail.min # NoLimit => r.amount >= rail.min
                 /\ rail.max # NoLimit => r.amount <= rail.max
                 /\ r.requireExecutable => s.status = "EXECUTABLE"
                 /\ s.status = "EXECUTABLE" => r.kyc \notin {"NEEDS_INFO", "REJECTED"}
                 /\ \A a \in DOMAIN d.eligible : d.eligible[a].score <= d.eligible[d.chosen].score
            /\ d.fallback # "none" =>
                 d.chosen = Decision(calls[c].snapshots, r, calls[c].priced, "failed", << >>).chosen

\* The parts of a quote's funding add up to the debit and are there; the earn
\* balance is drawn on only as the source allows, and exactly then an unwind is
\* announced (computeFunding, at zero, at a balance and above it).
FundingIsExact ==
    \A c \in Calls : (calls[c].kind = "quote" /\ calls[c].at = "answered") =>
        LET f == calls[c].funding
            s == f.split
        IN  /\ s.available + s.earn = calls[c].request.amount
            /\ s.available <= f.of[1]
            /\ s.earn <= f.of[2]
            /\ s.unwind = (s.earn > 0)
            /\ f.source = "available" => s.earn = 0
            /\ f.source = "any" => s.earn = 0 \/ s.available = f.of[1]
            /\ f.source = "earn" => s.available = 0 \/ s.earn = f.of[2]

\* What the app says besides the decision agrees with it: an anchor that was picked
\* and is said to pay out can be executed, and the sheet counts it among those that
\* move money (routeDecisionSubtitle, executableNote); the advisor is named only if
\* its word counted; the weights on the sheet add up to the score beside them
\* (ROUTE_FACTORS); and a quote with a decision pays out in TRY, in the minutes the
\* decision was scored with. When another anchor was picked, or none, the review still
\* says that executedVia pays out; nothing in the code makes that true, and it is no
\* part of this.
ClaimsHold ==
    \A c \in Calls : Decided(c) =>
        LET d == calls[c].decision
            note == ReviewNote(d)
        IN  /\ note.pick \in note.pays => d.executable /\ note.pick \in MovesMoney(d)
                                         /\ SheetNote(d) # "none"
            /\ note.names => d.fallback = "none"
            /\ \A a \in DOMAIN d.eligible :
                 d.eligible[a].score = Score(ShownWeights, d.eligible[a].factors)
            /\ calls[c].kind = "quote" =>
                 LET route == Options[RouteTo(calls[c].to)]
                 IN  route.to = "TRY" /\ route.minutes = Minutes(calls[c].request.direction)

\* Every preview and every quote is answered, whatever the anchors and the advisor do.
CallsEnd == \A c \in Calls : calls[c] # NoCall ~> calls[c] = NoCall
=============================================================================
