---------------------------- MODULE EarnProvider ----------------------------
(***************************************************************************)
(* What the backend tells of its yield provider, DeFindex, and asks of it:  *)
(* the capabilities an app reads when it starts, the health report, the     *)
(* strategies, positions and recommendations of YieldService, and the       *)
(* transactions DefindexYieldAdapter has built. A request is a chain of     *)
(* reads; the provider limits their rate, and each may fail.                *)
(*                                                                         *)
(* An app asks for the capabilities once. Its Grow-money flow trusts them,  *)
(* picks a strategy, writes a policy and asks for a deposit: three          *)
(* requests, between which the backend may be deployed anew with another    *)
(* vault and other clients may change the account's policy.                 *)
(***************************************************************************)
EXTENDS Naturals, FiniteSets

CONSTANTS
    Phone,       \* the app of the account's owner
    Others,      \* other clients of the API
    Vaults,
    UsdcVaults,  \* the vaults that take Trinqa's USDC
    Metadata,    \* what DeFindex says of each vault
    Deployments, \* the configurations a backend may be started with
    Risks,       \* the risk profiles the flow offers
    Written,     \* the policies other clients write
    Targets,     \* target timestamps
    NoPolicy,    \* the account has no policy
    None,
    MaxDeploys,  \* a bound on the deployments
    MaxChanges   \* a bound on the policies other clients write

Clients == Others \cup {Phone}

\* key: DEFINDEX_API_KEY is set. apr: DEFINDEX_FIXED_APR_BPS, or None.
Deployment == [key: BOOLEAN, vault: Vaults \cup {None}, apr: Nat \cup {None}]

\* stable: all assets are dollars or lira. growth: the name says so.
VaultInfo == [stable: BOOLEAN, growth: BOOLEAN, assets: Nat \ {0}, apy: Nat]

Policies ==
    [risk: 0..2, target: Targets, allowed: SUBSET Vaults] \cup {NoPolicy}

ASSUME ProviderAssumption ==
    /\ Phone \notin Others
    /\ UsdcVaults \subseteq Vaults
    /\ Metadata \in [Vaults -> VaultInfo]
    /\ Deployments \subseteq Deployment
    /\ Risks \subseteq 0..2
    /\ Written \subseteq Policies \ {NoPolicy}
    /\ None \notin Vaults \cup Targets \cup Nat
    /\ NoPolicy \notin [risk: 0..2, target: Targets, allowed: SUBSET Vaults]
    /\ MaxDeploys \in Nat
    /\ MaxChanges \in Nat

VARIABLES
    deployed, \* the configuration of the backend that runs
    policy,   \* the account's policy on the contract
    calls,    \* the request of each client
    app,      \* what the phone knows, and where its flow stands
    deploys,
    changes

vars == <<deployed, policy, calls, app, deploys, changes>>

MaxAttempts == 3

NoAnswer == [is |-> "none"]

NoCall ==
    [op |-> "none", at |-> "ended", tries |-> 1, want |-> None, days |-> "none",
     view |-> NoPolicy, fit |-> 1, info |-> "unread", health |-> "unread",
     answer |-> NoAnswer, during |-> {}]

\* The app as it starts.
NoApp == [earn |-> "none", from |-> None, stage |-> "off", strategy |-> None, risk |-> 1]

Init ==
    /\ deployed \in Deployments
    /\ policy = NoPolicy
    /\ calls = [c \in Clients |-> NoCall]
    /\ app = NoApp
    /\ deploys = 0
    /\ changes = 0

Ended(c) == calls[c].at = "ended"

----------------------------------------------------------------------------
(* The adapter *)

isConfigured == deployed.key /\ deployed.vault # None

\* Mutant: a vault is as good as its answer.
AcceptsAny == deployed.vault # None

\* assertVaultAcceptsTrinqaUsdc, once the vault's assets are read.
AcceptsUsdc == deployed.vault \in UsdcVaults

\* features.earn of the capabilities.
Earn(health) ==
    IF ~isConfigured THEN "missing_vault_or_key"
    ELSE IF health = "ok" THEN "beta" ELSE "degraded"

\* defindexState of the health report.
DefindexState(health) ==
    IF ~isConfigured THEN "unconfigured"
    ELSE IF health = "mismatch" THEN "blocked"
    ELSE IF health = "ok" THEN "healthy" ELSE "fragmented"

\* intrinsicRiskTierForVault: what is not known is balanced.
Tier(vault, info) ==
    IF info # "read" THEN "balanced"
    ELSE IF Metadata[vault].stable THEN "conservative"
    ELSE IF Metadata[vault].growth THEN "growth" ELSE "balanced"

\* normalizeStrategy: a vault that cannot be read is listed all the same.
Strategy(info, apy) ==
    [vault |-> deployed.vault, tier |-> Tier(deployed.vault, info),
     assets |-> IF info = "read" THEN Metadata[deployed.vault].assets ELSE 1,
     apy |-> IF deployed.apr # None THEN deployed.apr \div 100
             ELSE IF apy = "read" THEN Metadata[deployed.vault].apy ELSE 0]

Listed(info, apy) ==
    IF deployed.vault = None THEN {} ELSE {Strategy(info, apy)}

----------------------------------------------------------------------------
(* The risk engine, in hundredths *)

Tiers == <<"conservative", "balanced", "growth">>

\* riskTierFromProfile, as a place in Tiers.
ProfileRank(risk) == risk + 1

TierRank(tier) == CHOOSE i \in 1..3 : Tiers[i] = tier

Distance(i, j) == IF i < j THEN j - i ELSE i - j

Safety(tier) == CASE tier = "conservative" -> 90
                  [] tier = "balanced" -> 65
                  [] tier = "growth" -> 40

AssetRiskFit(tier, risk) ==
    LET distance == Distance(ProfileRank(risk), TierRank(tier)) IN
    CASE distance = 0 -> 100 [] distance = 1 -> 55 [] distance > 1 -> 20

NetYield(apy) == IF apy > 25 THEN 100 ELSE 4 * apy

Diversification(assets) == IF assets > 2 THEN 100 ELSE 40 + 20 * assets

\* scoreStrategy. Every listed strategy is flexible, so its liquidity is 100.
StrategyScore(s, risk) ==
    35 * Safety(s.tier) + 25 * 100 + 20 * NetYield(s.apy)
        + 10 * AssetRiskFit(s.tier, risk) + 10 * Diversification(s.assets)

\* recommendationReason: safety weighs more than the liquidity of 2500 or it does
\* not, and no other part can.
Reason(s) == IF 35 * Safety(s.tier) >= 2500 THEN "safety" ELSE "liquidity"

----------------------------------------------------------------------------
(* Reads *)

\* withProviderReadRetry: the reads of the provider that are tried again.
Retried == {"health", "info", "balance"}

\* The reads of the contract, of Horizon's balance and of the provider.
Reads == Retried \cup {"policy", "days", "rank", "apy", "gate", "build"}

\* Mutant: any strategy will do.
MatchesAny(strategy) == isConfigured

\* requireConfigured, and the strategy id the configured vault has.
Matches(strategy) == isConfigured /\ strategy = deployed.vault

\* What a request reads first, unless an early return ends it.
Entry(op, want) ==
    CASE op \in {"capabilities", "health"} -> IF deployed.key THEN "health" ELSE "join"
      [] op \in {"strategies", "positions"} -> IF isConfigured THEN "info" ELSE "ended"
      [] op = "advice" -> "policy"
      [] op = "deposit" -> IF Matches(want) THEN "gate" ELSE "ended"
      [] op = "withdrawal" -> IF Matches(want) THEN "info" ELSE "ended"
      [] op = "redemption" -> IF Matches(want) THEN "build" ELSE "ended"

To(call, at) == [call EXCEPT !.at = at, !.tries = 1]

\* The request is answered; what the client still knows of it stays.
Done(call, answer) ==
    [NoCall EXCEPT !.answer = answer, !.op = call.op, !.want = call.want,
                   !.info = IF call.op = "advice" THEN call.info ELSE @,
                   !.during = call.during]

Unheard(answer) == [NoCall EXCEPT !.answer = [is |-> answer]]

Refused == Unheard("refused")

Strategies(info, apy) == [is |-> "strategies", list |-> Listed(info, apy)]

Position(vault) == [is |-> "position", of |-> vault]

\* A request of a client; the early returns answer it at once.
Request(op, want, days) ==
    LET call == [NoCall EXCEPT !.op = op, !.at = Entry(op, want), !.want = want,
                     !.days = days, !.during = IF op = "advice" THEN {policy} ELSE {}] IN
    IF call.at # "ended" THEN call
    ELSE CASE op = "strategies" -> Done(call, Strategies("unread", "unread"))
           [] op = "positions" -> Done(call, Position(None))
           [] OTHER -> Refused

\* Mutant: a profile of 0 counts as no profile.
ProfileOrDefault(p) == IF p = NoPolicy THEN 1 ELSE IF p.risk = 0 THEN 1 ELSE p.risk

\* policy.riskProfile ?? 1
Profile(p) == IF p = NoPolicy THEN 1 ELSE p.risk

\* getRecommendations puts together what its reads have found.
Advice(call, apy) ==
    [is |-> "advice", risk |-> Profile(call.view),
     target |-> IF call.view = NoPolicy THEN None ELSE call.view.target,
     source |-> call.days, fit |-> call.fit,
     ranked |-> {[strategy |-> s, score |-> StrategyScore(s, call.fit), reason |-> Reason(s)]
                    : s \in Listed(call.info, apy)}]

Becomes(c, call) ==
    /\ calls' = [calls EXCEPT ![c] = call]
    /\ UNCHANGED <<deployed, policy, app, deploys, changes>>

At(c, at) == calls[c].at = at

Checks(c) == calls[c].op \in {"capabilities", "health"}

\* The provider answers its health check.
HealthRead(c) ==
    /\ At(c, "health")
    /\ Becomes(c, IF deployed.vault # None THEN To(calls[c], "info")
                  ELSE To([calls[c] EXCEPT !.health = "ok"], "join"))

\* The provider describes the vault, to a health check.
VaultChecked(c) ==
    /\ At(c, "info")
    /\ Checks(c)
    /\ Becomes(c, To([calls[c] EXCEPT !.health = IF AcceptsUsdc THEN "ok" ELSE "mismatch"],
                     "join"))

\* To normalizeStrategy, which goes on to the APY unless the rate is fixed.
VaultDescribed(c) ==
    LET call == [calls[c] EXCEPT !.info = "read"] IN
    /\ At(c, "info")
    /\ call.op \in {"strategies", "advice"}
    /\ Becomes(c, IF deployed.apr = None THEN To(call, "apy")
                  ELSE Done(call, IF call.op = "advice" THEN Advice(call, "unread")
                                  ELSE Strategies("read", "unread")))

\* To normalizePosition, depositToVault and withdrawFromVault, which want USDC.
VaultAsserted(c) ==
    /\ At(c, "info")
    /\ calls[c].op \in {"positions", "deposit", "withdrawal"}
    /\ Becomes(c, IF calls[c].op = "positions"
                  THEN IF AcceptsUsdc THEN To(calls[c], "balance")
                       ELSE Done(calls[c], Position(None))
                  ELSE IF AcceptsUsdc THEN To(calls[c], "build")
                       ELSE Refused)

\* getVaultAPY, which is not tried again.
ApyRead(c) ==
    /\ At(c, "apy")
    /\ Becomes(c, Done(calls[c], IF calls[c].op = "advice" THEN Advice(calls[c], "read")
                                 ELSE Strategies(calls[c].info, "read")))

\* getVaultBalance: the account has a position, or none.
BalanceRead(c) ==
    /\ At(c, "balance")
    /\ \E of \in {deployed.vault, None} : Becomes(c, Done(calls[c], Position(of)))

\* getRecommendations reads the policy for what it shows, resolveDaysToTarget
\* for the horizon unless the query gives it, rankedStrategies for the fit.
PolicyRead(c) ==
    /\ At(c, "policy")
    /\ Becomes(c, To([calls[c] EXCEPT !.view = policy],
                     IF calls[c].days = "query" THEN "rank" ELSE "days"))

DaysRead(c) ==
    /\ At(c, "days")
    /\ Becomes(c, To([calls[c] EXCEPT !.days = IF policy = NoPolicy THEN "default" ELSE "policy"],
                     "rank"))

RankRead(c) ==
    LET call == [calls[c] EXCEPT !.fit = Profile(policy)] IN
    /\ At(c, "rank")
    /\ Becomes(c, IF isConfigured THEN To(call, "info") ELSE Done(call, Advice(call, "unread")))

\* simulateAuthorizeAllocation: no policy, or one that lists the strategy.
GatePassed(c) ==
    /\ At(c, "gate")
    /\ policy # NoPolicy => deployed.vault \in policy.allowed
    /\ Becomes(c, To(calls[c], "info"))

\* The provider builds a transaction for a classic account.
TxBuilt(c) ==
    /\ At(c, "build")
    /\ Becomes(c, Done(calls[c], [is |-> "built", vault |-> deployed.vault]))

\* The legs of Promise.all are in. What the anchor and Soroswap have answered
\* decides other fields than earn. The vault is history: the answer names it,
\* but the app does not keep it.
CapabilitiesTold(c) ==
    /\ At(c, "join")
    /\ calls[c].op = "capabilities"
    /\ Becomes(c, Done(calls[c], [is |-> "capabilities", earn |-> Earn(calls[c].health),
                                  from |-> deployed.vault]))

HealthTold(c) ==
    /\ At(c, "join")
    /\ calls[c].op = "health"
    /\ \E others \in BOOLEAN :
         LET state == DefindexState(calls[c].health) IN
         Becomes(c, Done(calls[c], [is |-> "health", state |-> state,
                     ok |-> others /\ state \in {"healthy", "unconfigured"}]))

\* Mutant: the last attempt starts over.
ReadAgain(c) ==
    /\ \E at \in Retried : At(c, at)
    /\ Becomes(c, [calls[c] EXCEPT !.tries = IF @ = MaxAttempts THEN 1 ELSE @ + 1])

\* 429: the read is tried again after a while, three times in all.
ReadLimited(c) ==
    /\ \E at \in Retried : At(c, at)
    /\ calls[c].tries < MaxAttempts
    /\ Becomes(c, [calls[c] EXCEPT !.tries = @ + 1])

\* A read has failed for good. Health checks report it, a strategy keeps what
\* metadata it has, positions are taken for none; any other request fails.
Failed(call) ==
    CASE call.op \in {"capabilities", "health"} -> To([call EXCEPT !.health = "failed"], "join")
      [] call.op = "strategies" -> Done(call, Strategies(call.info, "unread"))
      [] call.op = "positions" -> Done(call, Position(None))
      [] call.op = "advice" /\ call.at \in {"info", "apy"} -> Done(call, Advice(call, "unread"))
      [] OTHER -> Refused

\* So does the policy refuse a deposit, or the provider answer with a
\* smart-wallet flow or with no transaction.
ReadFails(c) ==
    /\ \E at \in Reads : At(c, at)
    /\ Becomes(c, Failed(calls[c]))

Proceeds(c) ==
    \/ HealthRead(c) \/ VaultChecked(c) \/ VaultDescribed(c) \/ VaultAsserted(c)
    \/ ApyRead(c) \/ BalanceRead(c) \/ GatePassed(c) \/ TxBuilt(c)
    \/ PolicyRead(c) \/ DaysRead(c) \/ RankRead(c)
    \/ CapabilitiesTold(c) \/ HealthTold(c)
    \/ ReadLimited(c) \/ ReadFails(c)

----------------------------------------------------------------------------
(* The app *)

\* earnUnavailable: the word of the capabilities, as the app started.
earnUnavailable == app.earn # "beta"

Answer(is) == Ended(Phone) /\ calls[Phone].answer.is = is

AppMoves(fields) ==
    /\ app' = fields
    /\ UNCHANGED <<deployed, policy, deploys, changes>>

\* bootstrapAccount asks for the health, then for the capabilities; DeviceWallet
\* has the rest of it.
AppStarts ==
    /\ app.stage = "off"
    /\ calls' = [calls EXCEPT ![Phone] = Request("health", None, "none")]
    /\ AppMoves([app EXCEPT !.stage = "starting"])

HealthHeard ==
    /\ app.stage = "starting"
    /\ Answer("health")
    /\ calls' = [calls EXCEPT ![Phone] = Request("capabilities", None, "none")]
    /\ AppMoves(app)

CapabilitiesHeard ==
    LET told == calls[Phone].answer IN
    /\ app.stage = "starting"
    /\ Answer("capabilities")
    /\ calls' = [calls EXCEPT ![Phone] = NoCall]
    /\ AppMoves([app EXCEPT !.stage = "open", !.earn = told.earn, !.from = told.from])

\* The app is started again; what it knew is gone.
AppCloses ==
    /\ app.stage # "off"
    /\ calls' = [calls EXCEPT ![Phone] = NoCall]
    /\ AppMoves(NoApp)

\* Confirm of the Grow-money flow: a strategy is picked, unless earn is said to
\* be unavailable; then the plan is saved alone.
Confirms(risk) ==
    /\ app.stage = "open"
    /\ calls' = [calls EXCEPT ![Phone] =
                    IF earnUnavailable THEN NoCall ELSE Request("strategies", None, "none")]
    /\ AppMoves([app EXCEPT !.stage = IF earnUnavailable THEN "saving" ELSE "choosing",
                            !.risk = risk, !.strategy = None])

StrategyPicked ==
    /\ app.stage = "choosing"
    /\ Answer("strategies")
    /\ calls[Phone].answer.list # {}
    /\ calls' = [calls EXCEPT ![Phone] = NoCall]
    /\ \E s \in calls[Phone].answer.list :
         AppMoves([app EXCEPT !.stage = "saving", !.strategy = s.vault])

\* The requests for advice under way, once the policy is p.
Noted(p) ==
    [c \in Clients |-> IF calls[c].op = "advice" /\ ~Ended(c)
                       THEN [calls[c] EXCEPT !.during = @ \cup {p}] ELSE calls[c]]

\* set_policy is built, signed and applied: the plan lists the strategy alone.
\* Without one the flow ends, and the plan lists none.
PlanSaved(target) ==
    LET plan == [risk |-> app.risk, target |-> target,
                 allowed |-> IF app.strategy = None THEN {} ELSE {app.strategy}]
        picked == app.strategy # None IN
    /\ app.stage = "saving"
    /\ policy' = plan
    /\ calls' = IF picked THEN [Noted(plan) EXCEPT ![Phone] =
                                  Request("deposit", app.strategy, "none")]
                ELSE Noted(plan)
    /\ app' = [app EXCEPT !.stage = IF picked THEN "depositing" ELSE "open", !.risk = 1]
    /\ UNCHANGED <<deployed, deploys, changes>>

\* The deposit is signed and sent: YieldDeposit goes on from here.
DepositTaken ==
    /\ app.stage = "depositing"
    /\ Answer("built")
    /\ calls' = [calls EXCEPT ![Phone] = NoCall]
    /\ AppMoves([app EXCEPT !.stage = "open", !.strategy = None])

\* A request was refused or has failed, no strategy is listed, or the plan was
\* not saved: the flow is back at its review, and a bootstrap where it began.
FlowFails ==
    /\ \/ app.stage = "saving"
       \/ /\ app.stage \in {"starting", "choosing", "depositing"}
          /\ Answer("refused") \/ Answer("lost")
       \/ /\ app.stage = "choosing"
          /\ Answer("strategies")
          /\ calls[Phone].answer.list = {}
    /\ calls' = [calls EXCEPT ![Phone] = NoCall]
    /\ AppMoves([app EXCEPT !.stage = IF app.stage = "starting" THEN "off" ELSE "open",
                            !.strategy = None, !.risk = 1])

AppGoesOn ==
    \/ HealthHeard \/ CapabilitiesHeard \/ StrategyPicked \/ DepositTaken \/ FlowFails
    \/ \E target \in Targets : PlanSaved(target)

----------------------------------------------------------------------------
(* The others *)

Asks(c, op, want, days) ==
    /\ Ended(c)
    /\ Becomes(c, Request(op, want, days))

AsksMoney(c) ==
    \E op \in {"deposit", "withdrawal", "redemption"}, vault \in Vaults :
        Asks(c, op, vault, "none")

AsksAdvice(c) == \E days \in {"none", "query"} : Asks(c, "advice", None, days)

AsksPositions(c) == Asks(c, "positions", None, "none")

\* Another client writes the account's policy.
PolicyChanges(p) ==
    /\ changes < MaxChanges
    /\ policy' = p
    /\ calls' = Noted(p)
    /\ changes' = changes + 1
    /\ UNCHANGED <<deployed, app, deploys>>

\* The backend is deployed anew, and the requests it had are lost.
BackendDeploys(d) ==
    /\ deploys < MaxDeploys
    /\ deployed' = d
    /\ calls' = [c \in Clients |-> IF Ended(c) THEN calls[c] ELSE Unheard("lost")]
    /\ deploys' = deploys + 1
    /\ UNCHANGED <<policy, app, changes>>

Next ==
    \/ \E c \in Clients : Proceeds(c)
    \/ \E c \in Others : AsksMoney(c) \/ AsksAdvice(c) \/ AsksPositions(c)
    \/ AppStarts \/ AppCloses \/ AppGoesOn
    \/ \E risk \in Risks : Confirms(risk)
    \/ \E p \in Written : PolicyChanges(p)
    \/ \E d \in Deployments : BackendDeploys(d)

Spec == Init /\ [][Next]_vars

\* The provider, the contract and the network answer each read of the phone's
\* requests or fail it, and the app goes on with what it hears.
FairSpec ==
    /\ Spec
    /\ WF_vars(Proceeds(Phone))
    /\ WF_vars(AppGoesOn)

----------------------------------------------------------------------------
(* Properties *)

Told(c, is) == calls[c].answer.is = is

\* A deposit or a withdrawal is only built at the vault its client has named,
\* although the backend may have been deployed with another one since the
\* client was told of it (buildDeposit and buildWithdraw compare the ids).
VaultIsNamed ==
    \A c \in Clients : Told(c, "built") => calls[c].answer.vault = calls[c].want

\* Whatever the app was told when it started and whatever has been deployed
\* since, USDC only goes to a vault that takes it, and an amount or a position
\* of USDC is only spoken of at such a vault. Redeeming shares is not: any vault
\* gives them back. The capabilities call no other vault fit for deposits.
UsdcStaysUsdc ==
    /\ \A c \in Clients :
         /\ Told(c, "built") /\ calls[c].op # "redemption" =>
              calls[c].answer.vault \in UsdcVaults
         /\ Told(c, "position") /\ calls[c].answer.of # None =>
              calls[c].answer.of \in UsdcVaults
    /\ app.earn = "beta" => app.from \in UsdcVaults

\* A recommendation is put together from three reads of the policy and one of
\* the provider, any of which may change meanwhile. Each part is still of a
\* policy the account had while the request ran: the profile and the date shown
\* are of one policy, the horizon and the fit of another, perhaps. The tier is
\* the vault's own, unless the provider has not described it.
AdviceIsHonest ==
    \A c \in Clients : Told(c, "advice") =>
        LET a == calls[c].answer
            showsRisk(p, risk) == IF p = NoPolicy THEN risk = 1 ELSE risk = p.risk IN
        /\ \E p \in calls[c].during :
             /\ showsRisk(p, a.risk)
             /\ a.target = IF p = NoPolicy THEN None ELSE p.target
        /\ \E p \in calls[c].during : showsRisk(p, a.fit)
        /\ a.source # "query" =>
             \E p \in calls[c].during : a.source = "policy" <=> p # NoPolicy
        /\ calls[c].info = "read" =>
             \A r \in a.ranked :
                LET said == Metadata[r.strategy.vault] IN
                /\ r.strategy.tier = "conservative" <=> said.stable
                /\ r.strategy.tier = "growth" <=> said.growth /\ ~said.stable

\* However often the provider limits the rate, whatever fails and whatever is
\* deployed meanwhile, the app's requests are answered and its flow comes back to
\* a screen the user can act on (withProviderReadRetry gives up after three).
FlowsEnd == app.stage \notin {"off", "open"} ~> app.stage \in {"off", "open"}
==========================================================================
