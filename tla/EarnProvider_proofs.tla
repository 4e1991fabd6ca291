------------------------ MODULE EarnProvider_proofs ------------------------
(***************************************************************************)
(* What the backend builds at its yield provider and says of it, for any    *)
(* vaults, deployments, policies and clients. A request is a chain of       *)
(* reads, so the invariants about its answer need what each read has left   *)
(* of the truth by then: Fits says it of one request, under the deployment  *)
(* and the policy of the moment.                                            *)
(***************************************************************************)
EXTENDS EarnProvider, TLAPS

Money == {"deposit", "withdrawal", "redemption"}

\* The reads each request goes through, and its end.
Stages(op) ==
    CASE op = "none" -> {"ended"}
      [] op \in {"capabilities", "health"} -> {"health", "info", "join", "ended"}
      [] op = "strategies" -> {"info", "apy", "ended"}
      [] op = "positions" -> {"info", "balance", "ended"}
      [] op = "advice" -> {"policy", "days", "rank", "info", "apy", "ended"}
      [] op = "deposit" -> {"gate", "info", "build", "ended"}
      [] op = "withdrawal" -> {"info", "build", "ended"}
      [] op = "redemption" -> {"build", "ended"}

OpNames == Money \cup {"none", "capabilities", "health", "strategies", "positions", "advice"}

TierNames == {"conservative", "balanced", "growth"}

Offer == [vault: Vaults, tier: TierNames, assets: Nat, apy: Nat]

AnswerTypes ==
    [is: {"none", "refused", "lost"}]
      \cup [is: {"built"}, vault: Vaults \cup {None}]
      \cup [is: {"position"}, of: Vaults \cup {None}]
      \cup [is: {"strategies"}, list: SUBSET Offer]
      \cup [is: {"advice"}, risk: 0..2, target: Targets \cup {None},
            source: {"none", "query", "policy", "default"}, fit: 0..2,
            ranked: SUBSET [strategy: Offer, score: Nat, reason: {"safety", "liquidity"}]]
      \cup [is: {"capabilities"}, earn: {"missing_vault_or_key", "beta", "degraded"},
            from: Vaults \cup {None}]
      \cup [is: {"health"}, state: {"unconfigured", "blocked", "healthy", "fragmented"},
            ok: BOOLEAN]

Call ==
    [op: OpNames, at: Reads \cup {"join", "ended"}, tries: 1..MaxAttempts,
     want: Vaults \cup {None}, days: {"none", "query", "policy", "default"},
     view: Policies, fit: 0..2, info: {"unread", "read"},
     health: {"unread", "ok", "mismatch", "failed"}, answer: AnswerTypes,
     during: SUBSET Policies]

AppState ==
    [earn: {"none", "missing_vault_or_key", "beta", "degraded"}, from: Vaults \cup {None},
     stage: {"off", "starting", "open", "choosing", "saving", "depositing"},
     strategy: Vaults \cup {None}, risk: 0..2]

TypeOK ==
    /\ deployed \in Deployment
    /\ policy \in Policies
    /\ calls \in [Clients -> Call]
    /\ app \in AppState

\* A request to move money is at the vault that is deployed, which was asked for,
\* and builds no deposit or withdrawal at one that takes no USDC.
MoneyFits(call, d) ==
    call.op \in Money /\ call.at # "ended" =>
        /\ call.want = d.vault
        /\ d.vault # None
        /\ call.at = "build" /\ call.op # "redemption" => d.vault \in UsdcVaults

\* A vault that is called fit, or whose balance is read, takes USDC.
ReadsFit(call, d) ==
    /\ call.health = "ok" => call.at = "join" /\ (d.vault # None => d.vault \in UsdcVaults)
    /\ call.at = "balance" => d.vault \in UsdcVaults

Horizon(days, during) ==
    \/ days = "query"
    \/ /\ days \in {"policy", "default"}
       /\ \E q \in during : days = "policy" <=> q # NoPolicy

\* What a recommendation has read so far is of policies there were meanwhile, and
\* the present one is among them.
AdviceFits(call, p) ==
    call.op = "advice" /\ call.at # "ended" =>
        /\ p \in call.during
        /\ call.at \in {"days", "rank", "info", "apy"} => call.view \in call.during
        /\ call.at \in {"rank", "info", "apy"} => Horizon(call.days, call.during)
        /\ call.at \in {"info", "apy"} => \E q \in call.during : call.fit = Profile(q)

\* What the properties say of an answer.
BuiltAsNamed(call) ==
    call.answer.is = "built" =>
        /\ call.answer.vault = call.want
        /\ call.op # "redemption" => call.answer.vault \in UsdcVaults

UsdcAnswers(call) ==
    /\ call.answer.is = "position" /\ call.answer.of # None => call.answer.of \in UsdcVaults
    /\ call.answer.is = "capabilities" /\ call.answer.earn = "beta" =>
          call.answer.from \in UsdcVaults

Shows(q, risk) == IF q = NoPolicy THEN risk = 1 ELSE risk = q.risk

TrueTier(s) ==
    /\ s.tier = "conservative" <=> Metadata[s.vault].stable
    /\ s.tier = "growth" <=> Metadata[s.vault].growth /\ ~Metadata[s.vault].stable

AdvisedAsRead(call) ==
    call.answer.is = "advice" =>
        /\ \E q \in call.during :
             /\ Shows(q, call.answer.risk)
             /\ call.answer.target = IF q = NoPolicy THEN None ELSE q.target
        /\ \E q \in call.during : Shows(q, call.answer.fit)
        /\ Horizon(call.answer.source, call.during)
        /\ call.info = "read" => \A r \in call.answer.ranked : TrueTier(r.strategy)

\* A request under a deployment and a policy.
Fits(call, d, p) ==
    /\ call.at \in Stages(call.op)
    /\ call.at # "ended" => call.answer = NoAnswer
    /\ MoneyFits(call, d)
    /\ ReadsFit(call, d)
    /\ AdviceFits(call, p)
    /\ BuiltAsNamed(call)
    /\ UsdcAnswers(call)
    /\ AdvisedAsRead(call)

ProviderInv ==
    /\ TypeOK
    /\ \A c \in Clients : Fits(calls[c], deployed, policy)
    /\ app.earn = "beta" => app.from \in UsdcVaults

----------------------------------------------------------------------------
(* Records *)

\* The policy that is none is a value of the type.
LEMMA PolicyTypes ==
  /\ NoPolicy \in Policies
  /\ \A p \in Policies : Profile(p) \in 0..2 /\ Shows(p, Profile(p))
  /\ \A p \in Policies : p # NoPolicy => p.target \in Targets
  BY DEF Policies, Profile, Shows

\* A request that is over and forgotten.
LEMMA NoCallType == NoCall \in Call
  BY PolicyTypes DEF NoCall, Call, NoAnswer, AnswerTypes, OpNames, MaxAttempts

\* A field of a request is changed at a time.
LEMMA FieldTypes ==
  ASSUME NEW call \in Call
  PROVE  /\ \A v \in OpNames : [call EXCEPT !.op = v] \in Call
         /\ \A v \in Reads \cup {"join", "ended"} : [call EXCEPT !.at = v] \in Call
         /\ \A v \in 1..MaxAttempts : [call EXCEPT !.tries = v] \in Call
         /\ \A v \in Vaults \cup {None} : [call EXCEPT !.want = v] \in Call
         /\ \A v \in {"none", "query", "policy", "default"} : [call EXCEPT !.days = v] \in Call
         /\ \A v \in Policies : [call EXCEPT !.view = v] \in Call
         /\ \A v \in 0..2 : [call EXCEPT !.fit = v] \in Call
         /\ \A v \in {"unread", "read"} : [call EXCEPT !.info = v] \in Call
         /\ \A v \in {"unread", "ok", "mismatch", "failed"} : [call EXCEPT !.health = v] \in Call
         /\ \A v \in AnswerTypes : [call EXCEPT !.answer = v] \in Call
         /\ \A v \in SUBSET Policies : [call EXCEPT !.during = v] \in Call
<1>1. \A v \in OpNames : [call EXCEPT !.op = v] \in Call
  BY DEF Call
<1>2. \A v \in Reads \cup {"join", "ended"} : [call EXCEPT !.at = v] \in Call
  BY DEF Call
<1>3. \A v \in 1..MaxAttempts : [call EXCEPT !.tries = v] \in Call
  BY DEF Call
<1>4. \A v \in Vaults \cup {None} : [call EXCEPT !.want = v] \in Call
  BY DEF Call
<1>5. \A v \in {"none", "query", "policy", "default"} : [call EXCEPT !.days = v] \in Call
  BY DEF Call
<1>6. \A v \in Policies : [call EXCEPT !.view = v] \in Call
  BY DEF Call
<1>7. \A v \in 0..2 : [call EXCEPT !.fit = v] \in Call
  BY DEF Call
<1>8. \A v \in {"unread", "read"} : [call EXCEPT !.info = v] \in Call
  BY DEF Call
<1>9. \A v \in {"unread", "ok", "mismatch", "failed"} : [call EXCEPT !.health = v] \in Call
  BY DEF Call
<1>10. \A v \in AnswerTypes : [call EXCEPT !.answer = v] \in Call
  BY DEF Call
<1>11. \A v \in SUBSET Policies : [call EXCEPT !.during = v] \in Call
  BY DEF Call
<1> QED BY <1>1, <1>2, <1>3, <1>4, <1>5, <1>6, <1>7, <1>8, <1>9, <1>10, <1>11

\* The fields a request goes on with.
LEMMA ToFields ==
  ASSUME NEW call \in Call, NEW at \in Reads \cup {"join", "ended"}
  PROVE  /\ To(call, at) \in Call
         /\ To(call, at).at = at
         /\ To(call, at).op = call.op
         /\ To(call, at).want = call.want
         /\ To(call, at).days = call.days
         /\ To(call, at).view = call.view
         /\ To(call, at).fit = call.fit
         /\ To(call, at).info = call.info
         /\ To(call, at).health = call.health
         /\ To(call, at).answer = call.answer
         /\ To(call, at).during = call.during
<1>1. To(call, at) = [[call EXCEPT !.at = at] EXCEPT !.tries = 1]
  BY DEF To
<1>2. To(call, at) \in Call
  <2>1. 1 \in 1..MaxAttempts
    BY DEF MaxAttempts
  <2>2. [call EXCEPT !.at = at] \in Call
    BY FieldTypes
  <2>3. [[call EXCEPT !.at = at] EXCEPT !.tries = 1] \in Call
    BY <2>1, <2>2, FieldTypes
  <2> QED BY <1>1, <2>3
<1>3. /\ To(call, at).at = at
      /\ To(call, at).op = call.op
      /\ To(call, at).want = call.want
      /\ To(call, at).days = call.days
      /\ To(call, at).view = call.view
      /\ To(call, at).fit = call.fit
      /\ To(call, at).info = call.info
      /\ To(call, at).health = call.health
      /\ To(call, at).answer = call.answer
      /\ To(call, at).during = call.during
  BY DEF To, Call
<1> QED BY <1>2, <1>3

\* The fields a request that is answered keeps.
LEMMA DoneFields ==
  ASSUME NEW call \in Call, NEW answer \in AnswerTypes
  PROVE  /\ Done(call, answer) \in Call
         /\ Done(call, answer).at = "ended"
         /\ Done(call, answer).op = call.op
         /\ Done(call, answer).want = call.want
         /\ Done(call, answer).health = "unread"
         /\ Done(call, answer).answer = answer
         /\ Done(call, answer).during = call.during
         /\ call.op = "advice" => Done(call, answer).info = call.info
<1> DEFINE info == IF call.op = "advice" THEN call.info ELSE "unread"
           c1 == [NoCall EXCEPT !.answer = answer]
           c2 == [c1 EXCEPT !.op = call.op]
           c3 == [c2 EXCEPT !.want = call.want]
           c4 == [c3 EXCEPT !.info = info]
           c5 == [c4 EXCEPT !.during = call.during]
<1>1. Done(call, answer) = c5
  <2>1. NoCall.info = "unread"
    BY DEF NoCall
  <2> QED BY <2>1 DEF Done
<1>2. /\ call.op \in OpNames /\ call.want \in Vaults \cup {None}
      /\ info \in {"unread", "read"} /\ call.during \in SUBSET Policies
  BY DEF Call
<1> HIDE DEF info
<1>3. c1 \in Call
  BY NoCallType, FieldTypes
<1>4. c2 \in Call
  BY <1>2, <1>3, FieldTypes
<1>5. c3 \in Call
  BY <1>2, <1>4, FieldTypes
<1>6. c4 \in Call
  BY <1>2, <1>5, FieldTypes
<1>7. c5 \in Call
  BY <1>2, <1>6, FieldTypes
<1>8. /\ c5.at = "ended" /\ c5.op = call.op /\ c5.want = call.want /\ c5.health = "unread"
      /\ c5.answer = answer /\ c5.during = call.during /\ c5.info = info
  BY DEF NoCall
<1> QED BY <1>1, <1>7, <1>8 DEF info

\* An answer that says nothing.
LEMMA UnheardFits ==
  ASSUME NEW is \in {"none", "refused", "lost"}, NEW d, NEW p
  PROVE  Unheard(is) \in Call /\ Fits(Unheard(is), d, p) /\ Unheard(is).op = "none"
<1>1. Unheard(is) =
        [op |-> "none", at |-> "ended", tries |-> 1, want |-> None, days |-> "none",
         view |-> NoPolicy, fit |-> 1, info |-> "unread", health |-> "unread",
         answer |-> [is |-> is], during |-> {}]
  BY DEF Unheard, NoCall
<1>2. Unheard(is) \in Call
  BY <1>1, PolicyTypes DEF Call, AnswerTypes, OpNames, MaxAttempts
<1>3. "ended" \in Stages("none")
  BY DEF Stages
<1>4. /\ Unheard(is).op = "none" /\ Unheard(is).at = "ended" /\ Unheard(is).health = "unread"
      /\ Unheard(is).answer.is = is
  BY <1>1
<1>5. Fits(Unheard(is), d, p)
  BY <1>3, <1>4
     DEF Fits, MoneyFits, ReadsFit, AdviceFits, BuiltAsNamed, UsdcAnswers, AdvisedAsRead, Money
<1> QED BY <1>2, <1>4, <1>5

\* So is no request at all.
LEMMA NoCallFits ==
  ASSUME NEW d, NEW p
  PROVE  NoCall \in Call /\ Fits(NoCall, d, p)
<1>1. NoCall = Unheard("none")
  BY DEF NoCall, Unheard, NoAnswer
<1> QED BY <1>1, UnheardFits

\* Where a request stands tells what it is.
LEMMA StageTells ==
  ASSUME NEW call \in Call, call.at \in Stages(call.op)
  PROVE  /\ call.at \in {"health", "join"} => call.op \in {"capabilities", "health"}
         /\ call.at = "apy" => call.op \in {"strategies", "advice"}
         /\ call.at = "balance" => call.op = "positions"
         /\ call.at \in {"policy", "days", "rank"} => call.op = "advice"
         /\ call.at = "gate" => call.op = "deposit"
         /\ call.at = "build" => call.op \in Money
<1>1. call.op \in OpNames
  BY DEF Call
<1>2. /\ Stages("none") = {"ended"}
      /\ Stages("capabilities") = {"health", "info", "join", "ended"}
      /\ Stages("health") = {"health", "info", "join", "ended"}
      /\ Stages("strategies") = {"info", "apy", "ended"}
      /\ Stages("positions") = {"info", "balance", "ended"}
      /\ Stages("advice") = {"policy", "days", "rank", "info", "apy", "ended"}
      /\ Stages("deposit") = {"gate", "info", "build", "ended"}
      /\ Stages("withdrawal") = {"info", "build", "ended"}
      /\ Stages("redemption") = {"build", "ended"}
  BY DEF Stages
<1> QED BY <1>1, <1>2 DEF OpNames, Money

\* A request that goes on, with what it must have found by then.
LEMMA GoingFits ==
  ASSUME NEW call \in Call, NEW d, NEW p,
         call.at # "ended", call.at \in Stages(call.op), call.answer = NoAnswer,
         MoneyFits(call, d), ReadsFit(call, d), AdviceFits(call, p)
  PROVE  Fits(call, d, p)
  BY DEF Fits, NoAnswer, BuiltAsNamed, UsdcAnswers, AdvisedAsRead

\* A request that is answered, with what its answer must be.
LEMMA DoneFits ==
  ASSUME NEW call \in Call, NEW answer \in AnswerTypes, NEW d, NEW p,
         answer.is = "built" =>
            answer.vault = call.want /\ (call.op # "redemption" => answer.vault \in UsdcVaults),
         answer.is = "position" /\ answer.of # None => answer.of \in UsdcVaults,
         answer.is = "capabilities" /\ answer.earn = "beta" => answer.from \in UsdcVaults,
         answer.is # "advice"
  PROVE  Done(call, answer) \in Call /\ Fits(Done(call, answer), d, p)
<1>1. "ended" \in Stages(call.op)
  BY DEF Stages, Call, OpNames, Money
<1>2. Done(call, answer) \in Call
  BY DoneFields
<1> HIDE DEF Call
<1>3. /\ MoneyFits(Done(call, answer), d) /\ ReadsFit(Done(call, answer), d)
      /\ AdviceFits(Done(call, answer), p)
  BY DoneFields DEF MoneyFits, ReadsFit, AdviceFits
<1>4. BuiltAsNamed(Done(call, answer)) /\ UsdcAnswers(Done(call, answer))
  BY DoneFields DEF BuiltAsNamed, UsdcAnswers
<1>5. AdvisedAsRead(Done(call, answer))
  BY DoneFields DEF AdvisedAsRead
<1> QED BY <1>1, <1>2, <1>3, <1>4, <1>5, DoneFields DEF Fits

----------------------------------------------------------------------------
(* What is read of a vault *)

\* A tier is one of the three, and what the metadata says where it was read.
LEMMA TierIsTrue ==
  ASSUME NEW vault \in Vaults, NEW info
  PROVE  /\ Tier(vault, info) \in TierNames
         /\ info = "read" =>
              /\ Tier(vault, info) = "conservative" <=> Metadata[vault].stable
              /\ Tier(vault, info) = "growth" <=> Metadata[vault].growth /\ ~Metadata[vault].stable
<1>1. Metadata[vault].stable \in BOOLEAN /\ Metadata[vault].growth \in BOOLEAN
  BY ProviderAssumption DEF VaultInfo
<1> QED BY <1>1 DEF Tier, TierNames

\* What is listed is an offer of the deployed vault.
LEMMA ListedType ==
  ASSUME TypeOK, NEW info, NEW apy
  PROVE  /\ Listed(info, apy) \subseteq Offer
         /\ info = "read" => \A s \in Listed(info, apy) : TrueTier(s)
<1>1. CASE deployed.vault = None
  BY <1>1 DEF Listed
<1>2. CASE deployed.vault # None
  <2>1. /\ deployed.vault \in Vaults
        /\ deployed.apr # None => deployed.apr \in Nat
    BY <1>2 DEF TypeOK, Deployment
  <2>2. Metadata[deployed.vault] \in VaultInfo
    BY <2>1, ProviderAssumption
  <2>3. Metadata[deployed.vault].assets \in Nat /\ Metadata[deployed.vault].apy \in Nat
    BY <2>2 DEF VaultInfo
  <2>4. deployed.apr # None => deployed.apr \div 100 \in Nat
    BY <2>1
  <2>5. Tier(deployed.vault, info) \in TierNames
    BY <2>1, TierIsTrue
  <2>6. Strategy(info, apy) \in Offer
    BY <2>1, <2>3, <2>4, <2>5 DEF Strategy, Offer
  <2>7. info = "read" => TrueTier(Strategy(info, apy))
    BY <2>1, TierIsTrue DEF Strategy, TrueTier
  <2> QED BY <1>2, <2>6, <2>7 DEF Listed
<1> QED BY <1>1, <1>2

\* A score is a number.
LEMMA ScoreType ==
  ASSUME NEW s \in Offer, NEW risk \in 0..2
  PROVE  StrategyScore(s, risk) \in Nat /\ Reason(s) \in {"safety", "liquidity"}
<1>1. s.tier \in TierNames /\ s.assets \in Nat /\ s.apy \in Nat
  BY DEF Offer
<1>2. Safety(s.tier) \in Nat
  BY <1>1 DEF Safety, TierNames
<1>3. \E i \in 1..3 : Tiers[i] = s.tier
  BY <1>1 DEF Tiers, TierNames
<1>4. TierRank(s.tier) \in 1..3
  BY <1>3 DEF TierRank
<1>5. Distance(ProfileRank(risk), TierRank(s.tier)) \in Nat
  BY <1>4 DEF Distance, ProfileRank
<1>6. AssetRiskFit(s.tier, risk) \in Nat
  BY <1>5 DEF AssetRiskFit
<1>7. NetYield(s.apy) \in Nat
  BY <1>1 DEF NetYield
<1>8. Diversification(s.assets) \in Nat
  BY <1>1 DEF Diversification
<1>9. StrategyScore(s, risk) \in Nat
  BY <1>2, <1>6, <1>7, <1>8 DEF StrategyScore
<1> QED BY <1>9 DEF Reason

\* The list of strategies is an answer.
LEMMA StrategiesType ==
  ASSUME TypeOK, NEW info, NEW apy
  PROVE  Strategies(info, apy) \in AnswerTypes /\ Strategies(info, apy).is = "strategies"
  BY ListedType DEF Strategies, AnswerTypes

\* A recommendation from what its reads have found is an answer that is true of
\* them.
LEMMA AdviceIsTrue ==
  ASSUME TypeOK, NEW call \in Call, call.op = "advice",
         call.view \in call.during, Horizon(call.days, call.during),
         \E q \in call.during : call.fit = Profile(q), NEW apy, NEW d, NEW p
  PROVE  /\ Done(call, Advice(call, apy)) \in Call
         /\ Fits(Done(call, Advice(call, apy)), d, p)
<1> DEFINE a == Advice(call, apy)
<1>1. /\ call.view \in Policies /\ call.during \subseteq Policies /\ call.fit \in 0..2
      /\ call.days \in {"none", "query", "policy", "default"}
  BY DEF Call
<1>2. /\ a.is = "advice"
      /\ a.risk = Profile(call.view)
      /\ a.target = IF call.view = NoPolicy THEN None ELSE call.view.target
      /\ a.source = call.days
      /\ a.fit = call.fit
      /\ a.ranked = {[strategy |-> s, score |-> StrategyScore(s, call.fit), reason |-> Reason(s)]
                       : s \in Listed(call.info, apy)}
  BY DEF Advice
<1>3. a.ranked \in SUBSET [strategy: Offer, score: Nat, reason: {"safety", "liquidity"}]
  BY <1>1, <1>2, ListedType, ScoreType
<1>4. \A r \in a.ranked : r.strategy \in Listed(call.info, apy)
  BY <1>2
<1>5. a.risk \in 0..2 /\ a.target \in Targets \cup {None}
  BY <1>1, <1>2, PolicyTypes
<1>6. a = [is |-> a.is, risk |-> a.risk, target |-> a.target, source |-> a.source, fit |-> a.fit,
           ranked |-> a.ranked]
  BY DEF Advice
<1>7. a \in AnswerTypes
  <2> HIDE DEF a
  <2>1. a \in [is: {"advice"}, risk: 0..2, target: Targets \cup {None},
               source: {"none", "query", "policy", "default"}, fit: 0..2,
               ranked: SUBSET [strategy: Offer, score: Nat, reason: {"safety", "liquidity"}]]
    BY <1>1, <1>2, <1>3, <1>5, <1>6
  <2> QED BY <2>1 DEF AnswerTypes
<1> HIDE DEF a
<1>8. /\ Done(call, a) \in Call
      /\ Done(call, a).at = "ended" /\ Done(call, a).op = "advice"
      /\ Done(call, a).health = "unread" /\ Done(call, a).answer = a
      /\ Done(call, a).during = call.during /\ Done(call, a).info = call.info
  BY <1>7, DoneFields
<1>9. "ended" \in Stages("advice")
  BY DEF Stages
<1>10. \E q \in call.during : Shows(q, a.risk) /\ a.target = IF q = NoPolicy THEN None ELSE q.target
  BY <1>1, <1>2, PolicyTypes
<1>11. \E q \in call.during : Shows(q, a.fit)
  BY <1>1, <1>2, PolicyTypes
<1>12. call.info = "read" => \A r \in a.ranked : TrueTier(r.strategy)
  BY <1>4, ListedType
<1>13. AdvisedAsRead(Done(call, a))
  BY <1>2, <1>8, <1>10, <1>11, <1>12 DEF AdvisedAsRead
<1>14. Fits(Done(call, a), d, p)
  BY <1>2, <1>8, <1>9, <1>13
     DEF Fits, MoneyFits, ReadsFit, AdviceFits, BuiltAsNamed, UsdcAnswers, Money
<1> QED BY <1>8, <1>14 DEF a

\* A request that is asked for, or answered at once.
LEMMA RequestFits ==
  ASSUME TypeOK, NEW op \in OpNames \ {"none"}, NEW want \in Vaults \cup {None},
         NEW days \in {"none", "query"}, NEW p, op = "advice" => p = policy
  PROVE  Request(op, want, days) \in Call /\ Fits(Request(op, want, days), deployed, p)
<1> DEFINE during == IF op = "advice" THEN {policy} ELSE {}
           c1 == [NoCall EXCEPT !.op = op]
           c2 == [c1 EXCEPT !.at = Entry(op, want)]
           c3 == [c2 EXCEPT !.want = want]
           c4 == [c3 EXCEPT !.days = days]
           call == [c4 EXCEPT !.during = during]
<1>1. Entry(op, want) \in Stages(op) /\ Entry(op, want) \in Reads \cup {"join", "ended"}
  BY DEF Entry, Stages, OpNames, Money, Reads, Retried
<1>2. during \in SUBSET Policies
  BY DEF TypeOK
<1>3. [NoCall EXCEPT !.op = op, !.at = Entry(op, want), !.want = want, !.days = days,
                     !.during = IF op = "advice" THEN {policy} ELSE {}] = call
  OBVIOUS
<1>4. call \in Call
  <2> HIDE DEF during
  <2>1. c1 \in Call
    BY NoCallType, FieldTypes
  <2>2. c2 \in Call
    BY <1>1, <2>1, FieldTypes
  <2>3. c3 \in Call
    BY <2>2, FieldTypes
  <2>4. c4 \in Call
    BY <2>3, FieldTypes
  <2> QED BY <1>2, <2>4, FieldTypes
<1>5. /\ call.op = op /\ call.at = Entry(op, want) /\ call.want = want /\ call.days = days
      /\ call.during = during /\ call.answer = NoAnswer /\ call.health = "unread"
      /\ call.info = "unread"
  BY DEF NoCall
<1> HIDE DEF call
<1>6. CASE call.at # "ended"
  <2>1. Request(op, want, days) = call
    BY <1>3, <1>6 DEF Request
  <2>2. MoneyFits(call, deployed)
    BY <1>5, <1>6 DEF MoneyFits, Entry, Matches, isConfigured, Money
  <2>3. ReadsFit(call, deployed)
    BY <1>5 DEF ReadsFit, Entry, OpNames, Money
  <2>4. AdviceFits(call, p)
    BY <1>5 DEF AdviceFits, Entry
  <2> QED BY <1>1, <1>4, <1>5, <1>6, <2>1, <2>2, <2>3, <2>4, GoingFits
<1>7. CASE call.at = "ended"
  <2>1. Request(op, want, days) =
          CASE op = "strategies" -> Done(call, Strategies("unread", "unread"))
            [] op = "positions" -> Done(call, Position(None))
            [] OTHER -> Refused
    BY <1>3, <1>7 DEF Request
  <2>2. Position(None) \in AnswerTypes /\ Position(None).is = "position" /\ Position(None).of = None
    BY DEF Position, AnswerTypes
  <2>3. /\ Done(call, Position(None)) \in Call
        /\ Fits(Done(call, Position(None)), deployed, p)
    BY <1>4, <2>2, DoneFits
  <2>4. /\ Done(call, Strategies("unread", "unread")) \in Call
        /\ Fits(Done(call, Strategies("unread", "unread")), deployed, p)
    BY <1>4, StrategiesType, DoneFits
  <2>5. Refused \in Call /\ Fits(Refused, deployed, p)
    BY UnheardFits DEF Refused
  <2> QED BY <2>1, <2>3, <2>4, <2>5
<1> QED BY <1>6, <1>7

----------------------------------------------------------------------------
(* One read after the other *)

\* A step of one request changes nothing else.
LEMMA BecomesInv ==
  ASSUME ProviderInv, NEW c \in Clients, NEW call \in Call, Fits(call, deployed, policy),
         Becomes(c, call)
  PROVE  ProviderInv'
<1>1. /\ UNCHANGED <<deployed, policy, app>>
      /\ calls' = [calls EXCEPT ![c] = call]
      /\ TypeOK
  BY DEF Becomes, ProviderInv
<1>2. TypeOK'
  BY <1>1 DEF TypeOK
<1>3. ASSUME NEW x \in Clients PROVE Fits(calls'[x], deployed', policy')
  <2>1. calls'[x] = IF x = c THEN call ELSE calls[x]
    BY <1>1 DEF TypeOK
  <2> QED BY <1>1, <2>1 DEF ProviderInv
<1>4. app'.earn = "beta" => app'.from \in UsdcVaults
  BY <1>1 DEF ProviderInv
<1> QED BY <1>2, <1>3, <1>4 DEF ProviderInv

\* A request that is under way stands where its kind may, has no answer yet, and
\* has found what it must.
LEMMA UnderWay ==
  ASSUME ProviderInv, NEW c \in Clients
  PROVE  /\ calls[c] \in Call
         /\ calls[c].at \in Stages(calls[c].op)
         /\ calls[c].at # "ended" => calls[c].answer = NoAnswer
         /\ MoneyFits(calls[c], deployed)
         /\ ReadsFit(calls[c], deployed)
         /\ AdviceFits(calls[c], policy)
         /\ deployed.vault \in Vaults \cup {None} /\ policy \in Policies
  BY DEF ProviderInv, TypeOK, Fits, Deployment

\* The answers of the reads of a health check.
LEMMA HealthReadInv ==
  ASSUME ProviderInv, NEW c \in Clients, HealthRead(c)
  PROVE  ProviderInv'
<1>1. calls[c].at = "health" /\ calls[c].op \in {"capabilities", "health"}
  BY UnderWay, StageTells DEF HealthRead, At
<1>2. CASE deployed.vault # None
  <2> DEFINE new == To(calls[c], "info")
  <2>1. /\ new \in Call /\ new.at = "info" /\ new.op = calls[c].op
        /\ new.answer = NoAnswer /\ new.health = calls[c].health
    BY <1>1, UnderWay, ToFields DEF Reads, Retried
  <2>2. Fits(new, deployed, policy)
    <3> HIDE DEF new
    <3>1. "info" \in Stages(new.op)
      BY <1>1, <2>1 DEF Stages
    <3>2. MoneyFits(new, deployed) /\ ReadsFit(new, deployed) /\ AdviceFits(new, policy)
      BY <1>1, <2>1, UnderWay DEF MoneyFits, ReadsFit, AdviceFits, Money
    <3> QED BY <2>1, <3>1, <3>2, GoingFits
  <2>3. Becomes(c, new)
    BY <1>2 DEF HealthRead
  <2> QED BY <2>1, <2>2, <2>3, BecomesInv
<1>3. CASE deployed.vault = None
  <2> DEFINE ok == [calls[c] EXCEPT !.health = "ok"]
             new == To(ok, "join")
  <2>1. ok \in Call /\ ok.op = calls[c].op /\ ok.answer = calls[c].answer /\ ok.health = "ok"
    <3>1. calls[c] \in Call
      BY UnderWay
    <3>2. ok \in Call
      BY <3>1, FieldTypes
    <3> QED BY <3>1, <3>2 DEF Call
  <2>2. /\ new \in Call /\ new.at = "join" /\ new.op = calls[c].op
        /\ new.answer = NoAnswer /\ new.health = "ok"
    <3> HIDE DEF ok
    <3> QED BY <1>1, <2>1, UnderWay, ToFields
  <2>3. Fits(new, deployed, policy)
    <3> HIDE DEF new
    <3>1. "join" \in Stages(new.op)
      BY <1>1, <2>2 DEF Stages
    <3>2. MoneyFits(new, deployed) /\ ReadsFit(new, deployed) /\ AdviceFits(new, policy)
      BY <1>1, <1>3, <2>2 DEF MoneyFits, ReadsFit, AdviceFits, Money
    <3> QED BY <2>2, <3>1, <3>2, GoingFits
  <2>4. Becomes(c, new)
    BY <1>3 DEF HealthRead
  <2> QED BY <2>2, <2>3, <2>4, BecomesInv
<1> QED BY <1>2, <1>3

LEMMA VaultCheckedInv ==
  ASSUME ProviderInv, NEW c \in Clients, VaultChecked(c)
  PROVE  ProviderInv'
<1> DEFINE health == IF AcceptsUsdc THEN "ok" ELSE "mismatch"
           known == [calls[c] EXCEPT !.health = health]
           new == To(known, "join")
<1>1. calls[c].at = "info" /\ calls[c].op \in {"capabilities", "health"}
  BY DEF VaultChecked, At, Checks
<1>2. health \in {"ok", "mismatch"}
  OBVIOUS
<1>3. /\ known \in Call /\ known.op = calls[c].op /\ known.answer = calls[c].answer
      /\ known.health = health
  <2> HIDE DEF health
  <2>1. calls[c] \in Call
    BY UnderWay
  <2>2. known \in Call
    BY <1>2, <2>1, FieldTypes
  <2> QED BY <2>1, <2>2 DEF Call
<1>4. /\ new \in Call /\ new.at = "join" /\ new.op = calls[c].op
      /\ new.answer = NoAnswer /\ new.health = health
  <2> HIDE DEF known
  <2> QED BY <1>1, <1>3, UnderWay, ToFields
<1>5. Becomes(c, new)
  BY DEF VaultChecked
<1>6. Fits(new, deployed, policy)
  <2> HIDE DEF new
  <2>1. "join" \in Stages(new.op)
    BY <1>1, <1>4 DEF Stages
  <2>2. MoneyFits(new, deployed) /\ ReadsFit(new, deployed) /\ AdviceFits(new, policy)
    BY <1>1, <1>4 DEF MoneyFits, ReadsFit, AdviceFits, Money, AcceptsUsdc
  <2> QED BY <1>4, <2>1, <2>2, GoingFits
<1> HIDE DEF new
<1> QED BY <1>4, <1>5, <1>6, BecomesInv

\* The answers of a listing, for itself and for a recommendation.
LEMMA VaultDescribedInv ==
  ASSUME ProviderInv, NEW c \in Clients, VaultDescribed(c)
  PROVE  ProviderInv'
<1> DEFINE call == [calls[c] EXCEPT !.info = "read"]
<1>1. /\ call \in Call /\ call.info = "read" /\ call.op = calls[c].op /\ call.at = calls[c].at
      /\ call.answer = calls[c].answer /\ call.health = calls[c].health
      /\ call.view = calls[c].view /\ call.days = calls[c].days /\ call.fit = calls[c].fit
      /\ call.during = calls[c].during
  <2>1. calls[c] \in Call
    BY UnderWay
  <2>2. call \in Call
    BY <2>1, FieldTypes
  <2> QED BY <2>1, <2>2 DEF Call
<1>2. calls[c].at = "info" /\ call.op \in {"strategies", "advice"}
  BY <1>1 DEF VaultDescribed, At
<1>3. Becomes(c, IF deployed.apr = None THEN To(call, "apy")
                 ELSE Done(call, IF call.op = "advice" THEN Advice(call, "unread")
                                 ELSE Strategies("read", "unread")))
  BY DEF VaultDescribed
<1> HIDE DEF call
<1>4. call.op = "advice" =>
        /\ policy \in call.during /\ call.view \in call.during
        /\ Horizon(call.days, call.during)
        /\ \E q \in call.during : call.fit = Profile(q)
  BY <1>1, <1>2, UnderWay DEF AdviceFits
<1>5. CASE deployed.apr = None
  <2> DEFINE new == To(call, "apy")
  <2>1. /\ new \in Call /\ new.at = "apy" /\ new.op = call.op
        /\ new.answer = NoAnswer /\ new.health = calls[c].health /\ new.view = call.view
        /\ new.days = call.days /\ new.fit = call.fit /\ new.during = call.during
    BY <1>1, <1>2, UnderWay, ToFields DEF Reads
  <2> HIDE DEF new
  <2>2. "apy" \in Stages(new.op)
    BY <1>2, <2>1 DEF Stages
  <2>3. MoneyFits(new, deployed) /\ ReadsFit(new, deployed)
    BY <1>2, <2>1, UnderWay DEF MoneyFits, ReadsFit, Money
  <2>4. AdviceFits(new, policy)
    BY <1>4, <2>1 DEF AdviceFits
  <2>5. Becomes(c, new)
    BY <1>3, <1>5 DEF new
  <2> QED BY <2>1, <2>2, <2>3, <2>4, <2>5, GoingFits, BecomesInv
<1>6. CASE deployed.apr # None /\ call.op = "advice"
  <2>1. Becomes(c, Done(call, Advice(call, "unread")))
    BY <1>3, <1>6
  <2>2. /\ Done(call, Advice(call, "unread")) \in Call
        /\ Fits(Done(call, Advice(call, "unread")), deployed, policy)
    BY <1>1, <1>4, <1>6, AdviceIsTrue DEF ProviderInv
  <2> QED BY <2>1, <2>2, BecomesInv
<1>7. CASE deployed.apr # None /\ call.op # "advice"
  <2>1. Becomes(c, Done(call, Strategies("read", "unread")))
    BY <1>3, <1>7
  <2>2. /\ Done(call, Strategies("read", "unread")) \in Call
        /\ Fits(Done(call, Strategies("read", "unread")), deployed, policy)
    BY <1>1, StrategiesType, DoneFits DEF ProviderInv
  <2> QED BY <2>1, <2>2, BecomesInv
<1> QED BY <1>5, <1>6, <1>7

LEMMA ApyReadInv ==
  ASSUME ProviderInv, NEW c \in Clients, ApyRead(c)
  PROVE  ProviderInv'
<1>1. calls[c].at = "apy"
  BY DEF ApyRead, At
<1>2. CASE calls[c].op = "advice"
  <2>1. Becomes(c, Done(calls[c], Advice(calls[c], "read")))
    BY <1>2 DEF ApyRead
  <2>2. /\ Done(calls[c], Advice(calls[c], "read")) \in Call
        /\ Fits(Done(calls[c], Advice(calls[c], "read")), deployed, policy)
    <3>1. /\ calls[c].view \in calls[c].during /\ Horizon(calls[c].days, calls[c].during)
          /\ \E q \in calls[c].during : calls[c].fit = Profile(q)
      BY <1>1, <1>2, UnderWay DEF AdviceFits
    <3> QED BY <1>2, <3>1, UnderWay, AdviceIsTrue DEF ProviderInv
  <2> QED BY <2>1, <2>2, BecomesInv
<1>3. CASE calls[c].op # "advice"
  <2>1. Becomes(c, Done(calls[c], Strategies(calls[c].info, "read")))
    BY <1>3 DEF ApyRead
  <2>2. /\ Done(calls[c], Strategies(calls[c].info, "read")) \in Call
        /\ Fits(Done(calls[c], Strategies(calls[c].info, "read")), deployed, policy)
    BY UnderWay, StrategiesType, DoneFits DEF ProviderInv
  <2> QED BY <2>1, <2>2, BecomesInv
<1> QED BY <1>2, <1>3

\* A step of a request to move money, or to see it: the vault is the deployed one
\* and takes USDC.
LEMMA VaultAssertedInv ==
  ASSUME ProviderInv, NEW c \in Clients, VaultAsserted(c)
  PROVE  ProviderInv'
<1>1. /\ calls[c].at = "info" /\ calls[c].op \in {"positions", "deposit", "withdrawal"}
      /\ Becomes(c, IF calls[c].op = "positions"
                    THEN IF AcceptsUsdc THEN To(calls[c], "balance")
                         ELSE Done(calls[c], Position(None))
                    ELSE IF AcceptsUsdc THEN To(calls[c], "build") ELSE Refused)
  BY DEF VaultAsserted, At
<1>2. CASE AcceptsUsdc
  <2> DEFINE at == IF calls[c].op = "positions" THEN "balance" ELSE "build"
             new == To(calls[c], at)
  <2>1. Becomes(c, new)
    BY <1>1, <1>2
  <2>2. at \in Reads
    BY DEF Reads, Retried
  <2>3. /\ new \in Call /\ new.at = at /\ new.op = calls[c].op /\ new.want = calls[c].want
        /\ new.answer = NoAnswer /\ new.health = calls[c].health
    <3> HIDE DEF at
    <3> QED BY <1>1, <2>2, UnderWay, ToFields
  <2> HIDE DEF new
  <2>4. at \in Stages(new.op)
    BY <1>1, <2>3 DEF Stages
  <2>5. MoneyFits(new, deployed) /\ ReadsFit(new, deployed) /\ AdviceFits(new, policy)
    BY <1>1, <1>2, <2>3, UnderWay DEF MoneyFits, ReadsFit, AdviceFits, Money, AcceptsUsdc
  <2>6. at # "ended"
    OBVIOUS
  <2>7. Fits(new, deployed, policy)
    BY <2>3, <2>4, <2>5, <2>6, GoingFits
  <2> QED BY <2>1, <2>3, <2>7, BecomesInv
<1>3. CASE ~AcceptsUsdc /\ calls[c].op = "positions"
  <2>1. Position(None) \in AnswerTypes /\ Position(None).is = "position" /\ Position(None).of = None
    BY DEF Position, AnswerTypes
  <2>2. /\ Done(calls[c], Position(None)) \in Call
        /\ Fits(Done(calls[c], Position(None)), deployed, policy)
    BY <2>1, UnderWay, DoneFits
  <2>3. Becomes(c, Done(calls[c], Position(None)))
    BY <1>1, <1>3
  <2> QED BY <2>2, <2>3, BecomesInv
<1>4. CASE ~AcceptsUsdc /\ calls[c].op # "positions"
  <2>1. Becomes(c, Refused)
    BY <1>1, <1>4
  <2> QED BY <2>1, UnheardFits, BecomesInv DEF Refused
<1> QED BY <1>2, <1>3, <1>4

LEMMA BalanceReadInv ==
  ASSUME ProviderInv, NEW c \in Clients, BalanceRead(c)
  PROVE  ProviderInv'
<1>1. calls[c].at = "balance"
  BY DEF BalanceRead, At
<1>2. PICK of \in {deployed.vault, None} : Becomes(c, Done(calls[c], Position(of)))
  BY DEF BalanceRead
<1>3. of \in Vaults \cup {None} /\ (of # None => of \in UsdcVaults)
  BY <1>1, <1>2, UnderWay DEF ReadsFit
<1>4. Position(of) \in AnswerTypes /\ Position(of).is = "position" /\ Position(of).of = of
  BY <1>3 DEF Position, AnswerTypes
<1>5. /\ Done(calls[c], Position(of)) \in Call
      /\ Fits(Done(calls[c], Position(of)), deployed, policy)
  BY <1>3, <1>4, UnderWay, DoneFits
<1> QED BY <1>2, <1>5, BecomesInv

LEMMA GatePassedInv ==
  ASSUME ProviderInv, NEW c \in Clients, GatePassed(c)
  PROVE  ProviderInv'
<1> DEFINE new == To(calls[c], "info")
<1>1. calls[c].at = "gate" /\ calls[c].op = "deposit" /\ Becomes(c, new)
  BY UnderWay, StageTells DEF GatePassed, At
<1>2. /\ new \in Call /\ new.at = "info" /\ new.op = calls[c].op /\ new.want = calls[c].want
      /\ new.answer = NoAnswer /\ new.health = calls[c].health
  BY <1>1, UnderWay, ToFields DEF Reads, Retried
<1> HIDE DEF new
<1>3. "info" \in Stages(new.op)
  BY <1>1, <1>2 DEF Stages
<1>4. MoneyFits(new, deployed) /\ ReadsFit(new, deployed) /\ AdviceFits(new, policy)
  BY <1>1, <1>2, UnderWay DEF MoneyFits, ReadsFit, AdviceFits, Money
<1> QED BY <1>1, <1>2, <1>3, <1>4, GoingFits, BecomesInv

LEMMA TxBuiltInv ==
  ASSUME ProviderInv, NEW c \in Clients, TxBuilt(c)
  PROVE  ProviderInv'
<1> DEFINE built == [is |-> "built", vault |-> deployed.vault]
<1>1. calls[c].at = "build" /\ calls[c].op \in Money /\ Becomes(c, Done(calls[c], built))
  BY UnderWay, StageTells DEF TxBuilt, At
<1>2. built \in AnswerTypes
  BY UnderWay DEF AnswerTypes
<1>3. built.vault = calls[c].want /\ (calls[c].op # "redemption" => built.vault \in UsdcVaults)
  BY <1>1, UnderWay DEF MoneyFits
<1>4. built.is = "built"
  OBVIOUS
<1> HIDE DEF built
<1>5. Done(calls[c], built) \in Call /\ Fits(Done(calls[c], built), deployed, policy)
  BY <1>2, <1>3, <1>4, UnderWay, DoneFits
<1> QED BY <1>1, <1>5, BecomesInv

----------------------------------------------------------------------------
(* The reads of the policy *)

\* What a request has noted by a read, and where it goes on.
LEMMA PolicyReadInv ==
  ASSUME ProviderInv, NEW c \in Clients, PolicyRead(c)
  PROVE  ProviderInv'
<1> DEFINE at == IF calls[c].days = "query" THEN "rank" ELSE "days"
           known == [calls[c] EXCEPT !.view = policy]
           new == To(known, at)
<1>1. calls[c].at = "policy" /\ calls[c].op = "advice" /\ Becomes(c, new)
  BY UnderWay, StageTells DEF PolicyRead, At
<1>2. /\ known \in Call /\ known.view = policy /\ known.op = calls[c].op
      /\ known.answer = calls[c].answer /\ known.health = calls[c].health
      /\ known.days = calls[c].days /\ known.during = calls[c].during
  <2>1. calls[c] \in Call /\ policy \in Policies
    BY UnderWay
  <2>2. known \in Call
    BY <2>1, FieldTypes
  <2> QED BY <2>1, <2>2 DEF Call
<1>3. at \in {"rank", "days"} /\ at \in Reads
  BY DEF Reads
<1>4. /\ new \in Call /\ new.at = at /\ new.op = "advice" /\ new.answer = NoAnswer
      /\ new.health = calls[c].health /\ new.view = policy /\ new.days = calls[c].days
      /\ new.during = calls[c].during
  <2> HIDE DEF known, at
  <2> QED BY <1>1, <1>2, <1>3, UnderWay, ToFields
<1> HIDE DEF new
<1>5. at \in Stages(new.op) /\ at # "ended"
  BY <1>4 DEF Stages
<1>6. MoneyFits(new, deployed) /\ ReadsFit(new, deployed)
  BY <1>1, <1>3, <1>4, UnderWay DEF MoneyFits, ReadsFit, Money
<1>7. AdviceFits(new, policy)
  BY <1>1, <1>3, <1>4, UnderWay DEF AdviceFits, Horizon
<1> QED BY <1>1, <1>4, <1>5, <1>6, <1>7, GoingFits, BecomesInv

LEMMA DaysReadInv ==
  ASSUME ProviderInv, NEW c \in Clients, DaysRead(c)
  PROVE  ProviderInv'
<1> DEFINE days == IF policy = NoPolicy THEN "default" ELSE "policy"
           known == [calls[c] EXCEPT !.days = days]
           new == To(known, "rank")
<1>1. calls[c].at = "days" /\ calls[c].op = "advice" /\ Becomes(c, new)
  BY UnderWay, StageTells DEF DaysRead, At
<1>2. days \in {"policy", "default"} /\ (days = "policy" <=> policy # NoPolicy)
  OBVIOUS
<1> HIDE DEF days
<1>3. /\ known \in Call /\ known.days = days /\ known.op = calls[c].op
      /\ known.answer = calls[c].answer /\ known.health = calls[c].health
      /\ known.view = calls[c].view /\ known.during = calls[c].during
  <2>1. calls[c] \in Call /\ days \in {"none", "query", "policy", "default"}
    BY <1>2, UnderWay
  <2>2. known \in Call
    BY <2>1, FieldTypes
  <2> QED BY <2>1, <2>2 DEF Call
<1>4. /\ new \in Call /\ new.at = "rank" /\ new.op = "advice" /\ new.answer = NoAnswer
      /\ new.health = calls[c].health /\ new.view = calls[c].view /\ new.days = days
      /\ new.during = calls[c].during
  <2> HIDE DEF known
  <2> QED BY <1>1, <1>3, UnderWay, ToFields DEF Reads
<1> HIDE DEF new
<1>5. "rank" \in Stages(new.op)
  BY <1>4 DEF Stages
<1>6. MoneyFits(new, deployed) /\ ReadsFit(new, deployed)
  BY <1>1, <1>4, UnderWay DEF MoneyFits, ReadsFit, Money
<1>7. AdviceFits(new, policy)
  BY <1>1, <1>2, <1>4, UnderWay DEF AdviceFits, Horizon
<1> QED BY <1>1, <1>4, <1>5, <1>6, <1>7, GoingFits, BecomesInv

LEMMA RankReadInv ==
  ASSUME ProviderInv, NEW c \in Clients, RankRead(c)
  PROVE  ProviderInv'
<1> DEFINE call == [calls[c] EXCEPT !.fit = Profile(policy)]
<1>1. /\ calls[c].at = "rank" /\ calls[c].op = "advice"
      /\ Becomes(c, IF isConfigured THEN To(call, "info") ELSE Done(call, Advice(call, "unread")))
  BY UnderWay, StageTells DEF RankRead, At
<1>2. /\ call \in Call /\ call.fit = Profile(policy) /\ call.op = "advice"
      /\ call.answer = calls[c].answer /\ call.health = calls[c].health
      /\ call.view = calls[c].view /\ call.days = calls[c].days
      /\ call.during = calls[c].during
  <2>1. calls[c] \in Call /\ Profile(policy) \in 0..2
    BY UnderWay, PolicyTypes
  <2>2. call \in Call
    BY <2>1, FieldTypes
  <2> QED BY <1>1, <2>1, <2>2 DEF Call
<1> HIDE DEF call
<1>3. /\ policy \in call.during /\ call.view \in call.during
      /\ Horizon(call.days, call.during)
      /\ \E q \in call.during : call.fit = Profile(q)
  BY <1>1, <1>2, UnderWay DEF AdviceFits
<1>4. CASE isConfigured
  <2> DEFINE new == To(call, "info")
  <2>1. /\ new \in Call /\ new.at = "info" /\ new.op = "advice" /\ new.answer = NoAnswer
        /\ new.health = calls[c].health /\ new.view = call.view /\ new.days = call.days
        /\ new.fit = call.fit /\ new.during = call.during
    BY <1>1, <1>2, UnderWay, ToFields DEF Reads, Retried
  <2>2. Becomes(c, new)
    BY <1>1, <1>4
  <2> HIDE DEF new
  <2>3. "info" \in Stages(new.op)
    BY <2>1 DEF Stages
  <2>4. MoneyFits(new, deployed) /\ ReadsFit(new, deployed)
    BY <1>1, <2>1, UnderWay DEF MoneyFits, ReadsFit, Money
  <2>5. AdviceFits(new, policy)
    BY <1>3, <2>1 DEF AdviceFits
  <2> QED BY <2>1, <2>2, <2>3, <2>4, <2>5, GoingFits, BecomesInv
<1>5. CASE ~isConfigured
  <2>1. Becomes(c, Done(call, Advice(call, "unread")))
    BY <1>1, <1>5
  <2>2. /\ Done(call, Advice(call, "unread")) \in Call
        /\ Fits(Done(call, Advice(call, "unread")), deployed, policy)
    BY <1>2, <1>3, AdviceIsTrue DEF ProviderInv
  <2> QED BY <2>1, <2>2, BecomesInv
<1> QED BY <1>4, <1>5

----------------------------------------------------------------------------
(* Answers, retries and failures *)

\* The capabilities call the deployed vault fit only if the check found that it
\* takes USDC.
LEMMA CapabilitiesToldInv ==
  ASSUME ProviderInv, NEW c \in Clients, CapabilitiesTold(c)
  PROVE  ProviderInv'
<1> DEFINE told == [is |-> "capabilities", earn |-> Earn(calls[c].health), from |-> deployed.vault]
<1>1. calls[c].at = "join" /\ Becomes(c, Done(calls[c], told))
  BY DEF CapabilitiesTold, At
<1>2. Earn(calls[c].health) \in {"missing_vault_or_key", "beta", "degraded"}
  BY DEF Earn
<1>3. told \in AnswerTypes
  BY <1>2, UnderWay DEF AnswerTypes
<1>4. told.earn = "beta" => told.from \in UsdcVaults
  BY UnderWay DEF Earn, ReadsFit, isConfigured
<1>5. told.is = "capabilities"
  OBVIOUS
<1> HIDE DEF told
<1>6. Done(calls[c], told) \in Call /\ Fits(Done(calls[c], told), deployed, policy)
  BY <1>3, <1>4, <1>5, UnderWay, DoneFits
<1> QED BY <1>1, <1>6, BecomesInv

LEMMA HealthToldInv ==
  ASSUME ProviderInv, NEW c \in Clients, HealthTold(c)
  PROVE  ProviderInv'
<1>1. PICK others \in BOOLEAN :
        Becomes(c, Done(calls[c], [is |-> "health", state |-> DefindexState(calls[c].health),
                    ok |-> others /\ DefindexState(calls[c].health) \in {"healthy", "unconfigured"}]))
  BY DEF HealthTold
<1>2. PICK told : /\ told = [is |-> "health", state |-> DefindexState(calls[c].health),
                       ok |-> others /\ DefindexState(calls[c].health) \in {"healthy", "unconfigured"}]
                  /\ Becomes(c, Done(calls[c], told))
  BY <1>1
<1>3. DefindexState(calls[c].health) \in {"unconfigured", "blocked", "healthy", "fragmented"}
  BY DEF DefindexState
<1>4. told \in AnswerTypes /\ told.is = "health"
  BY <1>2, <1>3 DEF AnswerTypes
<1>5. Done(calls[c], told) \in Call /\ Fits(Done(calls[c], told), deployed, policy)
  BY <1>4, UnderWay, DoneFits
<1> QED BY <1>2, <1>5, BecomesInv

\* A read that is tried again finds nothing new.
LEMMA ReadLimitedInv ==
  ASSUME ProviderInv, NEW c \in Clients, ReadLimited(c)
  PROVE  ProviderInv'
<1> DEFINE new == [calls[c] EXCEPT !.tries = @ + 1]
<1>1. /\ calls[c].at \in Retried /\ calls[c].tries < 3 /\ Becomes(c, new)
  BY DEF ReadLimited, At, MaxAttempts
<1>2. calls[c] \in Call /\ calls[c].tries \in 1..3
  BY UnderWay DEF Call, MaxAttempts
<1>3. calls[c].tries + 1 \in 1..MaxAttempts
  BY <1>1, <1>2 DEF MaxAttempts
<1>4. new \in Call
  BY <1>2, <1>3, FieldTypes
<1>5. /\ new.at = calls[c].at /\ new.op = calls[c].op /\ new.want = calls[c].want
      /\ new.answer = calls[c].answer /\ new.health = calls[c].health
      /\ new.view = calls[c].view /\ new.days = calls[c].days /\ new.fit = calls[c].fit
      /\ new.during = calls[c].during
  BY <1>2, <1>4 DEF Call
<1> HIDE DEF new
<1>6. calls[c].at # "ended"
  BY <1>1 DEF Retried
<1>7. MoneyFits(new, deployed) /\ ReadsFit(new, deployed) /\ AdviceFits(new, policy)
  BY <1>5, UnderWay DEF MoneyFits, ReadsFit, AdviceFits
<1>8. Fits(new, deployed, policy)
  BY <1>4, <1>5, <1>6, <1>7, UnderWay, GoingFits
<1> QED BY <1>1, <1>4, <1>8, BecomesInv

\* What a request makes of a failure is no more than it has found.
LEMMA ReadFailsInv ==
  ASSUME ProviderInv, NEW c \in Clients, ReadFails(c)
  PROVE  ProviderInv'
<1> DEFINE call == calls[c]
<1>1. call.at \in Reads /\ Becomes(c, Failed(call))
  BY DEF ReadFails, At
<1>2. call.at # "ended"
  BY <1>1 DEF Reads, Retried
<1>3. CASE call.op \in {"capabilities", "health"}
  <2> DEFINE known == [call EXCEPT !.health = "failed"]
             new == To(known, "join")
  <2>1. Becomes(c, new)
    BY <1>1, <1>3 DEF Failed
  <2>2. call \in Call
    BY UnderWay
  <2>3. known \in Call
    BY <2>2, FieldTypes
  <2>4. /\ known.op = call.op /\ known.answer = call.answer /\ known.health = "failed"
    BY <2>2, <2>3 DEF Call
  <2>5. /\ new \in Call /\ new.at = "join" /\ new.op = call.op /\ new.answer = NoAnswer
        /\ new.health = "failed"
    <3> HIDE DEF known
    <3> QED BY <1>2, <2>3, <2>4, UnderWay, ToFields
  <2> HIDE DEF new
  <2>6. "join" \in Stages(new.op)
    BY <1>3, <2>5 DEF Stages
  <2>7. MoneyFits(new, deployed) /\ ReadsFit(new, deployed) /\ AdviceFits(new, policy)
    BY <1>3, <2>5 DEF MoneyFits, ReadsFit, AdviceFits, Money
  <2> QED BY <2>1, <2>5, <2>6, <2>7, GoingFits, BecomesInv
<1>4. CASE call.op = "strategies"
  <2>1. Becomes(c, Done(call, Strategies(call.info, "unread")))
    BY <1>1, <1>4 DEF Failed
  <2>2. /\ Done(call, Strategies(call.info, "unread")) \in Call
        /\ Fits(Done(call, Strategies(call.info, "unread")), deployed, policy)
    BY UnderWay, StrategiesType, DoneFits DEF ProviderInv
  <2> QED BY <2>1, <2>2, BecomesInv
<1>5. CASE call.op = "positions"
  <2>1. Position(None) \in AnswerTypes /\ Position(None).is = "position" /\ Position(None).of = None
    BY DEF Position, AnswerTypes
  <2>2. /\ Done(call, Position(None)) \in Call
        /\ Fits(Done(call, Position(None)), deployed, policy)
    BY <2>1, UnderWay, DoneFits
  <2>3. Becomes(c, Done(call, Position(None)))
    BY <1>1, <1>5 DEF Failed
  <2> QED BY <2>2, <2>3, BecomesInv
<1>6. CASE call.op = "advice" /\ call.at \in {"info", "apy"}
  <2>1. Becomes(c, Done(call, Advice(call, "unread")))
    BY <1>1, <1>6 DEF Failed
  <2>2. /\ call.view \in call.during /\ Horizon(call.days, call.during)
        /\ \E q \in call.during : call.fit = Profile(q)
    BY <1>6, UnderWay DEF AdviceFits
  <2>3. /\ Done(call, Advice(call, "unread")) \in Call
        /\ Fits(Done(call, Advice(call, "unread")), deployed, policy)
    BY <1>6, <2>2, UnderWay, AdviceIsTrue DEF ProviderInv
  <2> QED BY <2>1, <2>3, BecomesInv
<1>7. CASE /\ call.op \notin {"capabilities", "health", "strategies", "positions"}
           /\ ~(call.op = "advice" /\ call.at \in {"info", "apy"})
  <2>1. Becomes(c, Refused)
    BY <1>1, <1>7 DEF Failed
  <2> QED BY <2>1, UnheardFits, BecomesInv DEF Refused
<1> QED BY <1>3, <1>4, <1>5, <1>6, <1>7

LEMMA ProceedsInv ==
  ASSUME ProviderInv, NEW c \in Clients, Proceeds(c)
  PROVE  ProviderInv'
  BY HealthReadInv, VaultCheckedInv, VaultDescribedInv, VaultAssertedInv, ApyReadInv,
     BalanceReadInv, GatePassedInv, TxBuiltInv, PolicyReadInv, DaysReadInv, RankReadInv,
     CapabilitiesToldInv, HealthToldInv, ReadLimitedInv, ReadFailsInv
     DEF Proceeds

----------------------------------------------------------------------------
(* The app and the others *)

\* The app asks for something, or drops what it asked for, and changes itself.
LEMMA AppInv ==
  ASSUME ProviderInv, NEW call \in Call, Fits(call, deployed, policy),
         calls' = [calls EXCEPT ![Phone] = call], UNCHANGED <<deployed, policy>>,
         app' \in AppState, app'.earn = "beta" => app'.from \in UsdcVaults
  PROVE  ProviderInv'
<1>1. TypeOK'
  BY DEF ProviderInv, TypeOK
<1>2. ASSUME NEW x \in Clients PROVE Fits(calls'[x], deployed', policy')
  <2>1. calls'[x] = IF x = Phone THEN call ELSE calls[x]
    BY DEF ProviderInv, TypeOK
  <2> QED BY <2>1 DEF ProviderInv
<1> QED BY <1>1, <1>2 DEF ProviderInv

\* The requests of the app, and what it knows.
LEMMA PhoneAsks ==
  ASSUME ProviderInv
  PROVE  /\ Phone \in Clients /\ app \in AppState /\ TypeOK
         /\ app.earn = "beta" => app.from \in UsdcVaults
         /\ calls[Phone] \in Call /\ Fits(calls[Phone], deployed, policy)
         /\ app.strategy \in Vaults \cup {None} /\ app.risk \in 0..2
  BY DEF ProviderInv, TypeOK, Clients, AppState

LEMMA AppRequestsInv ==
  ASSUME ProviderInv,
         AppStarts \/ HealthHeard \/ AppCloses \/ \E risk \in Risks : Confirms(risk)
  PROVE  ProviderInv'
<1>1. CASE AppStarts
  <2>1. /\ Request("health", None, "none") \in Call
        /\ Fits(Request("health", None, "none"), deployed, policy)
    BY PhoneAsks, RequestFits DEF OpNames
  <2>2. app' = [app EXCEPT !.stage = "starting"]
    BY <1>1 DEF AppStarts, AppMoves
  <2>3. app' \in AppState /\ app'.earn = app.earn /\ app'.from = app.from
    BY <2>2, PhoneAsks DEF AppState
  <2> QED BY <1>1, <2>1, <2>3, PhoneAsks, AppInv DEF AppStarts, AppMoves
<1>2. CASE HealthHeard
  <2>1. /\ Request("capabilities", None, "none") \in Call
        /\ Fits(Request("capabilities", None, "none"), deployed, policy)
    BY PhoneAsks, RequestFits DEF OpNames
  <2> QED BY <1>2, <2>1, PhoneAsks, AppInv DEF HealthHeard, AppMoves
<1>3. CASE AppCloses
  <2>1. NoApp \in AppState /\ NoApp.earn # "beta"
    BY DEF NoApp, AppState
  <2> QED BY <1>3, <2>1, NoCallFits, PhoneAsks, AppInv DEF AppCloses, AppMoves
<1>4. CASE \E risk \in Risks : Confirms(risk)
  <2>1. PICK risk \in Risks : Confirms(risk)
    BY <1>4
  <2>2. PICK stage \in {"saving", "choosing"} :
          app' = [app EXCEPT !.stage = stage, !.risk = risk, !.strategy = None]
    BY <2>1 DEF Confirms, AppMoves
  <2>3. risk \in 0..2
    BY <2>1, ProviderAssumption
  <2>4. app' \in AppState /\ app'.earn = app.earn /\ app'.from = app.from
    BY <2>2, <2>3, PhoneAsks DEF AppState
  <2>5. /\ Request("strategies", None, "none") \in Call
        /\ Fits(Request("strategies", None, "none"), deployed, policy)
    BY PhoneAsks, RequestFits DEF OpNames
  <2>6. /\ NoCall \in Call /\ Fits(NoCall, deployed, policy)
    BY NoCallFits
  <2>7. \/ calls' = [calls EXCEPT ![Phone] = NoCall]
        \/ calls' = [calls EXCEPT ![Phone] = Request("strategies", None, "none")]
    BY <2>1 DEF Confirms
  <2>8. UNCHANGED <<deployed, policy>>
    BY <2>1 DEF Confirms, AppMoves
  <2>9. app'.earn = "beta" => app'.from \in UsdcVaults
    BY <2>4, PhoneAsks
  <2>10. CASE calls' = [calls EXCEPT ![Phone] = NoCall]
    BY <2>4, <2>6, <2>8, <2>9, <2>10, AppInv
  <2>11. CASE calls' = [calls EXCEPT ![Phone] = Request("strategies", None, "none")]
    BY <2>4, <2>5, <2>8, <2>9, <2>11, AppInv
  <2> QED BY <2>7, <2>10, <2>11
<1> QED BY <1>1, <1>2, <1>3, <1>4

\* What the app hears: it believes of the capabilities what they say, and picks a
\* strategy that is listed.
LEMMA AppHearsInv ==
  ASSUME ProviderInv, CapabilitiesHeard \/ StrategyPicked \/ DepositTaken \/ FlowFails
  PROVE  ProviderInv'
<1>1. calls' = [calls EXCEPT ![Phone] = NoCall] /\ UNCHANGED <<deployed, policy>>
  BY DEF CapabilitiesHeard, StrategyPicked, DepositTaken, FlowFails, AppMoves
<1>2. NoCall \in Call /\ Fits(NoCall, deployed, policy)
  BY NoCallFits
<1>3. app' \in AppState /\ (app'.earn = "beta" => app'.from \in UsdcVaults)
  <2>1. CASE CapabilitiesHeard
    <3> DEFINE told == calls[Phone].answer
    <3>1. told.is = "capabilities" /\ told \in AnswerTypes
      BY <2>1, PhoneAsks DEF CapabilitiesHeard, Answer, Call
    <3>2. /\ told.earn \in {"missing_vault_or_key", "beta", "degraded"}
          /\ told.from \in Vaults \cup {None}
      BY <3>1 DEF AnswerTypes
    <3>3. told.earn = "beta" => told.from \in UsdcVaults
      BY <3>1, PhoneAsks DEF Fits, UsdcAnswers
    <3>4. app' = [app EXCEPT !.stage = "open", !.earn = told.earn, !.from = told.from]
      BY <2>1 DEF CapabilitiesHeard, AppMoves
    <3> HIDE DEF told
    <3>5. app' \in AppState /\ app'.earn = told.earn /\ app'.from = told.from
      BY <3>2, <3>4, PhoneAsks DEF AppState
    <3> QED BY <3>3, <3>5
  <2>2. CASE StrategyPicked
    <3>1. PICK s \in calls[Phone].answer.list :
            app' = [app EXCEPT !.stage = "saving", !.strategy = s.vault]
      BY <2>2 DEF StrategyPicked, AppMoves
    <3>2. calls[Phone].answer.is = "strategies" /\ calls[Phone].answer \in AnswerTypes
      BY <2>2, PhoneAsks DEF StrategyPicked, Answer, Call
    <3>3. calls[Phone].answer.list \subseteq Offer
      BY <3>2 DEF AnswerTypes
    <3>4. s.vault \in Vaults
      BY <3>1, <3>3 DEF Offer
    <3>5. app' \in AppState /\ app'.earn = app.earn /\ app'.from = app.from
      BY <3>1, <3>4, PhoneAsks DEF AppState
    <3> QED BY <3>5, PhoneAsks
  <2>3. CASE DepositTaken
    <3>1. app' = [app EXCEPT !.stage = "open", !.strategy = None]
      BY <2>3 DEF DepositTaken, AppMoves
    <3>2. app' \in AppState /\ app'.earn = app.earn /\ app'.from = app.from
      BY <3>1, PhoneAsks DEF AppState
    <3> QED BY <3>2, PhoneAsks
  <2>4. CASE FlowFails
    <3>1. PICK stage \in {"off", "open"} :
            app' = [app EXCEPT !.stage = stage, !.strategy = None, !.risk = 1]
      BY <2>4 DEF FlowFails, AppMoves
    <3>2. PICK risk \in 0..2 :
            app' = [app EXCEPT !.stage = stage, !.strategy = None, !.risk = risk]
      BY <3>1
    <3>3. app' \in AppState /\ app'.earn = app.earn /\ app'.from = app.from
      BY <3>2, PhoneAsks DEF AppState
    <3> QED BY <3>3, PhoneAsks
  <2> QED BY <2>1, <2>2, <2>3, <2>4
<1> QED BY <1>1, <1>2, <1>3, AppInv

\* A request for advice that is under way notes the policy that is written.
LEMMA NotedFits ==
  ASSUME ProviderInv, NEW p \in Policies, NEW c \in Clients
  PROVE  Noted(p)[c] \in Call /\ Fits(Noted(p)[c], deployed, p)
<1> DEFINE call == calls[c]
           during == call.during \cup {p}
           new == [call EXCEPT !.during = during]
<1>1. call \in Call /\ Fits(call, deployed, policy)
  BY DEF ProviderInv, TypeOK
<1>2. CASE call.op = "advice" /\ call.at # "ended"
  <2>1. Noted(p)[c] = new
    BY <1>2 DEF Noted, Ended
  <2>2. call.during \in SUBSET Policies
    BY <1>1 DEF Call
  <2>3. during \in SUBSET Policies
    BY <2>2
  <2>4. new \in Call
    BY <1>1, <2>3, FieldTypes
  <2>5. /\ new.op = call.op /\ new.at = call.at /\ new.answer = call.answer
        /\ new.health = call.health /\ new.view = call.view /\ new.days = call.days
        /\ new.fit = call.fit /\ new.during = during
    BY <1>1, <2>4 DEF Call
  <2> HIDE DEF new
  <2>6. call.answer = NoAnswer /\ call.at \in Stages(call.op)
    BY <1>1, <1>2 DEF Fits
  <2>7. MoneyFits(new, deployed) /\ ReadsFit(new, deployed)
    BY <1>1, <1>2, <2>5 DEF Fits, MoneyFits, ReadsFit, Money
  <2>8. Horizon(call.days, call.during) => Horizon(call.days, during)
    BY DEF Horizon
  <2>9. AdviceFits(new, p)
    BY <1>1, <1>2, <2>5, <2>8 DEF Fits, AdviceFits
  <2> QED BY <1>2, <2>1, <2>4, <2>5, <2>6, <2>7, <2>9, GoingFits
<1>3. CASE ~(call.op = "advice" /\ call.at # "ended")
  <2>1. Noted(p)[c] = call
    BY <1>3 DEF Noted, Ended
  <2>2. Fits(call, deployed, p)
    BY <1>1, <1>3 DEF Fits, AdviceFits
  <2> QED BY <1>1, <2>1, <2>2
<1> QED BY <1>2, <1>3

LEMMA PolicyChangesInv ==
  ASSUME ProviderInv, NEW p \in Written, PolicyChanges(p)
  PROVE  ProviderInv'
<1>1. p \in Policies
  BY ProviderAssumption
<1>2. /\ policy' = p /\ calls' = Noted(p) /\ UNCHANGED <<deployed, app>>
  BY DEF PolicyChanges
<1>3. DOMAIN Noted(p) = Clients /\ Noted(p) = [c \in Clients |-> Noted(p)[c]]
  BY DEF Noted
<1>4. calls' \in [Clients -> Call]
  BY <1>1, <1>2, <1>3, NotedFits
<1>5. TypeOK'
  BY <1>1, <1>2, <1>4 DEF ProviderInv, TypeOK
<1>6. \A c \in Clients : Fits(calls'[c], deployed', policy')
  BY <1>1, <1>2, NotedFits
<1>7. app'.earn = "beta" => app'.from \in UsdcVaults
  BY <1>2 DEF ProviderInv
<1> QED BY <1>5, <1>6, <1>7 DEF ProviderInv

\* So does it note the plan the flow writes; the flow goes on to its deposit.
LEMMA PlanSavedInv ==
  ASSUME ProviderInv, NEW target \in Targets, PlanSaved(target)
  PROVE  ProviderInv'
<1>1. PICK plan : /\ plan = [risk |-> app.risk, target |-> target,
                             allowed |-> IF app.strategy = None THEN {} ELSE {app.strategy}]
                  /\ policy' = plan
                  /\ calls' = IF app.strategy # None
                              THEN [Noted(plan) EXCEPT ![Phone] =
                                       Request("deposit", app.strategy, "none")]
                              ELSE Noted(plan)
  BY DEF PlanSaved
<1>2. UNCHANGED deployed
  BY DEF PlanSaved
<1>3. plan \in Policies
  <2>1. (IF app.strategy = None THEN {} ELSE {app.strategy}) \in SUBSET Vaults
    BY PhoneAsks
  <2>2. plan \in [risk: 0..2, target: Targets, allowed: SUBSET Vaults]
    BY <1>1, <2>1, PhoneAsks
  <2> QED BY <2>2 DEF Policies
<1>4. Noted(plan) = [c \in Clients |-> Noted(plan)[c]]
  BY DEF Noted
<1>5. ASSUME app.strategy # None
      PROVE  /\ Request("deposit", app.strategy, "none") \in Call
             /\ Fits(Request("deposit", app.strategy, "none"), deployed, plan)
  BY PhoneAsks, RequestFits DEF OpNames, Money
<1>6. calls' \in [Clients -> Call]
  BY <1>1, <1>3, <1>4, <1>5, NotedFits
<1>7. ASSUME NEW c \in Clients PROVE Fits(calls'[c], deployed', policy')
  <2>1. calls'[c] = IF app.strategy # None /\ c = Phone
                    THEN Request("deposit", app.strategy, "none") ELSE Noted(plan)[c]
    BY <1>1, <1>4
  <2> QED BY <1>1, <1>2, <1>3, <1>5, <2>1, NotedFits
<1>8. PICK stage \in {"depositing", "open"}, risk \in {1} :
        app' = [app EXCEPT !.stage = stage, !.risk = risk]
  BY DEF PlanSaved
<1>9. app' \in AppState /\ app'.earn = app.earn /\ app'.from = app.from
  <2>1. risk \in 0..2
    BY <1>8
  <2> QED BY <1>8, <2>1, PhoneAsks DEF AppState
<1>10. TypeOK'
  BY <1>1, <1>2, <1>3, <1>6, <1>9 DEF ProviderInv, TypeOK
<1> QED BY <1>7, <1>9, <1>10, PhoneAsks DEF ProviderInv

\* The requests of the other clients.
LEMMA OthersAskInv ==
  ASSUME ProviderInv, NEW c \in Others, AsksMoney(c) \/ AsksAdvice(c) \/ AsksPositions(c)
  PROVE  ProviderInv'
<1>1. PICK op \in OpNames \ {"none"}, want \in Vaults \cup {None}, days \in {"none", "query"} :
        Asks(c, op, want, days)
  BY DEF AsksMoney, AsksAdvice, AsksPositions, OpNames, Money
<1>2. /\ Request(op, want, days) \in Call
      /\ Fits(Request(op, want, days), deployed, policy)
  BY PhoneAsks, RequestFits
<1>3. c \in Clients /\ Becomes(c, Request(op, want, days))
  BY <1>1 DEF Clients, Asks
<1> QED BY <1>2, <1>3, BecomesInv

\* A new deployment loses the requests of the old one.
LEMMA BackendDeploysInv ==
  ASSUME ProviderInv, NEW d \in Deployments, BackendDeploys(d)
  PROVE  ProviderInv'
<1>1. /\ deployed' = d /\ UNCHANGED <<policy, app>>
      /\ calls' = [c \in Clients |-> IF Ended(c) THEN calls[c] ELSE Unheard("lost")]
      /\ d \in Deployment
  BY ProviderAssumption DEF BackendDeploys
<1>2. ASSUME NEW c \in Clients PROVE calls'[c] \in Call /\ Fits(calls'[c], d, policy)
  <2>1. CASE calls[c].at = "ended"
    <3>1. calls'[c] = calls[c]
      BY <1>1, <2>1 DEF Ended
    <3>2. calls[c] \in Call /\ Fits(calls[c], deployed, policy)
      BY DEF ProviderInv, TypeOK
    <3>3. Fits(calls[c], d, policy)
      BY <2>1, <3>2 DEF Fits, MoneyFits, ReadsFit
    <3> QED BY <3>1, <3>2, <3>3
  <2>2. CASE calls[c].at # "ended"
    BY <1>1, <2>2, UnheardFits DEF Ended
  <2> QED BY <2>1, <2>2
<1>3. calls' \in [Clients -> Call]
  BY <1>1, <1>2
<1> QED BY <1>1, <1>2, <1>3 DEF ProviderInv, TypeOK

----------------------------------------------------------------------------
(* The theorems *)

LEMMA ProviderInit == Init => ProviderInv
<1> SUFFICES ASSUME Init PROVE ProviderInv
  OBVIOUS
<1>1. NoApp \in AppState /\ NoApp.earn # "beta"
  BY DEF NoApp, AppState
<1>2. deployed \in Deployment /\ policy \in Policies
  BY PolicyTypes, ProviderAssumption DEF Init
<1>3. \A c \in Clients : calls[c] \in Call /\ Fits(calls[c], deployed, policy)
  BY NoCallFits DEF Init
<1>4. calls \in [Clients -> Call]
  BY NoCallFits DEF Init
<1> QED BY <1>1, <1>2, <1>3, <1>4 DEF Init, ProviderInv, TypeOK

LEMMA ProviderStep ==
  ASSUME ProviderInv, [Next]_vars
  PROVE  ProviderInv'
<1>1. CASE UNCHANGED vars
  BY <1>1 DEF vars, ProviderInv, TypeOK
<1>2. CASE \E c \in Clients : Proceeds(c)
  BY <1>2, ProceedsInv
<1>3. CASE \E c \in Others : AsksMoney(c) \/ AsksAdvice(c) \/ AsksPositions(c)
  BY <1>3, OthersAskInv
<1>4. CASE AppStarts \/ AppCloses \/ AppGoesOn \/ \E risk \in Risks : Confirms(risk)
  BY <1>4, AppRequestsInv, AppHearsInv, PlanSavedInv DEF AppGoesOn
<1>5. CASE \E p \in Written : PolicyChanges(p)
  BY <1>5, PolicyChangesInv
<1>6. CASE \E d \in Deployments : BackendDeploys(d)
  BY <1>6, BackendDeploysInv
<1> QED BY <1>1, <1>2, <1>3, <1>4, <1>5, <1>6 DEF Next

\* Every request keeps what its reads have found, over deployments and over the
\* policies that others write.
THEOREM ProviderInductive == Spec => []ProviderInv
<1> QED BY ProviderInit, ProviderStep, PTL DEF Spec

\* A deposit or a withdrawal is only built at the vault its client named.
THEOREM BuildsAsNamed == Spec => []VaultIsNamed
<1>1. ProviderInv => VaultIsNamed
  BY DEF ProviderInv, Fits, BuiltAsNamed, VaultIsNamed, Told
<1> QED BY <1>1, ProviderInductive, PTL

\* USDC only goes to a vault that takes it, whatever the app was told before.
THEOREM UsdcIsSafe == Spec => []UsdcStaysUsdc
<1>1. ProviderInv => UsdcStaysUsdc
  BY DEF ProviderInv, Fits, BuiltAsNamed, UsdcAnswers, UsdcStaysUsdc, Told
<1> QED BY <1>1, ProviderInductive, PTL

\* Every part of a recommendation is of a policy the account had meanwhile, and
\* its tier is the vault's own.
THEOREM AdviceIsOfItsTime == Spec => []AdviceIsHonest
<1>1. ASSUME ProviderInv, NEW c \in Clients, Told(c, "advice")
      PROVE  AdvisedAsRead(calls[c])
  BY <1>1 DEF ProviderInv, Fits
<1>2. ProviderInv => AdviceIsHonest
  BY <1>1 DEF AdvisedAsRead, AdviceIsHonest, Told, Shows, Horizon, TrueTier
<1> QED BY <1>2, ProviderInductive, PTL
=============================================================================
