------------------------ MODULE YieldDeposit_proofs ------------------------
(***************************************************************************)
(* The policy contract keeps the user's last word and keeps used entries    *)
(* alive; the deposit gate and the Grow-money flow rely on it. For any      *)
(* strategies, operations, amounts and callers.                             *)
(***************************************************************************)
EXTENDS YieldDeposit, TLAPS

ContractInv == PolicyTypeOK /\ LastWordCounts /\ UsedIsAlive

\* The type of what callers send, checked by nobody yet.
AnyPolicy ==
    [risk_profile: Nat, target_timestamp: Targets, liquidity_target_bps: Nat,
     automation_paused: BOOLEAN, allowed_strategies: [Strategies -> Nat]]

\* A policy, once written, is there for good.
PolicyStays == policy # NoPolicy => policy' # NoPolicy

----------------------------------------------------------------------------
(* The contract *)

LEMMA NoPolicyIsNone == \A p \in UserPolicy : p # NoPolicy
  BY PolicyAssumption

LEMMA LimitsAreNat == MaxRiskProfile \in Nat /\ MaxLiquidityBps \in Nat \ {0}
  BY DEF MaxRiskProfile, MaxLiquidityBps

\* store_policy keeps types and life, whatever valid policy it stores.
LEMMA StoreKeeps ==
  ASSUME PolicyTypeOK, NEW p \in UserPolicy, Store(p)
  PROVE  /\ policy' \in UserPolicy
         /\ policy' # NoPolicy
         /\ liveUntil' \in Nat
         /\ now' \in 0 .. MaxTime
         /\ used' \in 0 .. now'
         /\ UsedIsAlive'
<1> USE PolicyAssumption DEF PolicyTypeOK, Store, UsedIsAlive
<1>1. policy' = p /\ used' = now /\ now' = now
  OBVIOUS
<1>2. now \in Nat /\ liveUntil \in Nat
  OBVIOUS
<1>3. liveUntil' \in Nat /\ liveUntil' >= now + BumpThreshold
  BY <1>2
<1> QED BY <1>1, <1>2, <1>3, NoPolicyIsNone

LEMMA ContractInit == PolicyInit => ContractInv
  BY PolicyAssumption
  DEF PolicyInit, ContractInv, PolicyTypeOK, LastWordCounts, UsedIsAlive

LEMMA SetPolicyStep ==
  ASSUME ContractInv, NEW p \in AnyPolicy, set_policy(p)
  PROVE  ContractInv' /\ PolicyStays
<1>1. p.risk_profile \in 0 .. MaxRiskProfile /\ p.liquidity_target_bps \in 0 .. MaxLiquidityBps
  <2>1. p.risk_profile \in Nat /\ p.liquidity_target_bps \in Nat
    BY DEF AnyPolicy
  <2>2. p.risk_profile <= MaxRiskProfile /\ p.liquidity_target_bps <= MaxLiquidityBps
    BY DEF set_policy, ValidFields
  <2> QED BY <2>1, <2>2, LimitsAreNat
<1>2. p \in UserPolicy
  BY <1>1 DEF AnyPolicy, UserPolicy
<1>3. Store(p) /\ policy' = p /\ word' = {s \in Strategies : Lists(p, s)}
  BY DEF set_policy, Store
<1>4. LastWordCounts'
  BY <1>2, <1>3, NoPolicyIsNone DEF LastWordCounts, Lists
<1> QED BY <1>2, <1>3, <1>4, StoreKeeps DEF ContractInv, PolicyTypeOK, PolicyStays

\* A call that stores the policy with the same list.
LEMMA SameListStep ==
  ASSUME ContractInv, NEW p \in UserPolicy, Store(p), policy # NoPolicy,
         p.allowed_strategies = policy.allowed_strategies, UNCHANGED word
  PROVE  ContractInv' /\ PolicyStays
<1>1. policy' = p
  BY DEF Store
<1>2. LastWordCounts'
  BY <1>1, NoPolicyIsNone DEF ContractInv, LastWordCounts, Lists
<1> QED BY <1>1, <1>2, StoreKeeps DEF ContractInv, PolicyTypeOK, PolicyStays

LEMMA AllowStep ==
  ASSUME ContractInv, NEW s \in Strategies, NEW allowed \in BOOLEAN,
         set_strategy_allowed(s, allowed)
  PROVE  ContractInv' /\ PolicyStays
<1> DEFINE list == policy.allowed_strategies
           next == IF allowed THEN IF list[s] = 0 THEN 1 ELSE list[s] ELSE 0
           p == [policy EXCEPT !.allowed_strategies[s] = next]
<1>1. policy \in UserPolicy /\ policy # NoPolicy
  BY DEF ContractInv, PolicyTypeOK, set_strategy_allowed
<1>2. list \in [Strategies -> Nat]
  BY <1>1 DEF UserPolicy
<1>3. next \in Nat /\ (next > 0 <=> allowed)
  BY <1>2
<1>4. p = [policy EXCEPT !.allowed_strategies = [list EXCEPT ![s] = next]]
  OBVIOUS
<1> HIDE DEF next
<1>5. [list EXCEPT ![s] = next] \in [Strategies -> Nat]
  BY <1>2, <1>3
<1>6. p \in UserPolicy /\ p.allowed_strategies = [list EXCEPT ![s] = next]
  BY <1>1, <1>4, <1>5 DEF UserPolicy
<1>7. Store(p) /\ word' = IF allowed THEN word \cup {s} ELSE word \ {s}
  BY DEF set_strategy_allowed, next
<1> HIDE DEF p
<1>8. policy' = p
  BY <1>7 DEF Store
<1>9. \A x \in Strategies :
        p.allowed_strategies[x] = IF x = s THEN next ELSE list[x]
  BY <1>2, <1>6
<1>10. word = {x \in Strategies : list[x] > 0}
  BY <1>1 DEF ContractInv, LastWordCounts, Lists
<1>11. word' = {x \in Strategies : p.allowed_strategies[x] > 0}
  BY <1>3, <1>7, <1>9, <1>10
<1>12. LastWordCounts'
  BY <1>6, <1>8, <1>11, NoPolicyIsNone DEF LastWordCounts, Lists
<1>13. word' \in SUBSET Strategies
  BY <1>11
<1> QED BY <1>6, <1>7, <1>8, <1>12, <1>13, StoreKeeps
        DEF ContractInv, PolicyTypeOK, PolicyStays

LEMMA ContractStep == ContractInv /\ PolicyNext => ContractInv' /\ PolicyStays
<1> SUFFICES ASSUME ContractInv, PolicyNext PROVE ContractInv' /\ PolicyStays
  OBVIOUS
<1>0. policy \in UserPolicy \cup {NoPolicy}
  BY DEF ContractInv, PolicyTypeOK
<1>1. ASSUME NEW p \in CallerPolicy, set_policy(p) PROVE ContractInv' /\ PolicyStays
  <2>1. /\ p.risk_profile \in Risks /\ p.liquidity_target_bps \in Liquidities
        /\ p.allowed_strategies \in [Strategies -> 0 .. MaxCopies]
    BY DEF CallerPolicy
  <2>2. p.allowed_strategies \in [Strategies -> Nat]
    BY <2>1, PolicyAssumption
  <2>3. p.risk_profile \in Nat /\ p.liquidity_target_bps \in Nat
    BY <2>1, PolicyAssumption
  <2>4. p \in AnyPolicy
    BY <2>2, <2>3 DEF CallerPolicy, AnyPolicy
  <2> QED BY <1>1, <2>4, SetPolicyStep
<1>2. ASSUME NEW risk \in Risks, update_risk(risk) PROVE ContractInv' /\ PolicyStays
  <2> DEFINE p == [policy EXCEPT !.risk_profile = risk]
  <2>1. risk \in 0 .. MaxRiskProfile
    BY <1>2, PolicyAssumption DEF update_risk, MaxRiskProfile
  <2>2. p \in UserPolicy /\ p.allowed_strategies = policy.allowed_strategies
    BY <1>0, <1>2, <2>1 DEF update_risk, UserPolicy
  <2> QED BY <1>2, <2>2, SameListStep DEF update_risk
<1>3. ASSUME NEW target \in Targets, update_target_date(target)
      PROVE ContractInv' /\ PolicyStays
  <2> DEFINE p == [policy EXCEPT !.target_timestamp = target]
  <2>1. p \in UserPolicy /\ p.allowed_strategies = policy.allowed_strategies
    BY <1>0, <1>3 DEF update_target_date, UserPolicy
  <2> QED BY <1>3, <2>1, SameListStep DEF update_target_date
<1>4. ASSUME NEW s \in Strategies, NEW allowed \in BOOLEAN, set_strategy_allowed(s, allowed)
      PROVE ContractInv' /\ PolicyStays
  BY <1>4, AllowStep
<1>5. ASSUME NEW paused \in BOOLEAN, pause_automation(paused)
      PROVE ContractInv' /\ PolicyStays
  <2> DEFINE p == [policy EXCEPT !.automation_paused = paused]
  <2>1. p \in UserPolicy /\ p.allowed_strategies = policy.allowed_strategies
    BY <1>0, <1>5 DEF pause_automation, UserPolicy
  <2> QED BY <1>5, <2>1, SameListStep DEF pause_automation
<1>6. ASSUME NEW s \in Strategies, NEW bps \in Liquidities, authorize_allocation(s, bps)
      PROVE ContractInv' /\ PolicyStays
  <2>1. policy # NoPolicy
    BY <1>6, PolicyAssumption DEF authorize_allocation, AllocationResult, MaxLiquidityBps
  <2> QED BY <1>0, <1>6, <2>1, SameListStep DEF authorize_allocation
<1>7. ASSUME NEW from \in Strategies, NEW to \in Strategies, authorize_rebalance(from, to)
      PROVE ContractInv' /\ PolicyStays
  BY <1>0, <1>7, SameListStep DEF authorize_rebalance
<1>8. CASE LedgerCloses
  BY <1>8, PolicyAssumption
  DEF LedgerCloses, ContractInv, PolicyTypeOK, LastWordCounts, UsedIsAlive, Lists, PolicyStays
<1> QED BY <1>1, <1>2, <1>3, <1>4, <1>5, <1>6, <1>7, <1>8 DEF PolicyNext

----------------------------------------------------------------------------
(* The gate and the flow *)

\* A build is for an operation that is not recorded, an execution of the transaction
\* of one that is, and a flow whose policy transaction was taken builds and signs with a policy
\* behind it.
Gate ==
    /\ \A o \in Ops : building[o] # "none" => ops[o].status = "unrecorded"
    /\ \A r \in Requests :
          req[r] # Idle => ops[req[r].op].status # "unrecorded" /\ req[r].signed = req[r].op
    /\ \A o \in AppFlows :
          /\ building[o] # "none" => flow[o] = "depositing"
          /\ flow[o] = "choosing" => plan[o] = "unsent"
          /\ plan[o] # "unsent" =>
                /\ plan[o] = "landed" \/ flow[o] = "depositing" => policy # NoPolicy
                /\ building[o] \in {"none", "authorized"}
                /\ flow[o] = "signing" => ops[o].policyCheck = "authorized"

YieldInv == ContractInv /\ TypeOK /\ Gate /\ DenialsAreTheUsers /\ EndIsTrue

\* The share of a deposit is one the contract takes.
LEMMA ShareInRange ==
  ASSUME NEW amount \in Nat, NEW balance \in Nat
  PROVE  /\ Share(amount, balance) \in Nat
         /\ Share(amount, balance) # 0
         /\ ~(Share(amount, balance) > MaxLiquidityBps)
<1> DEFINE bps == (amount * MaxLiquidityBps + balance - 1) \div balance
<1>1. CASE balance = 0
  BY <1>1, LimitsAreNat DEF Share
<1>2. CASE balance # 0
  <2>1. MaxLiquidityBps \in Nat /\ MaxLiquidityBps >= 1
    BY LimitsAreNat
  <2>2. amount * MaxLiquidityBps \in Nat
    BY <2>1
  <2>3. bps \in Nat
    <3>1. amount * MaxLiquidityBps + balance - 1 \in Nat
      BY <1>2, <2>2
    <3> QED BY <1>2, <3>1
  <2> HIDE DEF bps
  <2>4. Share(amount, balance) =
          IF amount = 0 \/ bps < 1 THEN 1
          ELSE IF bps > MaxLiquidityBps THEN MaxLiquidityBps ELSE bps
    BY <1>2 DEF Share, bps
  <2> QED BY <2>1, <2>3, <2>4
<1> QED BY <1>1, <1>2

LEMMA GateResults ==
  ASSUME NEW amount \in Amounts, NEW balance \in Balances
  PROVE  /\ AllocationResult(Vault, Share(amount, balance)) \in
              {"ok", "PolicyNotFound", "AutomationPaused", "StrategyNotAllowed"}
         /\ AllocationResult(Vault, Share(amount, balance)) = "PolicyNotFound"
              => policy = NoPolicy
<1>1. amount \in Nat /\ balance \in Nat
  BY YieldAssumption
<1> QED BY <1>1, ShareInRange DEF AllocationResult

LEMMA YieldInit == Init => YieldInv
  BY ContractInit, YieldAssumption
  DEF Init, YieldInv, ContractInv, TypeOK, Gate, DenialsAreTheUsers, EndIsTrue, Statuses,
      Checks, Denials, MaxNotified

LEMMA YieldStep == YieldInv /\ [Next]_vars => YieldInv'
<1> SUFFICES ASSUME YieldInv, [Next]_vars PROVE YieldInv'
  OBVIOUS
<1> USE YieldAssumption
<1> USE DEF YieldInv
<1>c. ASSUME UNCHANGED policyVars PROVE ContractInv'
  BY <1>c DEF policyVars, ContractInv, PolicyTypeOK, LastWordCounts, UsedIsAlive, Lists
<1>t. ASSUME ContractInv' PROVE PolicyTypeOK'
  BY <1>t DEF ContractInv
<1>1. CASE PolicyNext /\ UNCHANGED yieldVars
  <2>1. ContractInv' /\ PolicyStays
    BY <1>1, ContractStep
  <2>2. UNCHANGED <<ops, building, denied, flow, plan, txs, req, notified>>
    BY <1>1 DEF yieldVars
  <2>3. TypeOK' /\ DenialsAreTheUsers' /\ EndIsTrue'
    BY <2>1, <2>2, <1>t DEF TypeOK, DenialsAreTheUsers, EndIsTrue
  <2>4. Gate'
    BY <2>1, <2>2 DEF Gate, PolicyStays
  <2> QED BY <2>1, <2>3, <2>4
<1>2. ASSUME NEW o \in AppFlows, PlanSent(o) PROVE YieldInv'
  BY <1>2, <1>c, <1>t DEF PlanSent, TypeOK, Gate, DenialsAreTheUsers, EndIsTrue, policyVars
<1>3. ASSUME NEW o \in AppFlows, PlanDeferred(o) PROVE YieldInv'
  BY <1>3, <1>c, <1>t DEF PlanDeferred, TypeOK, Gate, DenialsAreTheUsers, EndIsTrue, policyVars
<1>4. ASSUME NEW o \in AppFlows, NEW risk \in Risks, NEW target \in Targets,
             NEW liquidity \in Liquidities, PlanLands(o, PlanOf(risk, target, liquidity))
      PROVE YieldInv'
  <2> DEFINE p == PlanOf(risk, target, liquidity)
  <2>1. p \in AnyPolicy
    BY PolicyAssumption DEF PlanOf, AnyPolicy
  <2>2. set_policy(p)
    BY <1>4 DEF PlanLands
  <2> HIDE DEF p
  <2>3. ContractInv' /\ PolicyStays
    BY <2>1, <2>2, SetPolicyStep
  <2>4. policy' # NoPolicy
    <3>1. p \in UserPolicy
      <4>1. p.risk_profile \in 0 .. MaxRiskProfile /\ p.liquidity_target_bps \in 0 .. MaxLiquidityBps
        <5>1. p.risk_profile <= MaxRiskProfile /\ p.liquidity_target_bps <= MaxLiquidityBps
          BY <2>2 DEF set_policy, ValidFields
        <5>2. p.risk_profile \in Nat /\ p.liquidity_target_bps \in Nat
          BY <2>1 DEF AnyPolicy
        <5> QED BY <5>1, <5>2, LimitsAreNat
      <4> QED BY <2>1, <4>1 DEF AnyPolicy, UserPolicy
    <3>2. policy' = p
      BY <2>2 DEF set_policy, Store
    <3> QED BY <3>1, <3>2, NoPolicyIsNone
  <2>5. plan[o] = "pending" /\ plan' = [plan EXCEPT ![o] = "landed"]
        /\ UNCHANGED <<ops, building, denied, flow, txs, req, notified>>
    BY <1>4 DEF PlanLands
  <2>6. TypeOK' /\ DenialsAreTheUsers' /\ EndIsTrue'
    BY <2>3, <2>5, <1>t DEF TypeOK, DenialsAreTheUsers, EndIsTrue
  <2>7. Gate'
    BY <2>4, <2>5 DEF Gate, TypeOK
  <2> QED BY <2>3, <2>6, <2>7
<1>5. ASSUME NEW o \in AppFlows, PlanFails(o) PROVE YieldInv'
  BY <1>5, <1>c, <1>t DEF PlanFails, TypeOK, Gate, DenialsAreTheUsers, EndIsTrue, policyVars
<1>6. ASSUME NEW o \in AppFlows, PlanAnswered(o) PROVE YieldInv'
  BY <1>6, <1>c, <1>t DEF PlanAnswered, TypeOK, Gate, DenialsAreTheUsers, EndIsTrue, policyVars
<1>7. ASSUME NEW o \in Ops, NEW amount \in Amounts, NEW balance \in Balances,
             DepositChecked(o, amount, balance)
      PROVE YieldInv'
  <2> DEFINE result == AllocationResult(Vault, Share(amount, balance))
  <2>1. result = "PolicyNotFound" => policy = NoPolicy
    BY GateResults
  <2> HIDE DEF result
  <2>2. /\ MayBuild(o)
        /\ building' = [building EXCEPT ![o] = IF result = "ok" THEN "authorized" ELSE "no_policy"]
        /\ result \in {"ok", "PolicyNotFound"}
        /\ UNCHANGED <<policyVars, ops, denied, flow, plan, txs, req, notified>>
    BY <1>7 DEF DepositChecked, result
  <2>3. ContractInv'
    BY <2>2, <1>c
  <2>4. TypeOK' /\ DenialsAreTheUsers' /\ EndIsTrue'
    BY <2>2, <2>3, <1>t DEF TypeOK, DenialsAreTheUsers, EndIsTrue, Checks
  <2>5. Gate'
    BY <2>1, <2>2 DEF Gate, MayBuild, TypeOK, policyVars
  <2> QED BY <2>3, <2>4, <2>5
<1>8. ASSUME NEW o \in Ops, NEW amount \in Amounts, NEW balance \in Balances,
             DepositDenied(o, amount, balance)
      PROVE YieldInv'
  <2> DEFINE result == AllocationResult(Vault, Share(amount, balance))
  <2>1. result \in {"ok", "PolicyNotFound", "AutomationPaused", "StrategyNotAllowed"}
    BY GateResults
  <2> HIDE DEF result
  <2>2. /\ MayBuild(o)
        /\ denied' = [denied EXCEPT ![o] = result]
        /\ result \notin {"ok", "PolicyNotFound"}
        /\ flow' = [f \in AppFlows |-> IF f = o THEN "failed" ELSE flow[f]]
        /\ UNCHANGED <<policyVars, ops, building, plan, txs, req, notified>>
    BY <1>8 DEF DepositDenied, result
  <2>3. ContractInv'
    BY <2>2, <1>c
  <2>4. TypeOK' /\ DenialsAreTheUsers' /\ EndIsTrue'
    BY <2>1, <2>2, <2>3, <1>t DEF TypeOK, DenialsAreTheUsers, EndIsTrue, Denials
  <2>5. Gate'
    BY <2>2 DEF Gate, MayBuild, TypeOK, policyVars
  <2> QED BY <2>3, <2>4, <2>5
<1>9. ASSUME NEW o \in Ops, BuildFails(o) PROVE YieldInv'
  BY <1>9, <1>c, <1>t
  DEF BuildFails, MayBuild, TypeOK, Gate, DenialsAreTheUsers, EndIsTrue, policyVars, Checks
<1>10. ASSUME NEW o \in Ops, DepositRecorded(o) PROVE YieldInv'
  <2>1. ContractInv' /\ PolicyTypeOK'
    BY <1>10, <1>c, <1>t DEF DepositRecorded
  <2>2. TypeOK'
    <3>1. ops' \in [Ops -> [status: Statuses, policyCheck: Checks]]
      BY <1>10 DEF DepositRecorded, TypeOK, Statuses
    <3>2. building' \in [Ops -> Checks] /\ txs' \in [Ops -> {"unbuilt", "open", "sent", "landed", "refused"}]
      BY <1>10 DEF DepositRecorded, TypeOK, Checks
    <3>3. flow' \in [AppFlows -> {"choosing", "submitting", "depositing", "signing", "failed"}]
      BY <1>10 DEF DepositRecorded, TypeOK
    <3> QED BY <1>10, <2>1, <3>1, <3>2, <3>3 DEF DepositRecorded, TypeOK
  <2>3. DenialsAreTheUsers' /\ EndIsTrue'
    BY <1>10 DEF DepositRecorded, TypeOK, Gate, DenialsAreTheUsers, EndIsTrue
  <2>4. Gate'
    BY <1>10 DEF DepositRecorded, TypeOK, Gate, policyVars
  <2> QED BY <2>1, <2>2, <2>3, <2>4
<1>11. ASSUME NEW o \in Ops, WithdrawalRecorded(o) PROVE YieldInv'
  <2>1. ContractInv' /\ PolicyTypeOK'
    BY <1>11, <1>c, <1>t DEF WithdrawalRecorded
  <2>2. TypeOK'
    <3>1. ops' \in [Ops -> [status: Statuses, policyCheck: Checks]]
      BY <1>11 DEF WithdrawalRecorded, TypeOK, Statuses, Checks
    <3>2. txs' \in [Ops -> {"unbuilt", "open", "sent", "landed", "refused"}]
      BY <1>11 DEF WithdrawalRecorded, TypeOK
    <3> QED BY <1>11, <2>1, <3>1, <3>2 DEF WithdrawalRecorded, TypeOK
  <2>3. DenialsAreTheUsers' /\ EndIsTrue'
    BY <1>11 DEF WithdrawalRecorded, MayBuild, TypeOK, Gate, DenialsAreTheUsers, EndIsTrue
  <2>4. o \notin AppFlows
    BY <1>11 DEF WithdrawalRecorded
  <2>5. Gate'
    BY <1>11, <2>4 DEF WithdrawalRecorded, MayBuild, TypeOK, Gate, policyVars
  <2> QED BY <2>1, <2>2, <2>3, <2>5
<1>12. ASSUME NEW r \in Requests, NEW o \in Ops, NEW signed \in Ops, ExecuteBegin(r, o, signed)
       PROVE YieldInv'
  BY <1>12, <1>c, <1>t
  DEF ExecuteBegin, SignedMatchesBuilt, Idle, TypeOK, Gate, DenialsAreTheUsers, EndIsTrue, policyVars
<1>13. ASSUME NEW o \in Ops, NEW outcome \in {"landed", "refused"}, NetworkDecides(o, outcome)
       PROVE YieldInv'
  BY <1>13, <1>c, <1>t
  DEF NetworkDecides, TypeOK, Gate, DenialsAreTheUsers, EndIsTrue, policyVars
<1>14. ASSUME NEW r \in Requests, ExecuteEnd(r) PROVE YieldInv'
  <2> DEFINE o == req[r].op
             ok == txs[o] = "landed"
  <2>1. o \in Ops /\ txs[o] \in {"landed", "refused"} /\ req[r].signed = o
    BY <1>14 DEF ExecuteEnd, TypeOK, Gate
  <2>2. /\ ops' = [ops EXCEPT ![o].status = IF ok THEN "completed" ELSE "failed"]
        /\ notified' = [notified EXCEPT ![o] =
             IF ok /\ KindOf[o] = "yield_deposit" /\ @ < MaxNotified THEN @ + 1 ELSE @]
        /\ req' = [req EXCEPT ![r] = Idle]
        /\ UNCHANGED <<policyVars, building, denied, flow, plan, txs>>
    BY <1>14, <2>1 DEF ExecuteEnd
  <2> HIDE DEF o
  <2>3. ContractInv' /\ PolicyTypeOK'
    BY <2>2, <1>c, <1>t
  <2>4. notified' \in [Ops -> 0 .. MaxNotified]
    BY <2>1, <2>2 DEF TypeOK, MaxNotified
  <2>5. TypeOK'
    <3>1. ops' \in [Ops -> [status: Statuses, policyCheck: Checks]]
      <4>1. ops \in [Ops -> [status: Statuses, policyCheck: Checks]]
        BY DEF TypeOK
      <4>2. (IF ok THEN "completed" ELSE "failed") \in Statuses
        BY DEF Statuses
      <4> QED BY <2>1, <2>2, <4>1, <4>2
    <3>2. req' \in [Requests -> [op: Ops, signed: Ops] \cup {Idle}]
      <4>1. req \in [Requests -> [op: Ops, signed: Ops] \cup {Idle}]
        BY DEF TypeOK
      <4> QED BY <2>2, <4>1
    <3> QED BY <2>2, <2>3, <2>4, <3>1, <3>2 DEF TypeOK
  <2>6. DenialsAreTheUsers'
    BY <2>2 DEF DenialsAreTheUsers
  <2>7. EndIsTrue'
    <3>1. \A x \in Ops : x # o => ops'[x] = ops[x] /\ notified'[x] = notified[x] /\ txs'[x] = txs[x]
      BY <2>1, <2>2 DEF TypeOK
    <3>2. ops'[o].status = (IF ok THEN "completed" ELSE "failed") /\ txs'[o] = txs[o]
      BY <2>1, <2>2 DEF TypeOK
    <3>3. ~ok => notified'[o] = notified[o] /\ notified[o] = 0
      BY <2>1, <2>2 DEF TypeOK, EndIsTrue
    <3> QED BY <2>1, <3>1, <3>2, <3>3 DEF EndIsTrue
  <2>8. Gate'
    <3>1. building[o] = "none"
      BY <1>14, <2>1 DEF Gate, ExecuteEnd, o
    <3> QED BY <2>1, <2>2, <3>1 DEF Gate, TypeOK, policyVars
  <2> QED BY <2>3, <2>5, <2>6, <2>7, <2>8
<1>15. ASSUME NEW r \in Requests, ExecuteUnheard(r) PROVE YieldInv'
  BY <1>15, <1>c, <1>t
  DEF ExecuteUnheard, TypeOK, Gate, DenialsAreTheUsers, EndIsTrue, policyVars
<1>16. CASE UNCHANGED vars
  BY <1>16, <1>c, <1>t
  DEF vars, yieldVars, TypeOK, Gate, DenialsAreTheUsers, EndIsTrue, policyVars
<1> QED BY <1>1, <1>2, <1>3, <1>4, <1>5, <1>6, <1>7, <1>8, <1>9, <1>10, <1>11, <1>12, <1>13,
          <1>14, <1>15, <1>16 DEF Next

----------------------------------------------------------------------------
(* The theorems *)

\* The strengthened invariant holds of every reachable state.
THEOREM YieldInductive == Spec => []YieldInv
<1>1. Init => YieldInv
  BY YieldInit
<1>2. YieldInv /\ [Next]_vars => YieldInv'
  BY YieldStep
<1> QED BY <1>1, <1>2, PTL DEF Spec

\* The types hold of every reachable state.
THEOREM YieldTypes == Spec => []TypeOK
<1>1. YieldInv => TypeOK
  BY DEF YieldInv
<1> QED BY <1>1, YieldInductive, PTL

\* set_policy and set_strategy_allowed keep the user's last word on each
\* strategy, whatever lists callers send and whatever is called in between.
THEOREM ContractKeepsItsWord == Spec => []LastWordCounts
<1>1. YieldInv => LastWordCounts
  BY DEF YieldInv, ContractInv
<1> QED BY <1>1, YieldInductive, PTL

\* store_policy's bump keeps an entry that is used alive for BUMP_THRESHOLD.
THEOREM ContractLivesWhileUsed == Spec => []UsedIsAlive
<1>1. YieldInv => UsedIsAlive
  BY DEF YieldInv, ContractInv
<1> QED BY <1>1, YieldInductive, PTL

\* computeAllocationBps never sends a share that authorize_allocation refuses
\* as such: the gate denies what the user's policy denies.
THEOREM GateDeniesForTheUser == Spec => []DenialsAreTheUsers
<1>1. YieldInv => DenialsAreTheUsers
  BY DEF YieldInv
<1> QED BY <1>1, YieldInductive, PTL

\* A deposit that executePutToWork signs after the RPC took its set_policy was
\* authorised by the policy it wrote or a later one.
THEOREM FlowIsAuthorized == Spec => []TakenPolicyIsAsked
<1>1. YieldInv => TakenPolicyIsAsked
  BY DEF YieldInv, Gate, TakenPolicyIsAsked
<1> QED BY <1>1, YieldInductive, PTL

\* executeSignedXdr stores no end that the ledger has not decided, and announces
\* no deposit that is not done.
THEOREM ExecutionEndsTruly == Spec => []EndIsTrue
<1>1. YieldInv => EndIsTrue
  BY DEF YieldInv
<1> QED BY <1>1, YieldInductive, PTL
============================================================================
