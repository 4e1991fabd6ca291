--------------------------- MODULE YieldDeposit ---------------------------
(***************************************************************************)
(* The earn side of the backend: YieldService builds a deposit behind a     *)
(* simulation of the policy contract, or a withdrawal without one, records  *)
(* an operation, and submits what comes back signed. The app's Grow-money   *)
(* flow writes the policy first. The contract's calls of any other client   *)
(* happen at any time.                                                      *)
(*                                                                         *)
(* A handler is atomic between two awaits of a provider.                    *)
(***************************************************************************)
EXTENDS AllocationPolicy, FiniteSets

CONSTANTS
    Ops,        \* operation ids; a Grow-money flow is named after its deposit
    Requests,   \* the POST /yield/execute in flight at a time
    None,       \* no operation
    KindOf,     \* yield_deposit or yield_withdraw
    AppFlows,   \* the deposits made by executePutToWork
    Vault,      \* the strategy of the configured vault
    Amounts,    \* the amounts clients ask to deposit
    Balances    \* the balances Horizon may report

ASSUME YieldAssumption ==
    /\ KindOf \in [Ops -> {"yield_deposit", "yield_withdraw"}]
    /\ AppFlows \subseteq {o \in Ops : KindOf[o] = "yield_deposit"}
    /\ Vault \in Strategies
    /\ Amounts \subseteq Nat
    /\ Balances \subseteq Nat
    /\ None \notin Ops

\* Announcements are counted up to this.
MaxNotified == 2

VARIABLES
    ops,       \* OperationStore: status and metadata.policyCheck
    building,  \* a build whose policy check has passed, and what it found
    denied,    \* the reason of the last POLICY_DENIED of a deposit
    flow,      \* where executePutToWork stands
    plan,      \* the set_policy transaction of a flow
    txs,       \* the transaction built for each operation
    req,       \* the operation each execute request names, and the transaction it brings
    notified   \* yieldDepositCompleted handed to the push sender

yieldVars == <<ops, building, denied, flow, plan, txs, req, notified>>

vars == <<policyVars, yieldVars>>

Statuses == {"unrecorded", "awaiting_signature", "completed", "failed"}

Checks == {"none", "authorized", "no_policy"}

Denials == {"none", "ZeroAllocationAmount", "InvalidLiquidityBps",
            "AutomationPaused", "StrategyNotAllowed"}

\* An execute request that is not in flight.
Idle == [op |-> None, signed |-> None]

Init ==
    /\ PolicyInit
    /\ ops = [o \in Ops |-> [status |-> "unrecorded", policyCheck |-> "none"]]
    /\ building = [o \in Ops |-> "none"]
    /\ denied = [o \in Ops |-> "none"]
    /\ flow = [o \in AppFlows |-> "choosing"]
    /\ plan = [o \in AppFlows |-> "unsent"]
    /\ txs = [o \in Ops |-> "unbuilt"]
    /\ req = [r \in Requests |-> Idle]
    /\ notified = [o \in Ops |-> 0]

----------------------------------------------------------------------------
(* The Grow-money flow: the policy before the deposit *)

\* policyBuild and policySubmit: the transaction is sent, and pending.
PlanSent(o) ==
    /\ flow[o] = "choosing"
    /\ flow' = [flow EXCEPT ![o] = "submitting"]
    /\ plan' = [plan EXCEPT ![o] = "pending"]
    /\ UNCHANGED <<policyVars, ops, building, denied, txs, req, notified>>

\* sendTransaction answers TRY_AGAIN_LATER, which is neither ERROR nor PENDING:
\* submitSignedPolicyTx reports success for a transaction nobody has taken.
PlanDeferred(o) ==
    /\ flow[o] = "choosing"
    /\ flow' = [flow EXCEPT ![o] = "depositing"]
    /\ UNCHANGED <<policyVars, ops, building, denied, plan, txs, req, notified>>

\* The flow's policy: not paused, and the vault's strategy alone on its list.
PlanOf(risk, target, liquidity) ==
    [risk_profile |-> risk, target_timestamp |-> target,
     liquidity_target_bps |-> liquidity, automation_paused |-> FALSE,
     allowed_strategies |-> [s \in Strategies |-> IF s = Vault THEN 1 ELSE 0]]

\* The network applies the transaction.
PlanLands(o, p) ==
    /\ plan[o] = "pending"
    /\ set_policy(p)
    /\ plan' = [plan EXCEPT ![o] = "landed"]
    /\ UNCHANGED <<ops, building, denied, flow, txs, req, notified>>

\* It fails on the ledger, or is dropped.
PlanFails(o) ==
    /\ plan[o] = "pending"
    /\ plan' = [plan EXCEPT ![o] = "failed"]
    /\ UNCHANGED <<policyVars, ops, building, denied, flow, txs, req, notified>>

\* Mutant: the 20 polls are not waited for; a pending transaction is good enough.
PlanTaken(o) ==
    /\ flow[o] = "submitting"
    /\ flow' = [flow EXCEPT ![o] = IF plan[o] = "failed" THEN "failed" ELSE "depositing"]
    /\ UNCHANGED <<policyVars, ops, building, denied, plan, txs, req, notified>>

\* The polls of submitSignedPolicyTx are over: the transaction was seen to
\* succeed, to fail, or not at all. Only the first one lets the flow go on.
PlanAnswered(o) ==
    /\ flow[o] = "submitting"
    /\ flow' = [flow EXCEPT ![o] = IF plan[o] = "landed" THEN "depositing" ELSE "failed"]
    /\ UNCHANGED <<policyVars, ops, building, denied, plan, txs, req, notified>>

----------------------------------------------------------------------------
(* Builds *)

\* Mutant: a deposit of more than the balance has a share of more than the whole.
ShareUnclamped(amount, balance) ==
    IF balance = 0 THEN MaxLiquidityBps
    ELSE IF amount = 0 THEN 1
    ELSE (amount * MaxLiquidityBps + balance - 1) \div balance

\* computeAllocationBps: the share of the balance, rounded up, within 1 .. 10000;
\* everything when there is no balance to divide by.
Share(amount, balance) ==
    LET bps == (amount * MaxLiquidityBps + balance - 1) \div balance IN
    IF balance = 0 THEN MaxLiquidityBps
    ELSE IF amount = 0 \/ bps < 1 THEN 1
    ELSE IF bps > MaxLiquidityBps THEN MaxLiquidityBps
    ELSE bps

MayBuild(o) ==
    /\ ops[o].status = "unrecorded"
    /\ building[o] = "none"
    /\ o \in AppFlows => flow[o] = "depositing"

\* checkAllocationPolicy lets the deposit through.
DepositChecked(o, amount, balance) ==
    LET result == AllocationResult(Vault, Share(amount, balance)) IN
    /\ KindOf[o] = "yield_deposit"
    /\ MayBuild(o)
    /\ result \in {"ok", "PolicyNotFound"}
    /\ building' = [building EXCEPT ![o] =
                      IF result = "ok" THEN "authorized" ELSE "no_policy"]
    /\ UNCHANGED <<policyVars, ops, denied, flow, plan, txs, req, notified>>

\* It answers POLICY_DENIED, which ends a Grow-money flow.
DepositDenied(o, amount, balance) ==
    LET result == AllocationResult(Vault, Share(amount, balance)) IN
    /\ KindOf[o] = "yield_deposit"
    /\ MayBuild(o)
    /\ result \notin {"ok", "PolicyNotFound"}
    /\ denied' = [denied EXCEPT ![o] = result]
    /\ flow' = [f \in AppFlows |-> IF f = o THEN "failed" ELSE flow[f]]
    /\ UNCHANGED <<policyVars, ops, building, plan, txs, req, notified>>

\* The simulation is unavailable, or DeFindex does not build the transaction.
BuildFails(o) ==
    /\ MayBuild(o) \/ building[o] # "none"
    /\ ops[o].status = "unrecorded"
    /\ building' = [building EXCEPT ![o] = "none"]
    /\ flow' = [f \in AppFlows |-> IF f = o THEN "failed" ELSE flow[f]]
    /\ UNCHANGED <<policyVars, ops, denied, plan, txs, req, notified>>

\* depositToVault has answered, and the operation is recorded with the check.
DepositRecorded(o) ==
    /\ building[o] # "none"
    /\ building' = [building EXCEPT ![o] = "none"]
    /\ ops' = [ops EXCEPT ![o] =
                 [status |-> "awaiting_signature", policyCheck |-> building[o]]]
    /\ txs' = [txs EXCEPT ![o] = "open"]
    /\ flow' = [f \in AppFlows |-> IF f = o THEN "signing" ELSE flow[f]]
    /\ UNCHANGED <<policyVars, denied, plan, req, notified>>

\* buildWithdraw asks no policy.
WithdrawalRecorded(o) ==
    /\ KindOf[o] = "yield_withdraw"
    /\ MayBuild(o)
    /\ ops' = [ops EXCEPT ![o] = [status |-> "awaiting_signature", policyCheck |-> "none"]]
    /\ txs' = [txs EXCEPT ![o] = "open"]
    /\ UNCHANGED <<policyVars, building, denied, flow, plan, req, notified>>

----------------------------------------------------------------------------
(* executeSignedXdr *)

\* Mutant: the envelope is not compared with what was built.
AnyBuilt(o, signed) == txs[signed] # "unbuilt"

\* assertSignedMatchesBuilt: a build has pinned the operation to its transaction.
SignedMatchesBuilt(o, signed) == signed = o

\* A client may bring the transaction of any operation.
ExecuteBegin(r, o, signed) ==
    /\ req[r] = Idle
    /\ ops[o].status \in {"awaiting_signature", "failed"}
    /\ SignedMatchesBuilt(o, signed)
    /\ req' = [req EXCEPT ![r] = [op |-> o, signed |-> signed]]
    /\ txs' = [txs EXCEPT ![signed] = IF @ = "open" THEN "sent" ELSE @]
    /\ UNCHANGED <<policyVars, ops, building, denied, flow, plan, notified>>

\* The network applies the transaction or refuses it for good.
NetworkDecides(o, outcome) ==
    /\ txs[o] = "sent"
    /\ txs' = [txs EXCEPT ![o] = outcome]
    /\ UNCHANGED <<policyVars, ops, building, denied, flow, plan, req, notified>>

\* The update after the answer, and the announcement of a deposit that is done.
ExecuteEnd(r) ==
    LET o == req[r].op
        ok == txs[req[r].signed] = "landed"
    IN
    /\ req[r] # Idle
    /\ txs[req[r].signed] \in {"landed", "refused"}
    /\ ops' = [ops EXCEPT ![o].status = IF ok THEN "completed" ELSE "failed"]
    /\ notified' = [notified EXCEPT ![o] =
                      IF ok /\ KindOf[o] = "yield_deposit" /\ @ < MaxNotified
                      THEN @ + 1 ELSE @]
    /\ req' = [req EXCEPT ![r] = Idle]
    /\ UNCHANGED <<policyVars, building, denied, flow, plan, txs>>

\* The answer does not come, or the process dies: nothing is updated.
ExecuteUnheard(r) ==
    /\ req[r] # Idle
    /\ req' = [req EXCEPT ![r] = Idle]
    /\ UNCHANGED <<policyVars, ops, building, denied, flow, plan, txs, notified>>

----------------------------------------------------------------------------

Next ==
    \/ PolicyNext /\ UNCHANGED yieldVars
    \/ \E o \in AppFlows :
          \/ PlanSent(o)
          \/ PlanDeferred(o)
          \/ \E risk \in Risks, target \in Targets, liquidity \in Liquidities :
                PlanLands(o, PlanOf(risk, target, liquidity))
          \/ PlanFails(o)
          \/ PlanAnswered(o)
    \/ \E o \in Ops :
          \/ \E amount \in Amounts, balance \in Balances :
                DepositChecked(o, amount, balance) \/ DepositDenied(o, amount, balance)
          \/ BuildFails(o)
          \/ DepositRecorded(o)
          \/ WithdrawalRecorded(o)
          \/ \E r \in Requests, signed \in Ops : ExecuteBegin(r, o, signed)
          \/ \E outcome \in {"landed", "refused"} : NetworkDecides(o, outcome)
    \/ \E r \in Requests : ExecuteEnd(r) \/ ExecuteUnheard(r)

Spec == Init /\ [][Next]_vars

----------------------------------------------------------------------------
(* Properties *)

\* Every variable has its type.
TypeOK ==
    /\ PolicyTypeOK
    /\ ops \in [Ops -> [status: Statuses, policyCheck: Checks]]
    /\ building \in [Ops -> Checks]
    /\ denied \in [Ops -> Denials]
    /\ flow \in [AppFlows -> {"choosing", "submitting", "depositing", "signing", "failed"}]
    /\ plan \in [AppFlows -> {"unsent", "pending", "landed", "failed"}]
    /\ txs \in [Ops -> {"unbuilt", "open", "sent", "landed", "refused"}]
    /\ req \in [Requests -> [op: Ops, signed: Ops] \cup {Idle}]
    /\ notified \in [Ops -> 0 .. MaxNotified]

\* A refusal of the gate is the user's own: checkAllocationPolicy never answers
\* with a reason that only a bad share could have (those flows.ts has no words
\* for), whatever the amount and the balance.
DenialsAreTheUsers ==
    \A o \in Ops : denied[o] \in {"none", "AutomationPaused", "StrategyNotAllowed"}

\* However long the network takes over a policy transaction it has taken, and
\* whatever becomes of it: the Grow-money flow never signs a deposit that was let
\* through for want of that policy.
TakenPolicyIsAsked ==
    \A o \in AppFlows :
        flow[o] = "signing" /\ plan[o] # "unsent" => ops[o].policyCheck = "authorized"

\* However executions of one operation overlap and are repeated, a status that
\* says completed or failed is what the ledger says, and a deposit is announced
\* only when it is done.
EndIsTrue ==
    \A o \in Ops :
        /\ ops[o].status = "completed" => txs[o] = "landed"
        /\ ops[o].status = "failed" => txs[o] = "refused"
        /\ notified[o] > 0 => ops[o].status = "completed"
==========================================================================
