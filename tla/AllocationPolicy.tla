------------------------- MODULE AllocationPolicy -------------------------
(***************************************************************************)
(* The Soroban contract TrinqaAllocationPolicy. It keeps one entry per user *)
(* and each call reads and writes the entry of the user who authorised it,  *)
(* so the model is the entry of one user. A call that returns an error      *)
(* changes nothing and is no action.                                        *)
(*                                                                         *)
(* The allow-list is a Vec of symbols whose order nothing looks at: it is   *)
(* the number of copies of each strategy. One clock stands for ledger       *)
(* timestamps and for ledger numbers. An entry whose time to live is over   *)
(* is archived by the network, not lost: the transaction that needs it      *)
(* restores it.                                                             *)
(***************************************************************************)
EXTENDS Naturals

CONSTANTS
    Strategies,     \* the symbols a policy may list
    NoPolicy,       \* no entry under the user's key
    Risks,          \* the risk profiles callers try
    Liquidities,    \* the liquidity targets callers try
    Targets,        \* the target timestamps callers try
    MaxCopies,      \* a bound on the copies of one strategy in a Vec
    MaxTime,        \* a bound on the clock
    BumpThreshold,  \* BUMP_THRESHOLD
    BumpTo          \* BUMP_TO

MaxRiskProfile == 2

MaxLiquidityBps == 10000

UserPolicy ==
    [risk_profile: 0 .. MaxRiskProfile, target_timestamp: Targets,
     liquidity_target_bps: 0 .. MaxLiquidityBps, automation_paused: BOOLEAN,
     allowed_strategies: [Strategies -> Nat]]

ASSUME PolicyAssumption ==
    /\ Risks \subseteq Nat
    /\ Liquidities \subseteq Nat
    /\ Targets \subseteq Nat
    /\ MaxCopies \in Nat \ {0}
    /\ MaxTime \in Nat
    /\ BumpThreshold \in Nat
    /\ BumpTo \in Nat
    /\ BumpThreshold <= BumpTo
    /\ NoPolicy \notin UserPolicy

VARIABLES
    policy,     \* the stored UserPolicy
    liveUntil,  \* the entry is archived after this time
    now,        \* the ledger
    word,       \* history: the strategies the user's last word on is yes
    used        \* history: the time of the last call that succeeded

policyVars == <<policy, liveUntil, now, word, used>>

PolicyInit ==
    /\ policy = NoPolicy
    /\ liveUntil = 0
    /\ now = 0
    /\ word = {}
    /\ used = 0

----------------------------------------------------------------------------

\* store_policy: an entry that has less than the threshold to live is extended.
\* The time a new entry starts with is the network's; here it is none.
Store(p) ==
    LET live == IF policy = NoPolicy THEN now ELSE liveUntil IN
    /\ policy' = p
    /\ liveUntil' = IF live < now + BumpThreshold THEN now + BumpTo ELSE live
    /\ used' = now
    /\ UNCHANGED now

Lists(p, s) == p.allowed_strategies[s] > 0

assert_automation_active(p) == ~p.automation_paused

ValidFields(p) ==
    /\ p.risk_profile <= MaxRiskProfile
    /\ p.liquidity_target_bps <= MaxLiquidityBps
    /\ p.target_timestamp > now

set_policy(p) ==
    /\ ValidFields(p)
    /\ Store(p)
    /\ word' = {s \in Strategies : Lists(p, s)}

update_risk(risk) ==
    /\ risk <= MaxRiskProfile
    /\ policy # NoPolicy
    /\ Store([policy EXCEPT !.risk_profile = risk])
    /\ UNCHANGED word

update_target_date(target) ==
    /\ target > now
    /\ policy # NoPolicy
    /\ Store([policy EXCEPT !.target_timestamp = target])
    /\ UNCHANGED word

\* Mutant: a strategy that is taken off the list loses its first copy only.
OneCopyOff(s, allowed) ==
    LET copies == policy.allowed_strategies[s] IN
    /\ policy # NoPolicy
    /\ Store([policy EXCEPT !.allowed_strategies[s] =
                IF allowed THEN IF copies = 0 THEN 1 ELSE copies
                ELSE IF copies = 0 THEN 0 ELSE copies - 1])
    /\ word' = IF allowed THEN word \cup {s} ELSE word \ {s}

\* A listed strategy that is allowed again keeps its copies; one that is
\* disallowed loses them all.
set_strategy_allowed(s, allowed) ==
    LET copies == policy.allowed_strategies[s] IN
    /\ policy # NoPolicy
    /\ Store([policy EXCEPT !.allowed_strategies[s] =
                IF allowed THEN IF copies = 0 THEN 1 ELSE copies ELSE 0])
    /\ word' = IF allowed THEN word \cup {s} ELSE word \ {s}

pause_automation(paused) ==
    /\ policy # NoPolicy
    /\ Store([policy EXCEPT !.automation_paused = paused])
    /\ UNCHANGED word

\* What authorize_allocation returns, in the order of its checks.
AllocationResult(s, amount_bps) ==
    IF amount_bps = 0 THEN "ZeroAllocationAmount"
    ELSE IF amount_bps > MaxLiquidityBps THEN "InvalidLiquidityBps"
    ELSE IF policy = NoPolicy THEN "PolicyNotFound"
    ELSE IF ~assert_automation_active(policy) THEN "AutomationPaused"
    ELSE IF ~Lists(policy, s) THEN "StrategyNotAllowed"
    ELSE "ok"

\* Mutant: authorize_allocation, which changes nothing of the policy, does not
\* store it.
AllocationUnstored(s, amount_bps) ==
    /\ AllocationResult(s, amount_bps) = "ok"
    /\ used' = now
    /\ UNCHANGED <<policy, liveUntil, now, word>>

authorize_allocation(s, amount_bps) ==
    /\ AllocationResult(s, amount_bps) = "ok"
    /\ Store(policy)
    /\ UNCHANGED word

authorize_rebalance(from, to) ==
    /\ policy # NoPolicy
    /\ assert_automation_active(policy)
    /\ Lists(policy, from) /\ Lists(policy, to)
    /\ Store(policy)
    /\ UNCHANGED word

\* A ledger closes.
LedgerCloses ==
    /\ now < MaxTime
    /\ now' = now + 1
    /\ UNCHANGED <<policy, liveUntil, word, used>>

----------------------------------------------------------------------------

\* The values callers try, those the contract rejects included.
CallerPolicy ==
    [risk_profile: Risks, target_timestamp: Targets, liquidity_target_bps: Liquidities,
     automation_paused: BOOLEAN, allowed_strategies: [Strategies -> 0 .. MaxCopies]]

PolicyNext ==
    \/ \E p \in CallerPolicy : set_policy(p)
    \/ \E risk \in Risks : update_risk(risk)
    \/ \E target \in Targets : update_target_date(target)
    \/ \E s \in Strategies, allowed \in BOOLEAN : set_strategy_allowed(s, allowed)
    \/ \E paused \in BOOLEAN : pause_automation(paused)
    \/ \E s \in Strategies, bps \in Liquidities : authorize_allocation(s, bps)
    \/ \E from \in Strategies, to \in Strategies : authorize_rebalance(from, to)
    \/ LedgerCloses

----------------------------------------------------------------------------
(* Properties *)

PolicyTypeOK ==
    /\ policy \in UserPolicy \cup {NoPolicy}
    /\ liveUntil \in Nat
    /\ now \in 0 .. MaxTime
    /\ word \in SUBSET Strategies
    /\ used \in 0 .. now

\* However the list was written, with a strategy listed twice or not, and
\* whatever was called since, authorize_allocation and authorize_rebalance
\* take a strategy for allowed when that was the user's last word on it.
LastWordCounts ==
    /\ policy = NoPolicy => word = {}
    /\ policy # NoPolicy => word = {s \in Strategies : Lists(policy, s)}

\* The ledger archives no policy that some call, an authorization that changes
\* nothing included, has used within the last BUMP_THRESHOLD ledgers.
UsedIsAlive == policy # NoPolicy => liveUntil >= used + BumpThreshold
==========================================================================
