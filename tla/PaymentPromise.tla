-------------------------- MODULE PaymentPromise --------------------------
(***************************************************************************)
(* What the payment path promises the owner of the wallet, without          *)
(* requests, stores or transactions in flight: a quote is committed once,   *)
(* its earn unwind happens at most once and before the payment, the payment *)
(* happens at most once, and it is announced at most once, after it.        *)
(***************************************************************************)
CONSTANTS Quotes, NeedsUnwind, Txs

VARIABLES
    committed,  \* the quotes an operation was recorded for
    unwound,    \* the unwind transactions that landed, by quote
    paid,       \* the payment transactions that landed, by quote
    announced   \* the number of times the payment was announced, by quote

vars == <<committed, unwound, paid, announced>>

Init ==
    /\ committed = {}
    /\ unwound = [q \in Quotes |-> {}]
    /\ paid = [q \in Quotes |-> {}]
    /\ announced = [q \in Quotes |-> 0]

Commit(q) ==
    /\ q \notin committed
    /\ committed' = committed \cup {q}
    /\ UNCHANGED <<unwound, paid, announced>>

Unwind(q, t) ==
    /\ q \in committed \cap NeedsUnwind
    /\ unwound[q] = {}
    /\ unwound' = [unwound EXCEPT ![q] = {t}]
    /\ UNCHANGED <<committed, paid, announced>>

Pay(q, t) ==
    /\ q \in committed
    /\ q \in NeedsUnwind => unwound[q] # {}
    /\ paid[q] = {}
    /\ paid' = [paid EXCEPT ![q] = {t}]
    /\ UNCHANGED <<committed, unwound, announced>>

Announce(q) ==
    /\ paid[q] # {}
    /\ announced[q] = 0
    /\ announced' = [announced EXCEPT ![q] = 1]
    /\ UNCHANGED <<committed, unwound, paid>>

Next ==
    \E q \in Quotes :
        \/ Commit(q)
        \/ \E t \in Txs : Unwind(q, t) \/ Pay(q, t)
        \/ Announce(q)

Spec == Init /\ [][Next]_vars
===========================================================================
