----------------------- MODULE MCPaymentExecution -----------------------
(* Instances of PaymentExecution for TLC. *)
EXTENDS PaymentRefinement, TLC

CONSTANTS q1, q2

\* A payment that needs an unwind and a plain one from the same wallet.
UnwindAndPlain == (q1 :> "stellar_transfer") @@ (q2 :> "stellar_transfer")

\* The payment that needs an unwind, alone.
UnwindPayment == q1 :> "stellar_transfer"

\* A cash-out that needs an unwind, and a swap.
CashOutAndSwap == (q1 :> "fiat_payout") @@ (q2 :> "stellar_swap_transfer")

Symmetry ==
    Permutations(Ops) \cup Permutations(Transfers) \cup Permutations(Requests)
==========================================================================
