------------------------- MODULE MCPaymentWatcher -------------------------
(* Instances of PaymentWatcher for TLC. *)
EXTENDS PaymentWatcher, TLC

CONSTANT a1

\* Money comes in, and something the watcher ignores.
ToOneAccount ==
    {[from |-> Outside, to |-> a1, credits |-> TRUE],
     [from |-> Outside, to |-> a1, credits |-> FALSE]}
==========================================================================
