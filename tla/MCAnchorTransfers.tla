------------------------ MODULE MCAnchorTransfers ------------------------
(* Instances of AnchorTransfers for TLC. *)
EXTENDS AnchorTransfers, TLC

CONSTANTS withdrawal, payout

\* A withdrawal by the anchor's route and a payout.
WithdrawalAndPayout == (withdrawal :> "anchor_withdraw") @@ (payout :> "payment")
===========================================================================
