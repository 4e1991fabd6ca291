-------------------------- MODULE MCYieldDeposit --------------------------
(* Instances of YieldDeposit for TLC. *)
EXTENDS YieldDeposit, TLC

CONSTANTS growth, transfer, withdrawal

\* A Grow-money deposit, a deposit of another client and a withdrawal.
Kinds == (growth :> "yield_deposit") @@ (transfer :> "yield_deposit")
            @@ (withdrawal :> "yield_withdraw")

KindsOfOps == [o \in Ops |-> Kinds[o]]

Symmetry == Permutations(Requests)
==========================================================================
