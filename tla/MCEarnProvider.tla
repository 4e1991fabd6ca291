-------------------------- MODULE MCEarnProvider --------------------------
(* An instance of EarnProvider for TLC. *)
EXTENDS EarnProvider, TLC

CONSTANTS usdcVault, otherVault, target

\* The vault of the product, which holds dollars, and a riskier one that does
\* not take them.
MCMetadata ==
    (usdcVault :> [stable |-> TRUE, growth |-> FALSE, assets |-> 1, apy |-> 8])
        @@ (otherVault :> [stable |-> FALSE, growth |-> TRUE, assets |-> 3, apy |-> 30])

\* One with each vault, and one without an API key.
MCDeployments ==
    {[key |-> TRUE, vault |-> usdcVault, apr |-> None],
     [key |-> TRUE, vault |-> otherVault, apr |-> 900],
     [key |-> FALSE, vault |-> usdcVault, apr |-> 900]}

\* A bold policy that lists no vault; the flow writes cautious ones.
MCWritten == {[risk |-> 2, target |-> target, allowed |-> {}]}
==========================================================================
