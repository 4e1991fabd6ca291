------------------------- MODULE MCAnchorDirectory -------------------------
(* Instances of AnchorDirectory for TLC. *)
EXTENDS AnchorDirectory, TLC

\* An anchor with everything, and one that has SEP-24 only.
TomlChoices ==
    {[seps |-> {"sep1", "sep6", "sep10", "sep38"}, fiat |-> {"TRY"}, issuer |-> TRUE],
     [seps |-> {"sep1", "sep24"}, fiat |-> {}, issuer |-> TRUE]}

RailChoices == {"rail"}

InfoChoices == {[d \in Directions |-> "rail"]}

FiatChoices == {{"TRY"}}
=============================================================================
