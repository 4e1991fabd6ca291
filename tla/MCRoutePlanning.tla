--------------------------- MODULE MCRoutePlanning ---------------------------
(* Instances of RoutePlanning for TLC. *)
EXTENDS RoutePlanning, TLC

\* An anchor with everything, and one that has SEP-24 only.
Everything == [seps |-> {"sep1", "sep6", "sep10", "sep38"}, fiat |-> {}, issuer |-> TRUE]

TomlChoices == {Everything, [seps |-> {"sep1", "sep24"}, fiat |-> {}, issuer |-> TRUE]}

Wide == [enabled |-> TRUE, min |-> 1, max |-> 3, feePercent |-> NoLimit, feeFixed |-> NoLimit]

Narrow == [enabled |-> TRUE, min |-> NoLimit, max |-> 1, feePercent |-> 6, feeFixed |-> 0]

RailChoices == {Wide, Narrow}

InfoChoices == {[d \in Directions |-> IF d = "withdraw" THEN rail ELSE NoRail] : rail \in RailChoices}

FiatChoices == {{"TRY"}}

\* A plain preview; one of an amount below a limit; two of someone who may not pass
\* the anchor's identity checks yet, or who wants to be paid out now.
RequestChoices ==
    LET plain == [CashOut(1) EXCEPT !.soon = TRUE, !.conservative = TRUE]
    IN  {plain, [plain EXCEPT !.amount = 0], [plain EXCEPT !.kyc = "NEEDS_INFO"],
         [plain EXCEPT !.requireExecutable = TRUE]}

Sure == [k \in JudgmentFactors |-> [score |-> 4, scale |-> 4, confidence |-> 9]]

\* Sure of one judgment only, which was made on another scale.
Unsure == [k \in JudgmentFactors |->
              [score |-> 1, scale |-> 3, confidence |-> IF k = "liquidity" THEN 6 ELSE 3]]

Broken == [Sure EXCEPT !["riskFit"] = NoGrade]

AnswerChoices == {Sure, Unsure, Broken}

OrderChoice == [a \in Anchors |-> IF a \in Executables THEN 1 ELSE 0]
=============================================================================
