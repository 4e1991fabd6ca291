SPECIFICATION FairRouteSpec
CONSTANTS
    Executables = {mock}
    Discovered = {disc}
    Calls = {c1}
    Tomls <- TomlChoices
    Rails <- RailChoices
    NoRail = NoRail
    Infos <- InfoChoices
    Fiats <- FiatChoices
    HomeFiat = "TRY"
    TTL = 1
    FailTTL = 1
    FetchTime = 0
    Requests <- RequestChoices
    Sources = {"any", "available", "earn"}
    Amounts = {0, 1, 2}
    NoLimit = NoLimit
    Answers <- AnswerChoices
    NoGrade = NoGrade
    HasAdvisor = TRUE
    MinFactor = 5
    MinConfidence = 7
    Spread = 0
    Order <- OrderChoice
    NoAnchor = NoAnchor
INVARIANTS
    DecisionIsSound
    FundingIsExact
    ClaimsHold
PROPERTIES CallsEnd
CHECK_DEADLOCK FALSE
