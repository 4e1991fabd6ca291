SPECIFICATION Spec
CONSTANTS
    Executables = {}
    Discovered = {disc}
    Calls = {c1, c2}
    Tomls <- TomlChoices
    Rails <- RailChoices
    NoRail = NoRail
    Infos <- InfoChoices
    Fiats <- FiatChoices
    HomeFiat = "TRY"
    TTL = 2
    FailTTL = 1
    FetchTime = 1
INVARIANTS
    ServedIsRecent
CHECK_DEADLOCK FALSE
