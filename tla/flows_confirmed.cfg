\* Two screens one after the other, a quote each and one more.
SPECIFICATION FairSpec
CONSTANTS
    Contacts = {ann, bob}
    First = ann
    Currencies = {rail, off}
    Rail = rail
    Blocked = {off}
    MaxAmount = 1
    MaxOffers = 2
    MaxScreens = 2
    None = None
INVARIANTS
    AnswerIsCurrent
    UnwindIsApproved
    SuccessIsTrue
PROPERTIES ProcessingEnds
CHECK_DEADLOCK FALSE
