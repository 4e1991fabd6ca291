\* A review opened while the quote of the former input is still shown.
SPECIFICATION Spec
CONSTANTS
    Contacts = {ann, bob}
    First = ann
    Currencies = {rail}
    Rail = rail
    Blocked = {}
    MaxAmount = 2
    MaxOffers = 1
    MaxScreens = 1
    None = None
INVARIANT ReviewIsWhatMoves
CHECK_DEADLOCK FALSE
