CONSTANTS
    ann = ann
    bob = bob
    Users <- MCUsers
    Friends <- MCFriends
    Txns = {t1, t2}
    DailyLimit = 2
    MaxOffers = 2
    MaxMatches = 3
SPECIFICATION Spec
INVARIANTS TypeOK OneMatchPerOffer
CHECK_DEADLOCK FALSE
