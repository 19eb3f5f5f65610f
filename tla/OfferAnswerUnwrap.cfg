SPECIFICATION Spec
CONSTANTS
    Addresses = {"ip1", "ip2", "ip3", "local"}
    Times = {"0 0", "1 2", "3 4", "7 1", "9 1"}
    Dynamic = {"96", "101"}
    Sides <- MCRssipSides
    Params <- MCParams
    OtherOffers <- MCOtherOffers
    OtherExtras <- MCExtras
INVARIANTS AnswerIsThere
CHECK_DEADLOCK FALSE
