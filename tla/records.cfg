SPECIFICATION Spec
CONSTANTS
    UintWidth = 30
    ValueSize = 6
    Offers <- RecordOffers
    Bidders = {100000, 100001}
    Values <- RecordValues
    Times <- RecordTimes
    MaxShown = 2
    None = None
CHECK_DEADLOCK FALSE
INVARIANTS TypeOK RecordNewest BidsPrecedeEnd ReadBack
PROPERTIES ClosedForGood
