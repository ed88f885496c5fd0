CONSTANTS
    Requests = {r1, r2, r3}
    NoOne = NoOne
    Timely = TRUE
    MaxSends = 5
    MaxCrashes = 1
SPECIFICATION FairSpec
CHECK_DEADLOCK FALSE
INVARIANTS NoFork HonestStaysIn
PROPERTIES RequestsEnd
