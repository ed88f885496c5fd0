CONSTANTS
    Sockets = {s1, s2}
    Consultations = {c1}
    Workers = {w1, w2}
    NoOne = NoOne
    AnyOverlap = FALSE
    MaxNesting = 1
SPECIFICATION FairSpec
CHECK_DEADLOCK FALSE
INVARIANTS TypeOK ShownIsTrue LiveIsBusy
PROPERTIES StaleMarkerGoes
