CONSTANTS
    Ids = {i1, i2}
    Keys = {k1, k2}
    Workers = {w1, w2}
    NoOne = NoOne
    Amounts = {1, 2}
    InitialBalance = 3
    Earnings = {1}
    MonthlyLimit = 2
    DailyLimit = 3
    AdminMoves <- Decisions
    Alone = {"update"}
    EagerRetry = FALSE
    PayoutsLost = FALSE
    MaxPayouts = 2
    MaxMoves = 2
    MaxAborts = 2
SYMMETRY Symmetry
SPECIFICATION Spec
CHECK_DEADLOCK FALSE
INVARIANTS LedgerMatchesWallet OneWithdrawalPerKey MoneyMatchesStatus
PROPERTIES FinalIsFinal
