CONSTANTS
    o1 = o1
    o2 = o2
    Orders = {o1, o2}
    OldOrders = {o1}
    Workers = {w1, w2}
    NoOne = NoOne
    Amount <- MCAmount
    MaxAborts = 1
    MaxDeclines = 1
SPECIFICATION FairSpec
CHECK_DEADLOCK FALSE
INVARIANTS CreditedOnce SettledIsCredited LockedNeverRefused BalanceIsCredits
PROPERTIES PaidIsCredited
