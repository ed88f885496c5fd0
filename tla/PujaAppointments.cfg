CONSTANTS
    a1 = a1
    a2 = a2
    a3 = a3
    c1 = c1
    c2 = c2
    e1 = e1
    e2 = e2
    e3 = e3
    g1 = g1
    g2 = g2
    g3 = g3
    Appointments = {a1, a2, a3}
    Workers = {w1, w2}
    Nobody = Nobody
    Accounts <- MCAccounts
    Client <- MCClient
    Expert <- MCExpert
    Referrer <- MCReferrer
    Agents = {g1, g2}
    Initial <- MCInitial
    Costs = {1000}
    Prices <- MCPrices
    PlatformRate = 10
    GstRate = 18
    SellerRate = 5
    BuyerRate = 5
    ExpertMoves <- MCExpertMoves
    Overlap = FALSE
    MaxAborts = 1
SPECIFICATION FairSpec
INVARIANTS SplitsAddUp ConfirmedIsPaidOnce
PROPERTIES UpdatesEnd
