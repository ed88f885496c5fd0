CONSTANTS
    o1 = o1
    o2 = o2
    p = p
    q = q
    A = A
    B = B
    Orders = {o1, o2}
    Products = {p, q}
    Merchants = {A, B}
    Workers = {w1, w2}
    Nobody = Nobody
    MerchantOf <- MCMerchantOf
    Basket <- MCBasket
    Quantity <- MCQuantity
    Price <- MCPrice
    Charge <- MCCharge
    Fees = {300, 500}
    Initial <- MCInitial
    Parts = {0, 4000}
    Moves = {"processing", "shipped", "delivered", "cancelled", "refunded"}
    Overlap = FALSE
    Unpaid = FALSE
    Mixed = FALSE
    SettlementFails = FALSE
    MaxAborts = 1
SPECIFICATION Spec
INVARIANTS StockConserved MoneyFollowsGoods RefundsMatchPayment
CHECK_DEADLOCK FALSE
