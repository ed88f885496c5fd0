------------------------------ MODULE MCOrders ------------------------------
(* A client buys from two shops, and one of the products is scarce.        *)
EXTENDS ProductOrders, TLC

CONSTANTS o1, o2, p, q, A, B

MCMerchantOf == p :> A @@ q :> B
MCBasket   == o1 :> {p, q} @@ o2 :> {p}
MCQuantity == p :> 1 @@ q :> 2
MCPrice    == p :> 10000 @@ q :> 3000
MCCharge   == p :> 0 @@ q :> 549
MCInitial  == p :> 1 @@ q :> 2
=============================================================================
