--------------------------- MODULE ProductOrders ---------------------------
(***************************************************************************)
(* Product orders: bought from a wallet or to be paid online, moved on by  *)
(* the merchants whose products they hold, by admins and by the client,    *)
(* delivered and settled with each merchant, or cancelled, restocked and   *)
(* refunded.                                                               *)
(*                                                                         *)
(* An update reads the order, with its items, before its transaction; the  *)
(* items that were open then get the new status.  A cancellation reads     *)
(* items and products again inside, and saves the stock it read plus the   *)
(* quantity.  A delivery is settled by a second transaction.  A merchant's *)
(* update is about the items of that merchant only, but status is the      *)
(* order's.                                                                *)
(*                                                                         *)
(* Amounts are in paise; coupons are left out.  An admin may change the    *)
(* platform fee at any time: an order is charged the fee of when it was    *)
(* placed, and a refund gives back the fee of when it was cancelled.       *)
(***************************************************************************)
EXTENDS Integers, FiniteSetsExt

CONSTANTS
    Orders,       \* rows orders may get
    Products,
    Merchants,
    Workers,      \* how many requests may overlap
    Nobody,       \* not an order; also what neither a merchant is: a client or admin
    MerchantOf,   \* products.merchant_id
    Basket,       \* the products in the client's cart for each order
    Quantity,     \* cart_items.quantity of each product
    Price,        \* products.price
    Charge,       \* products.shipping_charge, 0 when not chargeable
    Fees,         \* what the setting PLATFORM_FEE may be
    Initial,      \* products.stock at the start
    Parts,        \* wallet_amount_to_use of split payments
    Moves,        \* statuses merchants and admins set
    Overlap,      \* requests on one order may overlap, and cancellations with
                  \* purchases of their products
    Unpaid,       \* orders that are not fully paid may be moved on
    Mixed,        \* an update that cancels or delivers may be about closed items too
    SettlementFails, \* the second transaction of a delivery may fail
    MaxAborts     \* bound: requests that crash or roll back

ASSUME GoodsAssumption ==
    /\ MerchantOf \in [Products -> Merchants]
    /\ Basket \in [Orders -> SUBSET Products] /\ {} \notin {Basket[o] : o \in Orders}
    /\ Quantity \in [Products -> Nat \ {0}]
    /\ Nobody \notin Orders \cup Merchants
ASSUME AmountAssumption ==
    /\ Price \in [Products -> Nat] /\ Charge \in [Products -> Nat] /\ Fees \subseteq Nat
    /\ Initial \in [Products -> Int]
    /\ Parts \subseteq Nat
    /\ MaxAborts \in Nat
ASSUME FiniteAssumption ==
    IsFiniteSet(Orders) /\ IsFiniteSet(Products) /\ IsFiniteSet(Merchants)
ASSUME SwitchAssumption ==
    {Overlap, Unpaid, Mixed, SettlementFails} \subseteq BOOLEAN

VARIABLES
    fee,      \* the setting PLATFORM_FEE
    stock,    \* products.stock
    status,   \* orders.status, "absent" before the row exists
    item,     \* order_items.status
    charged,  \* the fee in orders.total_amount
    paid,     \* what the client paid for each order
    returned, \* what was credited back for it
    refunds,  \* how often each item was refunded
    settled,  \* how often each item was settled with its merchant
    worker,   \* the request running in each slot
    aborts    \* requests rolled back so far

orderVars == <<status, item, charged, paid, returned, refunds, settled>>
vars == <<fee, stock, orderVars, worker, aborts>>

-----------------------------------------------------------------------------
OrderStatus == {"pending", "paid", "processing", "partially_shipped", "packed",
                "shipped", "delivered", "cancelled", "refunded"}

\* The values of the items' column that an update can ask for: the others of
\* OrderStatus are not in the enum of the column.
ItemStatus == OrderStatus \ {"partially_shipped", "refunded"}

Closed == {"delivered", "cancelled"}

NoItems == [p \in Products |-> "absent"]
NoStock == [p \in Products |-> 0]

Idle == [at |-> "idle", o |-> Nobody, by |-> Nobody, to |-> "absent",
         seen |-> NoItems, stock |-> NoStock, part |-> 0, fee |-> 0]

CreateRequest(o, how, part, f) ==
    [at |-> "create", o |-> o, by |-> Nobody, to |-> how, seen |-> NoItems, stock |-> NoStock,
     part |-> part, fee |-> f]

UpdateRequest(o, by, to, seen) ==
    [at |-> "update", o |-> o, by |-> by, to |-> to, seen |-> seen, stock |-> NoStock,
     part |-> 0, fee |-> 0]

Cost == [p \in Products |-> Price[p] * Quantity[p]]
Goods(S) == SumFunctionOnSet(Cost, S)

\* The dearest shipping charge of each merchant.
Freight(o) ==
    [m \in Merchants |-> Max({Charge[p] : p \in {q \in Basket[o] : MerchantOf[q] = m}} \cup {0})]

Shipping(o) == SumFunctionOnSet(Freight(o), Merchants)

Rupee == 100

\* Math.round of an amount of rupees.
Rounded(x) == ((x + 50) \div Rupee) * Rupee

\* orders.shipping_charge; what is charged is not rounded.
StoredShipping(o) == Rounded(Shipping(o))

\* What an order costs at fee f, and orders.total_amount.
Amount(o, f) == Goods(Basket[o]) + Shipping(o) + f
Total(o)     == Amount(o, charged[o])

Init ==
    /\ fee \in Fees
    /\ stock = Initial
    /\ status = [o \in Orders |-> "absent"]
    /\ item = [o \in Orders |-> NoItems]
    /\ charged = [o \in Orders |-> 0]
    /\ paid = [o \in Orders |-> 0]
    /\ returned = [o \in Orders |-> 0]
    /\ refunds = [o \in Orders |-> [p \in Products |-> 0]]
    /\ settled = [o \in Orders |-> [p \in Products |-> 0]]
    /\ worker = [w \in Workers |-> Idle]
    /\ aborts = 0

Finish(w) == worker' = [worker EXCEPT ![w] = Idle]

\* Nothing that would touch the same rows is under way.
Apart(w, o, to) ==
    /\ worker[w] = Idle
    /\ Overlap \/ \A v \in Workers \ {w} :
           /\ worker[v].o # o
           /\ "cancelled" \in {to, worker[v].to} /\ worker[v].o # Nobody
                => Basket[worker[v].o] \cap Basket[o] = {}

-----------------------------------------------------------------------------
(* UpdateSystemSettingUseCase, by an admin.                                *)
SetFee(f) ==
    /\ fee' = f
    /\ UNCHANGED <<stock, orderVars, worker, aborts>>

-----------------------------------------------------------------------------
(* CreateOrderFromCartUseCase.                                             *)

\* The fee is read, and the cart with its products, whose stock must do.
BeginCreate(w, o, how, part) ==
    /\ Apart(w, o, how)
    /\ status[o] = "absent" /\ \A v \in Workers : worker[v].o # o
    /\ \A p \in Basket[o] : stock[p] >= Quantity[p]
    /\ Goods(Basket[o]) > 0
    /\ part <= Amount(o, fee)
    /\ worker' = [worker EXCEPT ![w] = CreateRequest(o, how, part, fee)]
    /\ UNCHANGED <<fee, stock, orderVars, aborts>>

\* The stock is decremented in the database.  An order paid from the wallet is
\* paid, as are its items; any other is pending, also when a part was paid.
CommitCreate(w) ==
    LET o == worker[w].o
        whole == worker[w].to = "paid"
    IN /\ worker[w].at = "create"
       /\ stock' = [p \in Products |-> IF p \in Basket[o] THEN stock[p] - Quantity[p] ELSE stock[p]]
       /\ status' = [status EXCEPT ![o] = worker[w].to]
       /\ item' = [item EXCEPT ![o] =
              [p \in Products |-> IF p \in Basket[o] THEN worker[w].to ELSE "absent"]]
       /\ charged' = [charged EXCEPT ![o] = worker[w].fee]
       /\ paid' = [paid EXCEPT ![o] =
              IF whole THEN Amount(o, worker[w].fee) ELSE worker[w].part]
       /\ Finish(w)
       /\ UNCHANGED <<fee, returned, refunds, settled, aborts>>

-----------------------------------------------------------------------------
(* MarkOrderAsPaidUseCase, in the transaction that captures the payment of *)
(* the rest: the order is paid, its items stay as they are.                *)
MarkPaid(o) ==
    /\ status[o] # "absent" /\ paid[o] < Total(o)
    /\ paid' = [paid EXCEPT ![o] = Total(o)]
    /\ status' = [status EXCEPT ![o] = "paid"]
    /\ UNCHANGED <<fee, stock, item, charged, returned, refunds, settled, worker, aborts>>

-----------------------------------------------------------------------------
(* OrderService.updateOrderStatus.                                         *)

\* The items an update by a merchant, or by Nobody in particular, is about.
Targets(o, by) ==
    IF by \in Merchants THEN {p \in Basket[o] : MerchantOf[p] = by} ELSE Basket[o]

\* The checks on the order that was read; the last two are not in the code.
Allowed(o, by, to) ==
    /\ Targets(o, by) # {}
    /\ \E p \in Targets(o, by) : item[o][p] \notin Closed
    /\ Unpaid \/ paid[o] >= Total(o)
    /\ Mixed \/ to \notin Closed \/ \A p \in Targets(o, by) : item[o][p] \notin Closed

BeginUpdate(w, o, by, to) ==
    /\ Apart(w, o, to)
    /\ status[o] # "absent"
    /\ Allowed(o, by, to)
    /\ worker' = [worker EXCEPT ![w] = UpdateRequest(o, by, to, item[o])]
    /\ UNCHANGED <<fee, stock, orderVars, aborts>>

\* An admin is about all items, a merchant about his own; a merchant who has
\* the delivery OTP delivers the same way.
StaffUpdate(w, o, by, to) == to \in Moves /\ BeginUpdate(w, o, by, to)

\* CancelUserOrderUseCase: judged by the status of the order, which is that of
\* the last update, whichever merchant it was by.
ClientCancel(w, o) ==
    /\ status[o] \in {"pending", "paid", "processing"}
    /\ \E p \in Basket[o] : item[o][p] \notin {"delivered", "cancelled", "shipped"}
    /\ BeginUpdate(w, o, Nobody, "cancelled")

\* Mutated form: what was closed gets the status too.
UpdatedAll(w) ==
    LET r == worker[w]
    IN [p \in Products |-> IF p \in Targets(r.o, r.by) THEN r.to ELSE item[r.o][p]]

\* The items after the update: what was open when it was read gets the status.
Updated(w) ==
    LET r == worker[w]
    IN [p \in Products |->
          IF p \in Targets(r.o, r.by) /\ r.seen[p] \notin Closed THEN r.to ELSE item[r.o][p]]

\* A status that is not in the enum of the items' column.
RefuseUpdate(w) ==
    /\ worker[w].at = "update"
    /\ worker[w].to \notin ItemStatus
    /\ Finish(w)
    /\ UNCHANGED <<fee, stock, orderVars, aborts>>

\* Any update but a cancellation commits; one that delivers has yet to settle.
CommitUpdate(w) ==
    LET o == worker[w].o
    IN /\ worker[w].at = "update"
       /\ worker[w].to \in ItemStatus \ {"cancelled"}
       /\ item' = [item EXCEPT ![o] = Updated(w)]
       /\ status' = [status EXCEPT ![o] = worker[w].to]
       /\ IF worker[w].to = "delivered"
          THEN worker' = [worker EXCEPT ![w].at = "settle"]
          ELSE Finish(w)
       /\ UNCHANGED <<fee, stock, charged, paid, returned, refunds, settled, aborts>>

\* A cancellation reads the items, as it has changed them, and their products.
ReadForRefund(w) ==
    /\ worker[w].at = "update" /\ worker[w].to = "cancelled"
    /\ worker' = [worker EXCEPT ![w].at = "refund", ![w].seen = Updated(w), ![w].stock = stock]
    /\ UNCHANGED <<fee, stock, orderVars, aborts>>

\* Mutated form: the fee and the shipping come back with every cancellation.
ExtrasAlways(o, seen) == StoredShipping(o) + fee

\* What comes back beside the price of the goods, once all items are cancelled:
\* the shipping as it was stored, and the fee as it is set now.
Extras(o, seen) ==
    IF \A p \in Basket[o] : seen[p] = "cancelled" THEN StoredShipping(o) + fee ELSE 0

\* Mutated form: the goods are not put back.
KeptStock(S, seen) == stock

\* Every target is put back: the stock that was read plus the quantity is saved.
Restocked(S, seen) == [p \in Products |-> IF p \in S THEN seen[p] + Quantity[p] ELSE stock[p]]

\* What was credited back, once the wallet has gained an amount for order o.
Credited(o, amount) == [returned EXCEPT ![o] = @ + amount]

\* Every target is refunded.
CommitCancel(w) ==
    LET o == worker[w].o
        S == Targets(o, worker[w].by)
        back == Goods(S) + Extras(o, worker[w].seen)
    IN /\ worker[w].at = "refund"
       /\ item' = [item EXCEPT ![o] =
              [p \in Products |-> IF p \in S /\ worker[w].seen[p] = "cancelled"
                                 THEN "cancelled" ELSE item[o][p]]]
       /\ status' = [status EXCEPT ![o] = "cancelled"]
       /\ stock' = Restocked(S, worker[w].stock)
       /\ returned' = IF Goods(S) > 0 THEN Credited(o, back) ELSE returned
       /\ refunds' = [refunds EXCEPT ![o] =
              [p \in Products |-> IF p \in S THEN refunds[o][p] + 1 ELSE refunds[o][p]]]
       /\ Finish(w)
       /\ UNCHANGED <<fee, charged, paid, settled, aborts>>

\* One more commission split for each of the items S of order o.
Split(o, S) ==
    [settled EXCEPT ![o] = [p \in Products |-> IF p \in S THEN settled[o][p] + 1 ELSE settled[o][p]]]

\* The second transaction of a delivery: each target is credited to its
\* merchant and split, whatever its status.
Settle(w) ==
    LET o == worker[w].o
        S == Targets(o, worker[w].by)
    IN /\ worker[w].at = "settle"
       /\ settled' = Split(o, S)
       /\ Finish(w)
       /\ UNCHANGED <<fee, stock, status, item, charged, paid, returned, refunds, aborts>>

-----------------------------------------------------------------------------
\* A crash, a refused debit of the wallet, or a statement that fails: the
\* transaction is rolled back.  An error of the settlement is swallowed, and
\* nobody settles the delivery later.
Abort(w) ==
    /\ \/ worker[w].at \in {"create", "update", "refund"}
       \/ SettlementFails /\ worker[w].at = "settle"
    /\ aborts < MaxAborts
    /\ aborts' = aborts + 1
    /\ Finish(w)
    /\ UNCHANGED <<fee, stock, orderVars>>

-----------------------------------------------------------------------------
Step(w) ==
    CommitCreate(w) \/ RefuseUpdate(w) \/ CommitUpdate(w) \/ ReadForRefund(w)
        \/ CommitCancel(w) \/ Settle(w)

Next ==
    \/ \E f \in Fees : SetFee(f)
    \/ \E o \in Orders : MarkPaid(o)
    \/ \E w \in Workers :
         \/ \E o \in Orders :
              \/ BeginCreate(w, o, "paid", 0)
              \/ \E part \in Parts : BeginCreate(w, o, "pending", part)
              \/ \E by \in Merchants \cup {Nobody}, to \in OrderStatus : StaffUpdate(w, o, by, to)
              \/ ClientCancel(w, o)
         \/ Step(w) \/ Abort(w)

Spec == Init /\ [][Next]_vars

-----------------------------------------------------------------------------
Requests == [at : {"idle", "create", "update", "refund", "settle"}, o : Orders \cup {Nobody},
             by : Merchants \cup {Nobody}, to : OrderStatus \cup {"absent"},
             seen : [Products -> ItemStatus \cup {"absent"}], stock : [Products -> Int],
             part : Nat, fee : Nat]

\* Rows, counts and request records stay well formed.
TypeOK ==
    /\ fee \in Fees /\ charged \in [Orders -> Nat]
    /\ stock \in [Products -> Int]
    /\ status \in [Orders -> OrderStatus \cup {"absent"}]
    /\ item \in [Orders -> [Products -> ItemStatus \cup {"absent"}]]
    /\ refunds \in [Orders -> [Products -> Nat]]
    /\ settled \in [Orders -> [Products -> Nat]]
    /\ worker \in [Workers -> Requests]
    /\ \A w \in Workers :
         /\ worker[w].at # "idle" => worker[w].o \in Orders
         /\ worker[w].at = "create" => worker[w].to \in {"paid", "pending"}
    /\ aborts \in 0..MaxAborts

\* Every piece of every product is on the shelf, or in an item that was not
\* cancelled: no piece is lost or put back twice, whatever crashes or is refused
\* and whichever purchases overlap.  Claimed without a cancellation next to a
\* purchase of its product, and without a cancellation over closed items.
\* The count on the shelf may be negative: see StockSuffices.
StockConserved ==
    \A p \in Products :
        stock[p] + Quantity[p] * Cardinality({o \in Orders : item[o][p] \notin {"absent", "cancelled"}})
            = Initial[p]

\* "Deduct stock safely & atomically": what is sold was there.  TLC refutes
\* this: two purchases that have both seen the last piece both take it.
StockSuffices == \A p \in Products : stock[p] >= 0

Settling(o, p) ==
    \E w \in Workers : worker[w].at = "settle" /\ worker[w].o = o /\ p \in Targets(o, worker[w].by)

\* The money of an item goes one way, once: a cancelled item was refunded and
\* never settled, a delivered one is settled or about to be and never refunded,
\* and one that is open is neither, whichever merchants have delivered or
\* cancelled theirs before.  Claimed where the requests on one order follow each
\* other, settlements do not fail, and nobody cancels or delivers over items
\* that are closed already; see CancelDebitsMerchant for what happens there.
MoneyFollowsGoods ==
    \A o \in Orders, p \in Products :
        /\ refunds[o][p] = IF item[o][p] = "cancelled" THEN 1 ELSE 0
        /\ settled[o][p] = IF item[o][p] = "delivered" /\ ~Settling(o, p) THEN 1 ELSE 0

\* "If cancelled when already delivered: refund the client, debit the merchant":
\* no merchant keeps the money of an item the client was refunded for.  TLC
\* refutes this when Mixed is TRUE: no cancellation debits a merchant.
CancelDebitsMerchant ==
    \A o \in Orders, p \in Products : refunds[o][p] > 0 => settled[o][p] = 0

Cancelled(o) == {p \in Products : item[o][p] = "cancelled"}

\* A client who paid an order has back the price of exactly what was cancelled.
\* When nothing of the order is left, he has back what he paid but for two
\* differences: the fee he was charged comes back at the setting of then, and
\* the shipping he was charged comes back rounded to a rupee.
RefundsMatchPayment ==
    \A o \in Orders :
        IF Cancelled(o) = Basket[o]
        THEN \E f \in Fees :
               returned[o] - paid[o] = (f - charged[o]) + (StoredShipping(o) - Shipping(o))
        ELSE returned[o] = Goods(Cancelled(o)) /\ returned[o] <= paid[o]

\* "Full refund": a client whose order was cancelled as a whole has back what
\* he paid.  TLC refutes this, by a fee that was changed meanwhile and by a
\* shipping charge that is no whole number of rupees.
FullRefund ==
    \A o \in Orders : Cancelled(o) = Basket[o] => returned[o] = paid[o]
=============================================================================
