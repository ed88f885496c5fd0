------------------------ MODULE ProductOrders_proofs ------------------------
(***************************************************************************)
(* Type correctness of ProductOrders, that the money of every item goes    *)
(* one way, once, that no piece is lost or put back twice, and that        *)
(* refunds match payments but for a change of the fee and the rounding of  *)
(* the shipping, for any number of orders, products, merchants and         *)
(* requests.                                                               *)
(***************************************************************************)
EXTENDS ProductOrders, FiniteSetTheorems, SumLemmas, TLAPS

\* The items an update is about are among those of the order.
LEMMA TargetsAreItems ==
    ASSUME NEW o \in Orders, NEW by
    PROVE  Targets(o, by) \subseteq Basket[o] /\ Basket[o] \subseteq Products
  BY GoodsAssumption DEF Targets

\* What a slot must be beside a request.
Busy(r) ==
    /\ r.at # "idle" => r.o \in Orders
    /\ r.at = "create" => r.to \in {"paid", "pending"}

\* A slot keeps its type when its request begins or goes on.
LEMMA SlotType ==
    ASSUME TypeOK, NEW w \in Workers, NEW r \in Requests, Busy(r),
           worker' = [worker EXCEPT ![w] = r]
    PROVE  /\ worker' \in [Workers -> Requests]
           /\ \A v \in Workers : Busy(worker'[v])
  BY DEF TypeOK, Busy

\* An idle slot is well formed.
LEMMA IdleType == Idle \in Requests /\ Idle.at = "idle" /\ Idle.o = Nobody
  BY DEF Idle, Requests, NoItems, NoStock

\* A slot keeps its type when its request ends.
LEMMA FinishType ==
    ASSUME TypeOK, NEW w \in Workers, Finish(w)
    PROVE  /\ worker' \in [Workers -> Requests]
           /\ \A v \in Workers : Busy(worker'[v])
  BY IdleType, SlotType DEF Finish, Busy

\* The request of a busy slot is about an order.
LEMMA BusyType ==
    ASSUME TypeOK, NEW w \in Workers, worker[w].at # "idle"
    PROVE  /\ worker[w] \in Requests /\ worker[w].o \in Orders
           /\ worker[w].seen \in [Products -> ItemStatus \cup {"absent"}]
           /\ item[worker[w].o] \in [Products -> ItemStatus \cup {"absent"}]
  BY DEF TypeOK, Requests

\* The items after an update are items.
LEMMA UpdatedType ==
    ASSUME TypeOK, NEW w \in Workers, worker[w].at # "idle", worker[w].to \in ItemStatus
    PROVE  Updated(w) \in [Products -> ItemStatus \cup {"absent"}]
<1> DEFINE i == item[worker[w].o]
           to == worker[w].to
<1>1. i \in [Products -> ItemStatus \cup {"absent"}] /\ to \in ItemStatus
  BY BusyType
<1>2. Updated(w) = [p \in Products |->
          IF p \in Targets(worker[w].o, worker[w].by) /\ worker[w].seen[p] \notin Closed
          THEN to ELSE i[p]]
  BY DEF Updated
<1> HIDE DEF i, to
<1> QED BY <1>1, <1>2

\* Type correctness is inductive.
LEMMA TypeInductive == TypeOK /\ [Next]_vars => TypeOK'
<1> SUFFICES ASSUME TypeOK, [Next]_vars PROVE TypeOK'
  OBVIOUS
<1> DEFINE Slots == /\ worker' \in [Workers -> Requests]
                    /\ \A v \in Workers : Busy(worker'[v])
<1>0. fee \in Nat
  BY AmountAssumption DEF TypeOK
<1>1. ASSUME NEW o \in Orders, MarkPaid(o) PROVE TypeOK'
  BY <1>1 DEF TypeOK, MarkPaid, OrderStatus
<1>2. ASSUME NEW w \in Workers, NEW o \in Orders, NEW how \in {"paid", "pending"}, NEW part \in Nat,
             BeginCreate(w, o, how, part)
      PROVE  TypeOK'
  <2> DEFINE r == CreateRequest(o, how, part, fee)
  <2>1. r \in Requests /\ Busy(r)
    BY <1>0 DEF CreateRequest, Requests, Busy, NoItems, NoStock, OrderStatus
  <2>2. worker' = [worker EXCEPT ![w] = r]
    BY <1>2 DEF BeginCreate
  <2> HIDE DEF r
  <2>3. Slots
    BY <2>1, <2>2, SlotType
  <2> QED BY <1>2, <2>3 DEF TypeOK, BeginCreate, orderVars, Busy
<1>3. ASSUME NEW w \in Workers, NEW o \in Orders, NEW by \in Merchants \cup {Nobody},
             NEW to \in OrderStatus, BeginUpdate(w, o, by, to)
      PROVE  TypeOK'
  <2> DEFINE r == UpdateRequest(o, by, to, item[o])
  <2>1. item[o] \in [Products -> ItemStatus \cup {"absent"}]
    BY DEF TypeOK
  <2>2. r \in Requests /\ Busy(r)
    BY <2>1 DEF UpdateRequest, Requests, Busy, NoStock
  <2>3. worker' = [worker EXCEPT ![w] = r]
    BY <1>3 DEF BeginUpdate
  <2> HIDE DEF r
  <2>4. Slots
    BY <2>2, <2>3, SlotType
  <2> QED BY <1>3, <2>4 DEF TypeOK, BeginUpdate, orderVars, Busy
<1>4. ASSUME NEW w \in Workers, CommitCreate(w) PROVE TypeOK'
  <2>1. worker[w].o \in Orders /\ worker[w].to \in {"paid", "pending"}
    BY <1>4 DEF CommitCreate, TypeOK
  <2>2. \A p \in Products : stock[p] - Quantity[p] \in Int /\ stock[p] \in Int
    BY GoodsAssumption DEF TypeOK
  <2>3. stock' \in [Products -> Int]
    BY <1>4, <2>2 DEF CommitCreate
  <2> DEFINE i == [p \in Products |-> IF p \in Basket[worker[w].o] THEN worker[w].to ELSE "absent"]
  <2>4. i \in [Products -> ItemStatus \cup {"absent"}]
    BY <2>1 DEF ItemStatus, OrderStatus
  <2>5. item' = [item EXCEPT ![worker[w].o] = i]
    BY <1>4 DEF CommitCreate
  <2> HIDE DEF i
  <2>6. item' \in [Orders -> [Products -> ItemStatus \cup {"absent"}]]
    BY <2>1, <2>4, <2>5 DEF TypeOK
  <2>7. status' \in [Orders -> OrderStatus \cup {"absent"}]
    BY <1>4, <2>1 DEF CommitCreate, TypeOK, OrderStatus
  <2>8. Slots
    BY <1>4, FinishType DEF CommitCreate
  <2>9. charged' \in [Orders -> Nat]
    <3>1. worker[w].fee \in Nat
      BY <1>4 DEF CommitCreate, TypeOK, Requests
    <3> QED BY <1>4, <2>1, <3>1 DEF CommitCreate, TypeOK
  <2> QED BY <1>4, <2>3, <2>6, <2>7, <2>8, <2>9 DEF CommitCreate, TypeOK, Busy
<1>5. ASSUME NEW w \in Workers, RefuseUpdate(w) \/ Abort(w) PROVE TypeOK'
  <2>1. /\ Finish(w) /\ UNCHANGED <<fee, charged, stock, status, item, refunds, settled>>
        /\ aborts' \in 0..MaxAborts
    BY <1>5, AmountAssumption DEF RefuseUpdate, Abort, orderVars, TypeOK
  <2>2. Slots
    BY <2>1, FinishType
  <2> QED BY <2>1, <2>2 DEF TypeOK, Busy
<1>6. ASSUME NEW w \in Workers, CommitUpdate(w) PROVE TypeOK'
  <2>1. /\ worker[w].at = "update" /\ worker[w].o \in Orders /\ worker[w] \in Requests
        /\ worker[w].to \in ItemStatus
    BY <1>6, BusyType DEF CommitUpdate
  <2>2. Updated(w) \in [Products -> ItemStatus \cup {"absent"}]
    BY <2>1, UpdatedType
  <2>3. item' \in [Orders -> [Products -> ItemStatus \cup {"absent"}]]
    BY <1>6, <2>1, <2>2 DEF CommitUpdate, TypeOK
  <2>4. status' \in [Orders -> OrderStatus \cup {"absent"}]
    BY <1>6, <2>1 DEF CommitUpdate, TypeOK, ItemStatus
  <2>5. Slots
    <3>1. CASE worker[w].to = "delivered"
      <4> DEFINE r == [worker[w] EXCEPT !.at = "settle"]
      <4>1. r \in Requests /\ Busy(r)
        BY <2>1 DEF Requests, Busy
      <4>2. worker' = [worker EXCEPT ![w] = r]
        BY <1>6, <3>1 DEF CommitUpdate
      <4> HIDE DEF r
      <4> QED BY <4>1, <4>2, SlotType
    <3>2. CASE worker[w].to # "delivered"
      BY <1>6, <3>2, FinishType DEF CommitUpdate
    <3> QED BY <3>1, <3>2
  <2> QED BY <1>6, <2>3, <2>4, <2>5 DEF CommitUpdate, TypeOK, Busy
<1>7. ASSUME NEW w \in Workers, ReadForRefund(w) PROVE TypeOK'
  <2>1. /\ worker[w].at = "update" /\ worker[w].o \in Orders /\ worker[w] \in Requests
        /\ worker[w].to \in ItemStatus
    BY <1>7, BusyType DEF ReadForRefund, ItemStatus, OrderStatus
  <2> DEFINE r == [worker[w] EXCEPT !.at = "refund", !.seen = Updated(w), !.stock = stock]
  <2>2. r \in Requests /\ Busy(r)
    BY <2>1, UpdatedType DEF Requests, Busy, TypeOK
  <2>3. worker' = [worker EXCEPT ![w] = r]
    BY <1>7 DEF ReadForRefund
  <2> HIDE DEF r
  <2>4. Slots
    BY <2>2, <2>3, SlotType
  <2> QED BY <1>7, <2>4 DEF ReadForRefund, orderVars, TypeOK, Busy
<1>8. ASSUME NEW w \in Workers, CommitCancel(w) PROVE TypeOK'
  <2> DEFINE o == worker[w].o
             S == Targets(o, worker[w].by)
  <2>1. o \in Orders /\ worker[w] \in Requests
    BY <1>8, BusyType DEF CommitCancel
  <2>2. /\ item' = [item EXCEPT ![o] = [p \in Products |->
                       IF p \in S /\ worker[w].seen[p] = "cancelled" THEN "cancelled" ELSE item[o][p]]]
        /\ refunds' = [refunds EXCEPT ![o] = [p \in Products |->
                       IF p \in S THEN refunds[o][p] + 1 ELSE refunds[o][p]]]
        /\ status' = [status EXCEPT ![o] = "cancelled"]
        /\ stock' = Restocked(S, worker[w].stock)
        /\ Finish(w) /\ UNCHANGED <<fee, charged, settled, aborts>>
    BY <1>8 DEF CommitCancel
  <2>3. worker[w].stock \in [Products -> Int]
    BY <2>1 DEF Requests
  <2> HIDE DEF o, S
  <2>4. item' \in [Orders -> [Products -> ItemStatus \cup {"absent"}]]
    BY <2>1, <2>2 DEF TypeOK, ItemStatus, OrderStatus
  <2>5. refunds' \in [Orders -> [Products -> Nat]]
    BY <2>1, <2>2 DEF TypeOK
  <2>6. stock' \in [Products -> Int]
    BY <2>2, <2>3, GoodsAssumption DEF TypeOK, Restocked
  <2>7. status' \in [Orders -> OrderStatus \cup {"absent"}]
    BY <2>1, <2>2 DEF TypeOK, OrderStatus
  <2>8. Slots
    BY <2>2, FinishType
  <2> QED BY <2>2, <2>4, <2>5, <2>6, <2>7, <2>8 DEF TypeOK, Busy
<1>9. ASSUME NEW w \in Workers, Settle(w) PROVE TypeOK'
  <2> DEFINE o == worker[w].o
             S == Targets(o, worker[w].by)
  <2>1. o \in Orders
    BY <1>9, BusyType DEF Settle, Split
  <2>2. /\ settled' = [settled EXCEPT ![o] = [p \in Products |->
                       IF p \in S THEN settled[o][p] + 1 ELSE settled[o][p]]]
        /\ Finish(w) /\ UNCHANGED <<fee, charged, stock, status, item, refunds, aborts>>
    BY <1>9 DEF Settle, Split
  <2> HIDE DEF o, S
  <2>3. settled' \in [Orders -> [Products -> Nat]]
    BY <2>1, <2>2 DEF TypeOK
  <2>4. Slots
    BY <2>2, FinishType
  <2> QED BY <2>2, <2>3, <2>4 DEF TypeOK, Busy
<1>10. ASSUME fee' \in Fees, UNCHANGED <<stock, orderVars, worker, aborts>> PROVE TypeOK'
  BY <1>10 DEF orderVars, TypeOK
<1>11. ASSUME NEW w \in Workers, NEW o \in Orders, NEW part \in Parts, BeginCreate(w, o, "pending", part)
       PROVE  TypeOK'
  BY <1>2, <1>11, AmountAssumption
<1>12. ASSUME NEW w \in Workers, NEW o \in Orders, ClientCancel(w, o) PROVE TypeOK'
  BY <1>3, <1>12 DEF ClientCancel, OrderStatus
<1> QED BY <1>1, <1>2, <1>3, <1>4, <1>5, <1>6, <1>7, <1>8, <1>9, <1>10, <1>11, <1>12
        DEF Next, Step, StaffUpdate, SetFee, vars, TypeOK

\* Orders, items, counts and requests keep their types, for any number of each
\* and whatever overlaps.
THEOREM TypeCorrect == Spec => []TypeOK
<1>1. Init => TypeOK
  BY IdleType, AmountAssumption DEF Init, TypeOK, NoItems
<1> QED BY <1>1, TypeInductive, PTL DEF Spec

-----------------------------------------------------------------------------
(* The money of an item.  What a request has read of its order is still    *)
(* true when it commits, as nobody else works on the order: a new order    *)
(* has moved no money, a cancellation or a delivery finds its targets      *)
(* open, and a settlement finds them delivered and not yet settled.        *)

\* The requests on one order follow each other, a delivery is settled, and
\* nobody cancels or delivers over items that are delivered or cancelled.
Careful == Overlap = FALSE /\ Mixed = FALSE /\ SettlementFails = FALSE

OneRequest ==
    \A v, w \in Workers : v # w /\ worker[v].o = worker[w].o => worker[v].o = Nobody

AbsentIsEmpty ==
    \A o \in Orders, p \in Products :
        status[o] = "absent" => item[o][p] = "absent"

NewIsAbsent ==
    \A w \in Workers : worker[w].at = "create" => status[worker[w].o] = "absent"

\* What the request r finds of the items i of its order.
Finds(r, i) ==
    /\ r.at = "update" =>
         /\ r.seen = i
         /\ r.to \in Closed => \A p \in Targets(r.o, r.by) : i[p] \notin Closed
    /\ r.at = "refund" =>
         \A p \in Targets(r.o, r.by) : r.seen[p] = "cancelled" /\ i[p] \notin Closed
    /\ r.at = "settle" => \A p \in Targets(r.o, r.by) : i[p] = "delivered"

FindsItems == \A w \in Workers : Finds(worker[w], item[worker[w].o])

\* The refunds n and settlements m of the items i of the order of request r.
Fits(r, i, n, m) ==
    \A p \in Products :
        /\ n[p] = IF i[p] = "cancelled" THEN 1 ELSE 0
        /\ m[p] = IF i[p] = "delivered" /\ ~(r.at = "settle" /\ p \in Targets(r.o, r.by))
                  THEN 1 ELSE 0

IInv == TypeOK /\ OneRequest /\ AbsentIsEmpty /\ NewIsAbsent /\ FindsItems /\ MoneyFollowsGoods

\* Nobody settles what no other request is about.
LEMMA SettlingIsOwn ==
    ASSUME TypeOK, OneRequest, NEW w \in Workers, worker[w].o \in Orders, NEW p
    PROVE  Settling(worker[w].o, p)
             <=> worker[w].at = "settle" /\ p \in Targets(worker[w].o, worker[w].by)
  BY GoodsAssumption DEF OneRequest, Settling

\* A request that begins finds its order as the invariant says, and changes
\* nothing of it.
LEMMA BeginKeeps ==
    ASSUME IInv, Careful, NEW w \in Workers, NEW o \in Orders, NEW r, r.o = o,
           r.at \in {"create", "update"}, \A v \in Workers : worker[v].o # o,
           r.at = "create" => status[o] = "absent", Finds(r, item[o]),
           worker[w].at = "idle",
           worker' = [worker EXCEPT ![w] = r],
           UNCHANGED <<status, item, refunds, settled>>
    PROVE  OneRequest' /\ AbsentIsEmpty' /\ NewIsAbsent' /\ FindsItems' /\ MoneyFollowsGoods'
<1>1. \A v \in Workers : worker'[v] = IF v = w THEN r ELSE worker[v]
  BY DEF IInv, TypeOK
<1>2. OneRequest'
  BY <1>1 DEF IInv, OneRequest
<1>3. AbsentIsEmpty'
  BY DEF IInv, AbsentIsEmpty
<1>4. NewIsAbsent'
  BY <1>1 DEF IInv, NewIsAbsent
<1>5. FindsItems'
  BY <1>1 DEF IInv, FindsItems
<1>6. \A q \in Orders, p \in Products : Settling(q, p)' <=> Settling(q, p)
  BY <1>1 DEF Settling
<1>7. MoneyFollowsGoods'
  BY <1>6 DEF IInv, MoneyFollowsGoods
<1> QED BY <1>2, <1>3, <1>4, <1>5, <1>7

\* The request of slot w, on order o, becomes r, and changes the items and the
\* money of its own order only.
OwnStep(w, o, r) ==
    /\ worker[w].o = o
    /\ r.at # "create" /\ ((r.at = "idle" /\ r.o = Nobody) \/ r.o = o)
    /\ worker' = [worker EXCEPT ![w] = r]
    /\ \A q \in Orders \ {o} : /\ status'[q] = status[q] /\ item'[q] = item[q]
                              /\ refunds'[q] = refunds[q] /\ settled'[q] = settled[q]
    /\ status'[o] = "absent" => item'[o] = item[o] /\ status[o] = "absent"
    /\ r.at # "idle" => Finds(r, item'[o])
    /\ Fits(r, item'[o], refunds'[o], settled'[o])

\* Such a step keeps the invariant.
LEMMA OwnKeeps ==
    ASSUME IInv, NEW w \in Workers, NEW o \in Orders, NEW r, OwnStep(w, o, r)
    PROVE  OneRequest' /\ AbsentIsEmpty' /\ NewIsAbsent' /\ FindsItems' /\ MoneyFollowsGoods'
<1> USE DEF OwnStep
<1>1. \A v \in Workers : worker'[v] = IF v = w THEN r ELSE worker[v]
  BY DEF IInv, TypeOK
<1>2. \A v \in Workers \ {w} : worker[v].o # o
  BY GoodsAssumption DEF IInv, OneRequest
<1>3. OneRequest'
  BY <1>1, <1>2 DEF IInv, OneRequest
<1>4. AbsentIsEmpty'
  BY DEF IInv, AbsentIsEmpty
<1>5. NewIsAbsent'
  <2> SUFFICES ASSUME NEW v \in Workers, worker'[v].at = "create"
               PROVE  status'[worker'[v].o] = "absent"
    BY DEF NewIsAbsent
  <2>1. v # w /\ worker'[v] = worker[v]
    BY <1>1
  <2>2. worker[v].o \in Orders /\ worker[v].o # o
    BY <1>2, <2>1 DEF IInv, TypeOK
  <2> QED BY <2>1, <2>2 DEF IInv, NewIsAbsent
<1>6. FindsItems'
  <2> SUFFICES ASSUME NEW v \in Workers PROVE Finds(worker'[v], item'[worker'[v].o])
    BY DEF FindsItems
  <2>1. CASE v = w
    BY <1>1, <2>1 DEF Finds
  <2>2. CASE v # w /\ worker[v].at = "idle"
    BY <1>1, <2>2 DEF Finds
  <2>3. CASE v # w /\ worker[v].at # "idle"
    <3>1. worker[v].o \in Orders /\ worker[v].o # o
      BY <1>2, <2>3 DEF IInv, TypeOK
    <3> QED BY <1>1, <2>3, <3>1 DEF IInv, FindsItems
  <2> QED BY <2>1, <2>2, <2>3
<1>7. MoneyFollowsGoods'
  <2> SUFFICES ASSUME NEW q \in Orders, NEW p \in Products
               PROVE  /\ refunds'[q][p] = IF item'[q][p] = "cancelled" THEN 1 ELSE 0
                      /\ settled'[q][p] = IF item'[q][p] = "delivered" /\ ~Settling(q, p)' THEN 1 ELSE 0
    BY DEF MoneyFollowsGoods
  <2>1. CASE q = o
    <3>1. Settling(q, p)' <=> r.at = "settle" /\ p \in Targets(r.o, r.by)
      BY <1>1, <1>2, <2>1, GoodsAssumption DEF Settling
    <3> QED BY <2>1, <3>1 DEF Fits
  <2>2. CASE q # o
    <3>1. Settling(q, p)' <=> Settling(q, p)
      BY <1>1, <2>2 DEF Settling
    <3>2. /\ refunds[q][p] = IF item[q][p] = "cancelled" THEN 1 ELSE 0
          /\ settled[q][p] = IF item[q][p] = "delivered" /\ ~Settling(q, p) THEN 1 ELSE 0
      BY DEF IInv, MoneyFollowsGoods
    <3> QED BY <2>2, <3>1, <3>2
  <2> QED BY <2>1, <2>2
<1> QED BY <1>3, <1>4, <1>5, <1>6, <1>7

\* The money of the items of the order that a request is about.
LEMMA OwnMoney ==
    ASSUME IInv, NEW w \in Workers, NEW o \in Orders, worker[w].o = o
    PROVE  Fits(worker[w], item[o], refunds[o], settled[o])
<1> SUFFICES ASSUME NEW p \in Products
             PROVE  /\ refunds[o][p] = IF item[o][p] = "cancelled" THEN 1 ELSE 0
                    /\ settled[o][p] =
                         IF item[o][p] = "delivered"
                            /\ ~(worker[w].at = "settle" /\ p \in Targets(worker[w].o, worker[w].by))
                         THEN 1 ELSE 0
  BY DEF Fits
<1>1. Settling(o, p) <=> worker[w].at = "settle" /\ p \in Targets(worker[w].o, worker[w].by)
  BY SettlingIsOwn DEF IInv
<1> QED BY <1>1 DEF IInv, MoneyFollowsGoods

\* What Fits says beside a request that does not settle.
LEMMA QuietFits ==
    ASSUME NEW r, NEW i, NEW n, NEW m, r.at # "settle"
    PROVE  Fits(r, i, n, m) <=> \A p \in Products :
             /\ n[p] = IF i[p] = "cancelled" THEN 1 ELSE 0
             /\ m[p] = IF i[p] = "delivered" THEN 1 ELSE 0
  BY DEF Fits

\* A request that ends without a change keeps the invariant.
LEMMA EndKeeps ==
    ASSUME IInv, NEW w \in Workers, worker[w].at \in {"create", "update", "refund"},
           Finish(w), UNCHANGED <<status, item, refunds, settled>>
    PROVE  OneRequest' /\ AbsentIsEmpty' /\ NewIsAbsent' /\ FindsItems' /\ MoneyFollowsGoods'
<1> DEFINE o == worker[w].o
<1>1. o \in Orders /\ worker' = [worker EXCEPT ![w] = Idle]
  BY BusyType DEF IInv, Finish
<1>2. Idle.at = "idle" /\ Idle.o = Nobody
  BY IdleType
<1>3. Fits(Idle, item'[o], refunds'[o], settled'[o])
  BY <1>1, <1>2, OwnMoney, QuietFits
<1>4. OwnStep(w, o, Idle)
  BY <1>1, <1>2, <1>3 DEF OwnStep
<1> QED BY <1>1, <1>4, OwnKeeps

\* The invariant is inductive.
LEMMA MoneyInductive == Careful /\ IInv /\ [Next]_vars => IInv'
<1> SUFFICES ASSUME Careful, IInv, [Next]_vars PROVE IInv'
  OBVIOUS
<1>0. TypeOK /\ TypeOK'
  BY TypeInductive DEF IInv
<1> DEFINE Kept == OneRequest' /\ AbsentIsEmpty' /\ NewIsAbsent' /\ FindsItems' /\ MoneyFollowsGoods'
<1> SUFFICES Kept
  BY <1>0 DEF IInv
<1>a. ASSUME NEW w \in Workers, NEW o \in Orders, NEW to, Apart(w, o, to)
      PROVE  worker[w].at = "idle" /\ \A v \in Workers : worker[v].o # o
  BY <1>a, IdleType, GoodsAssumption DEF Apart, Careful
<1>1. ASSUME NEW o \in Orders, MarkPaid(o) PROVE Kept
  <2>1. /\ UNCHANGED <<item, refunds, settled, worker>>
        /\ \A q \in Orders : status'[q] = "absent" => status[q] = "absent"
        /\ \A q \in Orders : status[q] = "absent" => status'[q] = "absent"
    BY <1>0, <1>1 DEF MarkPaid, TypeOK
  <2>2. NewIsAbsent'
    BY <1>0, <2>1 DEF IInv, NewIsAbsent, TypeOK
  <2>3. \A q \in Orders, p \in Products : Settling(q, p)' <=> Settling(q, p)
    BY <2>1 DEF Settling
  <2> QED BY <2>1, <2>2, <2>3 DEF IInv, OneRequest, AbsentIsEmpty, FindsItems, MoneyFollowsGoods
<1>2. ASSUME NEW w \in Workers, NEW o \in Orders, NEW how \in {"paid", "pending"}, NEW part,
             BeginCreate(w, o, how, part)
      PROVE  Kept
  <2> DEFINE r == CreateRequest(o, how, part, fee)
  <2>1. r.o = o /\ r.at = "create" /\ Finds(r, item[o])
    BY DEF CreateRequest, Finds
  <2>2. /\ worker' = [worker EXCEPT ![w] = r] /\ status[o] = "absent" /\ Apart(w, o, how)
        /\ UNCHANGED <<status, item, refunds, settled>>
    BY <1>2 DEF BeginCreate, orderVars
  <2> HIDE DEF r
  <2> QED BY <1>a, <2>1, <2>2, BeginKeeps
<1>3. ASSUME NEW w \in Workers, NEW o \in Orders, NEW by, NEW to, BeginUpdate(w, o, by, to)
      PROVE  Kept
  <2> DEFINE r == UpdateRequest(o, by, to, item[o])
  <2>1. r.o = o /\ r.at = "update" /\ r.by = by /\ r.to = to /\ r.seen = item[o]
    BY DEF UpdateRequest
  <2>2. /\ worker' = [worker EXCEPT ![w] = r] /\ Apart(w, o, to) /\ Allowed(o, by, to)
        /\ UNCHANGED <<status, item, refunds, settled>>
    BY <1>3 DEF BeginUpdate, orderVars
  <2> HIDE DEF r
  <2>3. Finds(r, item[o])
    BY <2>1, <2>2 DEF Finds, Allowed, Careful
  <2> QED BY <1>a, <2>1, <2>2, <2>3, BeginKeeps
<1>4. ASSUME NEW w \in Workers, CommitCreate(w) PROVE Kept
  <2> DEFINE o == worker[w].o
  <2>1. o \in Orders /\ worker[w].at = "create" /\ worker[w].to \in {"paid", "pending"}
    BY <1>0, <1>4 DEF CommitCreate, TypeOK
  <2>2. status[o] = "absent" /\ \A p \in Products : item[o][p] = "absent"
    BY <2>1 DEF IInv, NewIsAbsent, AbsentIsEmpty
  <2>3. \A p \in Products : refunds[o][p] = 0 /\ settled[o][p] = 0
    BY <2>1, <2>2, OwnMoney, QuietFits
  <2>4. /\ status'[o] = worker[w].to
        /\ \A p \in Products : item'[o][p] \in {worker[w].to, "absent"}
        /\ \A q \in Orders : q # o => status'[q] = status[q] /\ item'[q] = item[q]
        /\ UNCHANGED <<refunds, settled>> /\ worker' = [worker EXCEPT ![w] = Idle]
    BY <1>0, <1>4, <2>1 DEF CommitCreate, Finish, TypeOK
  <2>5. \A p \in Products : item'[o][p] # "cancelled" /\ item'[o][p] # "delivered"
    BY <2>1, <2>4
  <2>6. Fits(Idle, item'[o], refunds'[o], settled'[o])
    BY <2>3, <2>4, <2>5, IdleType, QuietFits
  <2>7. status'[o] # "absent"
    BY <2>1, <2>4
  <2>8. OwnStep(w, o, Idle)
    BY <2>1, <2>4, <2>6, <2>7, IdleType DEF OwnStep
  <2> QED BY <2>1, <2>8, OwnKeeps
<1>5. ASSUME NEW w \in Workers, RefuseUpdate(w) \/ Abort(w) PROVE Kept
  BY <1>5, EndKeeps DEF RefuseUpdate, Abort, orderVars, Careful
<1>6. ASSUME NEW w \in Workers, CommitUpdate(w) PROVE Kept
  <2> DEFINE o == worker[w].o
             to == worker[w].to
             T == Targets(o, worker[w].by)
  <2>1. o \in Orders /\ worker[w].at = "update" /\ worker[w] \in Requests
        /\ to \in ItemStatus \ {"cancelled"}
    BY <1>0, <1>6, BusyType DEF CommitUpdate
  <2>2. /\ worker[w].seen = item[o]
        /\ to \in Closed => \A p \in T : item[o][p] \notin Closed
    BY <2>1 DEF IInv, FindsItems, Finds
  <2>3. Updated(w) = [p \in Products |-> IF p \in T /\ item[o][p] \notin Closed THEN to ELSE item[o][p]]
    BY <2>2 DEF Updated
  <2>4. /\ status'[o] = to
        /\ item'[o] = Updated(w)
        /\ \A q \in Orders : q # o => status'[q] = status[q] /\ item'[q] = item[q]
        /\ UNCHANGED <<refunds, settled>>
    BY <1>0, <1>6, <2>1 DEF CommitUpdate, TypeOK
  <2>5. \A p \in Products :
           /\ refunds[o][p] = IF item[o][p] = "cancelled" THEN 1 ELSE 0
           /\ settled[o][p] = IF item[o][p] = "delivered" THEN 1 ELSE 0
    BY <2>1, OwnMoney, QuietFits
  <2>6. to # "absent" /\ to # "cancelled"
    BY <2>1 DEF ItemStatus, OrderStatus
  <2>7. CASE to = "delivered"
    <3> DEFINE r == [worker[w] EXCEPT !.at = "settle"]
    <3>1. r.o = o /\ r.at = "settle" /\ r.by = worker[w].by /\ worker' = [worker EXCEPT ![w] = r]
      BY <1>6, <2>1, <2>7 DEF CommitUpdate, Requests
    <3> HIDE DEF r
    <3>2. \A p \in Products : p \in T => item[o][p] \notin Closed /\ item'[o][p] = "delivered"
      BY <2>2, <2>3, <2>4, <2>7 DEF Closed
    <3>3. \A p \in Products : p \notin T => item'[o][p] = item[o][p]
      BY <2>3, <2>4
    <3>4. T \subseteq Products
      BY <2>1, TargetsAreItems
    <3>5. Finds(r, item'[o])
      BY <3>1, <3>2, <3>4 DEF Finds
    <3>6. ASSUME NEW p \in Products
          PROVE  /\ refunds'[o][p] = IF item'[o][p] = "cancelled" THEN 1 ELSE 0
                 /\ settled'[o][p] = IF item'[o][p] = "delivered" /\ p \notin T THEN 1 ELSE 0
      <4>1. refunds'[o][p] = refunds[o][p] /\ settled'[o][p] = settled[o][p]
        BY <2>4
      <4>2. CASE p \in T
        BY <2>5, <3>2, <4>1, <4>2 DEF Closed
      <4>3. CASE p \notin T
        BY <2>5, <3>3, <4>1, <4>3
      <4> QED BY <4>2, <4>3
    <3>7. Fits(r, item'[o], refunds'[o], settled'[o])
      BY <3>1, <3>6 DEF Fits
    <3>8. OwnStep(w, o, r)
      BY <2>1, <2>4, <2>6, <3>1, <3>5, <3>7 DEF OwnStep
    <3> QED BY <2>1, <3>8, OwnKeeps
  <2>8. CASE to # "delivered"
    <3>1. worker' = [worker EXCEPT ![w] = Idle]
      BY <1>6, <2>8 DEF CommitUpdate, Finish
    <3>2. \A p \in Products :
             (item'[o][p] = item[o][p]) \/ (item[o][p] \notin Closed /\ item'[o][p] \notin Closed)
      BY <2>3, <2>4, <2>6, <2>8 DEF Closed
    <3>3. ASSUME NEW p \in Products
          PROVE  /\ refunds'[o][p] = IF item'[o][p] = "cancelled" THEN 1 ELSE 0
                 /\ settled'[o][p] = IF item'[o][p] = "delivered" THEN 1 ELSE 0
      <4>1. refunds'[o][p] = refunds[o][p] /\ settled'[o][p] = settled[o][p]
        BY <2>4
      <4> QED BY <2>5, <3>2, <4>1 DEF Closed
    <3>4. Fits(Idle, item'[o], refunds'[o], settled'[o])
      BY <3>3, IdleType, QuietFits
    <3>5. OwnStep(w, o, Idle)
      BY <2>1, <2>4, <2>6, <3>1, <3>4, IdleType DEF OwnStep
    <3> QED BY <2>1, <3>5, OwnKeeps
  <2> QED BY <2>7, <2>8
<1>7. ASSUME NEW w \in Workers, ReadForRefund(w) PROVE Kept
  <2> DEFINE o == worker[w].o
             T == Targets(o, worker[w].by)
             r == [worker[w] EXCEPT !.at = "refund", !.seen = Updated(w), !.stock = stock]
  <2>1. /\ o \in Orders /\ worker[w].at = "update" /\ worker[w] \in Requests
        /\ worker[w].to = "cancelled" /\ worker' = [worker EXCEPT ![w] = r]
        /\ UNCHANGED <<status, item, refunds, settled>>
    BY <1>0, <1>7, BusyType DEF ReadForRefund, orderVars
  <2>2. r.o = o /\ r.at = "refund" /\ r.by = worker[w].by /\ r.seen = Updated(w)
    BY <2>1 DEF Requests
  <2>3. \A p \in T : item[o][p] \notin Closed /\ worker[w].seen[p] \notin Closed
    BY <2>1 DEF IInv, FindsItems, Finds, Closed
  <2>4. T \subseteq Products
    BY <2>1, TargetsAreItems
  <2>5. \A p \in T : Updated(w)[p] = "cancelled"
    BY <2>1, <2>3, <2>4 DEF Updated
  <2> HIDE DEF r
  <2>6. Finds(r, item'[o])
    BY <2>1, <2>2, <2>3, <2>5 DEF Finds
  <2>7. Fits(r, item'[o], refunds'[o], settled'[o])
    BY <2>1, <2>2, OwnMoney, QuietFits
  <2>8. OwnStep(w, o, r)
    BY <2>1, <2>2, <2>6, <2>7 DEF OwnStep
  <2> QED BY <2>1, <2>8, OwnKeeps
<1>8. ASSUME NEW w \in Workers, CommitCancel(w) PROVE Kept
  <2> DEFINE o == worker[w].o
             T == Targets(o, worker[w].by)
  <2>1. o \in Orders /\ worker[w].at = "refund"
    BY <1>0, <1>8, BusyType DEF CommitCancel
  <2>2. \A p \in T : worker[w].seen[p] = "cancelled" /\ item[o][p] \notin Closed
    BY <2>1 DEF IInv, FindsItems, Finds
  <2>3. /\ status' = [status EXCEPT ![o] = "cancelled"]
        /\ item' = [item EXCEPT ![o] = [p \in Products |->
                       IF p \in T /\ worker[w].seen[p] = "cancelled" THEN "cancelled" ELSE item[o][p]]]
        /\ refunds' = [refunds EXCEPT ![o] = [p \in Products |->
                       IF p \in T THEN refunds[o][p] + 1 ELSE refunds[o][p]]]
        /\ UNCHANGED settled /\ worker' = [worker EXCEPT ![w] = Idle]
    BY <1>8 DEF CommitCancel, Finish
  <2>4. /\ status'[o] = "cancelled"
        /\ \A p \in Products :
             /\ item'[o][p] = IF p \in T THEN "cancelled" ELSE item[o][p]
             /\ refunds'[o][p] = IF p \in T THEN refunds[o][p] + 1 ELSE refunds[o][p]
        /\ \A q \in Orders : q # o => /\ status'[q] = status[q] /\ item'[q] = item[q]
                                      /\ refunds'[q] = refunds[q]
    BY <1>0, <2>1, <2>2, <2>3 DEF TypeOK
  <2>5. \A p \in Products :
           /\ refunds[o][p] = IF item[o][p] = "cancelled" THEN 1 ELSE 0
           /\ settled[o][p] = IF item[o][p] = "delivered" THEN 1 ELSE 0
    BY <2>1, OwnMoney, QuietFits
  <2>6. ASSUME NEW p \in Products
        PROVE  /\ refunds'[o][p] = IF item'[o][p] = "cancelled" THEN 1 ELSE 0
               /\ settled'[o][p] = IF item'[o][p] = "delivered" THEN 1 ELSE 0
    <3>1. CASE p \in T
      BY <2>2, <2>3, <2>4, <2>5, <3>1 DEF Closed
    <3>2. CASE p \notin T
      BY <2>3, <2>4, <2>5, <3>2
    <3> QED BY <3>1, <3>2
  <2>7. Fits(Idle, item'[o], refunds'[o], settled'[o])
    BY <2>6, IdleType, QuietFits
  <2>8. status'[o] # "absent" /\ \A q \in Orders : settled'[q] = settled[q]
    BY <2>3, <2>4
  <2>9. OwnStep(w, o, Idle)
    BY <2>1, <2>3, <2>4, <2>7, <2>8, IdleType DEF OwnStep
  <2> QED BY <2>1, <2>9, OwnKeeps
<1>9. ASSUME NEW w \in Workers, Settle(w) PROVE Kept
  <2> DEFINE o == worker[w].o
             T == Targets(o, worker[w].by)
  <2>1. o \in Orders /\ worker[w].at = "settle"
    BY <1>0, <1>9, BusyType DEF Settle, Split
  <2>2. \A p \in T : item[o][p] = "delivered"
    BY <2>1 DEF IInv, FindsItems, Finds
  <2>3. /\ settled' = [settled EXCEPT ![o] = [p \in Products |->
                       IF p \in T THEN settled[o][p] + 1 ELSE settled[o][p]]]
        /\ UNCHANGED <<status, item, refunds>> /\ worker' = [worker EXCEPT ![w] = Idle]
    BY <1>9 DEF Settle, Split, Finish
  <2>4. /\ \A p \in Products : settled'[o][p] = IF p \in T THEN settled[o][p] + 1 ELSE settled[o][p]
        /\ \A q \in Orders : q # o => settled'[q] = settled[q]
    BY <1>0, <2>1, <2>3 DEF TypeOK
  <2>5. \A p \in Products :
           /\ refunds[o][p] = IF item[o][p] = "cancelled" THEN 1 ELSE 0
           /\ settled[o][p] = IF item[o][p] = "delivered" /\ p \notin T THEN 1 ELSE 0
    BY <2>1, OwnMoney DEF Fits
  <2>6. ASSUME NEW p \in Products
        PROVE  /\ refunds'[o][p] = IF item'[o][p] = "cancelled" THEN 1 ELSE 0
               /\ settled'[o][p] = IF item'[o][p] = "delivered" THEN 1 ELSE 0
    <3>1. item'[o][p] = item[o][p] /\ refunds'[o][p] = refunds[o][p]
      BY <2>3
    <3>2. CASE p \in T
      BY <2>2, <2>4, <2>5, <3>1, <3>2
    <3>3. CASE p \notin T
      BY <2>4, <2>5, <3>1, <3>3
    <3> QED BY <3>2, <3>3
  <2>7. Fits(Idle, item'[o], refunds'[o], settled'[o])
    BY <2>6, IdleType, QuietFits
  <2>8. status'[o] = status[o] /\ item'[o] = item[o]
    BY <2>3
  <2>9. OwnStep(w, o, Idle)
    BY <2>1, <2>3, <2>4, <2>7, <2>8, IdleType DEF OwnStep
  <2> QED BY <2>1, <2>9, OwnKeeps
<1>10. CASE UNCHANGED <<stock, orderVars, worker, aborts>>
  BY <1>10 DEF orderVars, IInv, OneRequest, AbsentIsEmpty, NewIsAbsent, FindsItems, Finds,
               MoneyFollowsGoods, Settling
<1> QED BY <1>1, <1>2, <1>3, <1>4, <1>5, <1>6, <1>7, <1>8, <1>9, <1>10
        DEF Next, Step, StaffUpdate, ClientCancel, SetFee, vars

\* The invariant holds at the start.
LEMMA InitMoney == Init => IInv
<1> SUFFICES ASSUME Init PROVE IInv
  OBVIOUS
<1>1. TypeOK
  BY IdleType, AmountAssumption DEF Init, TypeOK, NoItems
<1>2. OneRequest /\ NewIsAbsent /\ FindsItems
  BY IdleType DEF Init, OneRequest, NewIsAbsent, FindsItems, Finds
<1>3. AbsentIsEmpty /\ MoneyFollowsGoods
  BY DEF Init, AbsentIsEmpty, MoneyFollowsGoods, NoItems
<1> QED BY <1>1, <1>2, <1>3 DEF IInv

\* As long as the requests on one order follow each other, deliveries are
\* settled, and nobody cancels or delivers over closed items, the money of
\* every item goes one way, once.
THEOREM MoneyFollowsGoodsHolds == Careful => (Spec => []MoneyFollowsGoods)
<1>1. Init => IInv
  BY InitMoney
<1>2. Careful /\ IInv /\ [Next]_vars => IInv'
  BY MoneyInductive
<1>3. IInv => MoneyFollowsGoods
  BY DEF IInv
<1>4. ASSUME Careful PROVE Spec => []MoneyFollowsGoods
  <2>1. IInv /\ [Next]_vars => IInv'
    BY <1>2, <1>4
  <2> QED BY <1>1, <1>3, <2>1, PTL DEF Spec
<1> QED BY <1>4

-----------------------------------------------------------------------------
(* The stock.  The pieces of a product are on the shelf or in the orders   *)
(* that hold an item of it: a purchase adds its order to these, a          *)
(* cancellation takes its order away, and what it saves as the stock is    *)
(* what was there plus the quantity, as nobody bought or returned a        *)
(* product of the order since the products were read.                      *)

\* An order has the items of its basket, from the moment its row exists.
HasItems ==
    \A o \in Orders, p \in Products :
        item[o][p] = "absent" <=> status[o] = "absent" \/ p \notin Basket[o]

\* Two requests share no product when one of them cancels.
BasketsApart ==
    \A v, w \in Workers :
        v # w /\ {worker[v].o, worker[w].o} \subseteq Orders
              /\ "cancelled" \in {worker[v].to, worker[w].to}
          => Basket[worker[v].o] \cap Basket[worker[w].o] = {}

\* What the request r, on an order of status s, finds when the stock is k.
FindsShelf(r, s, k) ==
    /\ r.at \in {"update", "refund", "settle"} => s # "absent"
    /\ r.at = "refund" =>
         /\ r.to = "cancelled"
         /\ \A p \in Basket[r.o] : r.stock[p] = k[p]

FindsStock == \A w \in Workers : FindsShelf(worker[w], status[worker[w].o], stock)

StockInv == HasItems /\ BasketsApart /\ FindsStock /\ StockConserved

\* The items that hold pieces of a product.
Held(i) == i \notin {"absent", "cancelled"}

\* The request of slot w becomes r, which is about the same order or none, or
\* begins apart from the others.
Proceeds(w, r) ==
    /\ worker' = [worker EXCEPT ![w] = r]
    /\ \/ r = Idle
       \/ r.o = worker[w].o /\ r.to = worker[w].to
       \/ Apart(w, r.o, r.to)

\* Then the baskets stay apart.
LEMMA ApartKept ==
    ASSUME TypeOK, Careful, BasketsApart, NEW w \in Workers, NEW r, Proceeds(w, r)
    PROVE  BasketsApart'
<1>1. \A v \in Workers : worker'[v] = IF v = w THEN r ELSE worker[v]
  BY DEF TypeOK, Proceeds
<1>2. SUFFICES ASSUME NEW v \in Workers, v # w, {worker[v].o, r.o} \subseteq Orders,
                      "cancelled" \in {worker[v].to, r.to}
               PROVE  Basket[worker[v].o] \cap Basket[r.o] = {}
  BY <1>1 DEF BasketsApart
<1>3. CASE r = Idle
  BY <1>2, <1>3, IdleType, GoodsAssumption
<1>4. CASE r.o = worker[w].o /\ r.to = worker[w].to
  BY <1>2, <1>4 DEF BasketsApart
<1>5. CASE Apart(w, r.o, r.to)
  BY <1>2, <1>5, GoodsAssumption DEF Apart, Careful
<1> QED BY <1>3, <1>4, <1>5 DEF Proceeds

\* The stock is found as it was read when nobody else who could be cancelling
\* changed it, and no order disappears.
LEMMA StockFound ==
    ASSUME TypeOK, FindsStock, NEW w \in Workers, NEW r,
           worker' = [worker EXCEPT ![w] = r],
           \A q \in Orders : status'[q] = "absent" => status[q] = "absent",
           FindsShelf(r, status'[r.o], stock'),
           \A v \in Workers \ {w} : worker[v].at = "refund" =>
             \A p \in Basket[worker[v].o] : stock'[p] = stock[p]
    PROVE  FindsStock'
<1>1. \A v \in Workers : worker'[v] = IF v = w THEN r ELSE worker[v]
  BY DEF TypeOK
<1>2. SUFFICES ASSUME NEW v \in Workers
               PROVE  FindsShelf(worker'[v], status'[worker'[v].o], stock')
  BY DEF FindsStock
<1>3. CASE v = w
  BY <1>1, <1>3
<1>4. CASE v # w
  <2>1. worker'[v] = worker[v] /\ FindsShelf(worker[v], status[worker[v].o], stock)
    BY <1>1, <1>4 DEF FindsStock
  <2>2. worker[v].at # "idle" => worker[v].o \in Orders
    BY DEF TypeOK
  <2> QED BY <1>4, <2>1, <2>2 DEF FindsShelf
<1> QED BY <1>3, <1>4

\* How many orders hold pieces of a product is a natural number.
LEMMA HoldersFinite ==
    ASSUME NEW D \in SUBSET Orders
    PROVE  IsFiniteSet(D) /\ Cardinality(D) \in Nat
  BY FiniteAssumption, FS_Subset, FS_CardinalityType

\* The orders that hold pieces of product p.
Holders(p) == {o \in Orders : Held(item[o][p])}

\* When order o gains pieces of p, loses them, or neither, and the stock
\* changes by as much, the pieces of p still add up.
LEMMA PiecesMove ==
    ASSUME TypeOK, TypeOK', StockConserved, NEW o \in Orders, NEW p \in Products,
           \A q \in Orders \ {o} : Held(item'[q][p]) <=> Held(item[q][p]),
           \/ Held(item'[o][p]) /\ ~Held(item[o][p]) /\ stock'[p] = stock[p] - Quantity[p]
           \/ ~Held(item'[o][p]) /\ Held(item[o][p]) /\ stock'[p] = stock[p] + Quantity[p]
           \/ (Held(item'[o][p]) <=> Held(item[o][p])) /\ stock'[p] = stock[p]
    PROVE  stock'[p] + Quantity[p] * Cardinality(Holders(p)') = Initial[p]
<1> DEFINE H == Holders(p)
           K == Holders(p)'
           q == Quantity[p]
<1> SUFFICES stock'[p] + q * Cardinality(K) = Initial[p]
  OBVIOUS
<1>1. IsFiniteSet(H) /\ Cardinality(H) \in Nat
  BY HoldersFinite DEF Holders
<1>2. q \in Nat /\ stock[p] \in Int /\ Initial[p] \in Int
  BY GoodsAssumption, AmountAssumption DEF TypeOK
<1>3. stock[p] + q * Cardinality(H) = Initial[p]
  BY DEF StockConserved, Holders, Held
<1>4. CASE Held(item'[o][p]) /\ ~Held(item[o][p]) /\ stock'[p] = stock[p] - q
  <2>1. K = H \cup {o} /\ o \notin H
    BY <1>4 DEF Holders
  <2>2. Cardinality(K) = Cardinality(H) + 1
    BY <1>1, <2>1, FS_AddElement
  <2>3. q * (Cardinality(H) + 1) = q * Cardinality(H) + q
    <3> HIDE DEF q, H
    <3> QED BY <1>1, <1>2
  <2>4. q * Cardinality(H) \in Int
    <3> HIDE DEF q, H
    <3> QED BY <1>1, <1>2
  <2> HIDE DEF q, H, K
  <2> QED BY <1>2, <1>3, <1>4, <2>2, <2>3, <2>4
<1>5. CASE ~Held(item'[o][p]) /\ Held(item[o][p]) /\ stock'[p] = stock[p] + q
  <2>1. K = H \ {o} /\ o \in H
    BY <1>5 DEF Holders
  <2>2. Cardinality(K) = Cardinality(H) - 1
    BY <1>1, <2>1, FS_RemoveElement
  <2>3. q * (Cardinality(H) - 1) = q * Cardinality(H) - q
    <3> HIDE DEF q, H
    <3> QED BY <1>1, <1>2
  <2>4. q * Cardinality(H) \in Int
    <3> HIDE DEF q, H
    <3> QED BY <1>1, <1>2
  <2> HIDE DEF q, H, K
  <2> QED BY <1>2, <1>3, <1>5, <2>2, <2>3, <2>4
<1>6. CASE (Held(item'[o][p]) <=> Held(item[o][p])) /\ stock'[p] = stock[p]
  <2>1. K = H
    BY <1>6 DEF Holders
  <2> QED BY <1>3, <1>6, <2>1
<1> QED BY <1>4, <1>5, <1>6

\* A step that moves no piece of any product keeps the stock.
LEMMA PiecesStay ==
    ASSUME StockConserved, UNCHANGED stock,
           \A q \in Orders, p \in Products : Held(item'[q][p]) <=> Held(item[q][p])
    PROVE  StockConserved'
<1> SUFFICES ASSUME NEW p \in Products PROVE Holders(p)' = Holders(p)
  BY DEF StockConserved, Holders, Held
<1> QED BY DEF Holders

\* A request that begins, ends or reads on, and changes no row, keeps the stock.
LEMMA QuietStock ==
    ASSUME TypeOK, Careful, StockInv, NEW w \in Workers, NEW r, Proceeds(w, r),
           FindsShelf(r, status[r.o], stock), UNCHANGED <<stock, status, item>>
    PROVE  StockInv'
<1>1. BasketsApart'
  BY ApartKept DEF StockInv
<1>2. FindsStock'
  BY StockFound DEF StockInv, Proceeds
<1>3. HasItems' /\ StockConserved'
  BY PiecesStay DEF StockInv, HasItems
<1> QED BY <1>1, <1>2, <1>3 DEF StockInv

\* The stock is conserved by every step.
LEMMA StockInductive ==
    ASSUME Careful, IInv, IInv', StockInv, [Next]_vars
    PROVE  StockInv'
<1>0. TypeOK /\ TypeOK'
  BY DEF IInv
<1>i. \A s, k : FindsShelf(Idle, s, k)
  BY IdleType DEF FindsShelf
<1>1. ASSUME NEW o \in Orders, MarkPaid(o) PROVE StockInv'
  <2>1. /\ UNCHANGED <<stock, item, worker>>
        /\ \A q \in Orders : status'[q] = "absent" <=> status[q] = "absent"
    BY <1>0, <1>1 DEF MarkPaid, TypeOK
  <2>2. HasItems'
    BY <2>1 DEF StockInv, HasItems
  <2>3. BasketsApart' /\ StockConserved'
    BY <2>1, PiecesStay DEF StockInv, BasketsApart
  <2>4. FindsStock'
    BY <1>0, <2>1 DEF StockInv, FindsStock, FindsShelf, TypeOK
  <2> QED BY <2>2, <2>3, <2>4 DEF StockInv
<1>2. ASSUME NEW w \in Workers, NEW o \in Orders, NEW how, NEW part, BeginCreate(w, o, how, part)
      PROVE  StockInv'
  <2> DEFINE r == CreateRequest(o, how, part, fee)
  <2>1. r.o = o /\ r.to = how /\ r.at = "create"
    BY DEF CreateRequest
  <2>2. worker' = [worker EXCEPT ![w] = r] /\ Apart(w, o, how) /\ UNCHANGED <<stock, status, item>>
    BY <1>2 DEF BeginCreate, orderVars
  <2> HIDE DEF r
  <2>3. Proceeds(w, r) /\ FindsShelf(r, status[r.o], stock)
    BY <2>1, <2>2 DEF Proceeds, FindsShelf
  <2> QED BY <1>0, <2>2, <2>3, QuietStock
<1>3. ASSUME NEW w \in Workers, NEW o \in Orders, NEW by, NEW to, BeginUpdate(w, o, by, to)
      PROVE  StockInv'
  <2> DEFINE r == UpdateRequest(o, by, to, item[o])
  <2>1. r.o = o /\ r.to = to /\ r.at = "update"
    BY DEF UpdateRequest
  <2>2. /\ worker' = [worker EXCEPT ![w] = r] /\ Apart(w, o, to) /\ UNCHANGED <<stock, status, item>>
        /\ status[o] # "absent"
    BY <1>3 DEF BeginUpdate, orderVars
  <2> HIDE DEF r
  <2>3. Proceeds(w, r) /\ FindsShelf(r, status[r.o], stock)
    BY <2>1, <2>2 DEF Proceeds, FindsShelf
  <2> QED BY <1>0, <2>2, <2>3, QuietStock
<1>4. ASSUME NEW w \in Workers, CommitCreate(w) PROVE StockInv'
  <2> DEFINE o == worker[w].o
  <2>1. o \in Orders /\ worker[w].at = "create" /\ worker[w].to \in {"paid", "pending"}
    BY <1>0, <1>4 DEF CommitCreate, TypeOK
  <2>2. status[o] = "absent" /\ \A p \in Products : item[o][p] = "absent"
    BY <2>1 DEF IInv, NewIsAbsent, AbsentIsEmpty
  <2>3. /\ worker' = [worker EXCEPT ![w] = Idle]
        /\ status'[o] = worker[w].to
        /\ \A q \in Orders \ {o} : status'[q] = status[q] /\ item'[q] = item[q]
        /\ \A p \in Products :
             /\ item'[o][p] = IF p \in Basket[o] THEN worker[w].to ELSE "absent"
             /\ stock'[p] = IF p \in Basket[o] THEN stock[p] - Quantity[p] ELSE stock[p]
    BY <1>0, <1>4, <2>1 DEF CommitCreate, Finish, TypeOK
  <2>4. HasItems'
    BY <2>1, <2>3 DEF StockInv, HasItems
  <2>5. BasketsApart'
    BY <1>0, <2>3, ApartKept DEF StockInv, Proceeds
  <2>6. ASSUME NEW v \in Workers \ {w}, worker[v].at = "refund", NEW p \in Basket[worker[v].o]
        PROVE  stock'[p] = stock[p]
    <3>1. worker[v].o \in Orders /\ worker[v].to = "cancelled"
      BY <1>0, <2>6 DEF TypeOK, StockInv, FindsStock, FindsShelf
    <3>2. p \in Products /\ p \notin Basket[o]
      BY <2>1, <2>6, <3>1, TargetsAreItems DEF StockInv, BasketsApart
    <3> QED BY <2>3, <3>2
  <2>7. \A q \in Orders : status'[q] = "absent" => status[q] = "absent"
    BY <2>2, <2>3
  <2>8. FindsStock'
    BY <1>0, <1>i, <2>3, <2>6, <2>7, StockFound DEF StockInv
  <2>9. StockConserved'
    <3> SUFFICES ASSUME NEW p \in Products
                 PROVE  stock'[p] + Quantity[p] * Cardinality(Holders(p)') = Initial[p]
      BY DEF StockConserved, Holders, Held
    <3>1. \/ Held(item'[o][p]) /\ ~Held(item[o][p]) /\ stock'[p] = stock[p] - Quantity[p]
          \/ (Held(item'[o][p]) <=> Held(item[o][p])) /\ stock'[p] = stock[p]
      BY <2>1, <2>2, <2>3 DEF Held
    <3>2. \A q \in Orders \ {o} : Held(item'[q][p]) <=> Held(item[q][p])
      BY <2>3
    <3> QED BY <1>0, <2>1, <3>1, <3>2, PiecesMove DEF StockInv
  <2> QED BY <2>4, <2>5, <2>8, <2>9 DEF StockInv
<1>5. ASSUME NEW w \in Workers, RefuseUpdate(w) \/ Abort(w) PROVE StockInv'
  <2>1. Proceeds(w, Idle) /\ UNCHANGED <<stock, status, item>>
    BY <1>5 DEF RefuseUpdate, Abort, orderVars, Finish, Proceeds
  <2> QED BY <1>0, <1>i, <2>1, QuietStock
<1>6. ASSUME NEW w \in Workers, CommitUpdate(w) PROVE StockInv'
  <2> DEFINE o == worker[w].o
             to == worker[w].to
             T == Targets(o, worker[w].by)
             r == IF to = "delivered" THEN [worker[w] EXCEPT !.at = "settle"] ELSE Idle
  <2>1. o \in Orders /\ worker[w].at = "update" /\ worker[w] \in Requests
        /\ to \in ItemStatus \ {"cancelled"} /\ to # "absent"
    BY <1>0, <1>6, BusyType DEF CommitUpdate, ItemStatus, OrderStatus
  <2>2. worker[w].seen = item[o] /\ status[o] # "absent" /\ T \subseteq Basket[o]
    BY <2>1, TargetsAreItems DEF IInv, FindsItems, Finds, StockInv, FindsStock, FindsShelf
  <2>3. /\ worker' = [worker EXCEPT ![w] = r] /\ UNCHANGED stock
        /\ status'[o] = to /\ item'[o] = Updated(w)
        /\ \A q \in Orders \ {o} : status'[q] = status[q] /\ item'[q] = item[q]
    BY <1>0, <1>6, <2>1 DEF CommitUpdate, TypeOK, Finish
  <2>4. \A p \in Products :
           item'[o][p] = IF p \in T /\ item[o][p] \notin Closed THEN to ELSE item[o][p]
    BY <2>2, <2>3 DEF Updated
  <2>5. \A p \in Products : item[o][p] = "absent" <=> p \notin Basket[o]
    BY <2>1, <2>2 DEF StockInv, HasItems
  <2>6. \A p \in Products : item'[o][p] = "absent" <=> p \notin Basket[o]
    BY <2>1, <2>2, <2>4, <2>5
  <2>7. HasItems'
    BY <2>1, <2>3, <2>6 DEF StockInv, HasItems
  <2>8. \A p \in Products : Held(item'[o][p]) <=> Held(item[o][p])
    BY <2>1, <2>2, <2>4, <2>5 DEF Held, Closed
  <2>9. StockConserved'
    BY <2>3, <2>8, PiecesStay DEF StockInv
  <2>10. /\ r = Idle \/ (r.o = o /\ r.to = to)
         /\ FindsShelf(r, status'[r.o], stock')
    <3>1. CASE to = "delivered"
      <4>1. r.o = o /\ r.to = to /\ r.at = "settle"
        BY <2>1, <3>1 DEF Requests
      <4> QED BY <2>1, <2>3, <4>1 DEF FindsShelf
    <3>2. CASE to # "delivered"
      BY <1>i, <3>2
    <3> QED BY <3>1, <3>2
  <2> HIDE DEF r
  <2>11. BasketsApart'
    BY <1>0, <2>3, <2>10, ApartKept DEF StockInv, Proceeds
  <2>12. \A q \in Orders : status'[q] = "absent" => status[q] = "absent"
    BY <2>1, <2>3
  <2>13. FindsStock'
    BY <1>0, <2>3, <2>10, <2>12, StockFound DEF StockInv
  <2> QED BY <2>7, <2>9, <2>11, <2>13 DEF StockInv
<1>7. ASSUME NEW w \in Workers, ReadForRefund(w) PROVE StockInv'
  <2> DEFINE r == [worker[w] EXCEPT !.at = "refund", !.seen = Updated(w), !.stock = stock]
  <2>1. /\ worker[w].o \in Orders /\ worker[w].at = "update" /\ worker[w] \in Requests
        /\ worker[w].to = "cancelled" /\ worker' = [worker EXCEPT ![w] = r]
        /\ UNCHANGED <<stock, status, item>>
    BY <1>0, <1>7, BusyType DEF ReadForRefund, orderVars
  <2>2. r.o = worker[w].o /\ r.at = "refund" /\ r.to = "cancelled" /\ r.stock = stock
    BY <2>1 DEF Requests
  <2>3. status[worker[w].o] # "absent"
    BY <2>1 DEF StockInv, FindsStock, FindsShelf
  <2> HIDE DEF r
  <2>4. Proceeds(w, r) /\ FindsShelf(r, status[r.o], stock)
    BY <2>1, <2>2, <2>3 DEF Proceeds, FindsShelf
  <2> QED BY <1>0, <2>1, <2>4, QuietStock
<1>8. ASSUME NEW w \in Workers, CommitCancel(w) PROVE StockInv'
  <2> DEFINE o == worker[w].o
             T == Targets(o, worker[w].by)
  <2>1. o \in Orders /\ worker[w].at = "refund" /\ T \subseteq Basket[o] /\ Basket[o] \subseteq Products
    BY <1>0, <1>8, BusyType, TargetsAreItems DEF CommitCancel
  <2>2. \A p \in T : worker[w].seen[p] = "cancelled" /\ item[o][p] \notin Closed
    BY <2>1 DEF IInv, FindsItems, Finds
  <2>3. /\ status[o] # "absent" /\ worker[w].to = "cancelled"
        /\ \A p \in Basket[o] : worker[w].stock[p] = stock[p] /\ item[o][p] # "absent"
    BY <2>1 DEF StockInv, FindsStock, FindsShelf, HasItems
  <2>4. /\ worker' = [worker EXCEPT ![w] = Idle]
        /\ status'[o] = "cancelled"
        /\ \A q \in Orders \ {o} : status'[q] = status[q] /\ item'[q] = item[q]
        /\ \A p \in Products :
             /\ item'[o][p] = IF p \in T THEN "cancelled" ELSE item[o][p]
             /\ stock'[p] = IF p \in T THEN stock[p] + Quantity[p] ELSE stock[p]
    <3>1. /\ item' = [item EXCEPT ![o] = [p \in Products |->
                         IF p \in T /\ worker[w].seen[p] = "cancelled" THEN "cancelled" ELSE item[o][p]]]
          /\ stock' = [p \in Products |-> IF p \in T THEN worker[w].stock[p] + Quantity[p] ELSE stock[p]]
          /\ status' = [status EXCEPT ![o] = "cancelled"]
          /\ worker' = [worker EXCEPT ![w] = Idle]
      BY <1>8 DEF CommitCancel, Restocked, Finish
    <3> QED BY <1>0, <2>1, <2>2, <2>3, <3>1 DEF TypeOK
  <2>5. HasItems'
    BY <2>1, <2>3, <2>4 DEF StockInv, HasItems
  <2>6. BasketsApart'
    BY <1>0, <2>4, ApartKept DEF StockInv, Proceeds
  <2>7. ASSUME NEW v \in Workers \ {w}, worker[v].at = "refund", NEW p \in Basket[worker[v].o]
        PROVE  stock'[p] = stock[p]
    <3>1. worker[v].o \in Orders
      BY <1>0, <2>7 DEF TypeOK
    <3>2. p \in Products /\ p \notin Basket[o]
      BY <2>1, <2>3, <2>7, <3>1, TargetsAreItems DEF StockInv, BasketsApart
    <3> QED BY <2>1, <2>4, <3>2
  <2>8. \A q \in Orders : status'[q] = "absent" => status[q] = "absent"
    BY <2>3, <2>4
  <2>9. FindsStock'
    BY <1>0, <1>i, <2>4, <2>7, <2>8, StockFound DEF StockInv
  <2>10. StockConserved'
    <3> SUFFICES ASSUME NEW p \in Products
                 PROVE  stock'[p] + Quantity[p] * Cardinality(Holders(p)') = Initial[p]
      BY DEF StockConserved, Holders, Held
    <3>1. \/ ~Held(item'[o][p]) /\ Held(item[o][p]) /\ stock'[p] = stock[p] + Quantity[p]
          \/ (Held(item'[o][p]) <=> Held(item[o][p])) /\ stock'[p] = stock[p]
      BY <2>1, <2>2, <2>3, <2>4 DEF Held, Closed
    <3>2. \A q \in Orders \ {o} : Held(item'[q][p]) <=> Held(item[q][p])
      BY <2>4
    <3> QED BY <1>0, <2>1, <3>1, <3>2, PiecesMove DEF StockInv
  <2> QED BY <2>5, <2>6, <2>9, <2>10 DEF StockInv
<1>9. ASSUME NEW w \in Workers, Settle(w) PROVE StockInv'
  <2>1. Proceeds(w, Idle) /\ UNCHANGED <<stock, status, item>>
    BY <1>9 DEF Settle, Finish, Proceeds
  <2> QED BY <1>0, <1>i, <2>1, QuietStock
<1>10. CASE UNCHANGED <<stock, orderVars, worker, aborts>>
  BY <1>10, PiecesStay DEF orderVars, StockInv, HasItems, BasketsApart, FindsStock, FindsShelf
<1> QED BY <1>1, <1>2, <1>3, <1>4, <1>5, <1>6, <1>7, <1>8, <1>9, <1>10
        DEF Next, Step, StaffUpdate, ClientCancel, SetFee, vars

\* All pieces are on the shelf at the start.
LEMMA InitStock == Init => StockInv
<1> SUFFICES ASSUME Init PROVE StockInv
  OBVIOUS
<1>1. HasItems /\ BasketsApart /\ FindsStock
  BY IdleType, GoodsAssumption DEF Init, HasItems, BasketsApart, FindsStock, FindsShelf, NoItems
<1>2. StockConserved
  <2> SUFFICES ASSUME NEW p \in Products
               PROVE  stock[p] + Quantity[p] * Cardinality(Holders(p)) = Initial[p]
    BY DEF StockConserved, Holders, Held
  <2>1. Holders(p) = {}
    BY DEF Init, NoItems, Holders, Held
  <2>2. stock[p] = Initial[p] /\ Initial[p] \in Int /\ Quantity[p] \in Nat
    BY AmountAssumption, GoodsAssumption DEF Init
  <2> QED BY <2>1, <2>2, FS_EmptySet
<1> QED BY <1>1, <1>2 DEF StockInv

\* As long as the requests on one order follow each other, no cancellation
\* overlaps a purchase of its products, and nobody cancels or delivers over
\* closed items, every piece of every product is on the shelf or in an item
\* that was not cancelled.
THEOREM StockIsConserved == Careful => (Spec => []StockConserved)
<1>1. Init => IInv
  BY InitMoney
<1>2. Init => StockInv
  BY InitStock
<1>3. ASSUME Careful PROVE Spec => []StockConserved
  <2>1. IInv /\ [Next]_vars => IInv'
    BY <1>3, MoneyInductive
  <2>2. IInv /\ IInv' /\ StockInv /\ [Next]_vars => StockInv'
    BY <1>3, StockInductive
  <2>3. StockInv => StockConserved
    BY DEF StockInv
  <2> QED BY <1>1, <1>2, <2>1, <2>2, <2>3, PTL DEF Spec
<1> QED BY <1>3

-----------------------------------------------------------------------------
(* The refunds.  What came back for an order is the price of the items     *)
(* that are cancelled, with a fee and the shipping as stored once they all *)
(* are: a cancellation adds the price of its targets, which were open, and *)
(* sees whether any other item is left.  An order of which anything is     *)
(* cancelled was paid to the paisa.                                        *)

\* Only orders that are fully paid are moved on, and nothing is for free: the
\* code returns nothing, the fee and the shipping included, when the goods that
\* are cancelled cost nothing.
Paying == Careful /\ Unpaid = FALSE /\ \A p \in Products : Price[p] > 0

AmountType == paid \in [Orders -> Nat] /\ returned \in [Orders -> Nat]

\* What the request r knows of the items i of its order, for which the fee c
\* was charged and m paid.
FindsPaid(r, i, c, m) ==
    /\ r.at = "create" => r.part <= Amount(r.o, r.fee)
    /\ r.at \in {"update", "refund"} => m >= Amount(r.o, c) /\ Targets(r.o, r.by) # {}
    /\ r.at = "refund" => \A p \in Products :
         r.seen[p] = IF p \in Targets(r.o, r.by) THEN "cancelled" ELSE i[p]

FindsPayment ==
    \A w \in Workers :
        FindsPaid(worker[w], item[worker[w].o], charged[worker[w].o], paid[worker[w].o])

\* The cancelled items.
Gone(i) == {p \in Products : i[p] = "cancelled"}

\* What comes back for the order o when the items S of it are cancelled, the
\* last of them at fee f.
Rest(o, S, f) == IF S = Basket[o] THEN StoredShipping(o) + f ELSE 0
Due(o, S, f)  == Goods(S) + Rest(o, S, f)

\* What was charged, paid and returned for the order o fits its items i.
Matches(o, i, c, m, b) ==
    /\ m <= Amount(o, c)
    /\ Gone(i) # {} => m = Amount(o, c)
    /\ \E f \in Fees : b = Due(o, Gone(i), f)

AllMatch == \A o \in Orders : Matches(o, item[o], charged[o], paid[o], returned[o])

RefundInv == AmountType /\ FindsPayment /\ AllMatch

\* The price of goods is a natural number, and it adds up.
LEMMA GoodsType ==
    ASSUME NEW S \in SUBSET Products
    PROVE  /\ IsFiniteSet(S) /\ \A p \in S : Cost[p] \in Nat
           /\ Goods(S) \in Nat
<1>1. IsFiniteSet(S) /\ \A p \in S : Cost[p] \in Nat
  <2>1. \A a, b \in Nat : a * b \in Nat
    OBVIOUS
  <2> QED BY <2>1, FiniteAssumption, GoodsAssumption, AmountAssumption, FS_Subset DEF Cost
<1> QED BY <1>1, SumNat DEF Goods

\* The dearest charge among some products, or 0, is a natural number.
LEMMA DearestType ==
    ASSUME NEW S \in SUBSET Products
    PROVE  Max({Charge[p] : p \in S} \cup {0}) \in Nat
<1> DEFINE C == {Charge[p] : p \in S} \cup {0}
<1>0. IsFiniteSet(S) /\ \A p \in S : Charge[p] \in Nat
  BY FiniteAssumption, AmountAssumption, FS_Subset
<1>1. \E x \in C : \A y \in C : x >= y
  <2>1. CASE S = {}
    BY <2>1
  <2>2. CASE S # {}
    <3>1. PICK q \in S : \A p \in S : Charge[p] <= Charge[q]
      BY <1>0, <2>2, LargestExists
    <3> QED BY <1>0, <3>1
  <2> QED BY <2>1, <2>2
<1>2. Max(C) \in C
  <2> HIDE DEF C
  <2> QED BY <1>1 DEF Max
<1> QED BY <1>0, <1>2

\* The amounts of an order are natural numbers.
LEMMA TotalType ==
    ASSUME NEW o \in Orders
    PROVE  /\ Shipping(o) \in Nat /\ StoredShipping(o) \in Nat
           /\ \A f \in Nat : Amount(o, f) \in Nat
<1>1. \A m \in Merchants : Freight(o)[m] \in Nat
  <2> SUFFICES ASSUME NEW m \in Merchants
               PROVE  Max({Charge[p] : p \in {q \in Basket[o] : MerchantOf[q] = m}} \cup {0}) \in Nat
    BY DEF Freight
  <2>1. {q \in Basket[o] : MerchantOf[q] = m} \in SUBSET Products
    BY GoodsAssumption
  <2> QED BY <2>1, DearestType
<1>2. Shipping(o) \in Nat
  BY <1>1, FiniteAssumption, SumNat DEF Shipping
<1>3. Goods(Basket[o]) \in Nat
  BY GoodsType, GoodsAssumption
<1>4. \A x \in Nat : Rounded(x) \in Nat
  <2>1. \A x \in Nat : (x + 50) \div 100 \in Nat
    OBVIOUS
  <2>2. \A x \in Nat : x * 100 \in Nat
    OBVIOUS
  <2> QED BY <2>1, <2>2 DEF Rounded, Rupee
<1> QED BY <1>2, <1>3, <1>4 DEF Amount, StoredShipping

\* The price of some items of an order is at most what it costs.
LEMMA GoodsFit ==
    ASSUME NEW o \in Orders, NEW S \in SUBSET Basket[o], NEW c \in Nat
    PROVE  Goods(S) \in Nat /\ Goods(S) <= Amount(o, c)
<1>1. Basket[o] \in SUBSET Products /\ S \in SUBSET Products
  BY GoodsAssumption
<1>2. /\ IsFiniteSet(Basket[o]) /\ \A p \in Basket[o] : Cost[p] \in Nat
      /\ Goods(Basket[o]) \in Nat /\ Goods(S) \in Nat
  BY <1>1, GoodsType
<1>3. Goods(S) <= Goods(Basket[o])
  BY <1>2, SumPart DEF Goods
<1> QED BY <1>2, <1>3, TotalType DEF Amount

\* Nothing is due for an order of which nothing is cancelled.
LEMMA NothingDue ==
    ASSUME NEW o \in Orders, NEW f
    PROVE  Due(o, {}, f) = 0
<1>1. Basket[o] # {}
  BY GoodsAssumption
<1> QED BY <1>1, SumEmpty DEF Due, Rest, Goods

\* Goods that are not for free cost something.
LEMMA GoodsCost ==
    ASSUME Paying, NEW S \in SUBSET Products, S # {}
    PROVE  Goods(S) > 0
<1>1. PICK p \in S : TRUE
  OBVIOUS
<1>2. Goods(S) = Cost[p] + Goods(S \ {p})
  BY GoodsType, SumTakeOut DEF Goods
<1>3. Goods(S \ {p}) \in Nat
  BY GoodsType
<1>4. Cost[p] > 0 /\ Cost[p] \in Nat
  <2>1. Price[p] \in Nat /\ Quantity[p] \in Nat /\ Price[p] > 0 /\ Quantity[p] > 0
    BY GoodsAssumption, AmountAssumption DEF Paying
  <2>2. \A a, b \in Nat : a > 0 /\ b > 0 => a * b > 0
    OBVIOUS
  <2> QED BY <2>1, <2>2, GoodsType DEF Cost
<1> QED BY <1>2, <1>3, <1>4

\* What a cancellation of the items T gives back at fee f, when D were cancelled
\* before, makes up what is due.
LEMMA DueGrows ==
    ASSUME NEW o \in Orders, NEW D \in SUBSET Basket[o], NEW T \in SUBSET Basket[o],
           D \cap T = {}, T # {}, NEW e \in Nat, NEW f \in Nat
    PROVE  /\ Due(o, D \cup T, f)
                = Due(o, D, e) + (Goods(T) + Rest(o, D \cup T, f))
           /\ Due(o, D \cup T, f) \in Nat
<1>1. D \in SUBSET Products /\ T \in SUBSET Products /\ D # Basket[o]
  BY GoodsAssumption
<1>2. IsFiniteSet(D) /\ IsFiniteSet(T) /\ \A p \in D \cup T : Cost[p] \in Int
  BY <1>1, GoodsType
<1>3. Goods(D \cup T) = Goods(D) + Goods(T)
  BY <1>2, SumDisjoint DEF Goods
<1>4. Goods(D) \in Nat /\ Goods(T) \in Nat /\ StoredShipping(o) \in Nat
  BY <1>1, GoodsType, TotalType
<1> QED BY <1>1, <1>3, <1>4 DEF Due, Rest

\* Such orders have what the property says.
LEMMA MatchesIsRefunded ==
    ASSUME AmountType, AllMatch, TypeOK, HasItems
    PROVE  RefundsMatchPayment
<1> SUFFICES ASSUME NEW o \in Orders
             PROVE  IF Cancelled(o) = Basket[o]
                    THEN \E f \in Fees : returned[o] - paid[o]
                                = (f - charged[o]) + (StoredShipping(o) - Shipping(o))
                    ELSE returned[o] = Goods(Cancelled(o)) /\ returned[o] <= paid[o]
  BY DEF RefundsMatchPayment
<1>1. PICK f \in Fees : returned[o] = Due(o, Cancelled(o), f)
  BY DEF AllMatch, Matches, Gone, Cancelled
<1>2. /\ f \in Nat /\ charged[o] \in Nat /\ paid[o] \in Nat
      /\ Shipping(o) \in Nat /\ StoredShipping(o) \in Nat
  BY AmountAssumption, TotalType DEF TypeOK, AmountType
<1>3. Cancelled(o) \in SUBSET Basket[o] /\ Basket[o] \in SUBSET Products /\ Basket[o] # {}
  BY GoodsAssumption DEF HasItems, Cancelled
<1>4. Cancelled(o) # {} => paid[o] = Amount(o, charged[o])
  BY DEF AllMatch, Matches, Gone, Cancelled
<1>5. CASE Cancelled(o) = Basket[o]
  <2>1. paid[o] = Goods(Basket[o]) + Shipping(o) + charged[o]
    BY <1>3, <1>4, <1>5 DEF Amount
  <2>2. returned[o] = Goods(Basket[o]) + (StoredShipping(o) + f)
    BY <1>1, <1>5 DEF Due, Rest
  <2>3. Goods(Basket[o]) \in Nat
    BY <1>3, GoodsType
  <2>4. returned[o] - paid[o] = (f - charged[o]) + (StoredShipping(o) - Shipping(o))
    BY <1>2, <2>1, <2>2, <2>3
  <2> QED BY <1>5, <2>4
<1>6. CASE Cancelled(o) # Basket[o]
  <2>1. Goods(Cancelled(o)) \in Nat /\ Goods(Cancelled(o)) <= Amount(o, charged[o])
    BY <1>2, <1>3, GoodsFit
  <2>2. returned[o] = Goods(Cancelled(o))
    BY <1>1, <1>6, <2>1 DEF Due, Rest
  <2>3. Cancelled(o) = {} => Goods(Cancelled(o)) = 0
    BY SumEmpty DEF Goods
  <2> QED BY <1>2, <1>4, <1>6, <2>1, <2>2, <2>3
<1> QED BY <1>5, <1>6

\* A request that begins, ends or reads on, and changes no item and no amount.
LEMMA QuietRefund ==
    ASSUME TypeOK, RefundInv, NEW w \in Workers, NEW r,
           worker' = [worker EXCEPT ![w] = r],
           FindsPaid(r, item[r.o], charged[r.o], paid[r.o]),
           UNCHANGED <<item, charged, paid, returned>>
    PROVE  RefundInv'
<1>1. \A v \in Workers : worker'[v] = IF v = w THEN r ELSE worker[v]
  BY DEF TypeOK
<1>2. FindsPayment'
  BY <1>1 DEF RefundInv, FindsPayment
<1>3. AmountType' /\ AllMatch'
  BY DEF RefundInv, AmountType, AllMatch
<1> QED BY <1>2, <1>3 DEF RefundInv

\* The request of slot w ends, or goes on to settle, after a change of the
\* items and the amounts of its own order only, which still match.
LEMMA OwnRefund ==
    ASSUME IInv, RefundInv, NEW w \in Workers, NEW o \in Orders, NEW r, worker[w].o = o,
           worker' = [worker EXCEPT ![w] = r], r.at \in {"idle", "settle"},
           AmountType',
           \A q \in Orders \ {o} : /\ item'[q] = item[q] /\ charged'[q] = charged[q]
                                  /\ paid'[q] = paid[q] /\ returned'[q] = returned[q],
           Matches(o, item'[o], charged'[o], paid'[o], returned'[o])
    PROVE  RefundInv'
<1>1. \A v \in Workers : worker'[v] = IF v = w THEN r ELSE worker[v]
  BY DEF IInv, TypeOK
<1>2. FindsPayment'
  <2> SUFFICES ASSUME NEW v \in Workers
               PROVE  FindsPaid(worker'[v], item'[worker'[v].o], charged'[worker'[v].o],
                                paid'[worker'[v].o])
    BY DEF FindsPayment
  <2>1. CASE v = w
    BY <1>1, <2>1 DEF FindsPaid
  <2>2. CASE v # w /\ worker[v].at = "idle"
    BY <1>1, <2>2 DEF FindsPaid
  <2>3. CASE v # w /\ worker[v].at # "idle"
    <3>1. worker[v].o \in Orders \ {o}
      BY <2>3, GoodsAssumption DEF IInv, TypeOK, OneRequest
    <3> QED BY <1>1, <2>3, <3>1 DEF RefundInv, FindsPayment
  <2> QED BY <2>1, <2>2, <2>3
<1>3. AllMatch'
  <2> SUFFICES ASSUME NEW q \in Orders
               PROVE  Matches(q, item'[q], charged'[q], paid'[q], returned'[q])
    BY DEF AllMatch
  <2>1. Matches(q, item[q], charged[q], paid[q], returned[q])
    BY DEF RefundInv, AllMatch
  <2> QED BY <2>1
<1> QED BY <1>2, <1>3 DEF RefundInv

\* The refunds match the payments after every step.
LEMMA RefundInductive ==
    ASSUME Paying, IInv, IInv', StockInv, RefundInv, [Next]_vars
    PROVE  RefundInv'
<1>0. TypeOK /\ TypeOK' /\ AmountType /\ fee \in Fees /\ fee \in Nat
  BY AmountAssumption DEF IInv, RefundInv, TypeOK
<1>m. \A q \in Orders : /\ Matches(q, item[q], charged[q], paid[q], returned[q])
                        /\ returned[q] \in Nat /\ paid[q] \in Nat /\ charged[q] \in Nat
                        /\ Amount(q, charged[q]) \in Nat
  BY <1>0, TotalType DEF RefundInv, AllMatch, AmountType, TypeOK
<1>i. \A i, c, m : FindsPaid(Idle, i, c, m)
  BY IdleType DEF FindsPaid
<1>1. ASSUME NEW o \in Orders, MarkPaid(o) PROVE RefundInv'
  <2>1. /\ UNCHANGED <<item, charged, returned, worker>> /\ paid[o] < Amount(o, charged[o])
        /\ paid' = [paid EXCEPT ![o] = Amount(o, charged[o])]
    BY <1>1 DEF MarkPaid, Total
  <2>2. AmountType' /\ \A q \in Orders : paid'[q] >= paid[q] /\ paid'[q] \in Nat
    BY <1>0, <1>m, <2>1 DEF AmountType
  <2>3. FindsPayment'
    <3> SUFFICES ASSUME NEW w \in Workers
                 PROVE  FindsPaid(worker[w], item[worker[w].o], charged[worker[w].o],
                                  paid'[worker[w].o])
      BY <2>1 DEF FindsPayment
    <3>1. FindsPaid(worker[w], item[worker[w].o], charged[worker[w].o], paid[worker[w].o])
      BY DEF RefundInv, FindsPayment
    <3>2. CASE worker[w].at \in {"update", "refund"}
      <4>1. worker[w].o \in Orders
        BY <1>0, <3>2, BusyType
      <4>2. paid'[worker[w].o] >= Amount(worker[w].o, charged[worker[w].o])
        BY <1>m, <2>2, <3>1, <3>2, <4>1 DEF FindsPaid
      <4> QED BY <3>1, <3>2, <4>2 DEF FindsPaid
    <3>3. CASE worker[w].at \notin {"update", "refund"}
      BY <3>1, <3>3 DEF FindsPaid
    <3> QED BY <3>2, <3>3
  <2>4. AllMatch'
    <3> SUFFICES ASSUME NEW q \in Orders
                 PROVE  Matches(q, item[q], charged[q], paid'[q], returned[q])
      BY <2>1 DEF AllMatch
    <3>1. paid'[q] = IF q = o THEN Amount(o, charged[o]) ELSE paid[q]
      BY <1>0, <2>1 DEF AmountType
    <3> QED BY <1>m, <3>1 DEF Matches
  <2> QED BY <2>2, <2>3, <2>4 DEF RefundInv
<1>2. ASSUME NEW w \in Workers, NEW o \in Orders, NEW how, NEW part, BeginCreate(w, o, how, part)
      PROVE  RefundInv'
  <2> DEFINE r == CreateRequest(o, how, part, fee)
  <2>1. part <= Amount(o, fee)
    BY <1>2 DEF BeginCreate
  <2>2. FindsPaid(r, item[r.o], charged[r.o], paid[r.o])
    BY <2>1 DEF CreateRequest, FindsPaid
  <2>3. worker' = [worker EXCEPT ![w] = r] /\ UNCHANGED <<item, charged, paid, returned>>
    BY <1>2 DEF BeginCreate, orderVars
  <2> HIDE DEF r
  <2> QED BY <1>0, <2>2, <2>3, QuietRefund
<1>3. ASSUME NEW w \in Workers, NEW o \in Orders, NEW by, NEW to, BeginUpdate(w, o, by, to)
      PROVE  RefundInv'
  <2> DEFINE r == UpdateRequest(o, by, to, item[o])
  <2>1. r.o = o /\ r.by = by /\ r.at = "update"
    BY DEF UpdateRequest
  <2>2. /\ worker' = [worker EXCEPT ![w] = r] /\ UNCHANGED <<item, charged, paid, returned>>
        /\ Targets(o, by) # {} /\ paid[o] >= Amount(o, charged[o])
    BY <1>3 DEF BeginUpdate, orderVars, Allowed, Paying, Total
  <2> HIDE DEF r
  <2>3. FindsPaid(r, item[r.o], charged[r.o], paid[r.o])
    BY <2>1, <2>2 DEF FindsPaid
  <2> QED BY <1>0, <2>2, <2>3, QuietRefund
<1>4. ASSUME NEW w \in Workers, CommitCreate(w) PROVE RefundInv'
  <2> DEFINE o == worker[w].o
             f == worker[w].fee
             m == IF worker[w].to = "paid" THEN Amount(o, f) ELSE worker[w].part
  <2>1. /\ o \in Orders /\ worker[w].at = "create" /\ worker[w].to \in {"paid", "pending"}
        /\ worker[w].part \in Nat /\ f \in Nat
    BY <1>0, <1>4 DEF CommitCreate, TypeOK, Requests
  <2>2. status[o] = "absent" /\ \A p \in Products : item[o][p] = "absent"
    BY <2>1 DEF IInv, NewIsAbsent, AbsentIsEmpty
  <2>3. m \in Nat /\ m <= Amount(o, f)
    <3>1. Amount(o, f) \in Nat
      BY <2>1, TotalType
    <3>2. worker[w].part <= Amount(o, f)
      BY <2>1 DEF RefundInv, FindsPayment, FindsPaid
    <3> QED BY <2>1, <3>1, <3>2
  <2>4. /\ worker' = [worker EXCEPT ![w] = Idle] /\ UNCHANGED returned
        /\ paid' = [paid EXCEPT ![o] = m] /\ charged' = [charged EXCEPT ![o] = f]
        /\ \A q \in Orders \ {o} : item'[q] = item[q]
        /\ \A p \in Products : item'[o][p] # "cancelled"
    BY <1>0, <1>4, <2>1 DEF CommitCreate, Finish, TypeOK
  <2> HIDE DEF m, f
  <2>5. /\ AmountType' /\ paid'[o] = m /\ charged'[o] = f
        /\ \A q \in Orders \ {o} : paid'[q] = paid[q] /\ charged'[q] = charged[q]
    BY <1>0, <2>1, <2>3, <2>4 DEF AmountType, TypeOK
  <2>6. Gone(item[o]) = {} /\ Gone(item'[o]) = {}
    BY <2>1, <2>2, <2>4 DEF Gone
  <2>7. returned[o] = 0 /\ Due(o, {}, fee) = 0
    BY <1>m, <2>1, <2>6, NothingDue DEF Matches
  <2>8. Matches(o, item'[o], charged'[o], paid'[o], returned'[o])
    BY <1>0, <2>1, <2>3, <2>4, <2>5, <2>6, <2>7 DEF Matches
  <2> QED BY <2>1, <2>4, <2>5, <2>8, IdleType, OwnRefund
<1>5. ASSUME NEW w \in Workers, RefuseUpdate(w) \/ Abort(w) PROVE RefundInv'
  BY <1>0, <1>5, <1>i, QuietRefund DEF RefuseUpdate, Abort, orderVars, Finish
<1>6. ASSUME NEW w \in Workers, CommitUpdate(w) PROVE RefundInv'
  <2> DEFINE o == worker[w].o
             to == worker[w].to
             T == Targets(o, worker[w].by)
             r == IF to = "delivered" THEN [worker[w] EXCEPT !.at = "settle"] ELSE Idle
  <2>1. o \in Orders /\ worker[w].at = "update" /\ worker[w] \in Requests /\ to # "cancelled"
    BY <1>0, <1>6, BusyType DEF CommitUpdate
  <2>2. worker[w].seen = item[o]
    BY <2>1 DEF IInv, FindsItems, Finds
  <2>3. /\ worker' = [worker EXCEPT ![w] = r] /\ UNCHANGED <<charged, paid, returned>>
        /\ item'[o] = Updated(w)
        /\ \A q \in Orders \ {o} : item'[q] = item[q]
    BY <1>0, <1>6, <2>1 DEF CommitUpdate, TypeOK, Finish
  <2>4. \A p \in Products :
           item'[o][p] = IF p \in T /\ item[o][p] \notin Closed THEN to ELSE item[o][p]
    BY <2>2, <2>3 DEF Updated
  <2>5. Gone(item'[o]) = Gone(item[o])
    BY <2>1, <2>4 DEF Gone, Closed
  <2>6. r.at \in {"idle", "settle"}
    BY <2>1, IdleType DEF Requests
  <2> HIDE DEF r
  <2>7. AmountType'
    BY <1>0, <2>3 DEF AmountType
  <2>8. Matches(o, item'[o], charged'[o], paid'[o], returned'[o])
    BY <1>m, <2>1, <2>3, <2>5 DEF Matches
  <2> QED BY <2>1, <2>3, <2>6, <2>7, <2>8, OwnRefund
<1>7. ASSUME NEW w \in Workers, ReadForRefund(w) PROVE RefundInv'
  <2> DEFINE o == worker[w].o
             T == Targets(o, worker[w].by)
             r == [worker[w] EXCEPT !.at = "refund", !.seen = Updated(w), !.stock = stock]
  <2>1. /\ o \in Orders /\ worker[w].at = "update" /\ worker[w] \in Requests
        /\ worker[w].to = "cancelled" /\ worker' = [worker EXCEPT ![w] = r]
        /\ UNCHANGED <<item, charged, paid, returned>>
    BY <1>0, <1>7, BusyType DEF ReadForRefund, orderVars
  <2>2. r.o = o /\ r.at = "refund" /\ r.by = worker[w].by /\ r.seen = Updated(w)
    BY <2>1 DEF Requests
  <2>3. worker[w].seen = item[o] /\ \A p \in T : item[o][p] \notin Closed
    BY <2>1 DEF IInv, FindsItems, Finds, Closed
  <2>4. \A p \in Products : Updated(w)[p] = IF p \in T THEN "cancelled" ELSE item[o][p]
    BY <2>1, <2>3 DEF Updated
  <2>5. paid[o] >= Amount(o, charged[o]) /\ T # {}
    BY <2>1 DEF RefundInv, FindsPayment, FindsPaid
  <2> HIDE DEF r
  <2>6. FindsPaid(r, item[r.o], charged[r.o], paid[r.o])
    BY <2>2, <2>4, <2>5 DEF FindsPaid
  <2> QED BY <1>0, <2>1, <2>6, QuietRefund
<1>8. ASSUME NEW w \in Workers, CommitCancel(w) PROVE RefundInv'
  <2> DEFINE o == worker[w].o
             T == Targets(o, worker[w].by)
             D == Gone(item[o])
             back == Goods(T) + Extras(o, worker[w].seen)
  <2>1. o \in Orders /\ worker[w].at = "refund" /\ T \in SUBSET Basket[o] /\ Basket[o] \subseteq Products
    BY <1>0, <1>8, BusyType, TargetsAreItems DEF CommitCancel
  <2>2. /\ \A p \in T : worker[w].seen[p] = "cancelled" /\ item[o][p] \notin Closed
        /\ \A p \in Products : worker[w].seen[p] = IF p \in T THEN "cancelled" ELSE item[o][p]
        /\ paid[o] >= Amount(o, charged[o]) /\ T # {}
    BY <2>1 DEF IInv, FindsItems, Finds, RefundInv, FindsPayment, FindsPaid
  <2>3. D \in SUBSET Basket[o] /\ D \cap T = {}
    BY <2>1, <2>2 DEF Gone, StockInv, HasItems, Closed
  <2>4. Goods(T) > 0
    BY <2>1, <2>2, GoodsCost
  <2>5. /\ worker' = [worker EXCEPT ![w] = Idle] /\ UNCHANGED <<charged, paid>>
        /\ returned' = [returned EXCEPT ![o] = returned[o] + back]
        /\ \A q \in Orders \ {o} : item'[q] = item[q]
        /\ \A p \in Products : item'[o][p] = IF p \in T THEN "cancelled" ELSE item[o][p]
    <3>1. /\ item' = [item EXCEPT ![o] = [p \in Products |->
                         IF p \in T /\ worker[w].seen[p] = "cancelled" THEN "cancelled" ELSE item[o][p]]]
          /\ returned' = IF Goods(T) > 0 THEN Credited(o, back) ELSE returned
          /\ worker' = [worker EXCEPT ![w] = Idle] /\ UNCHANGED <<charged, paid>>
      BY <1>8 DEF CommitCancel, Finish
    <3> QED BY <1>0, <2>1, <2>2, <2>4, <3>1 DEF TypeOK, Credited
  <2>6. Gone(item'[o]) = D \cup T
    BY <2>1, <2>5 DEF Gone
  <2>7. Extras(o, worker[w].seen) = Rest(o, D \cup T, fee)
    <3>1. (\A p \in Basket[o] : worker[w].seen[p] = "cancelled") <=> D \cup T = Basket[o]
      BY <2>1, <2>2, <2>3 DEF Gone
    <3> QED BY <3>1 DEF Extras, Rest
  <2>8. returned[o] + back = Due(o, D \cup T, fee) /\ Due(o, D \cup T, fee) \in Nat
    <3>1. PICK e \in Fees : returned[o] = Due(o, D, e)
      BY <1>m, <2>1 DEF Matches
    <3>2. e \in Nat
      BY AmountAssumption
    <3>3. back = Goods(T) + Rest(o, D \cup T, fee)
      BY <2>7
    <3>4. /\ o \in Orders /\ D \in SUBSET Basket[o] /\ T \in SUBSET Basket[o]
          /\ D \cap T = {} /\ T # {} /\ e \in Nat /\ fee \in Nat
      BY <1>0, <2>1, <2>2, <2>3, <3>2
    <3> HIDE DEF o, D, T, back
    <3>5. /\ Due(o, D \cup T, fee)
               = Due(o, D, e) + (Goods(T) + Rest(o, D \cup T, fee))
          /\ Due(o, D \cup T, fee) \in Nat
      BY <3>4, DueGrows
    <3> QED BY <3>1, <3>3, <3>5
  <2>9. paid[o] = Amount(o, charged[o])
    BY <1>m, <2>1, <2>2 DEF Matches
  <2> HIDE DEF D, T, back
  <2>10. AmountType' /\ returned'[o] = Due(o, D \cup T, fee)
         /\ \A q \in Orders \ {o} : returned'[q] = returned[q]
    BY <1>0, <2>1, <2>5, <2>8 DEF AmountType
  <2>11. Matches(o, item'[o], charged'[o], paid'[o], returned'[o])
    BY <1>0, <1>m, <2>1, <2>5, <2>6, <2>9, <2>10 DEF Matches
  <2> QED BY <2>1, <2>5, <2>10, <2>11, IdleType, OwnRefund
<1>9. ASSUME NEW w \in Workers, Settle(w) PROVE RefundInv'
  BY <1>0, <1>9, <1>i, QuietRefund DEF Settle, Finish
<1>10. CASE UNCHANGED <<stock, orderVars, worker, aborts>>
  <2>1. UNCHANGED <<item, charged, paid, returned, worker>>
    BY <1>10 DEF orderVars
  <2> QED BY <2>1 DEF RefundInv, AmountType, FindsPayment, AllMatch
<1> QED BY <1>1, <1>2, <1>3, <1>4, <1>5, <1>6, <1>7, <1>8, <1>9, <1>10
        DEF Next, Step, StaffUpdate, ClientCancel, SetFee, vars

\* As long as, besides, only paid orders are moved on and nothing is for free,
\* what came back for an order is the price of exactly what was cancelled; for
\* one that is cancelled as a whole it differs from what was paid by what the
\* fee has changed since, and by the rounding of the shipping, and nothing else.
THEOREM RefundsMatchPaymentHolds == Paying => (Spec => []RefundsMatchPayment)
<1>1. Init => IInv /\ StockInv
  BY InitMoney, InitStock
<1>2. Init => RefundInv
  <2> SUFFICES ASSUME Init PROVE RefundInv
    OBVIOUS
  <2>1. AmountType /\ FindsPayment
    BY IdleType DEF Init, AmountType, FindsPayment, FindsPaid
  <2>2. ASSUME NEW o \in Orders PROVE Matches(o, item[o], charged[o], paid[o], returned[o])
    <3>1. Gone(item[o]) = {} /\ returned[o] = 0 /\ paid[o] = 0 /\ charged[o] = 0 /\ fee \in Fees
      BY DEF Init, NoItems, Gone
    <3>2. Amount(o, 0) \in Nat /\ Due(o, {}, fee) = 0
      BY TotalType, NothingDue
    <3> QED BY <3>1, <3>2 DEF Matches
  <2> QED BY <2>1, <2>2 DEF RefundInv, AllMatch
<1>3. ASSUME Paying PROVE Spec => []RefundsMatchPayment
  <2>1. IInv /\ [Next]_vars => IInv'
    BY <1>3, MoneyInductive DEF Paying
  <2>2. IInv /\ IInv' /\ StockInv /\ [Next]_vars => StockInv'
    BY <1>3, StockInductive DEF Paying
  <2>3. IInv /\ IInv' /\ StockInv /\ RefundInv /\ [Next]_vars => RefundInv'
    BY <1>3, RefundInductive
  <2>4. IInv /\ StockInv /\ RefundInv => RefundsMatchPayment
    BY MatchesIsRefunded DEF IInv, StockInv, RefundInv
  <2> QED BY <1>1, <1>2, <2>1, <2>2, <2>3, <2>4, PTL DEF Spec
<1> QED BY <1>3
=============================================================================
