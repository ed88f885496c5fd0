--------------------------- MODULE PaymentCapture ---------------------------
(***************************************************************************)
(* A wallet recharge paid through the payment gateway.  Three handlers     *)
(* turn the same captured payment into a credit and nothing orders them:   *)
(*   webhook   HandleWebhookUseCase, called by the gateway, any number of  *)
(*             times;                                                      *)
(*   verify    VerifyPaymentUseCase, called by the checkout page;          *)
(*   recharge  VerifyWalletRechargeUseCase, called by the wallet page.     *)
(* Each runs one Postgres transaction at READ COMMITTED over the           *)
(* gateway_transactions row and the legacy payment_orders row of the       *)
(* gateway order, and then the client's wallet.  webhook and verify read   *)
(* the two rows FOR UPDATE; recharge reads them plainly, so only its       *)
(* UPDATEs wait.  A row version is visible to the others at COMMIT, which  *)
(* is the last step of each handler.                                       *)
(***************************************************************************)
EXTENDS Integers, FiniteSets, Functions

CONSTANTS
    Orders,      \* gateway order ids
    OldOrders,   \* those placed before gateway_transactions was introduced
    Workers,     \* handler slots: how many handlers may overlap
    NoOne,       \* not a worker, not an order
    Amount,      \* total_credit of each order
    MaxAborts,   \* bound: transactions that crash or roll back
    MaxDeclines  \* bound: payment.failed events delivered

ASSUME AmountAssumption == Amount \in [Orders -> Nat \ {0}]
ASSUME OrdersAssumption == IsFiniteSet(Orders)
ASSUME OldOrdersAssumption == OldOrders \subseteq Orders
ASSUME NoOneAssumption == NoOne \notin Workers \cup Orders
ASSUME BoundAssumption == MaxAborts \in Nat /\ MaxDeclines \in Nat

VARIABLES
    gateway,    \* gateway_transactions.status, "none" without a row
    legacy,     \* payment_orders.status, "none" without a row
    credits,    \* client_wallet_recharges rows of each order
    balance,    \* client_wallets.balance, without what was there before
    captured,   \* orders the client has paid at the gateway
    gLock,      \* worker whose transaction holds the gateway row
    lLock,      \* worker whose transaction holds the legacy row
    wLock,      \* worker whose transaction holds the wallet row
    worker,     \* the handler running in each slot
    aborts,     \* transactions rolled back so far
    declines    \* payment.failed events so far

tables == <<gateway, legacy, credits, balance>>
locks  == <<gLock, lLock, wLock>>
vars   == <<tables, captured, locks, worker, aborts, declines>>

-----------------------------------------------------------------------------
GatewayStatuses == {"none", "PENDING", "SUCCESS", "FAILED"}
LegacyStatuses  == {"none", "PENDING", "SUCCESS"}
Kinds           == {"webhook", "verify", "recharge"}

\* The statement a handler executes next.
Steps == {"idle", "gateway", "legacy", "markGateway", "markLegacy", "wallet", "fulfil"}

\* Handlers that read the payment rows FOR UPDATE.
Locked(w) == worker[w].kind \in {"webhook", "verify"}

Handler(kind, at, o) ==
    [kind |-> kind, at |-> at, o |-> o, seenG |-> "none", seenL |-> "none", bal |-> 0]

Idle == Handler("webhook", "idle", NoOne)

At(w, at) == worker[w].at = at

\* The handlers past the idempotency check.
Checked(w) == worker[w].at \in {"markGateway", "markLegacy", "wallet", "fulfil"}

Goto(w, at) == worker' = [worker EXCEPT ![w].at = at]

\* A row that w may lock now: free, or its own already.
Free(lock, w) == lock \in {NoOne, w}

Drop(lock, w) == [o \in Orders |-> IF lock[o] = w THEN NoOne ELSE lock[o]]

\* COMMIT or ROLLBACK ends the handler and frees its rows.
Finish(w) ==
    /\ worker' = [worker EXCEPT ![w] = Idle]
    /\ gLock' = Drop(gLock, w)
    /\ lLock' = Drop(lLock, w)
    /\ wLock' = IF wLock = w THEN NoOne ELSE wLock

\* Old orders have a legacy row only; the three handlers create the missing
\* row on the way.
Init ==
    /\ legacy = [o \in Orders |-> IF o \in OldOrders THEN "PENDING" ELSE "none"]
    /\ gateway = [o \in Orders |-> "none"]
    /\ credits = [o \in Orders |-> 0]
    /\ balance = 0
    /\ captured = {}
    /\ gLock = [o \in Orders |-> NoOne]
    /\ lLock = [o \in Orders |-> NoOne]
    /\ wLock = NoOne
    /\ worker = [w \in Workers |-> Idle]
    /\ aborts = 0
    /\ declines = 0

-----------------------------------------------------------------------------
(* The order and the gateway.                                              *)

\* The gateway order is created first and both rows in one transaction after.
Initiate(o) ==
    /\ legacy[o] = "none"
    /\ legacy' = [legacy EXCEPT ![o] = "PENDING"]
    /\ gateway' = [gateway EXCEPT ![o] = "PENDING"]
    /\ UNCHANGED <<credits, balance, captured, locks, worker, aborts, declines>>

Capture(o) ==
    /\ legacy[o] # "none"
    /\ o \notin captured
    /\ captured' = captured \cup {o}
    /\ UNCHANGED <<tables, locks, worker, aborts, declines>>

\* payment.failed of an earlier attempt on the same order, delivered whenever:
\* one UPDATE with no condition on the status.
Declined(o) ==
    /\ declines < MaxDeclines
    /\ gateway[o] # "none"
    /\ gLock[o] = NoOne
    /\ gateway' = [gateway EXCEPT ![o] = "FAILED"]
    /\ declines' = declines + 1
    /\ UNCHANGED <<legacy, credits, balance, captured, locks, worker, aborts>>

-----------------------------------------------------------------------------
(* A capture handler, statement by statement.                              *)

\* The webhook skips an order already SUCCESS before it opens a transaction.
FastPath(kind, o) == kind = "webhook" /\ gateway[o] = "SUCCESS"

Begin(w, kind, o) ==
    /\ At(w, "idle")
    /\ o \in captured
    /\ ~FastPath(kind, o)
    /\ worker' = [worker EXCEPT ![w] = Handler(kind, "gateway", o)]
    /\ UNCHANGED <<tables, captured, locks, aborts, declines>>

\* SELECT the gateway row; a missing row locks nothing.
ReadGateway(w) ==
    LET o == worker[w].o
        locking == Locked(w) /\ gateway[o] # "none"
    IN /\ At(w, "gateway")
       /\ locking => Free(gLock[o], w)
       /\ gLock' = IF locking THEN [gLock EXCEPT ![o] = w] ELSE gLock
       /\ worker' = [worker EXCEPT ![w].at = "legacy", ![w].seenG = gateway[o]]
       /\ UNCHANGED <<tables, captured, lLock, wLock, aborts, declines>>

\* Mutated form: only the gateway row is looked at.
ProcessedByGateway(g, l) == g = "SUCCESS"

\* Mutated form: a failed payment counts as processed.
ProcessedOrFailed(g, l) == g \in {"SUCCESS", "FAILED"} \/ l = "SUCCESS"

Processed(g, l) == g = "SUCCESS" \/ l = "SUCCESS"

\* SELECT the legacy row, then the idempotency check.
ReadLegacy(w) ==
    LET o == worker[w].o
    IN /\ At(w, "legacy")
       /\ Locked(w) => Free(lLock[o], w)
       /\ IF Processed(worker[w].seenG, legacy[o])
          THEN Finish(w)
          ELSE /\ lLock' = IF Locked(w) THEN [lLock EXCEPT ![o] = w] ELSE lLock
               /\ worker' = [worker EXCEPT ![w].at = "markGateway", ![w].seenL = legacy[o]]
               /\ UNCHANGED <<gLock, wLock>>
       /\ UNCHANGED <<tables, captured, aborts, declines>>

\* The row was missing when it was read and another handler has committed it
\* since: the unique gateway_order_id refuses the INSERT.
InsertRefused(w) == worker[w].seenG = "none" /\ gateway[worker[w].o] # "none"

\* UPDATE the gateway row, or INSERT the one that is missing.
MarkGateway(w) ==
    LET o == worker[w].o
    IN /\ At(w, "markGateway")
       /\ Free(gLock[o], w)
       /\ IF InsertRefused(w)
          THEN Finish(w)
          ELSE /\ gLock' = [gLock EXCEPT ![o] = w]
               /\ Goto(w, "markLegacy")
               /\ UNCHANGED <<lLock, wLock>>
       /\ UNCHANGED <<tables, captured, aborts, declines>>

MarkLegacy(w) ==
    LET o == worker[w].o
    IN /\ At(w, "markLegacy")
       /\ Free(lLock[o], w)
       /\ lLock' = [lLock EXCEPT ![o] = w]
       /\ Goto(w, "wallet")
       /\ UNCHANGED <<tables, captured, gLock, wLock, aborts, declines>>

\* webhook and verify lock the wallet they read, recharge does not.
ReadWallet(w) ==
    /\ At(w, "wallet")
    /\ Locked(w) => Free(wLock, w)
    /\ wLock' = IF Locked(w) THEN w ELSE wLock
    /\ worker' = [worker EXCEPT ![w].at = "fulfil", ![w].bal = balance]
    /\ UNCHANGED <<tables, captured, gLock, lLock, aborts, declines>>

\* Mutated form: the balance read before is written back.
CreditedAbsolute(w) == worker[w].bal + Amount[worker[w].o]

\* UPDATE ... SET balance = balance + total: the row's value at the UPDATE.
Credited(w) == balance + Amount[worker[w].o]

\* Mutated form: no unique index.
NotYetCreditedEver(o) == TRUE

\* The unique gateway_order_id of client_wallet_recharges lets the row in.
NotYetCredited(o) == credits[o] = 0

\* Mutated form: the gateway row is marked and the legacy row forgotten.
MarkSuccessGateway(o) ==
    /\ gateway' = [gateway EXCEPT ![o] = "SUCCESS"]
    /\ UNCHANGED legacy

\* What the two UPDATEs made of the rows, visible at COMMIT.
MarkSuccess(o) ==
    /\ gateway' = [gateway EXCEPT ![o] = "SUCCESS"]
    /\ legacy' = [legacy EXCEPT ![o] = "SUCCESS"]

\* Credit the wallet, insert the recharge row and COMMIT; a second recharge
\* row of the order is refused and everything rolls back.
Fulfil(w) ==
    LET o == worker[w].o
    IN /\ At(w, "fulfil")
       /\ Free(wLock, w)
       /\ IF NotYetCredited(o)
          THEN /\ MarkSuccess(o)
               /\ credits' = [credits EXCEPT ![o] = @ + 1]
               /\ balance' = Credited(w)
          ELSE UNCHANGED tables
       /\ Finish(w)
       /\ UNCHANGED <<captured, aborts, declines>>

\* A crash, a lost connection or an error of a later statement.
Abort(w) ==
    /\ ~At(w, "idle")
    /\ aborts < MaxAborts
    /\ aborts' = aborts + 1
    /\ Finish(w)
    /\ UNCHANGED <<tables, captured, declines>>

\* The worker whose row w waits for.
Blocker(w) ==
    LET o == worker[w].o
    IN CASE At(w, "gateway") /\ Locked(w) /\ gateway[o] # "none" -> gLock[o]
         [] At(w, "markGateway") -> gLock[o]
         [] At(w, "legacy") /\ Locked(w) -> lLock[o]
         [] At(w, "markLegacy") -> lLock[o]
         [] At(w, "wallet") /\ Locked(w) -> wLock
         [] At(w, "fulfil") -> wLock
         [] OTHER -> NoOne

\* Postgres breaks a cycle of waits by rolling one transaction back.  A cycle
\* has two handlers: only the two payment rows of one order are ever taken in
\* opposite orders, by a webhook or verify that found no gateway row (legacy
\* row locked, gateway row inserted later) against a recharge.
Victim(w) ==
    LET v == Blocker(w)
    IN /\ v \in Workers \ {w}
       /\ Blocker(v) = w
       /\ Finish(w)
       /\ UNCHANGED <<tables, captured, aborts, declines>>

-----------------------------------------------------------------------------
Step(w) ==
    \/ ReadGateway(w)
    \/ ReadLegacy(w)
    \/ MarkGateway(w)
    \/ MarkLegacy(w)
    \/ ReadWallet(w)
    \/ Fulfil(w)

Next ==
    \/ \E o \in Orders : Initiate(o) \/ Capture(o) \/ Declined(o)
    \/ \E w \in Workers, kind \in Kinds, o \in Orders : Begin(w, kind, o)
    \/ \E w \in Workers : Step(w) \/ Abort(w) \/ Victim(w)

Spec == Init /\ [][Next]_vars

\* A handler that has begun runs on, and one that waits for a row is in its lock
\* queue, so that later handlers cannot pass it for ever (strong fairness).
\* Postgres looks for cycles of waits, and the gateway repeats a webhook until
\* it is answered.  The checkout pages promise nothing.
Fairness ==
    /\ \A w \in Workers :
         /\ WF_vars(Step(w))
         /\ SF_vars(MarkGateway(w))
         /\ SF_vars(MarkLegacy(w))
    /\ WF_vars(\E w \in Workers : Victim(w))
    /\ \A o \in Orders : SF_vars(\E w \in Workers : Begin(w, "webhook", o))

FairSpec == Spec /\ Fairness

-----------------------------------------------------------------------------
HandlerType ==
    [kind : Kinds, at : Steps, o : Orders \cup {NoOne}, seenG : GatewayStatuses,
     seenL : LegacyStatuses, bal : Nat]

\* Every variable holds what its column can hold, and a handler that runs has
\* an order.
TypeOK ==
    /\ gateway \in [Orders -> GatewayStatuses]
    /\ legacy \in [Orders -> LegacyStatuses]
    /\ credits \in [Orders -> Nat]
    /\ balance \in Nat
    /\ captured \subseteq Orders
    /\ gLock \in [Orders -> Workers \cup {NoOne}]
    /\ lLock \in [Orders -> Workers \cup {NoOne}]
    /\ wLock \in Workers \cup {NoOne}
    /\ worker \in [Workers -> HandlerType]
    /\ \A w \in Workers : ~At(w, "idle") => worker[w].o \in Orders
    /\ aborts \in 0..MaxAborts
    /\ declines \in 0..MaxDeclines

\* However webhook, verify and recharge overlap, are repeated, crash, or are
\* mixed with payment.failed events, a payment is credited at most once.
CreditedOnce == \A o \in Orders : credits[o] <= 1

\* The legacy row and the credit agree after every commit, so that the check
\* the handlers rely on (either row SUCCESS means done) never skips a payment
\* that was not credited.
SettledIsCredited ==
    \A o \in Orders :
        /\ legacy[o] = "SUCCESS" <=> credits[o] > 0
        /\ gateway[o] = "SUCCESS" => credits[o] > 0

\* A handler that read the rows FOR UPDATE and passed the check is never
\* refused by the unique index: whoever else would credit the order waits for
\* the legacy row it holds.
LockedNeverRefused ==
    \A w \in Workers : Locked(w) /\ Checked(w) => credits[worker[w].o] = 0

\* Two orders of one client credited at the same time both count: the wallet
\* is the sum of the credited orders.
CreditedAmounts  == [o \in Orders |-> credits[o] * Amount[o]]
BalanceIsCredits == balance = SumFunctionOnSet(CreditedAmounts, Orders)

\* A payment captured at the gateway is credited in the end, whatever crashed
\* and whichever payment.failed arrived before, and handlers that take the rows in
\* opposite orders do not keep it from ending.
PaidIsCredited == \A o \in Orders : o \in captured ~> credits[o] = 1
=============================================================================
