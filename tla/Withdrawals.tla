----------------------------- MODULE Withdrawals -----------------------------
(***************************************************************************)
(* The wallet of one partner (expert, merchant or agent) and the           *)
(* withdrawals from it: the request, the admin's status updates with their *)
(* payout or refund, the gateway's payout webhooks, and the credits and    *)
(* debits of earnings and disputes.                                        *)
(*                                                                         *)
(* A request and a credit lock the wallet row before they read it; a       *)
(* status update reads the withdrawal before its transaction and the       *)
(* wallet without a lock.  A handler is cut at its awaits; what it writes  *)
(* in its transaction shows at the commit, its last step.                  *)
(***************************************************************************)
EXTENDS Integers, FiniteSetsExt

CONSTANTS
    Ids,         \* rows the withdrawals table may get
    Keys,        \* idempotency keys of the clients
    Workers,     \* handler slots: how many handlers may overlap
    NoOne,       \* not a worker, a key or a row
    Amounts,     \* amounts requested
    InitialBalance,
    Earnings,    \* amounts credited or debited by other services
    MonthlyLimit,\* MONTHLY_WITHDRAWAL_COUNT
    DailyLimit,  \* DAILY_WITHDRAWAL_LIMIT
    AdminMoves,  \* pairs <<from, to>> of the statuses an admin asks for
    Alone,       \* operations that other handlers do not overlap with
    EagerRetry,  \* a client repeats a request before it was answered
    PayoutsLost, \* an update may fail after the gateway has accepted its payout
    MaxPayouts,  \* bound: payouts an admin starts for one withdrawal
    MaxMoves,    \* bound: other credits and debits
    MaxAborts    \* bound: handlers that crash or roll back

ASSUME AmountAssumption ==
    /\ Amounts \subseteq Nat \ {0}
    /\ Earnings \subseteq Nat \ {0}
    /\ InitialBalance \in Nat
    /\ MonthlyLimit \in Nat
    /\ DailyLimit \in Nat
    /\ MaxPayouts \in Nat
    /\ MaxMoves \in Nat
    /\ MaxAborts \in Nat
    /\ EagerRetry \in BOOLEAN
    /\ PayoutsLost \in BOOLEAN
ASSUME NoOneAssumption == NoOne \notin Workers \cup Keys \cup Ids

VARIABLES
    balance,    \* wallets.balance
    credits,    \* total of the CREDIT rows
    debits,     \* total of the DEBIT rows
    status,     \* withdrawals.status, "absent" before the row exists
    amount,     \* withdrawals.amount
    key,        \* the idempotency key the withdrawal was requested with
    refunds,    \* REFUND rows of each withdrawal
    payouts,    \* payouts the gateway has accepted for each withdrawal
    wLock,      \* worker whose transaction holds the wallet row
    worker,     \* the handler running in each slot
    moves,      \* other credits and debits so far
    aborts      \* handlers rolled back so far

ledger == <<balance, credits, debits>>
rows   == <<status, amount, key, refunds>>
bounds == <<moves, aborts>>
vars   == <<ledger, rows, payouts, wLock, worker, bounds>>

-----------------------------------------------------------------------------
WithdrawalStatus == {"pending", "approved", "processing", "completed", "success",
                     "failed", "rejected", "cancelled", "reversed"}

FinalStatuses == {"success", "completed", "rejected", "reversed", "cancelled"}

RefundStatuses == {"rejected", "failed", "cancelled", "reversed"}

Ops == {"none", "request", "update", "webhook"}

Handler(op, at) ==
    [op |-> op, at |-> at, key |-> NoOne, amount |-> 0, id |-> NoOne,
     old |-> "absent", to |-> "absent", bal |-> 0]

Idle == Handler("none", "idle")

At(w, op, at) == worker[w].op = op /\ worker[w].at = at

Running(ops) == \E w \in Workers : worker[w].op \in ops

\* A handler of this kind may begin next to those that run.
MayBegin(op) ==
    /\ ~Running(Alone)
    /\ op \in Alone => ~Running(Ops \ {"none"})

Finish(w) ==
    /\ worker' = [worker EXCEPT ![w] = Idle]
    /\ wLock' = IF wLock = w THEN NoOne ELSE wLock

Init ==
    /\ balance = InitialBalance
    /\ credits = 0
    /\ debits = 0
    /\ status = [i \in Ids |-> "absent"]
    /\ amount = [i \in Ids |-> 0]
    /\ key = [i \in Ids |-> NoOne]
    /\ refunds = [i \in Ids |-> 0]
    /\ payouts = [i \in Ids |-> 0]
    /\ wLock = NoOne
    /\ worker = [w \in Workers |-> Idle]
    /\ moves = 0
    /\ aborts = 0

-----------------------------------------------------------------------------
(* RequestWithdrawalUseCase.                                               *)

\* Mutated form: the key is not looked up.
KnownNever(k) == FALSE

\* A committed request has left its idempotency row.
Known(k) == \E i \in Ids : key[i] = k

\* The withdrawals of today and of this month the limits count.
Counted == {i \in Ids : status[i] \notin {"absent", "rejected"}}

WithinLimits(a) ==
    /\ Cardinality(Counted) < MonthlyLimit
    /\ MapThenSumSet(LAMBDA i : amount[i], Counted) + a <= DailyLimit

\* The idempotency row and the limits, read before the transaction.  A known
\* key is answered with the stored withdrawal.  A key is retried with the same
\* amount; another one is refused and changes nothing.
BeginRequest(w, k, a) ==
    /\ worker[w] = Idle
    /\ MayBegin("request")
    /\ EagerRetry \/ \A v \in Workers : worker[v].key # k
    /\ ~Known(k)
    /\ WithinLimits(a)
    /\ worker' = [worker EXCEPT ![w] =
         [Handler("request", "wallet") EXCEPT !.key = k, !.amount = a]]
    /\ UNCHANGED <<ledger, rows, payouts, wLock, bounds>>

\* Mutated form: a plain SELECT.
LockedByNobody(w) == wLock' = wLock

\* SELECT ... FOR UPDATE.
LockWallet(w) == wLock = NoOne /\ wLock' = w

\* The wallet under its lock; without enough balance the request rolls back.
RequestWallet(w) ==
    /\ At(w, "request", "wallet")
    /\ IF balance >= worker[w].amount
       THEN /\ LockWallet(w)
            /\ worker' = [worker EXCEPT ![w].at = "commit", ![w].bal = balance]
       ELSE wLock = NoOne /\ Finish(w)
    /\ UNCHANGED <<ledger, rows, payouts, bounds>>

\* Debit, ledger row, withdrawal and idempotency row commit together.
CommitRequest(w) ==
    /\ At(w, "request", "commit")
    /\ wLock \in {NoOne, w}
    /\ \E i \in Ids :
         /\ status[i] = "absent"
         /\ status' = [status EXCEPT ![i] = "pending"]
         /\ amount' = [amount EXCEPT ![i] = worker[w].amount]
         /\ key' = [key EXCEPT ![i] = worker[w].key]
    /\ balance' = worker[w].bal - worker[w].amount
    /\ debits' = debits + worker[w].amount
    /\ Finish(w)
    /\ UNCHANGED <<credits, refunds, payouts, bounds>>

-----------------------------------------------------------------------------
(* UpdateWithdrawalStatusUseCase.                                          *)

\* Mutated form: only what has succeeded is final.
UpdatableUnlessPaid(from, to) == from \notin {"success", "completed"}

\* isCurrentlyFinal, and the transition rule of pending requests.
Updatable(from, to) ==
    /\ from \notin FinalStatuses
    /\ from = "pending" => to \in {"approved", "rejected", "cancelled"}

\* The withdrawal is read before the transaction.
BeginUpdate(w, i, to) ==
    /\ worker[w] = Idle
    /\ MayBegin("update")
    /\ <<status[i], to>> \in AdminMoves
    /\ Updatable(status[i], to)
    /\ to = "approved" => payouts[i] < MaxPayouts
    /\ worker' = [worker EXCEPT ![w] =
         [Handler("update", IF to = "approved" THEN "payout" ELSE "save") EXCEPT
            !.id = i, !.old = status[i], !.to = to]]
    /\ UNCHANGED <<ledger, rows, payouts, wLock, bounds>>

\* The gateway accepts the payout: nothing undoes it if the commit fails.
Payout(w) ==
    /\ At(w, "update", "payout")
    /\ payouts' = [payouts EXCEPT ![worker[w].id] = @ + 1]
    /\ worker' = [worker EXCEPT ![w].at = "paid", ![w].to = "processing"]
    /\ UNCHANGED <<ledger, rows, wLock, bounds>>

\* Mutated form: a payout the gateway gave back needs no refund.
ShouldRefundRefused(from, to) ==
    to \in RefundStatuses \ {"reversed"} /\ from \notin RefundStatuses

ShouldRefund(from, to) == to \in RefundStatuses /\ from \notin RefundStatuses

\* The wallet of a refund, read without a lock.
ReadWallet(w) ==
    /\ At(w, "update", "save")
    /\ ShouldRefund(worker[w].old, worker[w].to)
    /\ worker' = [worker EXCEPT ![w].at = "refund", ![w].bal = balance]
    /\ UNCHANGED <<ledger, rows, payouts, wLock, bounds>>

RefundRow(a) == credits' = credits + a

\* The status alone.
CommitStatus(w) ==
    /\ At(w, "update", "save") \/ At(w, "update", "paid")
    /\ ~ShouldRefund(worker[w].old, worker[w].to)
    /\ status' = [status EXCEPT ![worker[w].id] = worker[w].to]
    /\ Finish(w)
    /\ UNCHANGED <<ledger, amount, key, refunds, payouts, bounds>>

\* The status with the refund: the balance read before, and a ledger row.
CommitRefund(w) ==
    LET i == worker[w].id
    IN /\ At(w, "update", "refund")
       /\ wLock = NoOne
       /\ status' = [status EXCEPT ![i] = worker[w].to]
       /\ balance' = worker[w].bal + amount[i]
       /\ RefundRow(amount[i])
       /\ refunds' = [refunds EXCEPT ![i] = @ + 1]
       /\ Finish(w)
       /\ UNCHANGED <<debits, amount, key, payouts, bounds>>

\* PayoutWebhookController calls the same update as admin 'system_admin'.
\* Number() makes NaN of it, which the integer column refuses: the save throws
\* and the update rolls back.
BeginWebhook(w, i, to) ==
    /\ worker[w] = Idle
    /\ MayBegin("webhook")
    /\ payouts[i] > 0
    /\ to \in {"reversed", "success"}
    /\ Updatable(status[i], to)
    /\ worker' = [worker EXCEPT ![w] =
         [Handler("webhook", "save") EXCEPT !.id = i, !.old = status[i], !.to = to]]
    /\ UNCHANGED <<ledger, rows, payouts, wLock, bounds>>

RefusedWebhook(w) ==
    /\ At(w, "webhook", "save")
    /\ Finish(w)
    /\ UNCHANGED <<ledger, rows, payouts, bounds>>

-----------------------------------------------------------------------------
(* CreditUseCase and DebitUseCase lock the wallet and add to it; a dispute's *)
(* debit may take it below zero.                                           *)

Credit(a) ==
    /\ moves < MaxMoves
    /\ MayBegin("credit")
    /\ wLock = NoOne
    /\ balance' = balance + a
    /\ credits' = credits + a
    /\ moves' = moves + 1
    /\ UNCHANGED <<debits, rows, payouts, wLock, worker, aborts>>

Debit(a, allowNegative) ==
    /\ moves < MaxMoves
    /\ MayBegin("debit")
    /\ wLock = NoOne
    /\ allowNegative \/ balance >= a
    /\ balance' = balance - a
    /\ debits' = debits + a
    /\ moves' = moves + 1
    /\ UNCHANGED <<credits, rows, payouts, wLock, worker, aborts>>

\* A crash, a refused payout, a gateway whose answer is lost or an error of a
\* later statement.
Abort(w) ==
    /\ worker[w] # Idle
    /\ At(w, "update", "paid") => PayoutsLost
    /\ aborts < MaxAborts
    /\ aborts' = aborts + 1
    /\ Finish(w)
    /\ UNCHANGED <<ledger, rows, payouts, moves>>

-----------------------------------------------------------------------------
Next ==
    \/ \E w \in Workers :
         \/ \E k \in Keys, a \in Amounts : BeginRequest(w, k, a)
         \/ RequestWallet(w) \/ CommitRequest(w)
         \/ \E i \in Ids, to \in WithdrawalStatus :
              BeginUpdate(w, i, to) \/ BeginWebhook(w, i, to)
         \/ Payout(w) \/ ReadWallet(w) \/ CommitStatus(w) \/ CommitRefund(w)
         \/ RefusedWebhook(w)
         \/ Abort(w)
    \/ \E a \in Earnings : Credit(a) \/ Debit(a, FALSE) \/ Debit(a, TRUE)

Spec == Init /\ [][Next]_vars

-----------------------------------------------------------------------------
Stages == {"idle", "wallet", "commit", "payout", "paid", "save", "refund"}

Handlers == [op : Ops, at : Stages, key : Keys \cup {NoOne}, amount : Nat,
             id : Ids \cup {NoOne}, old : WithdrawalStatus \cup {"absent"},
             to : WithdrawalStatus \cup {"absent"}, bal : Int]

\* Wallet, withdrawals and handler records stay well formed.
TypeOK ==
    /\ balance \in Int /\ credits \in Nat /\ debits \in Nat
    /\ status \in [Ids -> WithdrawalStatus \cup {"absent"}]
    /\ amount \in [Ids -> Nat]
    /\ key \in [Ids -> Keys \cup {NoOne}]
    /\ refunds \in [Ids -> Nat]
    /\ payouts \in [Ids -> Nat]
    /\ wLock \in Workers \cup {NoOne}
    /\ worker \in [Workers -> Handlers]
    /\ moves \in 0..MaxMoves
    /\ aborts \in 0..MaxAborts

\* What ReconcileWalletUseCase audits every night: the wallet is the sum of its
\* ledger rows, with overlapping requests and credits and handlers that crash.
LedgerMatchesWallet == balance = InitialBalance + credits - debits

\* A request repeated with its key after it was answered, or after it crashed
\* before or after its commit, makes no second withdrawal.
OneWithdrawalPerKey ==
    \A i, j \in Ids : key[i] = key[j] /\ key[i] # NoOne => i = j

\* What an admin asks for who judges as the program leaves him to: anything of
\* a request that is pending or final, and of one whose payout is under way the
\* outcome the gateway reports.  The code lets him pay a second time what is on
\* its way, refuse it, or move it out of "failed".
Decisions ==
    (({"pending"} \cup FinalStatuses) \X WithdrawalStatus)
      \cup ({"processing"} \X {"processing", "success", "completed", "failed", "reversed"})

\* The gateway has the payout of a withdrawal whose update has not committed.
PaidOut(i) == \E w \in Workers : At(w, "update", "paid") /\ worker[w].id = i

\* The money of a withdrawal leaves at most once and comes back at most once, as
\* its status says: a refused one is refunded and was never paid, one on its way
\* or paid was paid out once and not refunded, one the gateway gave back was
\* paid out and refunded once.  With Decisions, and with no update that fails
\* after its payout was accepted.
MoneyMatchesStatus ==
    \A i \in Ids :
        /\ refunds[i] = IF status[i] \in RefundStatuses THEN 1 ELSE 0
        /\ payouts[i] = IF \/ PaidOut(i)
                          \/ status[i] \in {"processing", "success", "completed", "failed", "reversed"}
                       THEN 1 ELSE 0

\* A withdrawal that was paid or refused never changes again.
FinalIsFinal ==
    [][\A i \in Ids : status[i] \in FinalStatuses => status'[i] = status[i]]_vars
=============================================================================
