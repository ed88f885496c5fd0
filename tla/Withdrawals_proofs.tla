-------------------------- MODULE Withdrawals_proofs --------------------------
(***************************************************************************)
(* Withdrawals for every number of rows, keys and overlapping handlers, as *)
(* long as status updates run alone, clients wait for an answer before     *)
(* they retry, and the admin leaves failed withdrawals as they are.        *)
(*                                                                         *)
(* The ledger holds because a request that will write the balance owns the *)
(* wallet row, and a refund, which does not, runs alone: in both cases the *)
(* balance it has read is the balance.                                     *)
(*                                                                         *)
(* The payouts need more: an update, which the gateway's answer commits,   *)
(* and an admin who goes by the gateway once a payout is under way.        *)
(***************************************************************************)
EXTENDS Withdrawals, TLAPS

\* What a handler has read is still so when it writes.
Fresh ==
    \A w \in Workers :
        /\ At(w, "request", "commit") => wLock = w /\ worker[w].bal = balance
        /\ At(w, "update", "refund") => worker[w].bal = balance

\* An update runs alone, on the status it has read.
UpdateAlone ==
    \A w \in Workers : worker[w].op = "update" =>
        /\ \A v \in Workers : v # w => worker[v].op = "none"
        /\ worker[w].id \in Ids
        /\ worker[w].old = status[worker[w].id]
        /\ worker[w].old \notin FinalStatuses \cup {"failed", "absent"}
        /\ worker[w].to \in WithdrawalStatus
        /\ worker[w].at = "payout" => worker[w].to = "approved"
        /\ worker[w].at = "refund" => worker[w].to \in RefundStatuses

\* A key being worked on is worked on once and belongs to no withdrawal yet.
KeyAlone ==
    \A v \in Workers : worker[v].op = "request" =>
        /\ worker[v].key \in Keys
        /\ ~Known(worker[v].key)
        /\ \A w \in Workers :
             worker[w].op = "request" /\ worker[v].key = worker[w].key => v = w

\* Rows that are not there have no refund.
RowInv == \A i \in Ids : status[i] = "absent" => refunds[i] = 0 /\ key[i] = NoOne

\* Owners of the wallet row are handlers at their commit.
LockInv == wLock # NoOne => At(wLock, "request", "commit")

\* A withdrawal is refunded when its status says so.
RefundsFit == \A i \in Ids : refunds[i] = IF status[i] \in RefundStatuses THEN 1 ELSE 0

IInv == TypeOK /\ Fresh /\ UpdateAlone /\ KeyAlone /\ RowInv /\ LockInv
        /\ LedgerMatchesWallet /\ OneWithdrawalPerKey /\ RefundsFit

\* What the theorems assume of the constants: updates run alone, a client waits
\* for its answer before it retries, failed withdrawals stay as they are.
Serial ==
    /\ "update" \in Alone
    /\ ~EagerRetry
    /\ AdminMoves \subseteq (WithdrawalStatus \ {"failed"}) \X WithdrawalStatus

-----------------------------------------------------------------------------
(* Types.                                                                  *)

\* Every fresh handler record is well formed.
LEMMA HandlerType ==
    ASSUME NEW op \in Ops, NEW at \in Stages
    PROVE  Handler(op, at) \in Handlers
  BY DEF Handler, Handlers

\* An idle slot is a handler record.
LEMMA IdleType == Idle \in Handlers
  BY HandlerType DEF Idle, Ops, Stages

\* A handler that ends leaves worker and wallet lock well formed.
LEMMA FinishType ==
    ASSUME TypeOK, NEW w \in Workers, Finish(w)
    PROVE  worker' \in [Workers -> Handlers] /\ wLock' \in Workers \cup {NoOne}
  BY IdleType DEF TypeOK, Finish

\* A stage change of a handler keeps its record well formed.
LEMMA HandlerStep ==
    ASSUME TypeOK, NEW w \in Workers, NEW h \in Handlers,
           worker' = [worker EXCEPT ![w] = h]
    PROVE  worker' \in [Workers -> Handlers]
  BY DEF TypeOK

\* So does every change of its fields the actions make.
LEMMA WalletRead ==
    ASSUME NEW h \in Handlers, NEW at \in Stages, NEW b \in Int
    PROVE  [h EXCEPT !.at = at, !.bal = b] \in Handlers
  BY DEF Handlers

\* The same for the fields this one writes.
LEMMA StatusMove ==
    ASSUME NEW h \in Handlers, NEW at \in Stages, NEW to \in WithdrawalStatus
    PROVE  [h EXCEPT !.at = at, !.to = to] \in Handlers
  BY DEF Handlers

\* The same for the fields this one writes.
LEMMA RequestFields ==
    ASSUME NEW h \in Handlers, NEW k \in Keys, NEW a \in Nat
    PROVE  [h EXCEPT !.key = k, !.amount = a] \in Handlers
  BY DEF Handlers

\* The same for the fields this one writes.
LEMMA UpdateFields ==
    ASSUME NEW h \in Handlers, NEW i \in Ids,
           NEW old \in WithdrawalStatus \cup {"absent"}, NEW to \in WithdrawalStatus
    PROVE  [h EXCEPT !.id = i, !.old = old, !.to = to] \in Handlers
  BY DEF Handlers

\* The type invariant is inductive.
LEMMA TypeStep ==
    ASSUME TypeOK, UpdateAlone, Serial, [Next]_vars
    PROVE  TypeOK'
<1> USE AmountAssumption, NoOneAssumption
<1>1. ASSUME NEW w \in Workers, NEW k \in Keys, NEW a \in Amounts, BeginRequest(w, k, a)
      PROVE  TypeOK'
  <2>1. [Handler("request", "wallet") EXCEPT !.key = k, !.amount = a] \in Handlers
    <3>1. Handler("request", "wallet") \in Handlers /\ k \in Keys /\ a \in Nat
      BY HandlerType DEF Ops, Stages
    <3> QED
      BY <3>1, RequestFields
  <2>2. worker' \in [Workers -> Handlers]
    BY <1>1, <2>1, HandlerStep DEF BeginRequest
  <2> QED
    BY <1>1, <2>2 DEF BeginRequest, TypeOK, ledger, rows, bounds
<1>2. ASSUME NEW w \in Workers, RequestWallet(w)
      PROVE  TypeOK'
  <2>1. CASE balance >= worker[w].amount
    <3>1. [worker[w] EXCEPT !.at = "commit", !.bal = balance] \in Handlers
      BY WalletRead DEF TypeOK, Stages
    <3>2. worker' = [worker EXCEPT ![w] = [worker[w] EXCEPT !.at = "commit", !.bal = balance]]
      BY <1>2, <2>1 DEF RequestWallet, TypeOK
    <3>3. worker' \in [Workers -> Handlers]
      BY <3>1, <3>2, HandlerStep
    <3> QED
      BY <1>2, <2>1, <3>3 DEF RequestWallet, LockWallet, TypeOK, ledger, rows, bounds
  <2>2. CASE ~(balance >= worker[w].amount)
    BY <1>2, <2>2, FinishType DEF RequestWallet, TypeOK, ledger, rows, bounds
  <2> QED
    BY <2>1, <2>2
<1>3. ASSUME NEW w \in Workers, CommitRequest(w)
      PROVE  TypeOK'
  <2>1. worker[w] \in Handlers
    BY DEF TypeOK
  <2> QED
    BY <1>3, <2>1, FinishType DEF CommitRequest, TypeOK, Handlers, bounds, WithdrawalStatus
<1>4. ASSUME NEW w \in Workers, NEW i \in Ids, NEW to \in WithdrawalStatus, BeginUpdate(w, i, to)
      PROVE  TypeOK'
  <2> DEFINE at == IF to = "approved" THEN "payout" ELSE "save"
  <2>1. [Handler("update", at) EXCEPT !.id = i, !.old = status[i], !.to = to] \in Handlers
    <3>1. Handler("update", at) \in Handlers /\ status[i] \in WithdrawalStatus \cup {"absent"}
      BY HandlerType DEF Ops, Stages, TypeOK
    <3> HIDE DEF at
    <3> QED
      BY <3>1, UpdateFields
  <2>2. worker' \in [Workers -> Handlers]
    BY <1>4, <2>1, HandlerStep DEF BeginUpdate
  <2> QED
    BY <1>4, <2>2 DEF BeginUpdate, TypeOK, ledger, rows, bounds
<1>5. ASSUME NEW w \in Workers, NEW i \in Ids, NEW to \in WithdrawalStatus, BeginWebhook(w, i, to)
      PROVE  TypeOK'
  <2>1. [Handler("webhook", "save") EXCEPT !.id = i, !.old = status[i], !.to = to] \in Handlers
    <3>1. Handler("webhook", "save") \in Handlers /\ status[i] \in WithdrawalStatus \cup {"absent"}
      BY HandlerType DEF Ops, Stages, TypeOK
    <3> QED
      BY <3>1, UpdateFields
  <2>2. worker' \in [Workers -> Handlers]
    BY <1>5, <2>1, HandlerStep DEF BeginWebhook
  <2> QED
    BY <1>5, <2>2 DEF BeginWebhook, TypeOK, ledger, rows, bounds
<1>6. ASSUME NEW w \in Workers, Payout(w)
      PROVE  TypeOK'
  <2>1. [worker[w] EXCEPT !.at = "paid", !.to = "processing"] \in Handlers
    BY StatusMove DEF TypeOK, Stages, WithdrawalStatus
  <2>2. worker' = [worker EXCEPT ![w] = [worker[w] EXCEPT !.at = "paid", !.to = "processing"]]
    BY <1>6 DEF Payout, TypeOK
  <2>3. worker' \in [Workers -> Handlers]
    BY <2>1, <2>2, HandlerStep
  <2>4. worker[w].id \in Ids
    BY <1>6 DEF Payout, UpdateAlone, At
  <2>5. payouts' \in [Ids -> Nat]
    BY <1>6, <2>4 DEF Payout, TypeOK
  <2> QED
    BY <1>6, <2>3, <2>5 DEF Payout, TypeOK, ledger, rows, bounds
<1>7. ASSUME NEW w \in Workers, ReadWallet(w)
      PROVE  TypeOK'
  <2>1. [worker[w] EXCEPT !.at = "refund", !.bal = balance] \in Handlers
    BY WalletRead DEF TypeOK, Stages
  <2>2. worker' = [worker EXCEPT ![w] = [worker[w] EXCEPT !.at = "refund", !.bal = balance]]
    BY <1>7 DEF ReadWallet, TypeOK
  <2>3. worker' \in [Workers -> Handlers]
    BY <2>1, <2>2, HandlerStep
  <2> QED
    BY <1>7, <2>3 DEF ReadWallet, TypeOK, ledger, rows, bounds
<1>8. ASSUME NEW w \in Workers, CommitStatus(w)
      PROVE  TypeOK'
  <2>1. worker[w] \in Handlers
    BY DEF TypeOK
  <2> QED
    BY <1>8, <2>1, FinishType DEF CommitStatus, TypeOK, Handlers, ledger, bounds
<1>9. ASSUME NEW w \in Workers, CommitRefund(w)
      PROVE  TypeOK'
  <2>1. worker[w] \in Handlers /\ worker[w].id \in Ids
    BY <1>9 DEF TypeOK, UpdateAlone, CommitRefund, At
  <2>2. amount[worker[w].id] \in Nat /\ worker[w].bal \in Int
    BY <2>1 DEF TypeOK, Handlers
  <2> QED
    BY <1>9, <2>1, <2>2, FinishType DEF CommitRefund, RefundRow, TypeOK, Handlers, bounds
<1>10. ASSUME NEW w \in Workers, RefusedWebhook(w)
       PROVE  TypeOK'
  BY <1>10, FinishType DEF RefusedWebhook, TypeOK, ledger, rows, bounds
<1>11. ASSUME NEW w \in Workers, Abort(w)
       PROVE  TypeOK'
  BY <1>11, FinishType DEF Abort, TypeOK, ledger, rows
<1>12. ASSUME NEW a \in Earnings, Credit(a)
       PROVE  TypeOK'
  BY <1>12 DEF Credit, TypeOK, rows
<1>13. ASSUME NEW a \in Earnings, NEW n \in BOOLEAN, Debit(a, n)
       PROVE  TypeOK'
  BY <1>13 DEF Debit, TypeOK, rows
<1>14. CASE UNCHANGED vars
  BY <1>14 DEF vars, ledger, rows, bounds, TypeOK
<1> QED
  BY <1>1, <1>2, <1>3, <1>4, <1>5, <1>6, <1>7, <1>8, <1>9, <1>10, <1>11, <1>12, <1>13,
     <1>14 DEF Next

-----------------------------------------------------------------------------
(* The invariant.                                                          *)

\* BeginRequest keeps the invariant.
LEMMA StepBeginRequest ==
    ASSUME IInv, Serial, TypeOK', NEW w \in Workers, NEW k \in Keys, NEW a \in Amounts, BeginRequest(w, k, a)
    PROVE  IInv'
<1> USE AmountAssumption, NoOneAssumption DEF IInv
<1>1. Fresh'
  BY DEF BeginRequest, Serial, Fresh, LockInv, UpdateAlone, MayBegin, Running, Ops, TypeOK,
     Handlers, At, Idle, Handler, ledger, rows, bounds
<1>2. UpdateAlone'
  BY DEF BeginRequest, Serial, UpdateAlone, FinalStatuses, RefundStatuses, WithdrawalStatus,
     MayBegin, Running, Ops, TypeOK, Handlers, At, Idle, Handler, ledger, rows, bounds
<1>3. KeyAlone'
  BY DEF BeginRequest, Serial, KeyAlone, Known, TypeOK, Handlers, At, Idle, Handler, ledger,
     rows, bounds
<1>4. RowInv'
  BY DEF BeginRequest, Serial, RowInv, UpdateAlone, WithdrawalStatus, TypeOK, Handlers, At,
     Idle, Handler, ledger, rows, bounds
<1>5. LockInv'
  BY DEF BeginRequest, Serial, LockInv, Fresh, UpdateAlone, TypeOK, Handlers, At, Idle,
     Handler, ledger, rows, bounds
<1>6. LedgerMatchesWallet'
  BY DEF BeginRequest, Serial, LedgerMatchesWallet, Fresh, MayBegin, Running, Ops, TypeOK,
     Handlers, At, Idle, Handler, ledger, rows, bounds
<1>7. OneWithdrawalPerKey'
  BY DEF BeginRequest, Serial, OneWithdrawalPerKey, KeyAlone, Known, TypeOK, Handlers, At,
     Idle, Handler, ledger, rows, bounds
<1>8. RefundsFit'
  BY DEF BeginRequest, Serial, RefundsFit, RowInv, RefundStatuses, UpdateAlone,
     FinalStatuses, TypeOK, Handlers, At, Idle, Handler, ledger, rows, bounds
<1> QED
  BY <1>1, <1>2, <1>3, <1>4, <1>5, <1>6, <1>7, <1>8

\* RequestWallet keeps the invariant.
LEMMA StepRequestWallet ==
    ASSUME IInv, Serial, TypeOK', NEW w \in Workers, RequestWallet(w)
    PROVE  IInv'
<1> USE AmountAssumption, NoOneAssumption DEF IInv
<1>1. Fresh'
  BY DEF RequestWallet, Finish, LockWallet, Fresh, LockInv, UpdateAlone, TypeOK, Handlers,
     At, Idle, Handler, ledger, rows, bounds
<1>2. UpdateAlone'
  BY DEF RequestWallet, Finish, LockWallet, UpdateAlone, FinalStatuses, RefundStatuses,
     WithdrawalStatus, TypeOK, Handlers, At, Idle, Handler, ledger, rows, bounds
<1>3. KeyAlone'
  <2>1. \A v \in Workers : worker'[v].op = "request" =>
          worker[v].op = "request" /\ worker'[v].key = worker[v].key
    <3>1. CASE balance >= worker[w].amount
      BY <3>1 DEF RequestWallet, TypeOK, Handlers
    <3>2. CASE ~(balance >= worker[w].amount)
      BY <3>2 DEF RequestWallet, Finish, TypeOK, Idle, Handler
    <3> QED
      BY <3>1, <3>2
  <2>2. key' = key
    BY DEF RequestWallet, rows
  <2> QED
    BY <2>1, <2>2 DEF KeyAlone, Known
<1>4. RowInv'
  BY DEF RequestWallet, Finish, LockWallet, RowInv, UpdateAlone, WithdrawalStatus, TypeOK,
     Handlers, At, Idle, Handler, ledger, rows, bounds
<1>5. LockInv'
  BY DEF RequestWallet, Finish, LockWallet, LockInv, Fresh, UpdateAlone, TypeOK, Handlers,
     At, Idle, Handler, ledger, rows, bounds
<1>6. LedgerMatchesWallet'
  BY DEF RequestWallet, Finish, LockWallet, LedgerMatchesWallet, Fresh, TypeOK, Handlers, At,
     Idle, Handler, ledger, rows, bounds
<1>7. OneWithdrawalPerKey'
  BY DEF RequestWallet, Finish, LockWallet, OneWithdrawalPerKey, KeyAlone, Known, TypeOK,
     Handlers, At, Idle, Handler, ledger, rows, bounds
<1>8. RefundsFit'
  BY DEF RequestWallet, Finish, LockWallet, RefundsFit, RowInv, RefundStatuses,
     UpdateAlone, FinalStatuses, TypeOK, Handlers, At, Idle, Handler, ledger, rows, bounds
<1> QED
  BY <1>1, <1>2, <1>3, <1>4, <1>5, <1>6, <1>7, <1>8

\* CommitRequest keeps the invariant.
LEMMA StepCommitRequest ==
    ASSUME IInv, Serial, TypeOK', NEW w \in Workers, CommitRequest(w)
    PROVE  IInv'
<1> USE AmountAssumption, NoOneAssumption DEF IInv
<1>1. Fresh'
  BY DEF CommitRequest, Finish, Fresh, LockInv, UpdateAlone, TypeOK, Handlers, At, Idle,
     Handler, ledger, rows, bounds
<1>2. UpdateAlone'
  BY DEF CommitRequest, Finish, UpdateAlone, FinalStatuses, RefundStatuses, WithdrawalStatus,
     TypeOK, Handlers, At, Idle, Handler, ledger, rows, bounds
<1>3. KeyAlone'
  BY DEF CommitRequest, Finish, KeyAlone, Known, TypeOK, Handlers, At, Idle, Handler, ledger,
     rows, bounds
<1>4. RowInv'
  BY DEF CommitRequest, Finish, RowInv, UpdateAlone, WithdrawalStatus, TypeOK, Handlers, At,
     Idle, Handler, ledger, rows, bounds
<1>5. LockInv'
  BY DEF CommitRequest, Finish, LockInv, Fresh, UpdateAlone, TypeOK, Handlers, At, Idle,
     Handler, ledger, rows, bounds
<1>6. LedgerMatchesWallet'
  BY DEF CommitRequest, Finish, LedgerMatchesWallet, Fresh, TypeOK, Handlers, At, Idle,
     Handler, ledger, rows, bounds
<1>7. OneWithdrawalPerKey'
  BY DEF CommitRequest, Finish, OneWithdrawalPerKey, KeyAlone, Known, TypeOK, Handlers, At,
     Idle, Handler, ledger, rows, bounds
<1>8. RefundsFit'
  BY DEF CommitRequest, Finish, RefundsFit, RowInv, RefundStatuses, UpdateAlone,
     FinalStatuses, TypeOK, Handlers, At, Idle, Handler, ledger, rows, bounds
<1> QED
  BY <1>1, <1>2, <1>3, <1>4, <1>5, <1>6, <1>7, <1>8

\* BeginUpdate keeps the invariant.
LEMMA StepBeginUpdate ==
    ASSUME IInv, Serial, TypeOK', NEW w \in Workers, NEW i \in Ids, NEW to \in WithdrawalStatus, BeginUpdate(w, i, to)
    PROVE  IInv'
<1> USE AmountAssumption, NoOneAssumption DEF IInv
<1>1. Fresh'
  BY DEF BeginUpdate, Updatable, Serial, Fresh, LockInv, UpdateAlone, MayBegin, Running, Ops,
     TypeOK, Handlers, At, Idle, Handler, ledger, rows, bounds
<1>2. UpdateAlone'
  BY DEF BeginUpdate, Updatable, Serial, UpdateAlone, FinalStatuses, RefundStatuses,
     WithdrawalStatus, MayBegin, Running, Ops, TypeOK, Handlers, At, Idle, Handler, ledger,
     rows, bounds
<1>3. KeyAlone'
  BY DEF BeginUpdate, Updatable, Serial, KeyAlone, Known, TypeOK, Handlers, At, Idle,
     Handler, ledger, rows, bounds
<1>4. RowInv'
  BY DEF BeginUpdate, Updatable, Serial, RowInv, UpdateAlone, WithdrawalStatus, TypeOK,
     Handlers, At, Idle, Handler, ledger, rows, bounds
<1>5. LockInv'
  BY DEF BeginUpdate, Updatable, Serial, LockInv, Fresh, UpdateAlone, TypeOK, Handlers, At,
     Idle, Handler, ledger, rows, bounds
<1>6. LedgerMatchesWallet'
  BY DEF BeginUpdate, Updatable, Serial, LedgerMatchesWallet, Fresh, MayBegin, Running, Ops,
     TypeOK, Handlers, At, Idle, Handler, ledger, rows, bounds
<1>7. OneWithdrawalPerKey'
  BY DEF BeginUpdate, Updatable, Serial, OneWithdrawalPerKey, KeyAlone, Known, TypeOK,
     Handlers, At, Idle, Handler, ledger, rows, bounds
<1>8. RefundsFit'
  BY DEF BeginUpdate, Updatable, Serial, RefundsFit, RowInv, RefundStatuses,
     UpdateAlone, FinalStatuses, TypeOK, Handlers, At, Idle, Handler, ledger, rows, bounds
<1> QED
  BY <1>1, <1>2, <1>3, <1>4, <1>5, <1>6, <1>7, <1>8

\* BeginWebhook keeps the invariant.
LEMMA StepBeginWebhook ==
    ASSUME IInv, Serial, TypeOK', NEW w \in Workers, NEW i \in Ids, NEW to \in WithdrawalStatus, BeginWebhook(w, i, to)
    PROVE  IInv'
<1> USE AmountAssumption, NoOneAssumption DEF IInv
<1>1. Fresh'
  BY DEF BeginWebhook, Updatable, Serial, Fresh, LockInv, UpdateAlone, MayBegin, Running,
     Ops, TypeOK, Handlers, At, Idle, Handler, ledger, rows, bounds
<1>2. UpdateAlone'
  BY DEF BeginWebhook, Updatable, Serial, UpdateAlone, FinalStatuses, RefundStatuses,
     WithdrawalStatus, MayBegin, Running, Ops, TypeOK, Handlers, At, Idle, Handler, ledger,
     rows, bounds
<1>3. KeyAlone'
  BY DEF BeginWebhook, Updatable, Serial, KeyAlone, Known, TypeOK, Handlers, At, Idle,
     Handler, ledger, rows, bounds
<1>4. RowInv'
  BY DEF BeginWebhook, Updatable, Serial, RowInv, UpdateAlone, WithdrawalStatus, TypeOK,
     Handlers, At, Idle, Handler, ledger, rows, bounds
<1>5. LockInv'
  BY DEF BeginWebhook, Updatable, Serial, LockInv, Fresh, UpdateAlone, TypeOK, Handlers, At,
     Idle, Handler, ledger, rows, bounds
<1>6. LedgerMatchesWallet'
  BY DEF BeginWebhook, Updatable, Serial, LedgerMatchesWallet, Fresh, MayBegin, Running, Ops,
     TypeOK, Handlers, At, Idle, Handler, ledger, rows, bounds
<1>7. OneWithdrawalPerKey'
  BY DEF BeginWebhook, Updatable, Serial, OneWithdrawalPerKey, KeyAlone, Known, TypeOK,
     Handlers, At, Idle, Handler, ledger, rows, bounds
<1>8. RefundsFit'
  BY DEF BeginWebhook, Updatable, Serial, RefundsFit, RowInv, RefundStatuses,
     UpdateAlone, FinalStatuses, TypeOK, Handlers, At, Idle, Handler, ledger, rows, bounds
<1> QED
  BY <1>1, <1>2, <1>3, <1>4, <1>5, <1>6, <1>7, <1>8

\* Payout keeps the invariant.
LEMMA StepPayout ==
    ASSUME IInv, Serial, TypeOK', NEW w \in Workers, Payout(w)
    PROVE  IInv'
<1> USE AmountAssumption, NoOneAssumption DEF IInv
<1>1. Fresh'
  BY DEF Payout, Fresh, LockInv, UpdateAlone, TypeOK, Handlers, At, Idle, Handler, ledger,
     rows, bounds
<1>2. UpdateAlone'
  BY DEF Payout, UpdateAlone, FinalStatuses, RefundStatuses, WithdrawalStatus, TypeOK,
     Handlers, At, Idle, Handler, ledger, rows, bounds
<1>3. KeyAlone'
  BY DEF Payout, KeyAlone, Known, TypeOK, Handlers, At, Idle, Handler, ledger, rows, bounds
<1>4. RowInv'
  BY DEF Payout, RowInv, UpdateAlone, WithdrawalStatus, TypeOK, Handlers, At, Idle, Handler,
     ledger, rows, bounds
<1>5. LockInv'
  BY DEF Payout, LockInv, Fresh, UpdateAlone, TypeOK, Handlers, At, Idle, Handler, ledger,
     rows, bounds
<1>6. LedgerMatchesWallet'
  BY DEF Payout, LedgerMatchesWallet, Fresh, TypeOK, Handlers, At, Idle, Handler, ledger,
     rows, bounds
<1>7. OneWithdrawalPerKey'
  BY DEF Payout, OneWithdrawalPerKey, KeyAlone, Known, TypeOK, Handlers, At, Idle, Handler,
     ledger, rows, bounds
<1>8. RefundsFit'
  BY DEF Payout, RefundsFit, RowInv, RefundStatuses, UpdateAlone, FinalStatuses,
     TypeOK, Handlers, At, Idle, Handler, ledger, rows, bounds
<1> QED
  BY <1>1, <1>2, <1>3, <1>4, <1>5, <1>6, <1>7, <1>8

\* ReadWallet keeps the invariant.
LEMMA StepReadWallet ==
    ASSUME IInv, Serial, TypeOK', NEW w \in Workers, ReadWallet(w)
    PROVE  IInv'
<1> USE AmountAssumption, NoOneAssumption DEF IInv
<1>1. Fresh'
  BY DEF ReadWallet, ShouldRefund, Fresh, LockInv, UpdateAlone, TypeOK, Handlers, At, Idle,
     Handler, ledger, rows, bounds
<1>2. UpdateAlone'
  BY DEF ReadWallet, ShouldRefund, UpdateAlone, FinalStatuses, RefundStatuses,
     WithdrawalStatus, TypeOK, Handlers, At, Idle, Handler, ledger, rows, bounds
<1>3. KeyAlone'
  BY DEF ReadWallet, ShouldRefund, KeyAlone, Known, TypeOK, Handlers, At, Idle, Handler,
     ledger, rows, bounds
<1>4. RowInv'
  BY DEF ReadWallet, ShouldRefund, RowInv, UpdateAlone, WithdrawalStatus, TypeOK, Handlers,
     At, Idle, Handler, ledger, rows, bounds
<1>5. LockInv'
  BY DEF ReadWallet, ShouldRefund, LockInv, Fresh, UpdateAlone, TypeOK, Handlers, At, Idle,
     Handler, ledger, rows, bounds
<1>6. LedgerMatchesWallet'
  BY DEF ReadWallet, ShouldRefund, LedgerMatchesWallet, Fresh, TypeOK, Handlers, At, Idle,
     Handler, ledger, rows, bounds
<1>7. OneWithdrawalPerKey'
  BY DEF ReadWallet, ShouldRefund, OneWithdrawalPerKey, KeyAlone, Known, TypeOK, Handlers,
     At, Idle, Handler, ledger, rows, bounds
<1>8. RefundsFit'
  BY DEF ReadWallet, ShouldRefund, RefundsFit, RowInv, RefundStatuses, UpdateAlone,
     FinalStatuses, TypeOK, Handlers, At, Idle, Handler, ledger, rows, bounds
<1> QED
  BY <1>1, <1>2, <1>3, <1>4, <1>5, <1>6, <1>7, <1>8

\* CommitStatus keeps the invariant.
LEMMA StepCommitStatus ==
    ASSUME IInv, Serial, TypeOK', NEW w \in Workers, CommitStatus(w)
    PROVE  IInv'
<1> USE AmountAssumption, NoOneAssumption DEF IInv
<1>1. Fresh'
  BY DEF CommitStatus, Finish, ShouldRefund, Fresh, LockInv, UpdateAlone, TypeOK, Handlers,
     At, Idle, Handler, ledger, rows, bounds
<1>2. UpdateAlone'
  BY DEF CommitStatus, Finish, ShouldRefund, UpdateAlone, FinalStatuses, RefundStatuses,
     WithdrawalStatus, TypeOK, Handlers, At, Idle, Handler, ledger, rows, bounds
<1>3. KeyAlone'
  BY DEF CommitStatus, Finish, ShouldRefund, KeyAlone, Known, TypeOK, Handlers, At, Idle,
     Handler, ledger, rows, bounds
<1>4. RowInv'
  BY DEF CommitStatus, Finish, ShouldRefund, RowInv, UpdateAlone, WithdrawalStatus, TypeOK,
     Handlers, At, Idle, Handler, ledger, rows, bounds
<1>5. LockInv'
  BY DEF CommitStatus, Finish, ShouldRefund, LockInv, Fresh, UpdateAlone, TypeOK, Handlers,
     At, Idle, Handler, ledger, rows, bounds
<1>6. LedgerMatchesWallet'
  BY DEF CommitStatus, Finish, ShouldRefund, LedgerMatchesWallet, Fresh, TypeOK, Handlers,
     At, Idle, Handler, ledger, rows, bounds
<1>7. OneWithdrawalPerKey'
  BY DEF CommitStatus, Finish, ShouldRefund, OneWithdrawalPerKey, KeyAlone, Known, TypeOK,
     Handlers, At, Idle, Handler, ledger, rows, bounds
<1>8. RefundsFit'
  BY DEF CommitStatus, Finish, ShouldRefund, RefundsFit, RowInv, RefundStatuses,
     UpdateAlone, FinalStatuses, TypeOK, Handlers, At, Idle, Handler, ledger, rows, bounds
<1> QED
  BY <1>1, <1>2, <1>3, <1>4, <1>5, <1>6, <1>7, <1>8

\* CommitRefund keeps the invariant.
LEMMA StepCommitRefund ==
    ASSUME IInv, Serial, TypeOK', NEW w \in Workers, CommitRefund(w)
    PROVE  IInv'
<1> USE AmountAssumption, NoOneAssumption DEF IInv
<1>1. Fresh'
  BY DEF CommitRefund, Finish, RefundRow, Fresh, LockInv, UpdateAlone, TypeOK, Handlers, At,
     Idle, Handler, ledger, rows, bounds
<1>2. UpdateAlone'
  BY DEF CommitRefund, Finish, RefundRow, UpdateAlone, FinalStatuses, RefundStatuses,
     WithdrawalStatus, TypeOK, Handlers, At, Idle, Handler, ledger, rows, bounds
<1>3. KeyAlone'
  BY DEF CommitRefund, Finish, RefundRow, KeyAlone, Known, TypeOK, Handlers, At, Idle,
     Handler, ledger, rows, bounds
<1>4. RowInv'
  BY DEF CommitRefund, Finish, RefundRow, RowInv, UpdateAlone, WithdrawalStatus, TypeOK,
     Handlers, At, Idle, Handler, ledger, rows, bounds
<1>5. LockInv'
  BY DEF CommitRefund, Finish, RefundRow, LockInv, Fresh, UpdateAlone, TypeOK, Handlers, At,
     Idle, Handler, ledger, rows, bounds
<1>6. LedgerMatchesWallet'
  BY DEF CommitRefund, Finish, RefundRow, LedgerMatchesWallet, Fresh, TypeOK, Handlers, At,
     Idle, Handler, ledger, rows, bounds
<1>7. OneWithdrawalPerKey'
  BY DEF CommitRefund, Finish, RefundRow, OneWithdrawalPerKey, KeyAlone, Known, TypeOK,
     Handlers, At, Idle, Handler, ledger, rows, bounds
<1>8. RefundsFit'
  BY DEF CommitRefund, Finish, RefundRow, RefundsFit, RowInv, RefundStatuses,
     UpdateAlone, FinalStatuses, TypeOK, Handlers, At, Idle, Handler, ledger, rows, bounds
<1> QED
  BY <1>1, <1>2, <1>3, <1>4, <1>5, <1>6, <1>7, <1>8

\* RefusedWebhook keeps the invariant.
LEMMA StepRefusedWebhook ==
    ASSUME IInv, Serial, TypeOK', NEW w \in Workers, RefusedWebhook(w)
    PROVE  IInv'
<1> USE AmountAssumption, NoOneAssumption DEF IInv
<1>1. Fresh'
  BY DEF RefusedWebhook, Finish, Fresh, LockInv, UpdateAlone, TypeOK, Handlers, At, Idle,
     Handler, ledger, rows, bounds
<1>2. UpdateAlone'
  BY DEF RefusedWebhook, Finish, UpdateAlone, FinalStatuses, RefundStatuses,
     WithdrawalStatus, TypeOK, Handlers, At, Idle, Handler, ledger, rows, bounds
<1>3. KeyAlone'
  BY DEF RefusedWebhook, Finish, KeyAlone, Known, TypeOK, Handlers, At, Idle, Handler,
     ledger, rows, bounds
<1>4. RowInv'
  BY DEF RefusedWebhook, Finish, RowInv, UpdateAlone, WithdrawalStatus, TypeOK, Handlers, At,
     Idle, Handler, ledger, rows, bounds
<1>5. LockInv'
  BY DEF RefusedWebhook, Finish, LockInv, Fresh, UpdateAlone, TypeOK, Handlers, At, Idle,
     Handler, ledger, rows, bounds
<1>6. LedgerMatchesWallet'
  BY DEF RefusedWebhook, Finish, LedgerMatchesWallet, Fresh, TypeOK, Handlers, At, Idle,
     Handler, ledger, rows, bounds
<1>7. OneWithdrawalPerKey'
  BY DEF RefusedWebhook, Finish, OneWithdrawalPerKey, KeyAlone, Known, TypeOK, Handlers, At,
     Idle, Handler, ledger, rows, bounds
<1>8. RefundsFit'
  BY DEF RefusedWebhook, Finish, RefundsFit, RowInv, RefundStatuses, UpdateAlone,
     FinalStatuses, TypeOK, Handlers, At, Idle, Handler, ledger, rows, bounds
<1> QED
  BY <1>1, <1>2, <1>3, <1>4, <1>5, <1>6, <1>7, <1>8

\* Abort keeps the invariant.
LEMMA StepAbort ==
    ASSUME IInv, Serial, TypeOK', NEW w \in Workers, Abort(w)
    PROVE  IInv'
<1> USE AmountAssumption, NoOneAssumption DEF IInv
<1>1. Fresh'
  BY DEF Abort, Finish, Fresh, LockInv, UpdateAlone, TypeOK, Handlers, At, Idle, Handler,
     ledger, rows, bounds
<1>2. UpdateAlone'
  BY DEF Abort, Finish, UpdateAlone, FinalStatuses, RefundStatuses, WithdrawalStatus, TypeOK,
     Handlers, At, Idle, Handler, ledger, rows, bounds
<1>3. KeyAlone'
  BY DEF Abort, Finish, KeyAlone, Known, TypeOK, Handlers, At, Idle, Handler, ledger, rows,
     bounds
<1>4. RowInv'
  BY DEF Abort, Finish, RowInv, UpdateAlone, WithdrawalStatus, TypeOK, Handlers, At, Idle,
     Handler, ledger, rows, bounds
<1>5. LockInv'
  BY DEF Abort, Finish, LockInv, Fresh, UpdateAlone, TypeOK, Handlers, At, Idle, Handler,
     ledger, rows, bounds
<1>6. LedgerMatchesWallet'
  BY DEF Abort, Finish, LedgerMatchesWallet, Fresh, TypeOK, Handlers, At, Idle, Handler,
     ledger, rows, bounds
<1>7. OneWithdrawalPerKey'
  BY DEF Abort, Finish, OneWithdrawalPerKey, KeyAlone, Known, TypeOK, Handlers, At, Idle,
     Handler, ledger, rows, bounds
<1>8. RefundsFit'
  BY DEF Abort, Finish, RefundsFit, RowInv, RefundStatuses, UpdateAlone,
     FinalStatuses, TypeOK, Handlers, At, Idle, Handler, ledger, rows, bounds
<1> QED
  BY <1>1, <1>2, <1>3, <1>4, <1>5, <1>6, <1>7, <1>8

\* Credit keeps the invariant.
LEMMA StepCredit ==
    ASSUME IInv, Serial, TypeOK', NEW a \in Earnings, Credit(a)
    PROVE  IInv'
<1> USE AmountAssumption, NoOneAssumption DEF IInv
<1>1. Fresh'
  BY DEF Credit, Fresh, LockInv, UpdateAlone, MayBegin, Running, Ops, Serial, TypeOK,
     Handlers, At, Idle, Handler, ledger, rows, bounds
<1>2. UpdateAlone'
  BY DEF Credit, UpdateAlone, FinalStatuses, RefundStatuses, WithdrawalStatus, MayBegin,
     Running, Ops, Serial, TypeOK, Handlers, At, Idle, Handler, ledger, rows, bounds
<1>3. KeyAlone'
  BY DEF Credit, KeyAlone, Known, TypeOK, Handlers, At, Idle, Handler, ledger, rows, bounds
<1>4. RowInv'
  BY DEF Credit, RowInv, UpdateAlone, WithdrawalStatus, TypeOK, Handlers, At, Idle, Handler,
     ledger, rows, bounds
<1>5. LockInv'
  BY DEF Credit, LockInv, Fresh, UpdateAlone, TypeOK, Handlers, At, Idle, Handler, ledger,
     rows, bounds
<1>6. LedgerMatchesWallet'
  BY DEF Credit, LedgerMatchesWallet, Fresh, MayBegin, Running, Ops, Serial, TypeOK,
     Handlers, At, Idle, Handler, ledger, rows, bounds
<1>7. OneWithdrawalPerKey'
  BY DEF Credit, OneWithdrawalPerKey, KeyAlone, Known, TypeOK, Handlers, At, Idle, Handler,
     ledger, rows, bounds
<1>8. RefundsFit'
  BY DEF Credit, RefundsFit, RowInv, RefundStatuses, UpdateAlone, FinalStatuses,
     TypeOK, Handlers, At, Idle, Handler, ledger, rows, bounds
<1> QED
  BY <1>1, <1>2, <1>3, <1>4, <1>5, <1>6, <1>7, <1>8

\* Debit keeps the invariant.
LEMMA StepDebit ==
    ASSUME IInv, Serial, TypeOK', NEW a \in Earnings, NEW n \in BOOLEAN, Debit(a, n)
    PROVE  IInv'
<1> USE AmountAssumption, NoOneAssumption DEF IInv
<1>1. Fresh'
  BY DEF Debit, Fresh, LockInv, UpdateAlone, MayBegin, Running, Ops, Serial, TypeOK,
     Handlers, At, Idle, Handler, ledger, rows, bounds
<1>2. UpdateAlone'
  BY DEF Debit, UpdateAlone, FinalStatuses, RefundStatuses, WithdrawalStatus, MayBegin,
     Running, Ops, Serial, TypeOK, Handlers, At, Idle, Handler, ledger, rows, bounds
<1>3. KeyAlone'
  BY DEF Debit, KeyAlone, Known, TypeOK, Handlers, At, Idle, Handler, ledger, rows, bounds
<1>4. RowInv'
  BY DEF Debit, RowInv, UpdateAlone, WithdrawalStatus, TypeOK, Handlers, At, Idle, Handler,
     ledger, rows, bounds
<1>5. LockInv'
  BY DEF Debit, LockInv, Fresh, UpdateAlone, TypeOK, Handlers, At, Idle, Handler, ledger,
     rows, bounds
<1>6. LedgerMatchesWallet'
  BY DEF Debit, LedgerMatchesWallet, Fresh, MayBegin, Running, Ops, Serial, TypeOK, Handlers,
     At, Idle, Handler, ledger, rows, bounds
<1>7. OneWithdrawalPerKey'
  BY DEF Debit, OneWithdrawalPerKey, KeyAlone, Known, TypeOK, Handlers, At, Idle, Handler,
     ledger, rows, bounds
<1>8. RefundsFit'
  BY DEF Debit, RefundsFit, RowInv, RefundStatuses, UpdateAlone, FinalStatuses,
     TypeOK, Handlers, At, Idle, Handler, ledger, rows, bounds
<1> QED
  BY <1>1, <1>2, <1>3, <1>4, <1>5, <1>6, <1>7, <1>8

\* The initial state.
LEMMA InitInv == Init => IInv
<1> SUFFICES ASSUME Init PROVE IInv
  OBVIOUS
<1> USE AmountAssumption, NoOneAssumption DEF Init
<1>1. TypeOK
  BY IdleType DEF TypeOK, WithdrawalStatus
<1>2. Fresh /\ UpdateAlone /\ KeyAlone /\ LockInv
  BY DEF Fresh, UpdateAlone, KeyAlone, LockInv, At, Idle, Handler
<1>3. RowInv /\ LedgerMatchesWallet /\ OneWithdrawalPerKey /\ RefundsFit
  BY DEF RowInv, LedgerMatchesWallet, OneWithdrawalPerKey, RefundsFit, RefundStatuses
<1> QED
  BY <1>1, <1>2, <1>3 DEF IInv

\* Every step keeps the invariant.
LEMMA StepInv ==
    ASSUME IInv, Serial, [Next]_vars
    PROVE  IInv'
<1>1. TypeOK'
  BY TypeStep DEF IInv
<1>2. ASSUME NEW w \in Workers, NEW k \in Keys, NEW a \in Amounts, BeginRequest(w, k, a)
      PROVE  IInv'
  BY <1>1, <1>2, StepBeginRequest
<1>3. ASSUME NEW w \in Workers, NEW i \in Ids, NEW to \in WithdrawalStatus,
             BeginUpdate(w, i, to) \/ BeginWebhook(w, i, to)
      PROVE  IInv'
  BY <1>1, <1>3, StepBeginUpdate, StepBeginWebhook
<1>4. ASSUME NEW w \in Workers, RequestWallet(w) \/ CommitRequest(w)
      PROVE  IInv'
  BY <1>1, <1>4, StepRequestWallet, StepCommitRequest
<1>5. ASSUME NEW w \in Workers, Payout(w) \/ ReadWallet(w) \/ CommitStatus(w) \/ CommitRefund(w)
      PROVE  IInv'
  BY <1>1, <1>5, StepPayout, StepReadWallet, StepCommitStatus, StepCommitRefund
<1>6. ASSUME NEW w \in Workers, RefusedWebhook(w) \/ Abort(w)
      PROVE  IInv'
  BY <1>1, <1>6, StepRefusedWebhook, StepAbort
<1>7. ASSUME NEW a \in Earnings, Credit(a) \/ Debit(a, FALSE) \/ Debit(a, TRUE)
      PROVE  IInv'
  BY <1>1, <1>7, StepCredit, StepDebit
<1>8. CASE UNCHANGED vars
  BY <1>1, <1>8 DEF IInv, vars, ledger, rows, bounds, Fresh, UpdateAlone, KeyAlone, Known,
     RowInv, LockInv, LedgerMatchesWallet, OneWithdrawalPerKey, RefundsFit, At
<1> QED
  BY <1>2, <1>3, <1>4, <1>5, <1>6, <1>7, <1>8 DEF Next

-----------------------------------------------------------------------------
(* The theorems.                                                           *)

\* The invariant holds in every reachable state.
THEOREM Invariance == Serial /\ Spec => []IInv
<1> SUFFICES ASSUME Serial PROVE Spec => []IInv
  OBVIOUS
<1>1. Init => IInv
  BY InitInv
<1>2. IInv /\ [Next]_vars => IInv'
  BY StepInv
<1> QED
  BY <1>1, <1>2, PTL DEF Spec

\* Wallet, withdrawals and handler records stay well formed.
THEOREM TypeCorrect == Serial /\ Spec => []TypeOK
<1>1. IInv => TypeOK
  BY DEF IInv
<1> QED
  BY <1>1, Invariance, PTL

\* The wallet is the sum of its ledger rows, whatever overlaps and crashes.
THEOREM LedgerMatchesWalletHolds == Serial /\ Spec => []LedgerMatchesWallet
<1>1. IInv => LedgerMatchesWallet
  BY DEF IInv
<1> QED
  BY <1>1, Invariance, PTL

\* One idempotency key, one withdrawal.
THEOREM OneWithdrawalPerKeyHolds == Serial /\ Spec => []OneWithdrawalPerKey
<1>1. IInv => OneWithdrawalPerKey
  BY DEF IInv
<1> QED
  BY <1>1, Invariance, PTL

\* What the admin does follows Decisions, and no update fails after its payout.
Judged == AdminMoves \subseteq Decisions /\ ~PayoutsLost

\* The statuses of a withdrawal whose payout the gateway has accepted.
PaidStatuses == {"processing", "success", "completed", "failed", "reversed"}

\* An update under way goes where Decisions leads.
MoveInv ==
    \A w \in Workers : worker[w].op = "update" =>
        /\ worker[w].old \in {"pending", "processing"}
        /\ worker[w].at \in {"payout", "paid", "save", "refund"}
        /\ worker[w].at \in {"payout", "paid"} => worker[w].old = "pending"
        /\ worker[w].at = "paid" => worker[w].to = "processing"
        /\ worker[w].at \in {"save", "refund"} =>
             worker[w].to \in IF worker[w].old = "pending" THEN {"rejected", "cancelled"}
                              ELSE PaidStatuses

\* A withdrawal was paid out once if its status or an update says so, and never
\* otherwise.
PayoutsFit ==
    \A i \in Ids : payouts[i] = IF PaidOut(i) \/ status[i] \in PaidStatuses THEN 1 ELSE 0

\* A handler that is not an update at its payout, or leaves that stage without
\* a commit it never made, changes nothing the payouts depend on.
LEMMA PayoutsKept ==
    ASSUME PayoutsFit, payouts' = payouts,
           \A i \in Ids : (status'[i] \in PaidStatuses) = (status[i] \in PaidStatuses),
           \A v \in Workers : At(v, "update", "paid")' = At(v, "update", "paid"),
           \A v \in Workers : At(v, "update", "paid") => worker'[v].id = worker[v].id
    PROVE  PayoutsFit'
<1>1. \A i \in Ids : PaidOut(i)' = PaidOut(i)
  BY DEF PaidOut
<1> QED
  BY <1>1 DEF PayoutsFit

\* The records that handlers start with and end in.
LEMMA Records ==
    /\ Idle.op = "none" /\ Idle.at = "idle"
    /\ \A op, at : Handler(op, at).op = op /\ Handler(op, at).at = at
  BY DEF Idle, Handler

\* Both parts are kept.
LEMMA PayStep ==
    ASSUME IInv, MoveInv, PayoutsFit, Serial, Judged, [Next]_vars
    PROVE  MoveInv' /\ PayoutsFit'
<1> USE DEF IInv
<1>1. ASSUME NEW w \in Workers, NEW k \in Keys, NEW a \in Amounts, BeginRequest(w, k, a)
      PROVE  MoveInv' /\ PayoutsFit'
  <2>1. /\ \A v \in Workers : v # w => worker'[v] = worker[v]
        /\ worker'[w].op = "request" /\ worker[w] = Idle /\ UNCHANGED <<payouts, status>>
    BY <1>1 DEF BeginRequest, TypeOK, Handler, rows
  <2>2. MoveInv'
    BY <2>1 DEF MoveInv
  <2>3. PayoutsFit'
    BY <2>1, PayoutsKept, Records DEF At
  <2> QED
    BY <2>2, <2>3
<1>2. ASSUME NEW w \in Workers, RequestWallet(w) \/ CommitRequest(w)
      PROVE  MoveInv' /\ PayoutsFit'
  <2>1. /\ \A v \in Workers : v # w => worker'[v] = worker[v]
        /\ worker'[w].op # "update" /\ worker[w].op = "request" /\ payouts' = payouts
        /\ worker'[w].op \in {"request", "none"}
    BY <1>2, Records DEF RequestWallet, CommitRequest, Finish, At, TypeOK, Handlers
  <2>2. \A i \in Ids : (status'[i] \in PaidStatuses) = (status[i] \in PaidStatuses)
    BY <1>2 DEF RequestWallet, CommitRequest, rows, PaidStatuses, TypeOK
  <2>3. MoveInv'
    BY <2>1 DEF MoveInv
  <2>4. PayoutsFit'
    BY <2>1, <2>2, PayoutsKept DEF At
  <2> QED
    BY <2>3, <2>4
<1>3. ASSUME NEW w \in Workers, NEW i \in Ids, NEW to \in WithdrawalStatus, BeginUpdate(w, i, to)
      PROVE  MoveInv' /\ PayoutsFit'
  <2> DEFINE at == IF to = "approved" THEN "payout" ELSE "save"
  <2>1. /\ \A v \in Workers : v # w => worker'[v] = worker[v]
        /\ worker'[w].op = "update" /\ worker'[w].at = at
        /\ worker'[w].old = status[i] /\ worker'[w].to = to
        /\ worker[w] = Idle /\ UNCHANGED <<payouts, status>>
    BY <1>3 DEF BeginUpdate, TypeOK, Handler, rows
  <2>2. <<status[i], to>> \in Decisions /\ Updatable(status[i], to)
    BY <1>3 DEF BeginUpdate, Judged
  <2>3. MoveInv'
    BY <2>1, <2>2 DEF MoveInv, Decisions, Updatable, PaidStatuses
  <2>4. PayoutsFit'
    BY <2>1, PayoutsKept, Records DEF At
  <2> QED
    BY <2>3, <2>4
<1>4. ASSUME NEW w \in Workers, NEW i \in Ids, NEW to \in WithdrawalStatus, BeginWebhook(w, i, to)
      PROVE  MoveInv' /\ PayoutsFit'
  <2>1. /\ \A v \in Workers : v # w => worker'[v] = worker[v]
        /\ worker'[w].op = "webhook" /\ worker[w] = Idle /\ UNCHANGED <<payouts, status>>
    BY <1>4 DEF BeginWebhook, TypeOK, Handler, rows
  <2>2. MoveInv'
    BY <2>1 DEF MoveInv
  <2>3. PayoutsFit'
    BY <2>1, PayoutsKept, Records DEF At
  <2> QED
    BY <2>2, <2>3
<1>5. ASSUME NEW w \in Workers, Payout(w)
      PROVE  MoveInv' /\ PayoutsFit'
  <2> DEFINE i == worker[w].id
  <2>1. /\ worker[w].op = "update" /\ worker[w].at = "payout" /\ i \in Ids
        /\ worker[w].old = "pending" /\ status[i] = "pending"
        /\ \A v \in Workers : v # w => worker[v].op = "none"
    BY <1>5 DEF Payout, At, UpdateAlone, MoveInv
  <2>2. /\ \A v \in Workers : v # w => worker'[v] = worker[v]
        /\ worker'[w].op = "update" /\ worker'[w].at = "paid" /\ worker'[w].id = i
        /\ worker'[w].old = "pending" /\ worker'[w].to = "processing"
        /\ status' = status
    BY <1>5, <2>1 DEF Payout, TypeOK, Handlers, rows
  <2>3. MoveInv'
    BY <2>2 DEF MoveInv
  <2>4. /\ payouts'[i] = payouts[i] + 1
        /\ \A j \in Ids \ {i} : payouts'[j] = payouts[j]
    BY <1>5, <2>1 DEF Payout, TypeOK
  <2>5. \A j \in Ids : ~PaidOut(j)
    BY <2>1 DEF PaidOut, At
  <2>6. \A j \in Ids : PaidOut(j)' <=> j = i
    BY <2>1, <2>2 DEF PaidOut, At
  <2>7. PayoutsFit'
    <3> HIDE DEF i
    <3> QED
      BY <2>1, <2>2, <2>4, <2>5, <2>6 DEF PayoutsFit, PaidStatuses
  <2> QED
    BY <2>3, <2>7
<1>6. ASSUME NEW w \in Workers, ReadWallet(w)
      PROVE  MoveInv' /\ PayoutsFit'
  <2>1. /\ \A v \in Workers : v # w => worker'[v] = worker[v]
        /\ worker[w].op = "update" /\ worker[w].at = "save"
        /\ worker'[w].op = "update" /\ worker'[w].at = "refund"
        /\ worker'[w].old = worker[w].old /\ worker'[w].to = worker[w].to
        /\ UNCHANGED <<payouts, status>>
    BY <1>6 DEF ReadWallet, At, TypeOK, Handlers, rows
  <2>2. MoveInv'
    BY <2>1 DEF MoveInv
  <2>3. PayoutsFit'
    BY <2>1, PayoutsKept DEF At
  <2> QED
    BY <2>2, <2>3
<1>7. ASSUME NEW w \in Workers, CommitStatus(w) \/ CommitRefund(w)
      PROVE  MoveInv' /\ PayoutsFit'
  <2> DEFINE i == worker[w].id
  <2>1. /\ worker[w].op = "update" /\ i \in Ids /\ worker[w].old = status[i]
        /\ \A v \in Workers : v # w => worker[v].op = "none"
        /\ worker[w].to \in WithdrawalStatus
    BY <1>7 DEF CommitStatus, CommitRefund, At, UpdateAlone
  <2>2. /\ \A v \in Workers : v # w => worker'[v] = worker[v]
        /\ worker'[w] = Idle /\ payouts' = payouts
        /\ status'[i] = worker[w].to /\ \A j \in Ids \ {i} : status'[j] = status[j]
    BY <1>7, <2>1 DEF CommitStatus, CommitRefund, Finish, TypeOK
  <2>3. MoveInv'
    BY <2>1, <2>2, Records DEF MoveInv
  <2>4. \A j \in Ids : ~PaidOut(j)'
    BY <2>1, <2>2, Records DEF PaidOut, At
  <2>5. \A j \in Ids \ {i} : ~PaidOut(j)
    BY <2>1 DEF PaidOut, At
  <2>6. PaidOut(i) <=> worker[w].at = "paid"
    BY <2>1 DEF PaidOut, At
  <2>7. (PaidOut(i) \/ status[i] \in PaidStatuses) <=> status'[i] \in PaidStatuses
    <3>1. CASE CommitStatus(w)
      <4>1. ~ShouldRefund(worker[w].old, worker[w].to) /\ worker[w].at \in {"save", "paid"}
        BY <3>1 DEF CommitStatus, At
      <4> QED
        BY <2>1, <2>2, <2>6, <4>1 DEF MoveInv, ShouldRefund, RefundStatuses, PaidStatuses
    <3>2. CASE CommitRefund(w)
      <4>1. worker[w].at = "refund"
        BY <3>2 DEF CommitRefund, At
      <4> QED
        BY <2>1, <2>2, <2>6, <4>1 DEF MoveInv, PaidStatuses
    <3> QED
      BY <1>7, <3>1, <3>2
  <2>8. PayoutsFit'
    <3> HIDE DEF i
    <3> QED
      BY <2>1, <2>2, <2>4, <2>5, <2>7 DEF PayoutsFit
  <2> QED
    BY <2>3, <2>8
<1>8. ASSUME NEW w \in Workers, RefusedWebhook(w) \/ Abort(w)
      PROVE  MoveInv' /\ PayoutsFit'
  <2>1. /\ \A v \in Workers : v # w => worker'[v] = worker[v]
        /\ worker'[w] = Idle /\ ~At(w, "update", "paid") /\ UNCHANGED <<payouts, status>>
    BY <1>8 DEF RefusedWebhook, Abort, Finish, At, TypeOK, rows, Judged
  <2>2. MoveInv'
    BY <2>1, Records DEF MoveInv
  <2>3. PayoutsFit'
    BY <2>1, PayoutsKept, Records DEF At
  <2> QED
    BY <2>2, <2>3
<1>9. ASSUME NEW a \in Earnings, Credit(a) \/ Debit(a, FALSE) \/ Debit(a, TRUE)
      PROVE  MoveInv' /\ PayoutsFit'
  <2>1. UNCHANGED <<worker, payouts, status>>
    BY <1>9 DEF Credit, Debit, rows
  <2> QED
    BY <2>1, PayoutsKept DEF MoveInv, At
<1>10. CASE UNCHANGED vars
  <2>1. UNCHANGED <<worker, payouts, status>>
    BY <1>10 DEF vars, rows
  <2> QED
    BY <2>1, PayoutsKept DEF MoveInv, At
<1> QED
  BY <1>1, <1>2, <1>3, <1>4, <1>5, <1>6, <1>7, <1>8, <1>9, <1>10 DEF Next

\* The money of a withdrawal leaves at most once and comes back at most once, as
\* its status says, if the admin follows the gateway and no update fails after
\* its payout was accepted.
THEOREM MoneyMatchesStatusHolds == Serial /\ Judged /\ Spec => []MoneyMatchesStatus
<1> SUFFICES ASSUME Serial, Judged PROVE Spec => []MoneyMatchesStatus
  OBVIOUS
<1>1. Init => MoveInv /\ PayoutsFit
  BY Records DEF Init, MoveInv, PayoutsFit, PaidStatuses, PaidOut, At
<1>2. IInv /\ (MoveInv /\ PayoutsFit) /\ [Next]_vars => (MoveInv /\ PayoutsFit)'
  BY PayStep
<1>3. IInv /\ PayoutsFit => MoneyMatchesStatus
  BY DEF IInv, RefundsFit, PayoutsFit, PaidStatuses, MoneyMatchesStatus
<1> QED
  BY <1>1, <1>2, <1>3, Invariance, PTL DEF Spec

\* A step leaves the withdrawals that are final alone.
LEMMA FinalStep ==
    ASSUME IInv, Next, NEW j \in Ids, status[j] \in FinalStatuses
    PROVE  status'[j] = status[j]
<1> USE DEF IInv
<1>1. ASSUME NEW w \in Workers, CommitRequest(w) PROVE status'[j] = status[j]
  BY <1>1 DEF CommitRequest, TypeOK, FinalStatuses
<1>2. ASSUME NEW w \in Workers, CommitStatus(w) \/ CommitRefund(w) PROVE status'[j] = status[j]
  BY <1>2 DEF CommitStatus, CommitRefund, UpdateAlone, At, TypeOK
<1>3. CASE status' = status
  BY <1>3
<1> QED
  BY <1>1, <1>2, <1>3 DEF Next, BeginRequest, RequestWallet, BeginUpdate, BeginWebhook, Payout,
     ReadWallet, RefusedWebhook, Abort, Credit, Debit, rows

\* A withdrawal that was paid or refused never changes again.
THEOREM FinalIsFinalHolds == Serial /\ Spec => FinalIsFinal
<1>1. IInv /\ [Next]_vars
        => [\A i \in Ids : status[i] \in FinalStatuses => status'[i] = status[i]]_vars
  BY FinalStep
<1> QED
  BY <1>1, Invariance, PTL DEF Spec, FinalIsFinal
=============================================================================
