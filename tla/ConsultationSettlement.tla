----------------------- MODULE ConsultationSettlement -----------------------
(***************************************************************************)
(* The money of a paid consultation: one client's wallet, the HOLD taken   *)
(* when a consultation is requested, and every workflow that gives it      *)
(* back or charges it.                                                     *)
(*                                                                         *)
(* The service runs each workflow as an async handler over Postgres at     *)
(* READ COMMITTED, so a handler is a sequence of SQL statements and other  *)
(* handlers run between any two of them.  req[r] is the handler running in *)
(* slot r: the operation, the statement it executes next, and the values   *)
(* it has read so far.  lock[c] is the row lock that an open transaction   *)
(* holds on consultation c after its UPDATE: another UPDATE of the row     *)
(* waits for it, a SELECT does not and sees the last committed row.        *)
(*                                                                         *)
(* With one slot the handlers run one after the other; with two or more    *)
(* they overlap.                                                           *)
(***************************************************************************)
EXTENDS Integers, Sequences, FiniteSets, Functions

CONSTANTS
    Consultations,  \* ids the consultations table may hand out
    Requests,       \* handler slots: how many handlers may overlap
    NoOne,          \* not a slot, not a consultation
    Modes,          \* consultation modes (chat, voice, video)
    Hold,           \* minBalanceRequired of each consultation
    Payables,       \* amounts a settlement may come to
    InitialBalance, \* the wallet when the model starts
    Credits,        \* recharge amounts
    Debits,         \* purchase amounts
    MaxDeposited,   \* bound: total of the recharges
    MaxSpent,       \* bound: total of the purchases
    MaxSessions     \* bound: session rows per consultation

ASSUME HoldAssumption == Hold \in [Consultations -> Nat \ {0}]
ASSUME AmountAssumption ==
    /\ InitialBalance \in Nat
    /\ Payables \subseteq Nat
    /\ Credits \subseteq Nat
    /\ Debits \subseteq Nat
ASSUME FiniteAssumption == IsFiniteSet(Consultations)
ASSUME NoOneAssumption == NoOne \notin Requests \cup Consultations

VARIABLES
    balance,   \* client_wallets.balance
    reserved,  \* client_wallets.reserved_balance
    deposited, \* total of the CREDIT rows
    spent,     \* total of the DEBIT rows
    status,    \* consultations.status, "absent" before the row exists
    mode,      \* consultations.mode, NoOne before the row exists
    startedAt, \* consultations.started_at is set
    sessions,  \* consultation_sessions of each consultation, in id order
    held,      \* amount of the HOLD row, 0 when there is none
    releases,  \* number of RELEASE rows
    charges,   \* number of settlements that moved money
    charged,   \* total deducted from the client by settlements
    refunded,  \* total given back to the balance by RELEASE rows
    billed,    \* consultation_billings.wallet_deduction, 0 without a row
    lock,      \* slot whose open transaction has updated the row
    req        \* the handler running in each slot

wallet == <<balance, reserved>>
totals == <<deposited, spent>>
rows   == <<status, mode, startedAt, sessions>>
holds  == <<held, releases, charges, charged, refunded, billed>>
vars   == <<wallet, totals, rows, holds, lock, req>>

-----------------------------------------------------------------------------
Statuses == {"absent", "requested", "accepted", "active", "completed",
             "reopened", "closed", "cancelled", "rejected"}

\* A client may have one consultation per mode in these states.
OpenStatuses == {"requested", "reopened", "accepted", "active"}

\* States a session may be live in; end-consultation claims only these.
LiveStatuses == {"accepted", "active"}

SessionStatuses == {"pending", "active", "closed"}

Operations == {"idle", "create", "attach", "start", "request", "close",
               "end", "cancel", "reject", "drop", "debit"}

\* The statement a handler executes next.
Steps == {"idle", "commit", "claim", "holdRows", "wallet", "select", "update"}

Min2(a, b) == IF a < b THEN a ELSE b

Handler(op, at, c) ==
    [op |-> op, at |-> at, c |-> c, mode |-> NoOne, sid |-> 0, started |-> FALSE,
     done |-> FALSE, bal |-> 0, res |-> 0, pay |-> 0]

Idle == Handler("idle", "idle", NoOne)

At(r, op, at) == req[r].op = op /\ req[r].at = at

\* Operations that release or settle a hold inside a transaction.
Releasing(r) == req[r].op \in {"end", "cancel", "reject", "drop"}

\* A handler that charges: end-consultation on a consultation that had started.
Settling(r) == req[r].op = "end" /\ req[r].started

Closed(ss, which) == [i \in DOMAIN ss |-> IF ss[i] \in which THEN "closed" ELSE ss[i]]

Init ==
    /\ balance = InitialBalance
    /\ reserved = 0
    /\ deposited = 0
    /\ spent = 0
    /\ status = [c \in Consultations |-> "absent"]
    /\ mode = [c \in Consultations |-> NoOne]
    /\ startedAt = [c \in Consultations |-> FALSE]
    /\ sessions = [c \in Consultations |-> <<>>]
    /\ held = [c \in Consultations |-> 0]
    /\ releases = [c \in Consultations |-> 0]
    /\ charges = [c \in Consultations |-> 0]
    /\ charged = [c \in Consultations |-> 0]
    /\ refunded = [c \in Consultations |-> 0]
    /\ billed = [c \in Consultations |-> 0]
    /\ lock = [c \in Consultations |-> NoOne]
    /\ req = [r \in Requests |-> Idle]

-----------------------------------------------------------------------------
(* Requesting: a new consultation with its hold, or one more session.      *)

Affordable(c, free) == free \/ balance >= Hold[c]

\* The checks of createConsultation and the wallet it reads.  A client who is
\* eligible for free minutes gets no hold.
BeginCreate(r, c, m) ==
    /\ req[r] = Idle
    /\ status[c] = "absent"
    /\ \A s \in Requests : req[s].op = "create" => req[s].c # c
    /\ \A d \in Consultations : mode[d] = m => status[d] \notin OpenStatuses
    /\ \E free \in BOOLEAN :
         /\ Affordable(c, free)
         /\ req' = [req EXCEPT ![r] =
              [Handler("create", "commit", c) EXCEPT
                 !.mode = m, !.bal = balance, !.res = reserved,
                 !.pay = IF free THEN 0 ELSE Hold[c]]]
    /\ UNCHANGED <<wallet, totals, rows, holds, lock>>

\* Inserts the rows and writes the wallet as computed from what was read.
CommitCreate(r) ==
    /\ At(r, "create", "commit")
    /\ LET q == req[r] IN
       /\ status' = [status EXCEPT ![q.c] = "requested"]
       /\ mode' = [mode EXCEPT ![q.c] = q.mode]
       /\ sessions' = [sessions EXCEPT ![q.c] = <<"pending">>]
       /\ held' = [held EXCEPT ![q.c] = q.pay]
       /\ IF q.pay > 0
          THEN /\ balance' = q.bal - q.pay
               /\ reserved' = q.res + q.pay
          ELSE UNCHANGED wallet
    /\ req' = [req EXCEPT ![r] = Idle]
    /\ UNCHANGED <<totals, startedAt, releases, charges, charged, refunded,
                   billed, lock>>

\* attachSession: the guards are read in the transaction, the session is
\* inserted by a later statement.  Only a completed consultation may change
\* its mode.  No new hold is taken.
BeginAttach(r, c, m) ==
    /\ req[r] = Idle
    /\ status[c] \notin {"absent", "closed"}
    /\ m = mode[c] \/ status[c] = "completed"
    /\ \A d \in Consultations \ {c} : mode[d] = m => status[d] \notin OpenStatuses
    /\ Len(sessions[c]) < MaxSessions
    /\ req' = [req EXCEPT ![r] =
         [Handler("attach", "commit", c) EXCEPT !.mode = IF m = mode[c] THEN NoOne ELSE m]]
    /\ UNCHANGED <<wallet, totals, rows, holds, lock>>

CommitAttach(r) ==
    /\ At(r, "attach", "commit")
    /\ LET q == req[r] IN
       /\ Len(sessions[q.c]) < MaxSessions
       /\ \/ q.mode = NoOne /\ mode' = mode
          \/ /\ q.mode # NoOne
             /\ lock[q.c] = NoOne
             /\ mode' = [mode EXCEPT ![q.c] = q.mode]
       /\ sessions' = [sessions EXCEPT ![q.c] = Append(@, "pending")]
    /\ req' = [req EXCEPT ![r] = Idle]
    /\ UNCHANGED <<wallet, totals, status, startedAt, holds, lock>>

-----------------------------------------------------------------------------
(* Accepting and starting.                                                 *)

\* One conditional UPDATE decides; its commit is its end.
Accept(r, c) ==
    /\ req[r] = Idle
    /\ status[c] \in {"requested", "reopened"}
    /\ lock[c] = NoOne
    /\ status' = [status EXCEPT ![c] = "accepted"]
    /\ UNCHANGED <<wallet, totals, mode, startedAt, sessions, holds, lock, req>>

\* The conditional flip to ACTIVE: only its winner goes on to the session.
StartClaim(r, c) ==
    /\ req[r] = Idle
    /\ status[c] = "accepted"
    /\ lock[c] = NoOne
    /\ status' = [status EXCEPT ![c] = "active"]
    /\ startedAt' = [startedAt EXCEPT ![c] = TRUE]
    /\ req' = [req EXCEPT ![r] = Handler("start", "select", c)]
    /\ UNCHANGED <<wallet, totals, mode, sessions, holds, lock>>

Pending(c) == {i \in DOMAIN sessions[c] : sessions[c][i] = "pending"}

\* The latest PENDING session, if any ...
StartSelect(r) ==
    /\ At(r, "start", "select")
    /\ LET c == req[r].c IN
       \/ /\ Pending(c) = {}
          /\ req' = [req EXCEPT ![r] = Idle]
       \/ \E i \in Pending(c) :
            /\ \A j \in Pending(c) : j <= i
            /\ req' = [req EXCEPT ![r].at = "update", ![r].sid = i]
    /\ UNCHANGED <<wallet, totals, rows, holds, lock>>

\* ... is made ACTIVE by its id, whatever has happened to it since.
StartUpdate(r) ==
    /\ At(r, "start", "update")
    /\ sessions' = [sessions EXCEPT ![req[r].c][req[r].sid] = "active"]
    /\ req' = [req EXCEPT ![r] = Idle]
    /\ UNCHANGED <<wallet, totals, status, mode, startedAt, holds, lock>>

-----------------------------------------------------------------------------
(* Continuing a completed consultation, and closing it for good.           *)

Reopenable == {"completed"}

\* RequestConsultationUseCase writes the status only when it read COMPLETED.
BeginRequest(r, c) ==
    /\ req[r] = Idle
    /\ status[c] \in Reopenable
    /\ req' = [req EXCEPT ![r] = Handler("request", "commit", c)]
    /\ UNCHANGED <<wallet, totals, rows, holds, lock>>

\* The UPDATE is by id alone.
CommitRequest(r) ==
    /\ At(r, "request", "commit")
    /\ lock[req[r].c] = NoOne
    /\ status' = [status EXCEPT ![req[r].c] = "reopened"]
    /\ req' = [req EXCEPT ![r] = Idle]
    /\ UNCHANGED <<wallet, totals, mode, startedAt, sessions, holds, lock>>

BeginClose(r, c) ==
    /\ req[r] = Idle
    /\ status[c] \in {"completed", "reopened"}
    /\ req' = [req EXCEPT ![r] = Handler("close", "commit", c)]
    /\ UNCHANGED <<wallet, totals, rows, holds, lock>>

\* Both UPDATEs of the transaction are by consultation id alone.
CommitClose(r) ==
    /\ At(r, "close", "commit")
    /\ LET c == req[r].c IN
       /\ lock[c] = NoOne
       /\ status' = [status EXCEPT ![c] = "closed"]
       /\ sessions' = [sessions EXCEPT ![c] = Closed(@, {"pending"})]
    /\ req' = [req EXCEPT ![r] = Idle]
    /\ UNCHANGED <<wallet, totals, mode, startedAt, holds, lock>>

-----------------------------------------------------------------------------
(* The workflows that give the hold back.  Each claims the consultation    *)
(* row first and then runs releaseConsultationHold or                      *)
(* settleConsultationHold in the same transaction.                         *)

\* end-consultation reads the row and prices the consultation; it asks
\* nothing of the status it read.
BeginEnd(r, c) ==
    /\ req[r] = Idle
    /\ status[c] # "absent"
    /\ \E amount \in Payables :
         req' = [req EXCEPT ![r] =
           [Handler("end", "claim", c) EXCEPT !.started = startedAt[c], !.pay = amount]]
    /\ UNCHANGED <<wallet, totals, rows, holds, lock>>

\* The status a releasing workflow writes.
StatusWritten(r) ==
    CASE req[r].op = "end"    -> IF req[r].started THEN "completed" ELSE "cancelled"
      [] req[r].op = "cancel" -> "cancelled"
      [] req[r].op = "reject" -> "rejected"
      [] req[r].op = "drop"   -> "cancelled"

\* Mutated form: the UPDATE runs outside the transaction, without its lock.
ClaimRowUnlocked(r, c) == UNCHANGED <<status, lock>>

\* Mutated form: the UPDATE commits before the hold is settled.
ClaimRowAtOnce(r, c) ==
    /\ status' = [status EXCEPT ![c] = IF req[r].started THEN "completed" ELSE "cancelled"]
    /\ UNCHANGED lock

\* An UPDATE inside an open transaction: nobody sees the new status yet, but
\* the row is locked.
ClaimRow(r, c) ==
    /\ lock[c] = NoOne
    /\ lock' = [lock EXCEPT ![c] = r]
    /\ UNCHANGED status

\* The conditional UPDATE of a live consultation.  Whether it matched is not
\* looked at: the transaction goes on either way.
ClaimEnd(r) ==
    /\ At(r, "end", "claim")
    /\ LET c == req[r].c IN
       \/ status[c] \in LiveStatuses /\ ClaimRow(r, c)
       \/ status[c] \notin LiveStatuses /\ UNCHANGED <<status, lock>>
    /\ req' = [req EXCEPT ![r].at = "holdRows"]
    /\ UNCHANGED <<wallet, totals, mode, startedAt, sessions, holds>>

\* The client cancels, or the expert (or the expiry cron) rejects: a
\* conditional UPDATE of a requested consultation, or nothing at all.
Withdraw(r, c) ==
    /\ req[r] = Idle
    /\ status[c] = "requested"
    /\ ClaimRow(r, c)
    /\ \E op \in {"cancel", "reject"} :
         req' = [req EXCEPT ![r] = Handler(op, "holdRows", c)]
    /\ UNCHANGED <<wallet, totals, mode, startedAt, sessions, holds>>

\* An actor's grace window ran out: closeForConsultation reads the parent ...
BeginDrop(r, c) ==
    /\ req[r] = Idle
    /\ status[c] \in LiveStatuses
    /\ req' = [req EXCEPT ![r] =
         [Handler("drop", "select", c) EXCEPT !.started = startedAt[c]]]
    /\ UNCHANGED <<wallet, totals, rows, holds, lock>>

\* Mutated form: started_at is not looked at.
CancellableAlways(r) == Pending(req[r].c) # {}

\* The parent it read had not started, and a PENDING session is there.
Cancellable(r) == ~req[r].started /\ Pending(req[r].c) # {}

\* ... closes the ACTIVE sessions, and when there is none and the parent it
\* read had not started, takes a PENDING session to cancel ...
DropSessions(r) ==
    /\ At(r, "drop", "select")
    /\ LET c == req[r].c IN
       \/ /\ "active" \in Range(sessions[c])
          /\ sessions' = [sessions EXCEPT ![c] = Closed(@, {"active"})]
          /\ req' = [req EXCEPT ![r] = Idle]
       \/ /\ "active" \notin Range(sessions[c])
          /\ ~Cancellable(r)
          /\ req' = [req EXCEPT ![r] = Idle]
          /\ UNCHANGED sessions
       \/ /\ "active" \notin Range(sessions[c])
          /\ Cancellable(r)
          /\ \E i \in Pending(c) :
               req' = [req EXCEPT ![r].at = "claim", ![r].sid = i]
          /\ UNCHANGED sessions
    /\ UNCHANGED <<wallet, totals, status, mode, startedAt, holds, lock>>

\* ... in a transaction that cancels the consultation by id alone.
ClaimDrop(r) ==
    /\ At(r, "drop", "claim")
    /\ ClaimRow(r, req[r].c)
    /\ req' = [req EXCEPT ![r].at = "holdRows"]
    /\ UNCHANGED <<wallet, totals, mode, startedAt, sessions, holds>>

\* Mutated form: the RELEASE row is not looked for.
NothingHeld(c) == held[c] = 0

NothingToRelease(c) == held[c] = 0 \/ releases[c] > 0

\* Common to settle and release: a missing HOLD row or an existing RELEASE
\* row makes the call do nothing.
ReadHoldRows(r) ==
    /\ Releasing(r)
    /\ req[r].at = "holdRows"
    /\ LET c == req[r].c IN
       req' = IF NothingToRelease(c)
              THEN [req EXCEPT ![r].at = "commit", ![r].done = TRUE]
              ELSE [req EXCEPT ![r].at = "wallet"]
    /\ UNCHANGED <<wallet, totals, rows, holds, lock>>

ReadWallet(r) ==
    /\ Releasing(r)
    /\ req[r].at = "wallet"
    /\ req' = [req EXCEPT ![r].at = "commit", ![r].bal = balance, ![r].res = reserved]
    /\ UNCHANGED <<wallet, totals, rows, holds, lock>>

\* Mutated forms: the hold whatever is reserved; the price whatever is held;
\* all of it, whatever the price.
ReleaseableUncapped(r) == held[req[r].c]
DeductionUncapped(r)   == IF Settling(r) THEN req[r].pay ELSE 0
RefundWithoutFee(r)    == Min2(held[req[r].c], req[r].res)

Releaseable(r) == Min2(held[req[r].c], req[r].res)
Deduction(r)   == IF Settling(r) THEN Min2(Releaseable(r), req[r].pay) ELSE 0
Refund(r)      == Releaseable(r) - Deduction(r)

\* The wallet as computed from what was read, and one RELEASE row.
MoveMoney(r) ==
    LET c == req[r].c IN
    IF req[r].done
    THEN UNCHANGED <<wallet, releases, charges, charged, refunded>>
    ELSE /\ balance' = req[r].bal + Refund(r)
         /\ reserved' = req[r].res - Releaseable(r)
         /\ releases' = [releases EXCEPT ![c] = @ + 1]
         /\ charges' = IF Settling(r) THEN [charges EXCEPT ![c] = @ + 1] ELSE charges
         /\ charged' = [charged EXCEPT ![c] = @ + Deduction(r)]
         /\ refunded' = [refunded EXCEPT ![c] = @ + Refund(r)]

\* Mutated form: the bill is the price, whatever the hold covered.
WriteBillPrice(r) ==
    billed' = IF Settling(r) /\ ~req[r].done
              THEN [billed EXCEPT ![req[r].c] = req[r].pay] ELSE billed

\* The upsert of the billing row, by the settling branch of end only.
WriteBill(r) ==
    billed' = IF Settling(r)
              THEN [billed EXCEPT ![req[r].c] = IF req[r].done THEN 0 ELSE Deduction(r)]
              ELSE billed

\* Mutated form: only sessions that had not started are closed.
EndedPending == {"pending"}

\* The sessions end-consultation closes.
EndedSessions == {"pending", "active"}

\* The transaction commits: its writes become visible together.  The session
\* rows are closed by end and drop, whether or not the claim matched.
CommitRelease(r) ==
    /\ Releasing(r)
    /\ req[r].at = "commit"
    /\ LET c == req[r].c IN
       /\ \/ /\ lock[c] = r
             /\ status' = [status EXCEPT ![c] = StatusWritten(r)]
             /\ lock' = [lock EXCEPT ![c] = NoOne]
          \/ /\ lock[c] # r
             /\ UNCHANGED <<status, lock>>
       /\ sessions' =
            CASE req[r].op = "end" ->
                   [sessions EXCEPT ![c] = Closed(@, EndedSessions)]
              [] req[r].op = "drop" -> [sessions EXCEPT ![c][req[r].sid] = "closed"]
              [] OTHER -> sessions
    /\ MoveMoney(r)
    /\ WriteBill(r)
    /\ req' = [req EXCEPT ![r] = Idle]
    /\ UNCHANGED <<totals, mode, startedAt, held>>

-----------------------------------------------------------------------------
(* The rest of the wallet: relative UPDATEs.                               *)

Recharge(r) ==
    /\ req[r] = Idle
    /\ \E amount \in Credits :
         /\ deposited + amount <= MaxDeposited
         /\ balance' = balance + amount
         /\ deposited' = deposited + amount
    /\ UNCHANGED <<reserved, spent, rows, holds, lock, req>>

\* A purchase: the balance is checked by one statement and lowered by another.
BeginDebit(r) ==
    /\ req[r] = Idle
    /\ \E amount \in Debits :
         /\ balance >= amount
         /\ spent + amount <= MaxSpent
         /\ req' = [req EXCEPT ![r] = [Handler("debit", "commit", NoOne) EXCEPT !.pay = amount]]
    /\ UNCHANGED <<wallet, totals, rows, holds, lock>>

CommitDebit(r) ==
    /\ At(r, "debit", "commit")
    /\ balance' = balance - req[r].pay
    /\ spent' = spent + req[r].pay
    /\ req' = [req EXCEPT ![r] = Idle]
    /\ UNCHANGED <<reserved, deposited, rows, holds, lock>>

-----------------------------------------------------------------------------
\* A handler dies between two statements, or Postgres aborts it (a deadlock
\* victim): its open transaction is rolled back and its row lock freed.
Abort(r) ==
    /\ req[r] # Idle
    /\ lock' = [c \in Consultations |-> IF lock[c] = r THEN NoOne ELSE lock[c]]
    /\ req' = [req EXCEPT ![r] = Idle]
    /\ UNCHANGED <<wallet, totals, rows, holds>>

OpenSteps(r) ==
    \/ \E c \in Consultations, m \in Modes : BeginCreate(r, c, m) \/ BeginAttach(r, c, m)
    \/ CommitCreate(r)
    \/ CommitAttach(r)
    \/ \E c \in Consultations : Accept(r, c) \/ StartClaim(r, c)
    \/ StartSelect(r)
    \/ StartUpdate(r)
    \/ \E c \in Consultations : BeginRequest(r, c) \/ BeginClose(r, c)
    \/ CommitRequest(r)
    \/ CommitClose(r)

ReleaseSteps(r) ==
    \/ \E c \in Consultations : BeginEnd(r, c) \/ Withdraw(r, c) \/ BeginDrop(r, c)
    \/ ClaimEnd(r)
    \/ DropSessions(r)
    \/ ClaimDrop(r)
    \/ ReadHoldRows(r)
    \/ ReadWallet(r)
    \/ CommitRelease(r)

WalletSteps(r) ==
    \/ Recharge(r)
    \/ BeginDebit(r)
    \/ CommitDebit(r)

Next == \E r \in Requests : OpenSteps(r) \/ ReleaseSteps(r) \/ WalletSteps(r) \/ Abort(r)

Spec == Init /\ [][Next]_vars

-----------------------------------------------------------------------------
(* Properties.                                                             *)

HandlerType ==
    [op : Operations, at : Steps, c : Consultations \cup {NoOne},
     mode : Modes \cup {NoOne}, sid : Nat, started : BOOLEAN, done : BOOLEAN,
     bal : Int, res : Nat, pay : Nat]

\* The operations that work on one consultation.
OnConsultation(r) == req[r].op \notin {"idle", "debit"}

ColumnTypes ==
    /\ balance \in Int
    /\ reserved \in Nat
    /\ deposited \in Nat
    /\ spent \in Nat
    /\ status \in [Consultations -> Statuses]
    /\ mode \in [Consultations -> Modes \cup {NoOne}]
    /\ startedAt \in [Consultations -> BOOLEAN]
    /\ sessions \in [Consultations -> Seq(SessionStatuses)]
    /\ held \in [Consultations -> Nat]
    /\ releases \in [Consultations -> Nat]
    /\ charges \in [Consultations -> Nat]
    /\ charged \in [Consultations -> Nat]
    /\ refunded \in [Consultations -> Nat]
    /\ billed \in [Consultations -> Nat]
    /\ lock \in [Consultations -> Requests \cup {NoOne}]

HandlerTypes ==
    /\ req \in [Requests -> HandlerType]
    /\ \A r \in Requests : OnConsultation(r) => req[r].c \in Consultations

\* Every column, counter and handler record has its type.  The reserved
\* balance is a natural number: no interleaving of the workflows of
\* release-consultation-hold.ts and initiate-consultation writes a negative
\* one, although each writes what an earlier read computed.
TypeOK == ColumnTypes /\ HandlerTypes

\* However the workflows overlap, at most one settlement of a consultation
\* moves money: the RELEASE row and the row lock of end-consultation together
\* make a retried or concurrent end charge nothing.
NoDoubleCharge == \A c \in Consultations : charges[c] <= 1

\* The client never pays more for a consultation than was held for it.
ChargeWithinHold == \A c \in Consultations : charged[c] <= held[c]

\* Once a consultation that took a hold shows as completed, reopened or
\* closed, the hold is no longer pending: nothing completes unsettled, and a
\* continuation never starts on the old hold.
CompletedIsSettled ==
    \A c \in Consultations :
        status[c] \in {"completed", "reopened", "closed"} /\ held[c] > 0 => releases[c] > 0

OpenHolds == {c \in Consultations : held[c] > 0 /\ releases[c] = 0}

\* No rupee is created or lost: what the wallet holds, what was charged and
\* what was spent add up to what was put in.
MoneyConserved ==
    balance + reserved + SumFunctionOnSet(charged, Consultations) + spent =
        InitialBalance + deposited

\* The reserved balance is exactly the sum of the holds not yet released, so
\* releasing one consultation never eats into another one's hold.
ReservedIsOpenHolds == reserved = SumFunctionOnSet(held, OpenHolds)

\* The billing row of a consultation never claims more than its settlement
\* debited.  It may claim less: an end that comes again writes 0 over it.
BillWithinCharge == \A c \in Consultations : billed[c] <= charged[c]

\* One after the other, the workflows implement the contract: each money
\* movement of a consultation is one SetAside or one Settle, and everything
\* else leaves its money alone.
HoldPhase(c) ==
    CASE held[c] = 0 -> "none"
      [] held[c] > 0 /\ releases[c] = 0 -> "held"
      [] OTHER -> "settled"

Contract == INSTANCE HoldContract WITH
    Amount    <- Hold,
    Initial   <- InitialBalance,
    available <- balance,
    phase     <- [c \in Consultations |-> HoldPhase(c)],
    fee       <- charged,
    paidIn    <- deposited,
    paidOut   <- spent

ImplementsHoldContract == Contract!Spec

\* A consultation that has started is never cancelled, so its hold is settled
\* and not refunded in full.
StartedNeverCancelled ==
    [][\A c \in Consultations : startedAt[c] =>
          (status'[c] = "cancelled" => status[c] = "cancelled")]_vars

\* A consultation whose hold has been given back never raises the balance
\* again (release-consultation-hold.ts: cancelling, rejecting and settling
\* the same consultation "can never refund twice").
NeverRefundTwice ==
    [][\A c \in Consultations :
          releases[c] > 0 /\ releases'[c] > releases[c] => balance' <= balance]_vars

\* When no handler is running, a completed consultation has no live session.
NoOrphanSession ==
    (\A r \in Requests : req[r] = Idle) =>
        \A c \in Consultations :
            status[c] = "completed" => "active" \notin Range(sessions[c])
=============================================================================
