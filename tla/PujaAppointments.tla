-------------------------- MODULE PujaAppointments --------------------------
(***************************************************************************)
(* Puja appointments: a client books, the expert accepts, reschedules or   *)
(* reprices, the client confirms and pays, either side may call it off.    *)
(*                                                                         *)
(* Every update is one transaction.  It reads the appointment without a    *)
(* lock, and saves the entity it read with its changes applied: what       *)
(* differs from the row is written, stale columns included.  A paying      *)
(* update locks the wallet rows of the client, the expert, the expert's    *)
(* agent and the client's agent, in this order, as it moves the money.     *)
(* Amounts are in paise.                                                   *)
(***************************************************************************)
EXTENDS Integers, Sequences, FiniteSets, Functions

CONSTANTS
    Appointments, \* rows puja_appointments may get
    Workers,      \* how many updates may overlap
    Accounts,     \* owners of wallet rows
    Nobody,       \* not an account, a worker or an appointment
    Client,       \* the client of each appointment
    Expert,       \* the expert of each appointment
    Referrer,     \* users.referred_by_id of each account, or Nobody
    Agents,       \* referrers that have an agent profile
    Initial,      \* balances at the start
    Costs,        \* costs of a puja for its modes
    Prices,       \* prices the expert of each appointment may ask instead
    PlatformRate, \* commission.puja.platform, in percent, like the others
    GstRate,
    SellerRate,
    BuyerRate,
    ExpertMoves,  \* pairs <<from, to>> of the statuses experts ask for
    Overlap,      \* updates of one appointment may overlap
    MaxAborts     \* bound: updates that crash or roll back

ASSUME PartyAssumption ==
    /\ Client \in [Appointments -> Accounts]
    /\ Expert \in [Appointments -> Accounts]
    /\ Referrer \in [Accounts -> Accounts \cup {Nobody}]
    /\ Agents \subseteq Accounts
    /\ \A a, b \in Appointments : Client[a] # Expert[b] /\ {Client[a], Expert[b]} \cap Agents = {}
    /\ Nobody \notin Accounts \cup Workers \cup Appointments
ASSUME FiniteAssumption == IsFiniteSet(Accounts) /\ IsFiniteSet(Appointments)
ASSUME AmountAssumption ==
    /\ Initial \in [Accounts -> Nat]
    /\ Costs \subseteq Nat /\ Prices \in [Appointments -> SUBSET Nat]
    /\ PlatformRate \in Nat /\ GstRate \in Nat /\ SellerRate \in Nat /\ BuyerRate \in Nat
    /\ Overlap \in BOOLEAN
    /\ MaxAborts \in Nat

VARIABLES
    status,   \* puja_appointments.status, "absent" before the row exists
    price,    \* puja_appointments.price
    splits,   \* the commission_splits rows of each appointment
    balance,  \* wallets.balance
    lock,     \* worker whose transaction holds each wallet row
    worker,   \* the update running in each slot
    aborts    \* updates rolled back so far

vars == <<status, price, splits, balance, lock, worker, aborts>>

-----------------------------------------------------------------------------
PujaAppointmentStatus ==
    {"pending", "accepted", "rejected", "on_hold", "confirmed", "cancelled"}

Idle == [at |-> "idle", a |-> Nobody, to |-> "absent", price |-> 0, due |-> 0, todo |-> <<>>]

\* The transaction ends, and with it its locks.
Finish(w) ==
    /\ worker' = [worker EXCEPT ![w] = Idle]
    /\ lock' = [x \in Accounts |-> IF lock[x] = w THEN Nobody ELSE lock[x]]

\* Mutated form: a rolled back transaction is never released.
RollbackUnreleased(w) ==
    /\ worker' = [worker EXCEPT ![w] = Idle]
    /\ UNCHANGED <<status, price, splits, balance, lock>>

Rollback(w) == Finish(w) /\ UNCHANGED <<status, price, splits, balance>>

Init ==
    /\ status = [a \in Appointments |-> "absent"]
    /\ price = [a \in Appointments |-> 0]
    /\ splits = [a \in Appointments |-> <<>>]
    /\ balance = Initial
    /\ lock = [x \in Accounts |-> Nobody]
    /\ worker = [w \in Workers |-> Idle]
    /\ aborts = 0

-----------------------------------------------------------------------------
(* The split of a payment.                                                 *)

\* Number((gross * (rate / 100)).toFixed(2)).
Percent(gross, rate) == (2 * gross * rate + 100) \div 200

SellerAgent(a) == Referrer[Expert[a]]
BuyerAgent(a)  == Referrer[Client[a]]

\* Mutated form: the expert does not pay for the client's agent.
NetBeforeBuyer(s) == s.gross - s.platform - s.gst - s.seller

Net(s) == s.gross - s.platform - s.gst - s.seller - s.buyer

\* An agent's commission is withheld from the expert whenever there is a
\* referrer, with or without an agent profile.
Split(a, gross) ==
    LET platform == Percent(gross, PlatformRate)
    IN [gross    |-> gross,
        platform |-> platform,
        gst      |-> Percent(platform, GstRate),
        seller   |-> IF SellerAgent(a) = Nobody THEN 0 ELSE Percent(gross, SellerRate),
        buyer    |-> IF BuyerAgent(a) = Nobody THEN 0 ELSE Percent(gross, BuyerRate)]

\* What account x gains by the payment s of appointment a.
Gain(a, s, x) ==
      (IF x = Client[a] THEN - s.gross ELSE 0)
    + (IF x = Expert[a] THEN Net(s) ELSE 0)
    + (IF x \in Agents /\ x = SellerAgent(a) THEN s.seller ELSE 0)
    + (IF x \in Agents /\ x = BuyerAgent(a) THEN s.buyer ELSE 0)

IfAgent(x) == IF x \in Agents THEN <<x>> ELSE <<>>

\* The wallet rows in the order in which they are locked.
Parties(a) == <<Client[a], Expert[a]>> \o IfAgent(SellerAgent(a)) \o IfAgent(BuyerAgent(a))

-----------------------------------------------------------------------------
(* CreatePujaAppointmentUseCase: the price is the puja's cost for the mode, *)
(* never the one the client sends.                                         *)
Create(a, cost) ==
    /\ status[a] = "absent"
    /\ status' = [status EXCEPT ![a] = "pending"]
    /\ price' = [price EXCEPT ![a] = cost]
    /\ UNCHANGED <<splits, balance, lock, worker, aborts>>

-----------------------------------------------------------------------------
(* UpdatePujaAppointmentStatusUseCase.                                     *)

\* Mutated form: a confirmed appointment may be confirmed again.
ClientMayAgain(from, to) ==
    \/ to = "confirmed" /\ from \in {"accepted", "on_hold", "confirmed"}
    \/ to = "cancelled"

ClientMay(from, to) ==
    \/ to = "accepted" /\ from = "on_hold"
    \/ to = "confirmed" /\ from \in {"accepted", "on_hold"}
    \/ to = "cancelled"

Free(w, a) ==
    /\ worker[w] = Idle
    /\ status[a] # "absent"
    /\ Overlap \/ \A v \in Workers : worker[v].a # a

\* The row is read; a client who confirms will pay the price that was read.
ClientUpdate(w, a, to) ==
    /\ Free(w, a)
    /\ ClientMay(status[a], to)
    /\ worker' = [worker EXCEPT ![w] =
         [at |-> IF to = "confirmed" THEN "pay" ELSE "save", a |-> a, to |-> to,
          price |-> price[a], due |-> price[a],
          todo |-> IF to = "confirmed" THEN Parties(a) ELSE <<>>]]
    /\ UNCHANGED <<status, price, splits, balance, lock, aborts>>

\* An expert may ask for any status, or keep the one that was read, and for a
\* price.
ExpertUpdate(w, a, to, p) ==
    /\ Free(w, a)
    /\ <<status[a], to>> \in ExpertMoves
    /\ worker' = [worker EXCEPT ![w] =
         [at |-> "save", a |-> a, to |-> to, price |-> p, due |-> 0, todo |-> <<>>]]
    /\ UNCHANGED <<status, price, splits, balance, lock, aborts>>

\* debit and credit throw: nothing to pay, not enough to pay it with, or
\* nothing left for the expert.
Refused(w) ==
    LET x == Head(worker[w].todo)
        a == worker[w].a
        due == worker[w].due
    IN \/ x = Client[a] /\ (due <= 0 \/ balance[x] < due)
       \/ x = Expert[a] /\ Net(Split(a, due)) <= 0

\* The next wallet is locked and changed, which shows at the commit.
LockNext(w) ==
    LET x == Head(worker[w].todo)
    IN /\ worker[w].at = "pay" /\ worker[w].todo # <<>>
       /\ lock[x] \in {Nobody, w}
       /\ IF Refused(w)
          THEN Rollback(w)
          ELSE /\ lock' = [lock EXCEPT ![x] = w]
               /\ worker' = [worker EXCEPT ![w].todo = Tail(@)]
               /\ UNCHANGED <<status, price, splits, balance>>
       /\ UNCHANGED aborts

\* The columns of the entity that differ from the row.
Save(w) ==
    /\ status' = [status EXCEPT ![worker[w].a] = worker[w].to]
    /\ price' = [price EXCEPT ![worker[w].a] = worker[w].price]

CommitUpdate(w) ==
    /\ worker[w].at = "save"
    /\ Save(w)
    /\ Finish(w)
    /\ UNCHANGED <<splits, balance, aborts>>

\* Wallets, commission split and status together.
CommitPayment(w) ==
    LET a == worker[w].a
        s == Split(a, worker[w].due)
    IN /\ worker[w].at = "pay" /\ worker[w].todo = <<>>
       /\ balance' = [x \in Accounts |-> balance[x] + Gain(a, s, x)]
       /\ splits' = [splits EXCEPT ![a] = Append(@, s)]
       /\ Save(w)
       /\ Finish(w)
       /\ UNCHANGED aborts

-----------------------------------------------------------------------------
(* The database and the process.                                           *)

Blocker(w) ==
    IF worker[w].at = "pay" /\ worker[w].todo # <<>>
    THEN lock[Head(worker[w].todo)] ELSE Nobody

\* Two confirmations that wait for each other's agent: Postgres rolls one back.
Victim(w) ==
    LET v == Blocker(w)
    IN /\ v \in Workers \ {w}
       /\ Blocker(v) = w
       /\ Rollback(w)
       /\ UNCHANGED aborts

\* A crash, or a statement that fails (a caught one too: it leaves the
\* transaction unusable).
Abort(w) ==
    /\ worker[w] # Idle
    /\ aborts < MaxAborts
    /\ aborts' = aborts + 1
    /\ Rollback(w)

-----------------------------------------------------------------------------
Step(w) == LockNext(w) \/ CommitUpdate(w) \/ CommitPayment(w) \/ Victim(w)

Next ==
    \/ \E a \in Appointments, cost \in Costs : Create(a, cost)
    \/ \E w \in Workers :
         \/ \E a \in Appointments, to \in PujaAppointmentStatus :
              \/ ClientUpdate(w, a, to)
              \/ \E p \in Prices[a] \cup {price[a]} : ExpertUpdate(w, a, to, p)
         \/ Step(w) \/ Abort(w)

Spec == Init /\ [][Next]_vars

\* An update that has begun runs on: one that waits for a wallet is in the
\* queue of its row, where others cannot pass it for ever (strong fairness), and
\* Postgres looks for cycles of waits.
Fairness == \A w \in Workers : SF_vars(Step(w))

FairSpec == Spec /\ Fairness

-----------------------------------------------------------------------------
SplitRows == [gross : Int, platform : Int, gst : Int, seller : Int, buyer : Int]

Handlers == [at : {"idle", "pay", "save"}, a : Appointments \cup {Nobody},
             to : PujaAppointmentStatus \cup {"absent"}, price : Nat, due : Nat,
             todo : Seq(Accounts)]

\* Rows, wallets, locks and handler records stay well formed.
TypeOK ==
    /\ status \in [Appointments -> PujaAppointmentStatus \cup {"absent"}]
    /\ price \in [Appointments -> Nat]
    /\ splits \in [Appointments -> Seq(SplitRows)]
    /\ balance \in [Accounts -> Int]
    /\ lock \in [Accounts -> Workers \cup {Nobody}]
    /\ worker \in [Workers -> Handlers]
    /\ \A w \in Workers : worker[w] # Idle => worker[w].a \in Appointments
    /\ aborts \in 0..MaxAborts

\* What the platform keeps of a payment: its fee, the tax on it, and the
\* commission of a referrer who has no agent profile.
Kept(a, s) ==
    s.platform + s.gst
    + (IF SellerAgent(a) \in Agents THEN 0 ELSE s.seller)
    + (IF BuyerAgent(a) \in Agents THEN 0 ELSE s.buyer)

KeptOf(a) == [k \in DOMAIN splits[a] |-> Kept(a, splits[a][k])]
KeptFor   == [a \in Appointments |-> SumFunctionOnSet(KeptOf(a), DOMAIN splits[a])]

\* The golden rule of docs/finance-flow.md, over every wallet and payment: what
\* clients paid is what experts and agents got and the platform kept, whichever
\* confirmations overlap, deadlock, crash or are refused.
SplitsAddUp ==
    SumFunctionOnSet(balance, Accounts) + SumFunctionOnSet(KeptFor, Appointments)
        = SumFunctionOnSet(Initial, Accounts)

\* An appointment is paid for at most once, and one that shows as confirmed was
\* paid for at the price it shows: no update that is refused, rolled back or
\* repeated leaves one without the other.
ConfirmedIsPaidOnce ==
    \A a \in Appointments :
        /\ Len(splits[a]) <= 1
        /\ status[a] = "confirmed" => splits[a] # <<>> /\ splits[a][1].gross = price[a]

\* Every update ends, also of two confirmations that lock the wallets of the
\* same two agents in opposite orders.
UpdatesEnd == \A w \in Workers : worker[w] # Idle ~> worker[w] = Idle
=============================================================================
