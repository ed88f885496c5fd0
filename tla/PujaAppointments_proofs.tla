---------------------- MODULE PujaAppointments_proofs ----------------------
(***************************************************************************)
(* Type correctness of PujaAppointments, that an appointment is paid for   *)
(* at most once and shows as confirmed only if it was, and that the money  *)
(* of every payment adds up, for any number of appointments, accounts and  *)
(* workers.                                                                *)
(***************************************************************************)
EXTENDS PujaAppointments, SequenceTheorems, FiniteSetTheorems, SumLemmas, TLAPS

\* The split of a payment is a row of integers.
LEMMA SplitType ==
    ASSUME NEW a \in Appointments, NEW gross \in Nat
    PROVE  /\ Split(a, gross) \in SplitRows
           /\ Split(a, gross).gross = gross
           /\ Net(Split(a, gross)) \in Int
<1>1. \A g \in Int, r \in Nat : Percent(g, r) \in Int
  BY DEF Percent
<1> DEFINE platform == Percent(gross, PlatformRate)
           gst      == Percent(platform, GstRate)
           seller   == IF SellerAgent(a) = Nobody THEN 0 ELSE Percent(gross, SellerRate)
           buyer    == IF BuyerAgent(a) = Nobody THEN 0 ELSE Percent(gross, BuyerRate)
<1>2. platform \in Int /\ seller \in Int /\ buyer \in Int
  BY <1>1, AmountAssumption
<1>3. Split(a, gross) = [gross |-> gross, platform |-> platform, gst |-> gst,
                         seller |-> seller, buyer |-> buyer]
  BY DEF Split
<1> HIDE DEF platform, seller, buyer
<1>4. gst \in Int
  BY <1>1, <1>2, AmountAssumption
<1> HIDE DEF gst
<1> QED BY <1>2, <1>3, <1>4 DEF SplitRows, Net

\* What an account gains by a payment is an integer.
LEMMA GainType ==
    ASSUME NEW a \in Appointments, NEW s \in SplitRows, NEW x \in Accounts
    PROVE  Gain(a, s, x) \in Int
<1>1. s.gross \in Int /\ Net(s) \in Int /\ s.seller \in Int /\ s.buyer \in Int
  BY DEF SplitRows, Net
<1> QED BY <1>1 DEF Gain

\* The wallets a payment locks are those of accounts.
LEMMA PartiesType ==
    ASSUME NEW a \in Appointments
    PROVE  Parties(a) \in Seq(Accounts)
<1>1. Client[a] \in Accounts /\ Expert[a] \in Accounts
  BY PartyAssumption
<1>2. \A x : IfAgent(x) \in Seq(Accounts)
  BY PartyAssumption DEF IfAgent
<1> QED BY <1>1, <1>2 DEF Parties

\* Ending a transaction keeps the types of slots and locks.
LEMMA FinishType ==
    ASSUME TypeOK, NEW w \in Workers, Finish(w)
    PROVE  /\ lock' \in [Accounts -> Workers \cup {Nobody}]
           /\ worker' \in [Workers -> Handlers]
           /\ \A v \in Workers : worker'[v] # Idle => worker'[v].a \in Appointments
<1>1. Idle \in Handlers
  BY DEF Idle, Handlers
<1> QED BY <1>1 DEF TypeOK, Finish

\* Starting or advancing one update keeps the types of the slots.
LEMMA SlotType ==
    ASSUME TypeOK, NEW w \in Workers, NEW h \in Handlers, h.a \in Appointments,
           worker' = [worker EXCEPT ![w] = h]
    PROVE  /\ worker' \in [Workers -> Handlers]
           /\ \A v \in Workers : worker'[v] # Idle => worker'[v].a \in Appointments
  BY DEF TypeOK

\* Type correctness is inductive.
LEMMA TypeInductive == TypeOK /\ [Next]_vars => TypeOK'
<1> SUFFICES ASSUME TypeOK, [Next]_vars PROVE TypeOK'
  OBVIOUS
<1>1. ASSUME NEW a \in Appointments, NEW cost \in Costs, Create(a, cost) PROVE TypeOK'
  BY <1>1, AmountAssumption DEF TypeOK, Create, PujaAppointmentStatus
<1>2. ASSUME NEW w \in Workers, NEW a \in Appointments, NEW to \in PujaAppointmentStatus,
             ClientUpdate(w, a, to)
      PROVE  TypeOK'
  <2> DEFINE h == [at |-> IF to = "confirmed" THEN "pay" ELSE "save", a |-> a, to |-> to,
                   price |-> price[a], due |-> price[a],
                   todo |-> IF to = "confirmed" THEN Parties(a) ELSE <<>>]
  <2>1. h \in Handlers /\ h.a \in Appointments
    BY PartiesType DEF TypeOK, Handlers
  <2>2. worker' = [worker EXCEPT ![w] = h]
    BY <1>2 DEF ClientUpdate
  <2> HIDE DEF h
  <2> QED BY <1>2, <2>1, <2>2, SlotType DEF ClientUpdate, TypeOK
<1>3. ASSUME NEW w \in Workers, NEW a \in Appointments, NEW to \in PujaAppointmentStatus,
             NEW p \in Prices[a] \cup {price[a]}, ExpertUpdate(w, a, to, p)
      PROVE  TypeOK'
  <2> DEFINE h == [at |-> "save", a |-> a, to |-> to, price |-> p, due |-> 0, todo |-> <<>>]
  <2>1. h \in Handlers /\ h.a \in Appointments
    BY AmountAssumption DEF TypeOK, Handlers
  <2>2. worker' = [worker EXCEPT ![w] = h]
    BY <1>3 DEF ExpertUpdate
  <2> HIDE DEF h
  <2> QED BY <1>3, <2>1, <2>2, SlotType DEF ExpertUpdate, TypeOK
<1>4. ASSUME NEW w \in Workers, Rollback(w), aborts' \in 0..MaxAborts PROVE TypeOK'
  BY <1>4, FinishType DEF Rollback, TypeOK
<1>5. ASSUME NEW w \in Workers, LockNext(w) PROVE TypeOK'
  <2>1. CASE Refused(w)
    BY <1>4, <1>5, <2>1 DEF LockNext, TypeOK
  <2>2. CASE ~Refused(w)
    <3> DEFINE h == [worker[w] EXCEPT !.todo = Tail(@)]
    <3>1. worker[w] \in Handlers /\ worker[w] # Idle
      BY <1>5 DEF LockNext, TypeOK, Idle
    <3>2. h \in Handlers /\ h.a \in Appointments
      <4>1. worker[w].todo \in Seq(Accounts) /\ worker[w].todo # <<>>
        BY <1>5, <3>1 DEF LockNext, Handlers
      <4>2. Tail(worker[w].todo) \in Seq(Accounts)
        BY <4>1
      <4> QED BY <3>1, <4>2 DEF TypeOK, Handlers
    <3>3. worker' = [worker EXCEPT ![w] = h]
      BY <1>5, <2>2 DEF LockNext
    <3>4. lock' \in [Accounts -> Workers \cup {Nobody}]
      BY <1>5, <2>2 DEF LockNext, TypeOK
    <3> HIDE DEF h
    <3> QED BY <1>5, <2>2, <3>2, <3>3, <3>4, SlotType DEF LockNext, TypeOK
  <2> QED BY <2>1, <2>2
<1>6. ASSUME NEW w \in Workers, worker[w].at \in {"save", "pay"}, Save(w)
      PROVE  /\ status' \in [Appointments -> PujaAppointmentStatus \cup {"absent"}]
             /\ price' \in [Appointments -> Nat]
             /\ worker[w] \in Handlers /\ worker[w].a \in Appointments
  BY <1>6 DEF Save, TypeOK, Handlers, Idle
<1>7. ASSUME NEW w \in Workers, CommitUpdate(w) PROVE TypeOK'
  BY <1>6, <1>7, FinishType DEF CommitUpdate, TypeOK
<1>8. ASSUME NEW w \in Workers, CommitPayment(w) PROVE TypeOK'
  <2> DEFINE s == Split(worker[w].a, worker[w].due)
  <2>1. worker[w] \in Handlers /\ worker[w].a \in Appointments
    BY <1>6, <1>8 DEF CommitPayment
  <2>2. s \in SplitRows
    BY <2>1, SplitType DEF Handlers
  <2>3. balance' \in [Accounts -> Int]
    BY <1>8, <2>1, <2>2, GainType DEF CommitPayment, TypeOK
  <2> HIDE DEF s
  <2>4. splits' = [splits EXCEPT ![worker[w].a] = Append(@, s)]
    BY <1>8 DEF CommitPayment, s
  <2>5. splits' \in [Appointments -> Seq(SplitRows)]
    BY <2>1, <2>2, <2>4 DEF TypeOK
  <2> QED BY <1>6, <1>8, <2>3, <2>5, FinishType DEF CommitPayment, TypeOK
<1>9. ASSUME NEW w \in Workers, Victim(w) PROVE TypeOK'
  BY <1>4, <1>9 DEF Victim, TypeOK
<1>10. ASSUME NEW w \in Workers, Abort(w) PROVE TypeOK'
  BY <1>4, <1>10, AmountAssumption DEF Abort, TypeOK
<1>11. CASE UNCHANGED vars
  BY <1>11 DEF vars, TypeOK
<1> QED BY <1>1, <1>2, <1>3, <1>5, <1>7, <1>8, <1>9, <1>10, <1>11 DEF Next, Step

\* Appointments, splits, wallets, locks and update records keep their types,
\* for any number of each.
THEOREM TypeCorrect == Spec => []TypeOK
<1>1. Init => TypeOK
  <2>1. Idle \in Handlers
    BY DEF Idle, Handlers
  <2> QED BY <2>1, AmountAssumption DEF Init, TypeOK
<1> QED BY <1>1, TypeInductive, PTL DEF Spec

-----------------------------------------------------------------------------
(* Paid at most once.  The invariant says what is still true, when an      *)
(* update commits, of the row that it read: nobody else works on the       *)
(* appointment, so an update that will pay finds it unpaid, and one that   *)
(* will not finds it unpaid or calls it off.                               *)

\* The updates of one appointment follow each other, and an expert neither
\* confirms an appointment nor touches one that is confirmed or cancelled.
Careful ==
    /\ Overlap = FALSE
    /\ \A from, to \in PujaAppointmentStatus :
         <<from, to>> \in ExpertMoves => from \notin {"confirmed", "cancelled"} /\ to # "confirmed"

OneUpdate ==
    \A v, w \in Workers : v # w /\ worker[v].a = worker[w].a => worker[v].a = Nobody

PayingFindsUnpaid ==
    \A w \in Workers : worker[w].at = "pay" =>
        /\ worker[w].to = "confirmed"
        /\ worker[w].due = worker[w].price
        /\ splits[worker[w].a] = <<>>

SavingKeepsPaid ==
    \A w \in Workers : worker[w].at = "save" =>
        /\ worker[w].to # "confirmed"
        /\ splits[worker[w].a] # <<>> => worker[w].to = "cancelled"

PaidIsOver ==
    \A a \in Appointments : splits[a] # <<>> => status[a] \in {"confirmed", "cancelled"}

IInv == TypeOK /\ OneUpdate /\ PayingFindsUnpaid /\ SavingKeepsPaid /\ PaidIsOver
               /\ ConfirmedIsPaidOnce

\* An update that starts finds the row as the invariant says.
LEMMA StartKeeps ==
    ASSUME IInv, Careful, NEW w \in Workers, NEW a \in Appointments, NEW h \in Handlers,
           Free(w, a), h.a = a, h.at \in {"pay", "save"},
           h.at = "pay" => h.to = "confirmed" /\ h.due = h.price
                           /\ status[a] \in {"accepted", "on_hold"},
           h.at = "save" => h.to # "confirmed"
                            /\ (status[a] \in {"confirmed", "cancelled"} => h.to = "cancelled"),
           worker' = [worker EXCEPT ![w] = h],
           UNCHANGED <<status, price, splits>>
    PROVE  /\ OneUpdate' /\ PayingFindsUnpaid' /\ SavingKeepsPaid' /\ PaidIsOver'
           /\ ConfirmedIsPaidOnce'
<1>1. \A v \in Workers : worker[v].a # a
  BY DEF Careful, Free
<1>2. \A v \in Workers : worker'[v] = IF v = w THEN h ELSE worker[v]
  BY DEF IInv, TypeOK
<1>3. OneUpdate'
  BY <1>1, <1>2 DEF IInv, OneUpdate
<1>4. PayingFindsUnpaid'
  BY <1>2 DEF IInv, PayingFindsUnpaid, PaidIsOver
<1>5. SavingKeepsPaid'
  BY <1>2 DEF IInv, SavingKeepsPaid, PaidIsOver
<1>6. PaidIsOver' /\ ConfirmedIsPaidOnce'
  BY DEF IInv, PaidIsOver, ConfirmedIsPaidOnce
<1> QED BY <1>3, <1>4, <1>5, <1>6

\* A transaction that ends without a change, or changes its own appointment
\* only, keeps what the invariant says of the other updates.
LEMMA EndKeeps ==
    ASSUME IInv, NEW w \in Workers, worker' = [worker EXCEPT ![w] = Idle],
           \A a \in Appointments : a # worker[w].a => splits'[a] = splits[a]
    PROVE  OneUpdate' /\ PayingFindsUnpaid' /\ SavingKeepsPaid'
<1>1. \A v \in Workers : worker'[v] = IF v = w THEN Idle ELSE worker[v]
  BY DEF IInv, TypeOK
<1>2. Idle.a = Nobody /\ Idle.at = "idle"
  BY DEF Idle
<1>3. ASSUME NEW v \in Workers, v # w, worker[v].at \in {"pay", "save"}
      PROVE  splits'[worker[v].a] = splits[worker[v].a]
  <2>1. worker[v].a \in Appointments
    BY <1>3, <1>2 DEF IInv, TypeOK
  <2>2. worker[v].a # worker[w].a
    BY <1>3, <2>1, PartyAssumption DEF IInv, OneUpdate
  <2> QED BY <2>1, <2>2
<1>4. OneUpdate'
  BY <1>1, <1>2 DEF IInv, OneUpdate
<1>5. PayingFindsUnpaid'
  BY <1>1, <1>2, <1>3 DEF IInv, PayingFindsUnpaid
<1>6. SavingKeepsPaid'
  BY <1>1, <1>2, <1>3 DEF IInv, SavingKeepsPaid
<1> QED BY <1>4, <1>5, <1>6

\* The invariant is inductive.
LEMMA PaidInductive == Careful /\ IInv /\ [Next]_vars => IInv'
<1> SUFFICES ASSUME Careful, IInv, [Next]_vars PROVE IInv'
  OBVIOUS
<1>0. TypeOK /\ TypeOK'
  BY TypeInductive DEF IInv
<1>1. ASSUME NEW a \in Appointments, NEW cost \in Costs, Create(a, cost) PROVE IInv'
  <2>1. OneUpdate' /\ PayingFindsUnpaid' /\ SavingKeepsPaid'
    BY <1>1 DEF Create, IInv, OneUpdate, PayingFindsUnpaid, SavingKeepsPaid
  <2>2. splits[a] = <<>>
    BY <1>1 DEF Create, IInv, PaidIsOver
  <2>3. PaidIsOver'
    BY <1>0, <1>1, <2>2 DEF Create, IInv, PaidIsOver, TypeOK
  <2>4. ConfirmedIsPaidOnce'
    BY <1>0, <1>1, <2>2 DEF Create, IInv, ConfirmedIsPaidOnce, TypeOK
  <2> QED BY <1>0, <2>1, <2>3, <2>4 DEF IInv
<1>2. ASSUME NEW w \in Workers, NEW a \in Appointments, NEW to \in PujaAppointmentStatus,
             ClientUpdate(w, a, to)
      PROVE  IInv'
  <2> DEFINE h == [at |-> IF to = "confirmed" THEN "pay" ELSE "save", a |-> a, to |-> to,
                   price |-> price[a], due |-> price[a],
                   todo |-> IF to = "confirmed" THEN Parties(a) ELSE <<>>]
  <2>1. h \in Handlers
    BY <1>0, PartiesType DEF TypeOK, Handlers
  <2>2. worker' = [worker EXCEPT ![w] = h] /\ Free(w, a) /\ UNCHANGED <<status, price, splits>>
    BY <1>2 DEF ClientUpdate
  <2>3. /\ h.a = a /\ h.at \in {"pay", "save"}
        /\ h.at = "pay" => h.to = "confirmed" /\ h.due = h.price
                           /\ status[a] \in {"accepted", "on_hold"}
        /\ h.at = "save" => h.to # "confirmed"
                            /\ (status[a] \in {"confirmed", "cancelled"} => h.to = "cancelled")
    BY <1>2 DEF ClientUpdate, ClientMay
  <2> HIDE DEF h
  <2> QED BY <1>0, <2>1, <2>2, <2>3, StartKeeps DEF IInv
<1>3. ASSUME NEW w \in Workers, NEW a \in Appointments, NEW to \in PujaAppointmentStatus,
             NEW p \in Prices[a] \cup {price[a]}, ExpertUpdate(w, a, to, p)
      PROVE  IInv'
  <2> DEFINE h == [at |-> "save", a |-> a, to |-> to, price |-> p, due |-> 0, todo |-> <<>>]
  <2>1. h \in Handlers
    BY <1>0, AmountAssumption DEF TypeOK, Handlers
  <2>2. worker' = [worker EXCEPT ![w] = h] /\ Free(w, a) /\ UNCHANGED <<status, price, splits>>
    BY <1>3 DEF ExpertUpdate
  <2>3. status[a] \in PujaAppointmentStatus
    BY <1>0, <2>2 DEF TypeOK, Free
  <2>4. status[a] \notin {"confirmed", "cancelled"} /\ to # "confirmed"
    BY <1>3, <2>3 DEF ExpertUpdate, Careful
  <2>5. h.a = a /\ h.at = "save" /\ h.to = to
    OBVIOUS
  <2> HIDE DEF h
  <2> QED BY <1>0, <2>1, <2>2, <2>4, <2>5, StartKeeps DEF IInv
<1>4. ASSUME NEW w \in Workers, Rollback(w) PROVE IInv'
  <2>1. OneUpdate' /\ PayingFindsUnpaid' /\ SavingKeepsPaid'
    BY <1>4, EndKeeps DEF Rollback, Finish
  <2>2. PaidIsOver' /\ ConfirmedIsPaidOnce'
    BY <1>4 DEF Rollback, IInv, PaidIsOver, ConfirmedIsPaidOnce
  <2> QED BY <1>0, <2>1, <2>2 DEF IInv
<1>5. ASSUME NEW w \in Workers, LockNext(w) PROVE IInv'
  <2>1. CASE Refused(w)
    BY <1>4, <1>5, <2>1 DEF LockNext
  <2>2. CASE ~Refused(w)
    <3>1. /\ \A v \in Workers : /\ worker'[v].a = worker[v].a /\ worker'[v].at = worker[v].at
                                /\ worker'[v].to = worker[v].to /\ worker'[v].due = worker[v].due
                                /\ worker'[v].price = worker[v].price
          /\ UNCHANGED <<status, price, splits>>
      <4> DEFINE h == [worker[w] EXCEPT !.todo = Tail(@)]
      <4>1. worker' = [worker EXCEPT ![w] = h] /\ UNCHANGED <<status, price, splits>>
        BY <1>5, <2>2 DEF LockNext
      <4>2. worker[w] \in Handlers /\ worker \in [Workers -> Handlers]
        BY <1>0 DEF TypeOK
      <4>3. /\ h.a = worker[w].a /\ h.at = worker[w].at /\ h.to = worker[w].to
            /\ h.due = worker[w].due /\ h.price = worker[w].price
        BY <4>2 DEF Handlers
      <4> HIDE DEF h
      <4>4. \A v \in Workers : worker'[v] = IF v = w THEN h ELSE worker[v]
        BY <4>1, <4>2
      <4> QED BY <4>1, <4>3, <4>4
    <3>2. OneUpdate' /\ PayingFindsUnpaid' /\ SavingKeepsPaid'
      BY <3>1 DEF IInv, OneUpdate, PayingFindsUnpaid, SavingKeepsPaid
    <3>3. PaidIsOver' /\ ConfirmedIsPaidOnce'
      BY <3>1 DEF IInv, PaidIsOver, ConfirmedIsPaidOnce
    <3> QED BY <1>0, <3>2, <3>3 DEF IInv
  <2> QED BY <2>1, <2>2
<1>6. ASSUME NEW w \in Workers, CommitUpdate(w) PROVE IInv'
  <2>1. worker[w].a \in Appointments
    BY <1>0, <1>6 DEF CommitUpdate, TypeOK, Idle
  <2>2. OneUpdate' /\ PayingFindsUnpaid' /\ SavingKeepsPaid'
    BY <1>6, EndKeeps DEF CommitUpdate, Finish
  <2>3. worker[w].to # "confirmed" /\ (splits[worker[w].a] # <<>> => worker[w].to = "cancelled")
    BY <1>6 DEF CommitUpdate, IInv, SavingKeepsPaid
  <2>4. PaidIsOver'
    BY <1>0, <1>6, <2>1, <2>3 DEF CommitUpdate, Save, IInv, PaidIsOver, TypeOK
  <2>5. ConfirmedIsPaidOnce'
    BY <1>0, <1>6, <2>1, <2>3 DEF CommitUpdate, Save, IInv, ConfirmedIsPaidOnce, TypeOK
  <2> QED BY <1>0, <2>2, <2>4, <2>5 DEF IInv
<1>7. ASSUME NEW w \in Workers, CommitPayment(w) PROVE IInv'
  <2> DEFINE a == worker[w].a
             s == Split(a, worker[w].due)
  <2>1. a \in Appointments /\ worker[w] \in Handlers /\ worker[w].at = "pay"
    BY <1>0, <1>7 DEF CommitPayment, TypeOK, Idle
  <2>2. s.gross = worker[w].due
    BY <2>1, SplitType DEF Handlers
  <2>3. worker[w].to = "confirmed" /\ worker[w].due = worker[w].price /\ splits[a] = <<>>
    BY <2>1 DEF IInv, PayingFindsUnpaid
  <2>4. /\ splits' = [splits EXCEPT ![a] = Append(@, s)]
        /\ status' = [status EXCEPT ![a] = worker[w].to]
        /\ price' = [price EXCEPT ![a] = worker[w].price]
        /\ worker' = [worker EXCEPT ![w] = Idle]
    BY <1>7 DEF CommitPayment, Save, Finish
  <2> HIDE DEF s
  <2>5. splits'[a] = <<s>> /\ \A b \in Appointments \ {a} : splits'[b] = splits[b]
    BY <1>0, <2>1, <2>3, <2>4 DEF TypeOK
  <2> HIDE DEF a
  <2>6. OneUpdate' /\ PayingFindsUnpaid' /\ SavingKeepsPaid'
    BY <2>4, <2>5, EndKeeps DEF a
  <2>7. \A b \in Appointments :
           /\ status'[b] = IF b = a THEN "confirmed" ELSE status[b]
           /\ price'[b] = IF b = a THEN s.gross ELSE price[b]
    BY <1>0, <2>1, <2>2, <2>3, <2>4 DEF TypeOK
  <2>8. PaidIsOver'
    BY <2>5, <2>7 DEF IInv, PaidIsOver
  <2>9. Len(<<s>>) = 1 /\ <<s>> # <<>> /\ <<s>>[1] = s
    OBVIOUS
  <2>10. ASSUME NEW b \in Appointments
         PROVE  /\ Len(splits'[b]) <= 1
                /\ status'[b] = "confirmed" =>
                     splits'[b] # <<>> /\ splits'[b][1].gross = price'[b]
    <3>1. CASE b = a
      <4>1. splits'[b] = <<s>> /\ price'[b] = s.gross
        BY <2>5, <2>7, <3>1
      <4> QED BY <2>9, <4>1
    <3>2. CASE b # a
      <4>1. splits'[b] = splits[b] /\ status'[b] = status[b] /\ price'[b] = price[b]
        BY <2>5, <2>7, <3>2
      <4> QED BY <4>1 DEF IInv, ConfirmedIsPaidOnce
    <3> QED BY <3>1, <3>2
  <2>11. ConfirmedIsPaidOnce'
    BY <2>10 DEF ConfirmedIsPaidOnce
  <2> QED BY <1>0, <2>6, <2>8, <2>11 DEF IInv
<1>8. ASSUME NEW w \in Workers, Victim(w) PROVE IInv'
  BY <1>4, <1>8 DEF Victim
<1>9. ASSUME NEW w \in Workers, Abort(w) PROVE IInv'
  BY <1>4, <1>9 DEF Abort
<1>10. CASE UNCHANGED vars
  BY <1>0, <1>10 DEF vars, IInv, OneUpdate, PayingFindsUnpaid, SavingKeepsPaid, PaidIsOver,
                     ConfirmedIsPaidOnce
<1> QED BY <1>1, <1>2, <1>3, <1>5, <1>6, <1>7, <1>8, <1>9, <1>10 DEF Next, Step

\* As long as the updates of one appointment do not overlap and experts leave
\* confirmed and cancelled ones alone, an appointment is paid for at most once,
\* and shows as confirmed only if it was, at the price it shows.
THEOREM ConfirmedIsPaidOnceHolds == Careful => (Spec => []ConfirmedIsPaidOnce)
<1>1. Init => IInv
  <2> SUFFICES ASSUME Init PROVE IInv
    OBVIOUS
  <2>1. Idle \in Handlers /\ Idle.at = "idle" /\ Idle.a = Nobody
    BY DEF Idle, Handlers
  <2>2. TypeOK
    BY <2>1, AmountAssumption DEF Init, TypeOK
  <2>3. OneUpdate /\ PayingFindsUnpaid /\ SavingKeepsPaid
    BY <2>1 DEF Init, OneUpdate, PayingFindsUnpaid, SavingKeepsPaid
  <2>4. PaidIsOver /\ ConfirmedIsPaidOnce
    BY DEF Init, PaidIsOver, ConfirmedIsPaidOnce
  <2> QED BY <2>2, <2>3, <2>4 DEF IInv
<1>2. Careful /\ IInv /\ [Next]_vars => IInv'
  BY PaidInductive
<1>3. IInv => ConfirmedIsPaidOnce
  BY DEF IInv
<1>4. ASSUME Careful PROVE Spec => []ConfirmedIsPaidOnce
  <2>1. IInv /\ [Next]_vars => IInv'
    BY <1>2, <1>4
  <2> QED BY <1>1, <1>3, <2>1, PTL DEF Spec
<1> QED BY <1>4

-----------------------------------------------------------------------------
(* The money.  Only a payment that commits moves any, and what its parties *)
(* gain, with what the platform keeps, is nothing: the client loses the    *)
(* gross, of which the expert gets the net, and each agent or the platform *)
(* the commission that was withheld.                                       *)

\* The amount v for account c, nothing for any other.
Only(c, v) == [x \in Accounts |-> IF x = c THEN v ELSE 0]

\* What accounts gain by the payment s of appointment a.
Gains(a, s) == [x \in Accounts |-> Gain(a, s, x)]

\* A single amount is the sum when its account exists.
LEMMA OnlySum ==
    ASSUME NEW c, NEW v \in Int
    PROVE  /\ \A x \in Accounts : Only(c, v)[x] \in Int
           /\ SumFunctionOnSet(Only(c, v), Accounts) = IF c \in Accounts THEN v ELSE 0
<1>1. \A x \in Accounts : Only(c, v)[x] \in Int
  BY DEF Only
<1>2. CASE c \notin Accounts
  BY <1>1, <1>2, FiniteAssumption, SumZero DEF Only
<1>3. CASE c \in Accounts
  <2>1. SumFunctionOnSet(Only(c, v), Accounts)
          = Only(c, v)[c] + SumFunctionOnSet(Only(c, v), Accounts \ {c})
    BY <1>1, <1>3, FiniteAssumption, SumTakeOut
  <2>2. IsFiniteSet(Accounts \ {c}) /\ \A x \in Accounts \ {c} : Only(c, v)[x] = 0
    BY FiniteAssumption, FS_RemoveElement DEF Only
  <2>3. SumFunctionOnSet(Only(c, v), Accounts \ {c}) = 0
    BY <2>2, SumZero
  <2> QED BY <1>3, <2>1, <2>3 DEF Only
<1> QED BY <1>1, <1>2, <1>3

\* The amounts of a payment cancel out.
LEMMA GainsAddUp ==
    ASSUME NEW a \in Appointments, NEW s \in SplitRows
    PROVE  SumFunctionOnSet(Gains(a, s), Accounts) + Kept(a, s) = 0
<1> DEFINE n == Net(s)
           sp == IF SellerAgent(a) \in Agents THEN s.seller ELSE 0
           bp == IF BuyerAgent(a) \in Agents THEN s.buyer ELSE 0
           g1 == Only(Client[a], - s.gross)
           g2 == Only(Expert[a], n)
           g3 == Only(SellerAgent(a), sp)
           g4 == Only(BuyerAgent(a), bp)
           f2 == [x \in Accounts |-> g1[x] + g2[x]]
           f3 == [x \in Accounts |-> f2[x] + g3[x]]
           f4 == [x \in Accounts |-> f3[x] + g4[x]]
<1>1. /\ s.gross \in Int /\ s.platform \in Int /\ s.gst \in Int /\ s.seller \in Int /\ s.buyer \in Int
      /\ n = s.gross - s.platform - s.gst - s.seller - s.buyer
  BY DEF SplitRows, Net
<1>2. - s.gross \in Int /\ n \in Int /\ sp \in Int /\ bp \in Int
  BY <1>1
<1>3. /\ Client[a] \in Accounts /\ Expert[a] \in Accounts
      /\ SellerAgent(a) \notin Accounts => sp = 0
      /\ BuyerAgent(a) \notin Accounts => bp = 0
  BY PartyAssumption
<1>4. \A x \in Accounts : Gain(a, s, x) = f4[x]
  <2> SUFFICES ASSUME NEW x \in Accounts
               PROVE  Gain(a, s, x) = ((g1[x] + g2[x]) + g3[x]) + g4[x]
    OBVIOUS
  <2>1. /\ g1[x] = IF x = Client[a] THEN - s.gross ELSE 0
        /\ g2[x] = IF x = Expert[a] THEN n ELSE 0
        /\ g3[x] = IF x \in Agents /\ x = SellerAgent(a) THEN s.seller ELSE 0
        /\ g4[x] = IF x \in Agents /\ x = BuyerAgent(a) THEN s.buyer ELSE 0
    BY DEF Only
  <2> HIDE DEF g1, g2, g3, g4
  <2> QED BY <2>1 DEF Gain
<1> HIDE DEF n, sp, bp
<1>5. /\ \A x \in Accounts : g1[x] \in Int /\ g2[x] \in Int /\ g3[x] \in Int /\ g4[x] \in Int
      /\ SumFunctionOnSet(g1, Accounts) = - s.gross
      /\ SumFunctionOnSet(g2, Accounts) = n
      /\ SumFunctionOnSet(g3, Accounts) = sp
      /\ SumFunctionOnSet(g4, Accounts) = bp
  BY <1>2, <1>3, OnlySum
<1> HIDE DEF g1, g2, g3, g4
<1>6. /\ \A x \in Accounts : f2[x] \in Int /\ f2[x] = g1[x] + g2[x]
      /\ \A x \in Accounts : f3[x] \in Int /\ f3[x] = f2[x] + g3[x]
      /\ \A x \in Accounts : f4[x] = f3[x] + g4[x]
  BY <1>5
<1> HIDE DEF f2, f3, f4
<1>7. SumFunctionOnSet(f2, Accounts) = - s.gross + n
  BY <1>5, <1>6, FiniteAssumption, SumAdd
<1>8. SumFunctionOnSet(f3, Accounts) = (- s.gross + n) + sp
  BY <1>5, <1>6, <1>7, FiniteAssumption, SumAdd
<1>9. SumFunctionOnSet(f4, Accounts) = ((- s.gross + n) + sp) + bp
  BY <1>5, <1>6, <1>8, FiniteAssumption, SumAdd
<1>10. SumFunctionOnSet(Gains(a, s), Accounts) = SumFunctionOnSet(f4, Accounts)
  <2>1. \A x \in Accounts : Gains(a, s)[x] = f4[x]
    BY <1>4 DEF Gains
  <2> QED BY <2>1, FiniteAssumption, SumSame
<1>11. /\ SellerAgent(a) \in Agents => sp = s.seller
       /\ SellerAgent(a) \notin Agents => sp = 0
       /\ BuyerAgent(a) \in Agents => bp = s.buyer
       /\ BuyerAgent(a) \notin Agents => bp = 0
  BY DEF sp, bp
<1> QED BY <1>1, <1>2, <1>9, <1>10, <1>11 DEF Kept

\* What the platform keeps is an integer.
LEMMA KeptType ==
    ASSUME NEW a \in Appointments, NEW s \in SplitRows
    PROVE  Kept(a, s) \in Int
  BY DEF Kept, SplitRows

\* What it keeps of the payments of an appointment is one, too.
LEMMA KeptForType ==
    ASSUME TypeOK, NEW a \in Appointments
    PROVE  /\ IsFiniteSet(DOMAIN splits[a])
           /\ \A k \in DOMAIN splits[a] : KeptOf(a)[k] \in Int
           /\ KeptFor[a] \in Int
<1>1. splits[a] \in Seq(SplitRows)
  BY DEF TypeOK
<1>2. DOMAIN splits[a] = 1..Len(splits[a]) /\ Len(splits[a]) \in Nat
  BY <1>1
<1>3. IsFiniteSet(DOMAIN splits[a])
  BY <1>2, FS_Interval
<1>4. \A k \in DOMAIN splits[a] : KeptOf(a)[k] \in Int
  BY <1>1, KeptType DEF KeptOf
<1> QED BY <1>3, <1>4, SumType DEF KeptFor

\* One more payment s of appointment a adds what the platform keeps of it.
LEMMA KeptGrows ==
    ASSUME TypeOK, TypeOK', NEW a \in Appointments, NEW s \in SplitRows,
           splits' = [splits EXCEPT ![a] = Append(@, s)]
    PROVE  SumFunctionOnSet(KeptFor', Appointments)
             = SumFunctionOnSet(KeptFor, Appointments) + Kept(a, s)
<1> DEFINE n == Len(splits[a])
           D == DOMAIN splits[a]
<1>1. /\ splits[a] \in Seq(SplitRows) /\ splits'[a] = Append(splits[a], s)
      /\ \A b \in Appointments \ {a} : splits'[b] = splits[b]
  BY DEF TypeOK
<1>2. /\ n \in Nat /\ D = 1..n /\ n + 1 \notin D
      /\ DOMAIN splits'[a] = D \cup {n + 1}
      /\ splits'[a][n + 1] = s /\ \A k \in D : splits'[a][k] = splits[a][k]
  <2>1. n \in Nat /\ D = 1..n /\ n + 1 \notin D
    BY <1>1
  <2>2. Len(splits'[a]) = n + 1 /\ DOMAIN splits'[a] = 1..(n + 1)
    BY <1>1
  <2>3. splits'[a][n + 1] = s /\ \A k \in 1..n : splits'[a][k] = splits[a][k]
    BY <1>1
  <2> QED BY <2>1, <2>2, <2>3
<1> HIDE DEF n, D
<1>3. IsFiniteSet(D) /\ \A k \in D : KeptOf(a)[k] \in Int
  BY KeptForType DEF D
<1>4. /\ \A k \in D : KeptOf(a)'[k] = KeptOf(a)[k]
      /\ KeptOf(a)'[n + 1] = Kept(a, s)
  BY <1>2 DEF KeptOf, D
<1>5. SumFunctionOnSet(KeptOf(a)', D \cup {n + 1}) = SumFunctionOnSet(KeptOf(a)', D) + Kept(a, s)
  <2> DEFINE f == KeptOf(a)'
             m == n + 1
  <2>1. \A k \in D \cup {m} : f[k] \in Int
    BY <1>3, <1>4, KeptType
  <2>2. m \notin D /\ f[m] = Kept(a, s)
    BY <1>2, <1>4
  <2> HIDE DEF f, m
  <2>3. SumFunctionOnSet(f, D \cup {m}) = SumFunctionOnSet(f, D) + f[m]
    BY <1>3, <2>1, <2>2, SumJoin
  <2>4. SumFunctionOnSet(f, D \cup {m}) = SumFunctionOnSet(f, D) + Kept(a, s)
    BY <2>2, <2>3
  <2> QED BY <2>4 DEF f, m
<1>6. SumFunctionOnSet(KeptOf(a)', D) = SumFunctionOnSet(KeptOf(a), D)
  BY <1>3, <1>4, SumSame
<1>7. KeptFor'[a] = KeptFor[a] + Kept(a, s)
  BY <1>2, <1>5, <1>6 DEF KeptFor, D
<1>8. \A b \in Appointments \ {a} : KeptFor'[b] = KeptFor[b]
  BY <1>1 DEF KeptFor, KeptOf
<1>9. /\ \A b \in Appointments : KeptFor[b] \in Int
      /\ KeptFor'[a] \in Int /\ Kept(a, s) \in Int
  BY <1>7, KeptForType, KeptType
<1>10. SumFunctionOnSet(KeptFor', Appointments)
         = SumFunctionOnSet(KeptFor, Appointments) - KeptFor[a] + KeptFor'[a]
  <2> DEFINE f == KeptFor
             g == KeptFor'
  <2> HIDE DEF f, g
  <2>1. SumFunctionOnSet(g, Appointments) = SumFunctionOnSet(f, Appointments) - f[a] + g[a]
    BY <1>8, <1>9, FiniteAssumption, SumChange DEF f, g
  <2> QED BY <2>1 DEF f, g
<1>11. SumFunctionOnSet(KeptFor, Appointments) \in Int
  BY <1>9, FiniteAssumption, SumType
<1> QED BY <1>7, <1>9, <1>10, <1>11

\* The payment moves money between its parties and the platform only.
LEMMA PaymentAddsUp ==
    ASSUME TypeOK, TypeOK', SplitsAddUp, NEW w \in Workers, CommitPayment(w)
    PROVE  SplitsAddUp'
<1> DEFINE a == worker[w].a
           s == Split(a, worker[w].due)
           k == SumFunctionOnSet(KeptFor, Appointments)
           b == SumFunctionOnSet(balance, Accounts)
           g == SumFunctionOnSet(Gains(a, s), Accounts)
<1>1. a \in Appointments /\ worker[w] \in Handlers
  BY DEF CommitPayment, TypeOK, Idle
<1>2. s \in SplitRows
  BY <1>1, SplitType DEF Handlers
<1>3. /\ balance' = [x \in Accounts |-> balance[x] + Gain(a, s, x)]
      /\ splits' = [splits EXCEPT ![a] = Append(@, s)]
  BY DEF CommitPayment
<1> HIDE DEF a, s
<1>4. SumFunctionOnSet(KeptFor', Appointments) = k + Kept(a, s)
  BY <1>1, <1>2, <1>3, KeptGrows
<1>5. \A x \in Accounts : balance[x] \in Int /\ Gains(a, s)[x] \in Int
                          /\ balance'[x] = balance[x] + Gains(a, s)[x]
  BY <1>1, <1>2, <1>3, GainType DEF TypeOK, Gains
<1>6. SumFunctionOnSet(balance', Accounts) = b + g
  BY <1>5, FiniteAssumption, SumAdd
<1>7. g + Kept(a, s) = 0
  BY <1>1, <1>2, GainsAddUp
<1>8. b \in Int /\ g \in Int /\ k \in Int /\ Kept(a, s) \in Int
  <2>1. \A c \in Appointments : KeptFor[c] \in Int
    BY KeptForType
  <2> QED BY <1>1, <1>2, <1>5, <2>1, FiniteAssumption, SumType, KeptType
<1>9. b + k = SumFunctionOnSet(Initial, Accounts)
  BY DEF SplitsAddUp
<1> HIDE DEF b, g, k
<1> QED BY <1>4, <1>6, <1>7, <1>8, <1>9 DEF SplitsAddUp

\* Whichever updates overlap, deadlock, crash or are refused, and whatever
\* statuses and prices experts ask for, what clients paid is what experts and
\* agents got and the platform kept.
THEOREM SplitsAddUpHolds == Spec => []SplitsAddUp
<1>1. Init => SplitsAddUp
  <2> SUFFICES ASSUME Init PROVE SplitsAddUp
    OBVIOUS
  <2>1. \A a \in Appointments : KeptFor[a] = 0
    <3> SUFFICES ASSUME NEW a \in Appointments
                 PROVE  SumFunctionOnSet(KeptOf(a), DOMAIN splits[a]) = 0
      BY DEF KeptFor
    <3>1. DOMAIN splits[a] = {}
      BY DEF Init
    <3> QED BY <3>1, SumEmpty
  <2>2. SumFunctionOnSet(KeptFor, Appointments) = 0
    BY <2>1, FiniteAssumption, SumZero
  <2>3. balance = Initial /\ \A x \in Accounts : Initial[x] \in Int
    BY AmountAssumption DEF Init
  <2>4. SumFunctionOnSet(Initial, Accounts) \in Int
    BY <2>3, FiniteAssumption, SumType
  <2> QED BY <2>2, <2>3, <2>4 DEF SplitsAddUp
<1>2. TypeOK /\ TypeOK' /\ SplitsAddUp /\ [Next]_vars => SplitsAddUp'
  <2> SUFFICES ASSUME TypeOK, TypeOK', SplitsAddUp, [Next]_vars PROVE SplitsAddUp'
    OBVIOUS
  <2>1. ASSUME UNCHANGED <<balance, splits>> PROVE SplitsAddUp'
    BY <2>1 DEF SplitsAddUp, KeptFor, KeptOf
  <2>2. ASSUME NEW w \in Workers, LockNext(w) PROVE UNCHANGED <<balance, splits>>
    BY <2>2 DEF LockNext, Rollback
  <2>3. ASSUME NEW w \in Workers, Victim(w) \/ Abort(w) \/ CommitUpdate(w)
        PROVE  UNCHANGED <<balance, splits>>
    BY <2>3 DEF Victim, Abort, CommitUpdate, Rollback
  <2>4. ASSUME NEW w \in Workers, NEW a, NEW to, NEW p,
               ClientUpdate(w, a, to) \/ ExpertUpdate(w, a, to, p)
        PROVE  UNCHANGED <<balance, splits>>
    BY <2>4 DEF ClientUpdate, ExpertUpdate
  <2>5. ASSUME NEW a, NEW cost, Create(a, cost) PROVE UNCHANGED <<balance, splits>>
    BY <2>5 DEF Create
  <2>6. CASE UNCHANGED vars
    BY <2>1, <2>6 DEF vars
  <2> QED BY <2>1, <2>2, <2>3, <2>4, <2>5, <2>6, PaymentAddsUp DEF Next, Step
<1> QED BY <1>1, <1>2, TypeCorrect, PTL DEF Spec
=============================================================================
