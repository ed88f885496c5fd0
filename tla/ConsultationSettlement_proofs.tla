------------------- MODULE ConsultationSettlement_proofs -------------------
(***************************************************************************)
(* ConsultationSettlement for every number of overlapping handlers and     *)
(* consultations, and every hold and price: a consultation is charged at   *)
(* most once, never above its hold, and never completes unsettled.         *)
(*                                                                         *)
(* None of these is inductive.  What makes them hold is that a handler     *)
(* which will charge owns the row lock of its consultation: it got past    *)
(* the claim either with the lock, or because the consultation was not     *)
(* live, and then its hold had been released before (StaleEndIsSettled).   *)
(***************************************************************************)
EXTENDS ConsultationSettlement, SequenceTheorems, FiniteSetTheorems, SumLemmas, TLAPS

\* Nothing is left to give back or to charge.
Settled(c) == held[c] = 0 \/ releases[c] > 0

\* The handler has read that no RELEASE row exists and will move money.
WillMove(r) == req[r].at = "wallet" \/ (req[r].at = "commit" /\ ~req[r].done)

\* It is past the claim of the consultation row.
PastClaim(r) == req[r].at \in {"holdRows", "wallet", "commit"}

\* What a row of the consultations table says about its money.
RowInv(c) ==
    \* Before the row exists there is none.
    /\ status[c] = "absent" =>
         /\ ~startedAt[c]
         /\ releases[c] = 0
         /\ charges[c] = 0
         /\ charged[c] = 0
    \* Once started or completed, and not live, it is settled.
    /\ /\ startedAt[c] \/ status[c] \in {"completed", "reopened", "closed"}
       /\ status[c] \notin LiveStatuses
       => Settled(c)
    \* A charge leaves a RELEASE row, is the only one, and is in the hold.
    /\ charges[c] > 0 => releases[c] > 0
    /\ charges[c] = 0 => charged[c] = 0
    /\ charges[c] <= 1
    /\ charged[c] <= held[c]

\* What a handler knows about the row it works on.
HandlerInv(r) ==
    \* Only a creation works on a row that is not there.
    /\ OnConsultation(r) =>
         (req[r].op = "create" <=> status[req[r].c] = "absent")
    \* That a consultation has started stays true.
    /\ Releasing(r) /\ req[r].started => startedAt[req[r].c]
    \* A re-request and a close work on settled consultations.
    /\ req[r].op \in {"request", "close"} => Settled(req[r].c)
    \* StaleEndIsSettled: an end past the claim without the lock charges nothing.
    /\ Settling(r) /\ PastClaim(r) /\ lock[req[r].c] # r => Settled(req[r].c)
    \* A handler that will move nothing has seen the hold settled.
    /\ Releasing(r) /\ req[r].done => req[r].at = "commit" /\ Settled(req[r].c)
    \* ChargerIsAlone: one that will charge owns the lock and is the first.
    /\ Settling(r) /\ WillMove(r) => lock[req[r].c] = r /\ charges[req[r].c] = 0

\* One handler at most is about to insert a row.
CreatorIsAlone ==
    \A r, s \in Requests :
        req[r].op = "create" /\ req[s].op = "create" /\ req[r].c = req[s].c => r = s

IInv ==
    /\ TypeOK
    /\ \A c \in Consultations : RowInv(c)
    /\ \A r \in Requests : HandlerInv(r)
    /\ CreatorIsAlone

-----------------------------------------------------------------------------
(* Types.                                                                  *)

\* Closing some sessions of a consultation leaves a sequence of statuses.
LEMMA ClosedType ==
    ASSUME NEW ss \in Seq(SessionStatuses), NEW which
    PROVE  Closed(ss, which) \in Seq(SessionStatuses)
<1>1. /\ Len(ss) \in Nat
      /\ DOMAIN ss = 1 .. Len(ss)
      /\ \A i \in 1 .. Len(ss) : ss[i] \in SessionStatuses
  OBVIOUS
<1>2. "closed" \in SessionStatuses
  BY DEF SessionStatuses
<1>3. Closed(ss, which) \in [1 .. Len(ss) -> SessionStatuses]
  BY <1>1, <1>2 DEF Closed
<1> QED
  BY <1>1, <1>3, SeqDef

\* So does writing one session by its id, present or not.
LEMMA UpdatedType ==
    ASSUME NEW ss \in Seq(SessionStatuses), NEW i, NEW e \in SessionStatuses
    PROVE  [ss EXCEPT ![i] = e] \in Seq(SessionStatuses)
<1>1. /\ Len(ss) \in Nat
      /\ ss \in [1 .. Len(ss) -> SessionStatuses]
  OBVIOUS
<1>2. [ss EXCEPT ![i] = e] \in [1 .. Len(ss) -> SessionStatuses]
  BY <1>1
<1> QED
  BY <1>1, <1>2, SeqDef

\* What a release moves is a natural number, and no more than what is reserved.
LEMMA AmountsType ==
    ASSUME TypeOK, NEW r \in Requests, req[r].c \in Consultations
    PROVE  /\ Releaseable(r) \in Nat
           /\ Deduction(r) \in Nat
           /\ Refund(r) \in Nat
           /\ Releaseable(r) <= req[r].res
           /\ Releaseable(r) <= held[req[r].c]
           /\ Deduction(r) <= Releaseable(r)
<1>1. /\ held[req[r].c] \in Nat
      /\ req[r].res \in Nat
      /\ req[r].pay \in Nat
  BY DEF TypeOK, ColumnTypes, HandlerTypes, HandlerType
<1>2. /\ Releaseable(r) \in Nat
      /\ Releaseable(r) <= req[r].res
      /\ Releaseable(r) <= held[req[r].c]
  BY <1>1 DEF Releaseable, Min2
<1>3. Deduction(r) \in Nat /\ Deduction(r) <= Releaseable(r)
  BY <1>1, <1>2 DEF Deduction, Min2
<1> QED
  BY <1>2, <1>3 DEF Refund

\* Counters of a consultation stay natural numbers.
LEMMA AddedType ==
    ASSUME NEW f \in [Consultations -> Nat], NEW c \in Consultations, NEW n \in Nat
    PROVE  [f EXCEPT ![c] = @ + n] \in [Consultations -> Nat]
<1>1. f[c] + n \in Nat
  OBVIOUS
<1> QED
  BY <1>1

\* An idle slot is a handler record.
LEMMA IdleType ==
    /\ Idle \in HandlerType
    /\ Idle.op = "idle"
  BY DEF Idle, Handler, HandlerType, Operations, Steps

\* A new handler, before its values are filled in.
LEMMA NewHandler ==
    ASSUME NEW op \in Operations, NEW at \in Steps, NEW c \in Consultations \cup {NoOne}
    PROVE  /\ Handler(op, at, c) \in HandlerType
           /\ Handler(op, at, c).op = op
           /\ Handler(op, at, c).c = c
  BY DEF Handler, HandlerType

\* Giving one slot a well-typed handler keeps the slots well typed.
LEMMA SlotType ==
    ASSUME HandlerTypes, NEW r \in Requests, NEW q \in HandlerType,
           q.op \notin {"idle", "debit"} => q.c \in Consultations,
           req' = [req EXCEPT ![r] = q]
    PROVE  HandlerTypes'
<1>1. req' \in [Requests -> HandlerType]
  BY DEF HandlerTypes
<1>2. ASSUME NEW s \in Requests, OnConsultation(s)' PROVE req'[s].c \in Consultations
  BY <1>2 DEF HandlerTypes, OnConsultation
<1> QED
  BY <1>1, <1>2 DEF HandlerTypes

\* A slot that becomes idle.
LEMMA IdleSlot ==
    ASSUME HandlerTypes, NEW r \in Requests, req' = [req EXCEPT ![r] = Idle]
    PROVE  HandlerTypes'
  BY SlotType, IdleType

\* Moving a handler to its next step.
LEMMA StepSlot ==
    ASSUME HandlerTypes, NEW r \in Requests, NEW at \in Steps, OnConsultation(r),
           req' = [req EXCEPT ![r].at = at]
    PROVE  HandlerTypes'
<1> DEFINE q == [req[r] EXCEPT !.at = at]
<1>1. q \in HandlerType /\ q.op = req[r].op /\ q.c = req[r].c
  BY DEF HandlerTypes, HandlerType
<1>2. req' = [req EXCEPT ![r] = q]
  BY DEF HandlerTypes
<1> QED
  BY <1>1, <1>2, SlotType DEF HandlerTypes, OnConsultation

\* Slots that keep their records.
LEMMA SameSlots == HandlerTypes /\ UNCHANGED req => HandlerTypes'
  BY DEF HandlerTypes, OnConsultation

\* The initial state has the types.
LEMMA InitType == Init => TypeOK
<1> SUFFICES ASSUME Init PROVE TypeOK
  OBVIOUS
<1>1. ColumnTypes
  BY AmountAssumption DEF Init, ColumnTypes, Statuses
<1>2. HandlerTypes
  BY IdleType DEF Init, HandlerTypes, OnConsultation
<1> QED
  BY <1>1, <1>2 DEF TypeOK

\* Requests, answers and sessions keep the types.
LEMMA OpenType ==
    ASSUME TypeOK, NEW r \in Requests, OpenSteps(r) PROVE TypeOK'
<1> USE HoldAssumption, AmountAssumption
<1>0. ColumnTypes /\ HandlerTypes
  BY DEF TypeOK
<1>1. ASSUME NEW c \in Consultations, NEW m \in Modes, BeginCreate(r, c, m) PROVE TypeOK'
  <2>1. ColumnTypes'
    BY <1>0, <1>1 DEF BeginCreate, ColumnTypes, wallet, totals, rows, holds
  <2>2. PICK free \in BOOLEAN :
          req' = [req EXCEPT ![r] =
              [Handler("create", "commit", c) EXCEPT
                 !.mode = m, !.bal = balance, !.res = reserved,
                 !.pay = IF free THEN 0 ELSE Hold[c]]]
    BY <1>1 DEF BeginCreate
  <2> DEFINE q == [Handler("create", "commit", c) EXCEPT
                 !.mode = m, !.bal = balance, !.res = reserved,
                 !.pay = IF free THEN 0 ELSE Hold[c]]
  <2>3. Handler("create", "commit", c) \in HandlerType /\ Handler("create", "commit", c).c = c
    BY NewHandler DEF Operations, Steps
  <2>4. q \in HandlerType /\ q.c \in Consultations
    BY <1>0, <2>3 DEF HandlerType, ColumnTypes
  <2> QED
    BY <1>0, <2>1, <2>2, <2>4, SlotType DEF TypeOK
<1>2. ASSUME CommitCreate(r) PROVE TypeOK'
  <2>1. req[r].c \in Consultations /\ req[r] \in HandlerType
    BY <1>0, <1>2 DEF CommitCreate, At, HandlerTypes, OnConsultation
  <2>2. <<"pending">> \in Seq(SessionStatuses)
    BY DEF SessionStatuses
  <2>3. /\ req[r].bal \in Int
        /\ req[r].res \in Nat
        /\ req[r].pay \in Nat
        /\ req[r].mode \in Modes \cup {NoOne}
    BY <2>1 DEF HandlerType
  <2>4. balance' \in Int /\ reserved' \in Nat
    <3>1. CASE req[r].pay > 0
      BY <1>2, <2>3, <3>1 DEF CommitCreate
    <3>2. CASE ~(req[r].pay > 0)
      BY <1>0, <1>2, <3>2 DEF CommitCreate, ColumnTypes, wallet
    <3> QED
      BY <3>1, <3>2
  <2>5. ColumnTypes'
    BY <1>0, <1>2, <2>1, <2>2, <2>3, <2>4 DEF CommitCreate, ColumnTypes, totals, Statuses
  <2> QED
    BY <1>0, <1>2, <2>5, IdleSlot DEF CommitCreate, TypeOK
<1>3. ASSUME NEW c \in Consultations, NEW m \in Modes, BeginAttach(r, c, m) PROVE TypeOK'
  <2>1. ColumnTypes'
    BY <1>0, <1>3 DEF BeginAttach, ColumnTypes, wallet, totals, rows, holds
  <2> DEFINE q == [Handler("attach", "commit", c) EXCEPT !.mode = IF m = mode[c] THEN NoOne ELSE m]
  <2>2. q \in HandlerType /\ q.c \in Consultations
    <3>1. Handler("attach", "commit", c) \in HandlerType /\ Handler("attach", "commit", c).c = c
      BY NewHandler DEF Operations, Steps
    <3> QED
      BY <3>1 DEF HandlerType
  <2> QED
    BY <1>0, <1>3, <2>1, <2>2, SlotType DEF BeginAttach, TypeOK
<1>4. ASSUME CommitAttach(r) PROVE TypeOK'
  <2>1. req[r].c \in Consultations /\ req[r] \in HandlerType
    BY <1>0, <1>4 DEF CommitAttach, At, HandlerTypes, OnConsultation
  <2>2. sessions' \in [Consultations -> Seq(SessionStatuses)]
    <3>1. \A ss \in Seq(SessionStatuses) : Append(ss, "pending") \in Seq(SessionStatuses)
      BY AppendProperties DEF SessionStatuses
    <3> QED
      BY <1>0, <1>4, <2>1, <3>1 DEF CommitAttach, ColumnTypes
  <2>3. mode' \in [Consultations -> Modes \cup {NoOne}]
    BY <1>0, <1>4, <2>1 DEF CommitAttach, ColumnTypes, HandlerType
  <2>4. ColumnTypes'
    BY <1>0, <1>4, <2>2, <2>3 DEF CommitAttach, ColumnTypes, wallet, totals, holds
  <2> QED
    BY <1>0, <1>4, <2>4, IdleSlot DEF CommitAttach, TypeOK
<1>5. ASSUME NEW c \in Consultations, Accept(r, c) PROVE TypeOK'
  <2>1. ColumnTypes'
    BY <1>0, <1>5 DEF Accept, ColumnTypes, wallet, totals, holds, Statuses
  <2> QED
    BY <1>0, <1>5, <2>1, SameSlots DEF Accept, TypeOK
<1>6. ASSUME NEW c \in Consultations, StartClaim(r, c) PROVE TypeOK'
  <2>1. ColumnTypes'
    BY <1>0, <1>6 DEF StartClaim, ColumnTypes, wallet, totals, holds, Statuses
  <2>2. Handler("start", "select", c) \in HandlerType /\ Handler("start", "select", c).c = c
    BY NewHandler DEF Operations, Steps
  <2> QED
    BY <1>0, <1>6, <2>1, <2>2, SlotType DEF StartClaim, TypeOK
<1>7. ASSUME StartSelect(r) PROVE TypeOK'
  <2>0. req[r].c \in Consultations /\ req[r] \in HandlerType /\ OnConsultation(r)
    BY <1>0, <1>7 DEF StartSelect, At, HandlerTypes, OnConsultation
  <2>1. ColumnTypes'
    BY <1>0, <1>7 DEF StartSelect, ColumnTypes, wallet, totals, rows, holds
  <2>2. CASE req' = [req EXCEPT ![r] = Idle]
    BY <1>0, <2>1, <2>2, IdleSlot DEF TypeOK
  <2>3. ASSUME NEW i \in Pending(req[r].c), req' = [req EXCEPT ![r].at = "update", ![r].sid = i]
        PROVE  TypeOK'
    <3> DEFINE q == [req[r] EXCEPT !.at = "update", !.sid = i]
    <3>1. i \in Nat
      BY <1>0, <2>0 DEF Pending, ColumnTypes
    <3>2. q \in HandlerType /\ q.c \in Consultations
      BY <2>0, <3>1 DEF HandlerType, Steps
    <3>3. req' = [req EXCEPT ![r] = q]
      BY <1>0, <2>3 DEF HandlerTypes
    <3> QED
      BY <1>0, <2>1, <3>2, <3>3, SlotType DEF TypeOK
  <2> QED
    BY <1>7, <2>2, <2>3 DEF StartSelect
<1>8. ASSUME StartUpdate(r) PROVE TypeOK'
  <2>0. req[r].c \in Consultations
    BY <1>0, <1>8 DEF StartUpdate, At, HandlerTypes, OnConsultation
  <2>1. sessions' \in [Consultations -> Seq(SessionStatuses)]
    <3>1. "active" \in SessionStatuses
      BY DEF SessionStatuses
    <3>2. [sessions[req[r].c] EXCEPT ![req[r].sid] = "active"] \in Seq(SessionStatuses)
      BY <1>0, <2>0, <3>1, UpdatedType DEF ColumnTypes
    <3>3. sessions' = [sessions EXCEPT ![req[r].c] =
                         [sessions[req[r].c] EXCEPT ![req[r].sid] = "active"]]
      BY <1>0, <1>8, <2>0 DEF StartUpdate, ColumnTypes
    <3> QED
      BY <1>0, <2>0, <3>2, <3>3 DEF ColumnTypes
  <2>2. ColumnTypes'
    BY <1>0, <1>8, <2>1 DEF StartUpdate, ColumnTypes, wallet, totals, holds
  <2> QED
    BY <1>0, <1>8, <2>2, IdleSlot DEF StartUpdate, TypeOK
<1>9. ASSUME NEW c \in Consultations, BeginRequest(r, c) \/ BeginClose(r, c) PROVE TypeOK'
  <2>1. ColumnTypes'
    BY <1>0, <1>9 DEF BeginRequest, BeginClose, ColumnTypes, wallet, totals, rows, holds
  <2>2. PICK op \in {"request", "close"} : req' = [req EXCEPT ![r] = Handler(op, "commit", c)]
    BY <1>9 DEF BeginRequest, BeginClose
  <2>3. Handler(op, "commit", c) \in HandlerType /\ Handler(op, "commit", c).c = c
    BY NewHandler DEF Operations, Steps
  <2> QED
    BY <1>0, <2>1, <2>2, <2>3, SlotType DEF TypeOK
<1>10. ASSUME CommitRequest(r) PROVE TypeOK'
  <2>1. ColumnTypes'
    BY <1>0, <1>10 DEF CommitRequest, ColumnTypes, wallet, totals, holds, Statuses
  <2> QED
    BY <1>0, <1>10, <2>1, IdleSlot DEF CommitRequest, TypeOK
<1>11. ASSUME CommitClose(r) PROVE TypeOK'
  <2>1. sessions' \in [Consultations -> Seq(SessionStatuses)]
    BY <1>0, <1>11, ClosedType DEF CommitClose, ColumnTypes
  <2>2. ColumnTypes'
    BY <1>0, <1>11, <2>1 DEF CommitClose, ColumnTypes, wallet, totals, holds, Statuses
  <2> QED
    BY <1>0, <1>11, <2>2, IdleSlot DEF CommitClose, TypeOK
<1> QED
  BY <1>1, <1>2, <1>3, <1>4, <1>5, <1>6, <1>7, <1>8, <1>9, <1>10, <1>11 DEF OpenSteps

\* Ends and cancellations keep the types.
LEMMA ReleaseType ==
    ASSUME TypeOK, NEW r \in Requests, ReleaseSteps(r) PROVE TypeOK'
<1> USE HoldAssumption, AmountAssumption
<1>0. ColumnTypes /\ HandlerTypes
  BY DEF TypeOK
<1>1. ASSUME NEW c \in Consultations, BeginEnd(r, c) PROVE TypeOK'
  <2>1. ColumnTypes'
    BY <1>0, <1>1 DEF BeginEnd, ColumnTypes, wallet, totals, rows, holds
  <2>2. PICK amount \in Payables :
          req' = [req EXCEPT ![r] =
              [Handler("end", "claim", c) EXCEPT !.started = startedAt[c], !.pay = amount]]
    BY <1>1 DEF BeginEnd
  <2> DEFINE q == [Handler("end", "claim", c) EXCEPT !.started = startedAt[c], !.pay = amount]
  <2>3. Handler("end", "claim", c) \in HandlerType /\ Handler("end", "claim", c).c = c
    BY NewHandler DEF Operations, Steps
  <2>4. q \in HandlerType /\ q.c \in Consultations
    BY <1>0, <2>3 DEF HandlerType, ColumnTypes
  <2> QED
    BY <1>0, <2>1, <2>2, <2>4, SlotType DEF TypeOK
<1>2. ASSUME NEW c \in Consultations, Withdraw(r, c) PROVE TypeOK'
  <2>1. ColumnTypes'
    BY <1>0, <1>2 DEF Withdraw, ClaimRow, ColumnTypes, wallet, totals, holds
  <2>2. PICK op \in {"cancel", "reject"} : req' = [req EXCEPT ![r] = Handler(op, "holdRows", c)]
    BY <1>2 DEF Withdraw
  <2>3. Handler(op, "holdRows", c) \in HandlerType /\ Handler(op, "holdRows", c).c = c
    BY NewHandler DEF Operations, Steps
  <2> QED
    BY <1>0, <2>1, <2>2, <2>3, SlotType DEF TypeOK
<1>3. ASSUME NEW c \in Consultations, BeginDrop(r, c) PROVE TypeOK'
  <2>1. ColumnTypes'
    BY <1>0, <1>3 DEF BeginDrop, ColumnTypes, wallet, totals, rows, holds
  <2> DEFINE q == [Handler("drop", "select", c) EXCEPT !.started = startedAt[c]]
  <2>2. q \in HandlerType /\ q.c \in Consultations
    <3>1. Handler("drop", "select", c) \in HandlerType /\ Handler("drop", "select", c).c = c
      BY NewHandler DEF Operations, Steps
    <3> QED
      BY <1>0, <3>1 DEF HandlerType, ColumnTypes
  <2> QED
    BY <1>0, <1>3, <2>1, <2>2, SlotType DEF BeginDrop, TypeOK
<1>4. ASSUME ClaimEnd(r) PROVE TypeOK'
  <2>0. req[r].c \in Consultations /\ OnConsultation(r)
    BY <1>0, <1>4 DEF ClaimEnd, At, HandlerTypes, OnConsultation
  <2>1. ColumnTypes'
    BY <1>0, <1>4, <2>0 DEF ClaimEnd, ClaimRow, ColumnTypes, wallet, totals, holds
  <2> QED
    BY <1>0, <1>4, <2>0, <2>1, StepSlot DEF ClaimEnd, TypeOK, Steps
<1>5. ASSUME DropSessions(r) PROVE TypeOK'
  <2>0. req[r].c \in Consultations /\ req[r] \in HandlerType
    BY <1>0, <1>5 DEF DropSessions, At, HandlerTypes, OnConsultation
  <2>1. sessions' \in [Consultations -> Seq(SessionStatuses)]
    <3>1. Closed(sessions[req[r].c], {"active"}) \in Seq(SessionStatuses)
      BY <1>0, <2>0, ClosedType DEF ColumnTypes
    <3>2. \/ sessions' = [sessions EXCEPT ![req[r].c] = Closed(sessions[req[r].c], {"active"})]
          \/ sessions' = sessions
      BY <1>5 DEF DropSessions
    <3> QED
      BY <1>0, <2>0, <3>1, <3>2 DEF ColumnTypes
  <2>2. ColumnTypes'
    BY <1>0, <1>5, <2>1 DEF DropSessions, ColumnTypes, wallet, totals, holds
  <2>3. CASE req' = [req EXCEPT ![r] = Idle]
    BY <1>0, <2>2, <2>3, IdleSlot DEF TypeOK
  <2>4. ASSUME NEW i \in Pending(req[r].c), req' = [req EXCEPT ![r].at = "claim", ![r].sid = i]
        PROVE  TypeOK'
    <3> DEFINE q == [req[r] EXCEPT !.at = "claim", !.sid = i]
    <3>1. i \in Nat
      BY <1>0, <2>0 DEF Pending, ColumnTypes
    <3>2. q \in HandlerType /\ q.c \in Consultations
      BY <2>0, <3>1 DEF HandlerType, Steps
    <3>3. req' = [req EXCEPT ![r] = q]
      BY <1>0, <2>4 DEF HandlerTypes
    <3> QED
      BY <1>0, <2>2, <3>2, <3>3, SlotType DEF TypeOK
  <2> QED
    BY <1>5, <2>3, <2>4 DEF DropSessions
<1>6. ASSUME ClaimDrop(r) PROVE TypeOK'
  <2>0. req[r].c \in Consultations /\ OnConsultation(r)
    BY <1>0, <1>6 DEF ClaimDrop, At, HandlerTypes, OnConsultation
  <2>1. ColumnTypes'
    BY <1>0, <1>6, <2>0 DEF ClaimDrop, ClaimRow, ColumnTypes, wallet, totals, holds
  <2> QED
    BY <1>0, <1>6, <2>0, <2>1, StepSlot DEF ClaimDrop, TypeOK, Steps
<1>7. ASSUME ReadHoldRows(r) PROVE TypeOK'
  <2>0. req[r].c \in Consultations /\ req[r] \in HandlerType /\ OnConsultation(r)
    BY <1>0, <1>7 DEF ReadHoldRows, Releasing, HandlerTypes, OnConsultation
  <2>1. ColumnTypes'
    BY <1>0, <1>7 DEF ReadHoldRows, ColumnTypes, wallet, totals, rows, holds
  <2>2. CASE req' = [req EXCEPT ![r].at = "wallet"]
    BY <1>0, <2>0, <2>1, <2>2, StepSlot DEF TypeOK, Steps
  <2>3. CASE req' = [req EXCEPT ![r].at = "commit", ![r].done = TRUE]
    <3> DEFINE q == [req[r] EXCEPT !.at = "commit", !.done = TRUE]
    <3>1. q \in HandlerType /\ q.c \in Consultations
      BY <2>0 DEF HandlerType, Steps
    <3>2. req' = [req EXCEPT ![r] = q]
      BY <1>0, <2>3 DEF HandlerTypes
    <3> QED
      BY <1>0, <2>1, <3>1, <3>2, SlotType DEF TypeOK
  <2> QED
    BY <1>7, <2>2, <2>3 DEF ReadHoldRows
<1>8. ASSUME ReadWallet(r) PROVE TypeOK'
  <2>0. req[r].c \in Consultations /\ req[r] \in HandlerType
    BY <1>0, <1>8 DEF ReadWallet, Releasing, HandlerTypes, OnConsultation
  <2>1. ColumnTypes'
    BY <1>0, <1>8 DEF ReadWallet, ColumnTypes, wallet, totals, rows, holds
  <2> DEFINE q == [req[r] EXCEPT !.at = "commit", !.bal = balance, !.res = reserved]
  <2>2. q \in HandlerType /\ q.c \in Consultations
    BY <1>0, <2>0 DEF HandlerType, Steps, ColumnTypes
  <2>3. req' = [req EXCEPT ![r] = q]
    BY <1>0, <1>8 DEF ReadWallet, HandlerTypes
  <2> QED
    BY <1>0, <2>1, <2>2, <2>3, SlotType DEF TypeOK
<1>9. ASSUME CommitRelease(r) PROVE TypeOK'
  <2>0. req[r].c \in Consultations /\ req[r] \in HandlerType
    BY <1>0, <1>9 DEF CommitRelease, Releasing, HandlerTypes, OnConsultation
  <2>1. /\ Releaseable(r) \in Nat
        /\ Deduction(r) \in Nat
        /\ Refund(r) \in Nat
        /\ Releaseable(r) <= req[r].res
        /\ req[r].res \in Nat
        /\ req[r].bal \in Int
    BY <2>0, AmountsType DEF HandlerType
  <2>2. /\ balance' \in Int
        /\ reserved' \in Nat
        /\ releases' \in [Consultations -> Nat]
        /\ charges' \in [Consultations -> Nat]
        /\ charged' \in [Consultations -> Nat]
        /\ refunded' \in [Consultations -> Nat]
    <3>1. CASE req[r].done
      BY <1>0, <1>9, <3>1 DEF CommitRelease, MoveMoney, ColumnTypes, wallet
    <3>2. CASE ~req[r].done
      <4>1. /\ balance' = req[r].bal + Refund(r)
            /\ reserved' = req[r].res - Releaseable(r)
            /\ releases' = [releases EXCEPT ![req[r].c] = @ + 1]
            /\ \/ charges' = [charges EXCEPT ![req[r].c] = @ + 1]
               \/ charges' = charges
            /\ charged' = [charged EXCEPT ![req[r].c] = @ + Deduction(r)]
            /\ refunded' = [refunded EXCEPT ![req[r].c] = @ + Refund(r)]
        BY <1>9, <3>2 DEF CommitRelease, MoveMoney
      <4>2. balance' \in Int /\ reserved' \in Nat
        BY <2>1, <4>1
      <4>3. /\ releases' \in [Consultations -> Nat]
            /\ charges' \in [Consultations -> Nat]
        <5>1. releases \in [Consultations -> Nat] /\ charges \in [Consultations -> Nat]
          BY <1>0 DEF ColumnTypes
        <5>2. /\ [releases EXCEPT ![req[r].c] = @ + 1] \in [Consultations -> Nat]
              /\ [charges EXCEPT ![req[r].c] = @ + 1] \in [Consultations -> Nat]
          BY <2>0, <5>1, AddedType
        <5> QED
          BY <4>1, <5>1, <5>2
      <4>4. charged' \in [Consultations -> Nat]
        BY <1>0, <2>0, <2>1, <4>1, AddedType DEF ColumnTypes
      <4>5. refunded' \in [Consultations -> Nat]
        BY <1>0, <2>0, <2>1, <4>1, AddedType DEF ColumnTypes
      <4> QED
        BY <4>2, <4>3, <4>4, <4>5
    <3> QED
      BY <3>1, <3>2
  <2>3. billed' \in [Consultations -> Nat]
    BY <1>0, <1>9, <2>0, <2>1 DEF CommitRelease, WriteBill, ColumnTypes
  <2>4. sessions' \in [Consultations -> Seq(SessionStatuses)]
    <3>1. CASE req[r].op = "end"
      BY <1>0, <1>9, <2>0, <3>1, ClosedType DEF CommitRelease, ColumnTypes
    <3>2. CASE req[r].op = "drop"
      <4>1. [sessions[req[r].c] EXCEPT ![req[r].sid] = "closed"] \in Seq(SessionStatuses)
        BY <1>0, <2>0, UpdatedType DEF ColumnTypes, SessionStatuses
      <4>2. sessions' = [sessions EXCEPT ![req[r].c] =
                           [sessions[req[r].c] EXCEPT ![req[r].sid] = "closed"]]
        BY <1>0, <1>9, <2>0, <3>2 DEF CommitRelease, ColumnTypes
      <4> QED
        BY <1>0, <2>0, <4>1, <4>2 DEF ColumnTypes
    <3>3. CASE req[r].op \notin {"end", "drop"}
      BY <1>0, <1>9, <3>3 DEF CommitRelease, ColumnTypes
    <3> QED
      BY <3>1, <3>2, <3>3
  <2>5. /\ status' \in [Consultations -> Statuses]
        /\ lock' \in [Consultations -> Requests \cup {NoOne}]
    <3>1. StatusWritten(r) \in Statuses
      BY <1>9 DEF CommitRelease, Releasing, StatusWritten, Statuses
    <3>2. CASE lock[req[r].c] = r
      <4>1. /\ status' = [status EXCEPT ![req[r].c] = StatusWritten(r)]
            /\ lock' = [lock EXCEPT ![req[r].c] = NoOne]
        BY <1>9, <3>2 DEF CommitRelease
      <4> QED
        BY <1>0, <2>0, <3>1, <4>1 DEF ColumnTypes
    <3>3. CASE lock[req[r].c] # r
      BY <1>0, <1>9, <3>3 DEF CommitRelease, ColumnTypes
    <3> QED
      BY <3>2, <3>3
  <2>6. ColumnTypes'
    BY <1>0, <1>9, <2>2, <2>3, <2>4, <2>5 DEF CommitRelease, ColumnTypes, totals
  <2> QED
    BY <1>0, <1>9, <2>6, IdleSlot DEF CommitRelease, TypeOK
<1> QED
  BY <1>1, <1>2, <1>3, <1>4, <1>5, <1>6, <1>7, <1>8, <1>9 DEF ReleaseSteps

\* Recharges and other debits keep the types.
LEMMA WalletType ==
    ASSUME TypeOK, NEW r \in Requests, WalletSteps(r) \/ Abort(r) PROVE TypeOK'
<1> USE AmountAssumption
<1>0. ColumnTypes /\ HandlerTypes
  BY DEF TypeOK
<1>1. ASSUME Recharge(r) PROVE TypeOK'
  <2>1. ColumnTypes'
    BY <1>0, <1>1 DEF Recharge, ColumnTypes, rows, holds
  <2> QED
    BY <1>0, <1>1, <2>1, SameSlots DEF Recharge, TypeOK
<1>2. ASSUME BeginDebit(r) PROVE TypeOK'
  <2>1. ColumnTypes'
    BY <1>0, <1>2 DEF BeginDebit, ColumnTypes, wallet, totals, rows, holds
  <2>2. PICK amount \in Debits :
          req' = [req EXCEPT ![r] = [Handler("debit", "commit", NoOne) EXCEPT !.pay = amount]]
    BY <1>2 DEF BeginDebit
  <2> DEFINE q == [Handler("debit", "commit", NoOne) EXCEPT !.pay = amount]
  <2>3. Handler("debit", "commit", NoOne) \in HandlerType
        /\ Handler("debit", "commit", NoOne).op = "debit"
    BY NewHandler DEF Operations, Steps
  <2>4. q \in HandlerType /\ q.op = "debit"
    BY <2>3 DEF HandlerType
  <2> QED
    BY <1>0, <2>1, <2>2, <2>4, SlotType DEF TypeOK
<1>3. ASSUME CommitDebit(r) PROVE TypeOK'
  <2>1. req[r].pay \in Nat
    BY <1>0 DEF HandlerTypes, HandlerType
  <2>0. /\ balance' = balance - req[r].pay
        /\ spent' = spent + req[r].pay
        /\ UNCHANGED <<reserved, deposited, lock, status, mode, startedAt, sessions>>
        /\ UNCHANGED <<held, releases, charges, charged, refunded, billed>>
    BY <1>3 DEF CommitDebit, rows, holds
  <2>3. balance' \in Int /\ spent' \in Nat
    BY <1>0, <2>0, <2>1 DEF ColumnTypes
  <2>2. ColumnTypes'
    BY <1>0, <2>0, <2>3 DEF ColumnTypes
  <2> QED
    BY <1>0, <1>3, <2>2, IdleSlot DEF CommitDebit, TypeOK
<1>4. ASSUME Abort(r) PROVE TypeOK'
  <2>1. ColumnTypes'
    BY <1>0, <1>4 DEF Abort, ColumnTypes, wallet, totals, rows, holds
  <2> QED
    BY <1>0, <1>4, <2>1, IdleSlot DEF Abort, TypeOK
<1> QED
  BY <1>1, <1>2, <1>3, <1>4 DEF WalletSteps

\* Every step keeps the types.
LEMMA NextType == TypeOK /\ [Next]_vars => TypeOK'
<1> SUFFICES ASSUME TypeOK, [Next]_vars PROVE TypeOK'
  OBVIOUS
<1>1. ASSUME NEW r \in Requests,
             OpenSteps(r) \/ ReleaseSteps(r) \/ WalletSteps(r) \/ Abort(r)
      PROVE  TypeOK'
  BY <1>1, OpenType, ReleaseType, WalletType
<1>2. CASE UNCHANGED vars
  BY <1>2 DEF vars, wallet, totals, rows, holds, TypeOK, ColumnTypes, HandlerTypes, OnConsultation
<1> QED
  BY <1>1, <1>2 DEF Next

\* Every reachable state is well typed; the reserved balance is never negative.
THEOREM TypeCorrect == Spec => []TypeOK
<1>1. Init => TypeOK
  BY InitType
<1>2. TypeOK /\ [Next]_vars => TypeOK'
  BY NextType
<1> QED
  BY <1>1, <1>2, PTL DEF Spec

-----------------------------------------------------------------------------
(* The inductive invariant.                                                *)

\* What another handler's step may do to the row a handler works on.
Keeps(s) ==
    LET d == req[s].c IN
    /\ req'[s] = req[s]
    /\ Settled(d) => Settled(d)'
    /\ startedAt[d] => startedAt'[d]
    /\ status[d] = "absent" <=> status'[d] = "absent"
    /\ lock[d] = s => lock'[d] = s
    /\ Settling(s) /\ WillMove(s) => charges'[d] = charges[d]

\* What holds of the other handlers stays.
LEMMA OthersKeep ==
    ASSUME NEW s \in Requests, HandlerInv(s), OnConsultation(s) => Keeps(s), req'[s] = req[s]
    PROVE  HandlerInv(s)'
<1>1. CASE ~OnConsultation(s)
  BY <1>1 DEF HandlerInv, OnConsultation, Releasing, Settling
<1>2. CASE OnConsultation(s)
  BY <1>2 DEF HandlerInv, Keeps, OnConsultation, Releasing, Settling, WillMove, PastClaim
<1> QED
  BY <1>1, <1>2

\* A handler that ends keeps the invariant.
LEMMA IdleInv ==
    ASSUME NEW r \in Requests, req'[r] = Idle
    PROVE  HandlerInv(r)'
  BY DEF HandlerInv, OnConsultation, Releasing, Settling, Idle, Handler

\* A step that leaves the rows, the holds and the locks alone keeps the
\* invariant when the handler that takes it knows what it should.
LEMMA QuietStep ==
    ASSUME IInv, TypeOK', NEW r \in Requests, NEW q,
           UNCHANGED <<status, startedAt, held, releases, charges, charged, lock>>,
           req' = [req EXCEPT ![r] = q],
           HandlerInv(r)',
           q.op = "create" =>
             \A s \in Requests : s # r /\ req[s].op = "create" => req[s].c # q.c
    PROVE  IInv'
<1>1. \A c \in Consultations : RowInv(c)'
  BY DEF IInv, RowInv, Settled
<1>2. ASSUME NEW s \in Requests PROVE HandlerInv(s)'
  <2>1. CASE s = r
    BY <2>1
  <2>2. CASE s # r
    <3>1. req'[s] = req[s]
      BY <2>2 DEF IInv, TypeOK, HandlerTypes
    <3>2. Keeps(s)
      BY <3>1 DEF Keeps, Settled
    <3> QED
      BY <3>1, <3>2, OthersKeep DEF IInv
  <2> QED
    BY <2>1, <2>2
<1>3. CreatorIsAlone'
  BY DEF IInv, CreatorIsAlone, TypeOK, HandlerTypes
<1> QED
  BY <1>1, <1>2, <1>3 DEF IInv

\* A step after which its handler is idle, and which touches one row.
LEMMA RowStep ==
    ASSUME IInv, TypeOK', NEW r \in Requests, NEW c \in Consultations, NEW q,
           req' = [req EXCEPT ![r] = q], q.op # "create",
           HandlerInv(r)',
           RowInv(c)',
           \A d \in Consultations \ {c} :
              /\ status'[d] = status[d]
              /\ startedAt'[d] = startedAt[d]
              /\ held'[d] = held[d]
              /\ releases'[d] = releases[d]
              /\ charges'[d] = charges[d]
              /\ charged'[d] = charged[d]
              /\ lock'[d] = lock[d],
           \A s \in Requests \ {r} : OnConsultation(s) /\ req[s].c = c => Keeps(s)
    PROVE  IInv'
<1>1. ASSUME NEW d \in Consultations PROVE RowInv(d)'
  <2>1. CASE d = c
    BY <2>1
  <2>2. CASE d # c
    BY <2>2 DEF IInv, RowInv, Settled
  <2> QED
    BY <2>1, <2>2
<1>2. ASSUME NEW s \in Requests PROVE HandlerInv(s)'
  <2>1. CASE s = r
    BY <2>1
  <2>2. CASE s # r
    <3>1. req'[s] = req[s]
      BY <2>2 DEF IInv, TypeOK, HandlerTypes
    <3>2. ASSUME OnConsultation(s) PROVE Keeps(s)
      <4>1. req[s].c \in Consultations
        BY <3>2 DEF IInv, TypeOK, HandlerTypes
      <4>2. CASE req[s].c = c
        BY <2>2, <3>2, <4>2
      <4>3. CASE req[s].c # c
        BY <3>1, <4>1, <4>3 DEF Keeps, Settled
      <4> QED
        BY <4>2, <4>3
    <3> QED
      BY <3>1, <3>2, OthersKeep DEF IInv
  <2> QED
    BY <2>1, <2>2
<1>3. CreatorIsAlone'
  BY DEF IInv, CreatorIsAlone, TypeOK, HandlerTypes
<1> QED
  BY <1>1, <1>2, <1>3 DEF IInv

\* Requests, answers and sessions keep the invariant.
LEMMA OpenInv ==
    ASSUME IInv, NEW r \in Requests, OpenSteps(r) PROVE IInv'
<1>0. /\ TypeOK
      /\ TypeOK'
      /\ req \in [Requests -> HandlerType]
      /\ HandlerInv(r)
      /\ OnConsultation(r) => req[r].c \in Consultations
  BY OpenType DEF IInv, TypeOK, HandlerTypes
<1>1. ASSUME NEW c \in Consultations, NEW m \in Modes, BeginCreate(r, c, m) PROVE IInv'
  <2>1. PICK free \in BOOLEAN :
          req' = [req EXCEPT ![r] =
              [Handler("create", "commit", c) EXCEPT
                 !.mode = m, !.bal = balance, !.res = reserved,
                 !.pay = IF free THEN 0 ELSE Hold[c]]]
    BY <1>1 DEF BeginCreate
  <2> DEFINE q == [Handler("create", "commit", c) EXCEPT
                 !.mode = m, !.bal = balance, !.res = reserved,
                 !.pay = IF free THEN 0 ELSE Hold[c]]
  <2>2. req'[r].op = "create" /\ req'[r].c = c /\ q.op = "create" /\ q.c = c
    BY <1>0, <2>1 DEF Handler
  <2>3. HandlerInv(r)'
    BY <1>1, <2>2 DEF HandlerInv, OnConsultation, Releasing, Settling, BeginCreate, rows
  <2>4. UNCHANGED <<status, startedAt, held, releases, charges, charged, lock>>
    BY <1>1 DEF BeginCreate, rows, holds
  <2>5. \A s \in Requests : req[s].op = "create" => req[s].c # q.c
    BY <1>1, <2>2 DEF BeginCreate
  <2> HIDE DEF q
  <2>6. req' = [req EXCEPT ![r] = q]
    BY <2>1 DEF q
  <2> QED
    BY <1>0, <2>3, <2>4, <2>5, <2>6, QuietStep
<1>2. ASSUME CommitCreate(r) PROVE IInv'
  <2> PICK c : c = req[r].c
    OBVIOUS
  <2>1. /\ req[r].op = "create"
        /\ req'[r] = Idle
        /\ req' = [req EXCEPT ![r] = Idle]
        /\ c \in Consultations
        /\ status[c] = "absent"
        /\ req[r].pay \in Nat
    BY <1>0, <1>2 DEF CommitCreate, At, OnConsultation, HandlerInv, HandlerType
  <2>2. HandlerInv(r)'
    BY <2>1, IdleInv
  <2>3. RowInv(c)'
    <3>1. /\ status'[c] = "requested"
          /\ held'[c] = req[r].pay
          /\ UNCHANGED <<startedAt, releases, charges, charged>>
      BY <1>0, <1>2, <2>1 DEF CommitCreate, TypeOK, ColumnTypes
    <3>2. RowInv(c)
      BY <2>1 DEF IInv
    <3> QED
      BY <2>1, <3>1, <3>2 DEF RowInv, Settled, LiveStatuses
  <2>4. \A d \in Consultations \ {c} :
            /\ status'[d] = status[d]
            /\ held'[d] = held[d]
    BY <1>0, <1>2, <2>1 DEF CommitCreate, TypeOK, ColumnTypes
  <2>5. UNCHANGED <<startedAt, releases, charges, charged, lock>>
    BY <1>2 DEF CommitCreate
  <2>6. ASSUME NEW s \in Requests \ {r}, OnConsultation(s), req[s].c = c PROVE FALSE
    <3>1. HandlerInv(s)
      BY DEF IInv
    <3>2. req[s].op = "create"
      BY <2>1, <2>6, <3>1 DEF HandlerInv
    <3> QED
      BY <2>1, <2>6, <3>2 DEF IInv, CreatorIsAlone
  <2>7. Idle.op # "create"
    BY IdleType
  <2> QED
    BY <1>0, <2>1, <2>2, <2>3, <2>4, <2>5, <2>6, <2>7, RowStep
<1>3. ASSUME NEW c \in Consultations, NEW m \in Modes, BeginAttach(r, c, m) PROVE IInv'
  <2> DEFINE q == [Handler("attach", "commit", c) EXCEPT !.mode = IF m = mode[c] THEN NoOne ELSE m]
  <2>1. /\ req' = [req EXCEPT ![r] = q]
        /\ q.op = "attach" /\ q.c = c
        /\ req'[r] = q
    BY <1>0, <1>3 DEF BeginAttach, Handler
  <2>2. HandlerInv(r)'
    BY <1>3, <2>1 DEF HandlerInv, OnConsultation, Releasing, Settling, BeginAttach, rows
  <2>3. UNCHANGED <<status, startedAt, held, releases, charges, charged, lock>>
    BY <1>3 DEF BeginAttach, rows, holds
  <2> HIDE DEF q
  <2> QED
    BY <1>0, <2>1, <2>2, <2>3, QuietStep
<1>4. ASSUME \/ CommitAttach(r)
             \/ StartUpdate(r)
             \/ StartSelect(r) /\ req' = [req EXCEPT ![r] = Idle]
      PROVE  IInv'
  <2>1. req' = [req EXCEPT ![r] = Idle] /\ req'[r] = Idle
    BY <1>0, <1>4 DEF CommitAttach, StartUpdate
  <2>2. UNCHANGED <<status, startedAt, held, releases, charges, charged, lock>>
    BY <1>4 DEF CommitAttach, StartUpdate, StartSelect, rows, holds
  <2> QED
    BY <1>0, <2>1, <2>2, IdleInv, IdleType, QuietStep
<1>5. ASSUME NEW c \in Consultations, Accept(r, c) PROVE IInv'
  <2>1. req' = [req EXCEPT ![r] = req[r]] /\ req'[r] = req[r] /\ req[r].op = "idle"
    BY <1>0, <1>5, IdleType DEF Accept
  <2>2. HandlerInv(r)'
    BY <2>1 DEF HandlerInv, OnConsultation, Releasing, Settling
  <2>3. /\ status'[c] = "accepted"
        /\ status[c] # "absent"
        /\ \A d \in Consultations \ {c} : status'[d] = status[d]
        /\ UNCHANGED <<startedAt, held, releases, charges, charged, lock, req>>
    BY <1>0, <1>5 DEF Accept, TypeOK, ColumnTypes, holds
  <2>4. RowInv(c)'
    BY <2>3 DEF IInv, RowInv, LiveStatuses
  <2>5. \A s \in Requests : OnConsultation(s) /\ req[s].c = c => Keeps(s)
    BY <2>3 DEF Keeps, Settled
  <2> QED
    BY <1>0, <2>1, <2>2, <2>3, <2>4, <2>5, RowStep
<1>6. ASSUME NEW c \in Consultations, StartClaim(r, c) PROVE IInv'
  <2> DEFINE q == Handler("start", "select", c)
  <2>1. /\ req' = [req EXCEPT ![r] = q]
        /\ req'[r] = q /\ q.op = "start" /\ q.c = c
    BY <1>0, <1>6 DEF StartClaim, Handler
  <2>2. /\ status'[c] = "active"
        /\ status[c] = "accepted"
        /\ startedAt'[c] = TRUE
        /\ \A d \in Consultations \ {c} :
              status'[d] = status[d] /\ startedAt'[d] = startedAt[d]
        /\ UNCHANGED <<held, releases, charges, charged, lock>>
    BY <1>0, <1>6 DEF StartClaim, TypeOK, ColumnTypes, holds
  <2>3. HandlerInv(r)'
    BY <2>1, <2>2 DEF HandlerInv, OnConsultation, Releasing, Settling
  <2>4. RowInv(c)'
    BY <2>2 DEF IInv, RowInv, LiveStatuses
  <2>5. ASSUME NEW s \in Requests \ {r}, OnConsultation(s), req[s].c = c PROVE Keeps(s)
    BY <1>0, <2>1, <2>2, <2>5 DEF Keeps, Settled
  <2> HIDE DEF q
  <2> QED
    BY <1>0, <2>1, <2>2, <2>3, <2>4, <2>5, RowStep
<1>7. ASSUME NEW i \in Pending(req[r].c), StartSelect(r),
             req' = [req EXCEPT ![r].at = "update", ![r].sid = i]
      PROVE  IInv'
  <2> DEFINE q == [req[r] EXCEPT !.at = "update", !.sid = i]
  <2>0. req[r] \in HandlerType /\ req[r].op = "start"
    BY <1>0, <1>7 DEF StartSelect, At
  <2>1. /\ req' = [req EXCEPT ![r] = q]
        /\ req'[r] = q /\ q.op = "start" /\ q.c = req[r].c
    BY <1>0, <1>7, <2>0 DEF HandlerType
  <2>2. UNCHANGED <<status, startedAt, held, releases, charges, charged, lock>>
    BY <1>7 DEF StartSelect, rows, holds
  <2>3. HandlerInv(r)'
    <3>1. req[r].op # "idle" /\ req[r].c \in Consultations /\ status[req[r].c] # "absent"
      BY <1>0, <2>0 DEF HandlerInv, OnConsultation
    <3> HIDE DEF q
    <3> QED
      BY <2>0, <2>1, <2>2, <3>1 DEF HandlerInv, OnConsultation, Releasing, Settling
  <2> HIDE DEF q
  <2> QED
    BY <1>0, <2>1, <2>2, <2>3, QuietStep
<1>8. ASSUME NEW c \in Consultations, BeginRequest(r, c) \/ BeginClose(r, c) PROVE IInv'
  <2>1. PICK op \in {"request", "close"} : req' = [req EXCEPT ![r] = Handler(op, "commit", c)]
    BY <1>8 DEF BeginRequest, BeginClose
  <2> DEFINE q == Handler(op, "commit", c)
  <2>2. req'[r] = q /\ q.op = op /\ q.c = c
    BY <1>0, <2>1 DEF Handler
  <2>3. UNCHANGED <<status, startedAt, held, releases, charges, charged, lock>>
    BY <1>8 DEF BeginRequest, BeginClose, rows, holds
  <2>4. Settled(c) /\ status[c] # "absent"
    BY <1>8 DEF BeginRequest, BeginClose, Reopenable, IInv, RowInv, LiveStatuses
  <2>5. HandlerInv(r)'
    BY <2>2, <2>3, <2>4 DEF HandlerInv, OnConsultation, Releasing, Settling, Settled
  <2> HIDE DEF q
  <2>6. req' = [req EXCEPT ![r] = q]
    BY <2>1 DEF q
  <2> QED
    BY <1>0, <2>2, <2>3, <2>5, <2>6, QuietStep
<1>9. ASSUME CommitRequest(r) \/ CommitClose(r) PROVE IInv'
  <2> PICK c : c = req[r].c
    OBVIOUS
  <2>1. /\ c \in Consultations
        /\ Settled(c)
        /\ status[c] # "absent"
        /\ req' = [req EXCEPT ![r] = Idle]
        /\ req'[r] = Idle
    BY <1>0, <1>9 DEF CommitRequest, CommitClose, At, HandlerInv, OnConsultation
  <2>2. /\ status'[c] \in {"reopened", "closed"}
        /\ \A d \in Consultations \ {c} : status'[d] = status[d]
        /\ UNCHANGED <<startedAt, held, releases, charges, charged, lock>>
    <3>1. status \in [Consultations -> Statuses]
      BY <1>0 DEF TypeOK, ColumnTypes
    <3>2. status' = [status EXCEPT ![c] = "reopened"] \/ status' = [status EXCEPT ![c] = "closed"]
      BY <1>9 DEF CommitRequest, CommitClose
    <3>3. UNCHANGED <<startedAt, held, releases, charges, charged, lock>>
      BY <1>9 DEF CommitRequest, CommitClose, holds
    <3> QED BY <2>1, <3>1, <3>2, <3>3
  <2>3. RowInv(c)'
    <3>1. RowInv(c)
      BY <2>1 DEF IInv
    <3> QED
      BY <2>1, <2>2, <3>1 DEF RowInv, Settled
  <2>4. ASSUME NEW s \in Requests \ {r}, OnConsultation(s), req[s].c = c PROVE Keeps(s)
    BY <1>0, <2>1, <2>2, <2>4 DEF Keeps, Settled
  <2> QED
    BY <1>0, <2>1, <2>2, <2>3, <2>4, IdleInv, IdleType, RowStep
<1>10. ASSUME StartSelect(r) PROVE IInv'
  BY <1>4, <1>7, <1>10 DEF StartSelect
<1> QED
  BY <1>1, <1>2, <1>3, <1>4, <1>5, <1>6, <1>8, <1>9, <1>10 DEF OpenSteps

\* A handler that takes or frees row locks, its own only, and writes nothing.
LEMMA LockStep ==
    ASSUME IInv, TypeOK', NEW r \in Requests, NEW q,
           UNCHANGED <<status, startedAt, held, releases, charges, charged>>,
           \A d \in Consultations, s \in Requests \ {r} : lock[d] = s => lock'[d] = s,
           req' = [req EXCEPT ![r] = q], q.op # "create",
           HandlerInv(r)'
    PROVE  IInv'
<1>1. \A c \in Consultations : RowInv(c)'
  BY DEF IInv, RowInv, Settled
<1>2. ASSUME NEW s \in Requests PROVE HandlerInv(s)'
  <2>1. CASE s = r
    BY <2>1
  <2>2. CASE s # r
    <3>1. req'[s] = req[s]
      BY <2>2 DEF IInv, TypeOK, HandlerTypes
    <3>2. ASSUME OnConsultation(s) PROVE Keeps(s)
      <4>1. req[s].c \in Consultations
        BY <3>2 DEF IInv, TypeOK, HandlerTypes
      <4> QED
        BY <2>2, <3>1, <4>1 DEF Keeps, Settled
    <3> QED
      BY <3>1, <3>2, OthersKeep DEF IInv
  <2> QED
    BY <2>1, <2>2
<1>3. CreatorIsAlone'
  BY DEF IInv, CreatorIsAlone, TypeOK, HandlerTypes
<1> QED
  BY <1>1, <1>2, <1>3 DEF IInv

\* Ends and cancellations keep the invariant.
LEMMA ReleaseInv ==
    ASSUME IInv, NEW r \in Requests, ReleaseSteps(r) PROVE IInv'
<1>0. /\ TypeOK
      /\ TypeOK'
      /\ req \in [Requests -> HandlerType]
      /\ req[r] \in HandlerType
      /\ HandlerInv(r)
      /\ OnConsultation(r) => req[r].c \in Consultations
  BY ReleaseType DEF IInv, TypeOK, HandlerTypes
<1>1. ASSUME NEW c \in Consultations, BeginEnd(r, c) PROVE IInv'
  <2>1. PICK amount \in Payables :
          req' = [req EXCEPT ![r] =
              [Handler("end", "claim", c) EXCEPT !.started = startedAt[c], !.pay = amount]]
    BY <1>1 DEF BeginEnd
  <2> DEFINE q == [Handler("end", "claim", c) EXCEPT !.started = startedAt[c], !.pay = amount]
  <2>2. /\ req'[r] = q
        /\ q.op = "end" /\ q.c = c /\ q.at = "claim" /\ q.started = startedAt[c]
        /\ ~q.done
    BY <1>0, <2>1 DEF Handler
  <2>3. UNCHANGED <<status, startedAt, held, releases, charges, charged, lock>>
    BY <1>1 DEF BeginEnd, rows, holds
  <2>4. HandlerInv(r)'
    BY <1>1, <2>2, <2>3
    DEF HandlerInv, OnConsultation, Releasing, Settling, WillMove, PastClaim, BeginEnd
  <2> HIDE DEF q
  <2>5. req' = [req EXCEPT ![r] = q]
    BY <2>1 DEF q
  <2> QED
    BY <1>0, <2>2, <2>3, <2>4, <2>5, QuietStep
<1>2. ASSUME NEW c \in Consultations, Withdraw(r, c) PROVE IInv'
  <2>1. PICK op \in {"cancel", "reject"} : req' = [req EXCEPT ![r] = Handler(op, "holdRows", c)]
    BY <1>2 DEF Withdraw
  <2> DEFINE q == Handler(op, "holdRows", c)
  <2>2. /\ req'[r] = q
        /\ q.op = op /\ q.c = c /\ q.at = "holdRows" /\ ~q.started /\ ~q.done
    BY <1>0, <2>1 DEF Handler
  <2>3. UNCHANGED <<status, startedAt, held, releases, charges, charged>>
    BY <1>2 DEF Withdraw, ClaimRow, holds
  <2>4. \A d \in Consultations, s \in Requests \ {r} : lock[d] = s => lock'[d] = s
    BY <1>0, <1>2, NoOneAssumption DEF Withdraw, ClaimRow, TypeOK, ColumnTypes
  <2>5. HandlerInv(r)'
    BY <1>2, <2>2, <2>3
    DEF HandlerInv, OnConsultation, Releasing, Settling, WillMove, PastClaim, Withdraw
  <2> HIDE DEF q
  <2>6. req' = [req EXCEPT ![r] = q]
    BY <2>1 DEF q
  <2> QED
    BY <1>0, <2>2, <2>3, <2>4, <2>5, <2>6, LockStep
<1>3. ASSUME NEW c \in Consultations, BeginDrop(r, c) PROVE IInv'
  <2> DEFINE q == [Handler("drop", "select", c) EXCEPT !.started = startedAt[c]]
  <2>1. /\ req' = [req EXCEPT ![r] = q]
        /\ req'[r] = q
        /\ q.op = "drop" /\ q.c = c /\ q.at = "select" /\ q.started = startedAt[c]
        /\ ~q.done
    BY <1>0, <1>3 DEF BeginDrop, Handler
  <2>2. UNCHANGED <<status, startedAt, held, releases, charges, charged, lock>>
    BY <1>3 DEF BeginDrop, rows, holds
  <2>3. HandlerInv(r)'
    BY <1>3, <2>1, <2>2
    DEF HandlerInv, OnConsultation, Releasing, Settling, BeginDrop, LiveStatuses
  <2> HIDE DEF q
  <2> QED
    BY <1>0, <2>1, <2>2, <2>3, QuietStep
<1>4. ASSUME ClaimEnd(r) PROVE IInv'
  <2> DEFINE q == [req[r] EXCEPT !.at = "holdRows"]
  <2>0. req[r].op = "end" /\ req[r].at = "claim" /\ req[r].c \in Consultations
    BY <1>0, <1>4 DEF ClaimEnd, At, OnConsultation
  <2>1. /\ req' = [req EXCEPT ![r] = q]
        /\ req'[r] = q
        /\ q.op = "end" /\ q.c = req[r].c /\ q.at = "holdRows" /\ q.started = req[r].started
        /\ q.done = req[r].done
    BY <1>0, <1>4, <2>0 DEF ClaimEnd, HandlerType
  <2>2. UNCHANGED <<status, startedAt, held, releases, charges, charged>>
    BY <1>4 DEF ClaimEnd, ClaimRow, holds
  <2>3. \A d \in Consultations, s \in Requests \ {r} : lock[d] = s => lock'[d] = s
    BY <1>0, <1>4, NoOneAssumption DEF ClaimEnd, ClaimRow, TypeOK, ColumnTypes
  <2>4. lock'[req[r].c] = r \/ status[req[r].c] \notin LiveStatuses
    BY <1>0, <1>4, <2>0 DEF ClaimEnd, ClaimRow, TypeOK, ColumnTypes
  <2>5. startedAt[req[r].c] /\ status[req[r].c] \notin LiveStatuses => Settled(req[r].c)
    BY <2>0 DEF IInv, RowInv
  <2>6. HandlerInv(r)'
    BY <1>0, <2>0, <2>1, <2>2, <2>4, <2>5
    DEF HandlerInv, OnConsultation, Releasing, Settling, WillMove, PastClaim, Settled
  <2> HIDE DEF q
  <2> QED
    BY <1>0, <2>1, <2>2, <2>3, <2>6, LockStep
<1>5. ASSUME DropSessions(r) PROVE IInv'
  <2>1. UNCHANGED <<status, startedAt, held, releases, charges, charged, lock>>
    BY <1>5 DEF DropSessions, holds
  <2>2. CASE req' = [req EXCEPT ![r] = Idle]
    BY <1>0, <2>1, <2>2, IdleInv, IdleType, QuietStep
  <2>3. ASSUME NEW i, req' = [req EXCEPT ![r].at = "claim", ![r].sid = i] PROVE IInv'
    <3> DEFINE q == [req[r] EXCEPT !.at = "claim", !.sid = i]
    <3>0. req[r].op = "drop" /\ req[r].at = "select" /\ req[r].c \in Consultations
      BY <1>0, <1>5 DEF DropSessions, At, OnConsultation
    <3>1. /\ req' = [req EXCEPT ![r] = q]
          /\ req'[r] = q
          /\ q.op = "drop" /\ q.c = req[r].c /\ q.at = "claim" /\ q.started = req[r].started
          /\ q.done = req[r].done
      BY <1>0, <2>3, <3>0 DEF HandlerType
    <3>2. HandlerInv(r)'
      BY <1>0, <2>1, <3>0, <3>1 DEF HandlerInv, OnConsultation, Releasing, Settling
    <3> HIDE DEF q
    <3> QED
      BY <1>0, <2>1, <3>1, <3>2, QuietStep
  <2> QED
    BY <1>5, <2>2, <2>3 DEF DropSessions
<1>6. ASSUME ClaimDrop(r) PROVE IInv'
  <2> DEFINE q == [req[r] EXCEPT !.at = "holdRows"]
  <2>0. req[r].op = "drop" /\ req[r].at = "claim" /\ req[r].c \in Consultations
    BY <1>0, <1>6 DEF ClaimDrop, At, OnConsultation
  <2>1. /\ req' = [req EXCEPT ![r] = q]
        /\ req'[r] = q
        /\ q.op = "drop" /\ q.c = req[r].c /\ q.at = "holdRows" /\ q.started = req[r].started
        /\ q.done = req[r].done
    BY <1>0, <1>6, <2>0 DEF ClaimDrop, HandlerType
  <2>2. UNCHANGED <<status, startedAt, held, releases, charges, charged>>
    BY <1>6 DEF ClaimDrop, ClaimRow, holds
  <2>3. \A d \in Consultations, s \in Requests \ {r} : lock[d] = s => lock'[d] = s
    BY <1>0, <1>6, <2>0, NoOneAssumption DEF ClaimDrop, ClaimRow, TypeOK, ColumnTypes
  <2>4. HandlerInv(r)'
    BY <1>0, <2>0, <2>1, <2>2
    DEF HandlerInv, OnConsultation, Releasing, Settling
  <2> HIDE DEF q
  <2> QED
    BY <1>0, <2>1, <2>2, <2>3, <2>4, LockStep
<1>7. ASSUME ReadHoldRows(r) PROVE IInv'
  <2>0. /\ Releasing(r) /\ req[r].at = "holdRows"
        /\ req[r].c \in Consultations
    BY <1>0, <1>7 DEF ReadHoldRows, Releasing, OnConsultation
  <2>1. UNCHANGED <<status, startedAt, held, releases, charges, charged, lock>>
    BY <1>7 DEF ReadHoldRows, rows, holds
  <2>2. CASE NothingToRelease(req[r].c)
    <3> DEFINE q == [req[r] EXCEPT !.at = "commit", !.done = TRUE]
    <3>1. /\ req' = [req EXCEPT ![r] = q]
          /\ req'[r] = q
          /\ q.op = req[r].op /\ q.c = req[r].c /\ q.at = "commit" /\ q.done
          /\ q.started = req[r].started
      BY <1>0, <1>7, <2>2 DEF ReadHoldRows, HandlerType
    <3>2. Settled(req[r].c)
      BY <2>2 DEF NothingToRelease, Settled
    <3>3. HandlerInv(r)'
      BY <1>0, <2>0, <2>1, <3>1, <3>2
      DEF HandlerInv, OnConsultation, Releasing, Settling, WillMove, PastClaim, Settled
    <3>4. q.op # "create"
      BY <2>0, <3>1 DEF Releasing
    <3> HIDE DEF q
    <3> QED
      BY <1>0, <2>1, <3>1, <3>3, <3>4, QuietStep
  <2>3. CASE ~NothingToRelease(req[r].c)
    <3> DEFINE q == [req[r] EXCEPT !.at = "wallet"]
    <3>1. /\ req' = [req EXCEPT ![r] = q]
          /\ req'[r] = q
          /\ q.op = req[r].op /\ q.c = req[r].c /\ q.at = "wallet"
          /\ q.started = req[r].started /\ q.done = req[r].done
      BY <1>0, <1>7, <2>3 DEF ReadHoldRows, HandlerType
    <3>2. ~Settled(req[r].c)
      BY <2>3 DEF NothingToRelease, Settled
    <3>3. charges[req[r].c] = 0
      <4>1. /\ charges[req[r].c] \in Nat
            /\ releases[req[r].c] \in Nat
            /\ RowInv(req[r].c)
        BY <1>0, <2>0 DEF IInv, TypeOK, ColumnTypes
      <4> QED
        BY <3>2, <4>1 DEF RowInv, Settled
    <3>4. Settling(r) => lock[req[r].c] = r
      BY <1>0, <2>0, <3>2 DEF HandlerInv, PastClaim
    <3>5. HandlerInv(r)'
      BY <1>0, <2>0, <2>1, <3>1, <3>2, <3>3, <3>4
      DEF HandlerInv, OnConsultation, Releasing, Settling, WillMove, PastClaim, Settled
    <3>6. q.op # "create"
      BY <2>0, <3>1 DEF Releasing
    <3> HIDE DEF q
    <3> QED
      BY <1>0, <2>1, <3>1, <3>5, <3>6, QuietStep
  <2> QED
    BY <2>2, <2>3
<1>8. ASSUME ReadWallet(r) PROVE IInv'
  <2> DEFINE q == [req[r] EXCEPT !.at = "commit", !.bal = balance, !.res = reserved]
  <2>0. /\ Releasing(r) /\ req[r].at = "wallet"
        /\ req[r].c \in Consultations
    BY <1>0, <1>8 DEF ReadWallet, Releasing, OnConsultation
  <2>1. UNCHANGED <<status, startedAt, held, releases, charges, charged, lock>>
    BY <1>8 DEF ReadWallet, rows, holds
  <2>2. /\ req' = [req EXCEPT ![r] = q]
        /\ req'[r] = q
        /\ q.op = req[r].op /\ q.c = req[r].c /\ q.at = "commit"
        /\ q.started = req[r].started /\ q.done = req[r].done
    BY <1>0, <1>8 DEF ReadWallet, HandlerType
  <2>3. ~req[r].done
    BY <1>0, <2>0 DEF HandlerInv
  <2>4. HandlerInv(r)'
    BY <1>0, <2>0, <2>1, <2>2, <2>3
    DEF HandlerInv, OnConsultation, Releasing, Settling, WillMove, PastClaim, Settled
  <2>5. q.op # "create"
    BY <2>0, <2>2 DEF Releasing
  <2> HIDE DEF q
  <2> QED
    BY <1>0, <2>1, <2>2, <2>4, <2>5, QuietStep
<1>9. ASSUME CommitRelease(r) PROVE IInv'
  <2> PICK c : c = req[r].c
    OBVIOUS
  <2>0. /\ Releasing(r) /\ req[r].at = "commit"
        /\ c \in Consultations
        /\ status[c] # "absent"
        /\ RowInv(c)
    BY <1>0, <1>9 DEF CommitRelease, Releasing, OnConsultation, HandlerInv, IInv
  <2>1. /\ req' = [req EXCEPT ![r] = Idle]
        /\ req'[r] = Idle
        /\ HandlerInv(r)'
    BY <1>0, <1>9, IdleInv DEF CommitRelease
  <2>2. /\ UNCHANGED <<startedAt, held>>
        /\ \/ /\ lock[c] = r
              /\ status' = [status EXCEPT ![c] = StatusWritten(r)]
              /\ lock' = [lock EXCEPT ![c] = NoOne]
           \/ /\ lock[c] # r
              /\ UNCHANGED <<status, lock>>
    BY <1>9 DEF CommitRelease
  <2>3. /\ held[c] \in Nat /\ releases[c] \in Nat
        /\ charges[c] \in Nat /\ charged[c] \in Nat
        /\ Deduction(r) \in Nat
        /\ Deduction(r) <= held[c]
    <3>1. /\ Deduction(r) \in Nat
          /\ Releaseable(r) \in Nat
          /\ Deduction(r) <= Releaseable(r)
          /\ Releaseable(r) <= held[c]
      BY <1>0, <2>0, AmountsType
    <3>2. /\ held[c] \in Nat /\ releases[c] \in Nat
          /\ charges[c] \in Nat /\ charged[c] \in Nat
      BY <1>0, <2>0 DEF TypeOK, ColumnTypes
    <3> QED
      BY <3>1, <3>2
  <2>4. \/ /\ req[r].done
           /\ UNCHANGED <<releases, charges, charged>>
        \/ /\ ~req[r].done
           /\ releases' = [releases EXCEPT ![c] = @ + 1]
           /\ charges' = IF Settling(r) THEN [charges EXCEPT ![c] = @ + 1] ELSE charges
           /\ charged' = [charged EXCEPT ![c] = @ + Deduction(r)]
    BY <1>9 DEF CommitRelease, MoveMoney
  <2>5. /\ \A d \in Consultations \ {c} :
              /\ releases'[d] = releases[d]
              /\ charges'[d] = charges[d]
              /\ charged'[d] = charged[d]
        /\ Settled(c)'
        /\ req[r].done => charges'[c] = charges[c] /\ charged'[c] = charged[c]
                          /\ releases'[c] = releases[c]
        /\ ~req[r].done /\ ~Settling(r) => charges'[c] = charges[c] /\ charged'[c] = charged[c]
                          /\ releases'[c] = releases[c] + 1
        /\ ~req[r].done /\ Settling(r) => charges'[c] = 1 /\ charged'[c] = Deduction(r)
                          /\ releases'[c] = releases[c] + 1
    <3>0. /\ releases \in [Consultations -> Nat]
          /\ charges \in [Consultations -> Nat]
          /\ charged \in [Consultations -> Nat]
      BY <1>0 DEF TypeOK, ColumnTypes
    <3>1. CASE req[r].done
      <4>1. Settled(c)
        BY <1>0, <2>0, <3>1 DEF HandlerInv
      <4> QED
        BY <2>2, <2>4, <3>1, <4>1 DEF Settled
    <3>2. CASE ~req[r].done /\ ~Settling(r)
      <4>1. Deduction(r) = 0
        BY <3>2 DEF Deduction
      <4> QED
        BY <2>0, <2>2, <2>3, <2>4, <3>0, <3>2, <4>1 DEF Settled
    <3>3. CASE ~req[r].done /\ Settling(r)
      <4>1. charges[c] = 0 /\ charged[c] = 0
        BY <1>0, <2>0, <3>3 DEF HandlerInv, WillMove, RowInv
      <4> QED
        BY <2>0, <2>2, <2>3, <2>4, <3>0, <3>3, <4>1 DEF Settled
    <3> QED
      BY <3>1, <3>2, <3>3
  <2>6. /\ status'[c] # "absent"
        /\ \A d \in Consultations \ {c} : status'[d] = status[d] /\ lock'[d] = lock[d]
        /\ \A s \in Requests \ {r} : lock[c] = s => lock'[c] = s
    <3>1. StatusWritten(r) # "absent"
      BY <2>0 DEF Releasing, StatusWritten
    <3> QED
      BY <1>0, <2>0, <2>2, <3>1 DEF TypeOK, ColumnTypes
  <2>7. RowInv(c)'
    BY <2>0, <2>2, <2>3, <2>5, <2>6 DEF RowInv, Settled
  <2>8. ASSUME NEW s \in Requests \ {r}, OnConsultation(s), req[s].c = c PROVE Keeps(s)
    <3>1. req'[s] = req[s]
      BY <1>0, <2>1, <2>8
    <3>2. Settling(s) /\ WillMove(s) => charges'[c] = charges[c]
      <4>1. ASSUME Settling(s), WillMove(s) PROVE ~(Settling(r) /\ ~req[r].done)
        <5>1. lock[c] = s
          BY <2>8, <4>1 DEF IInv, HandlerInv
        <5>2. Settling(r) /\ ~req[r].done => lock[c] = r
          BY <1>0, <2>0 DEF HandlerInv, WillMove
        <5> QED
          BY <2>8, <5>1, <5>2
      <4> QED
        BY <2>5, <4>1
    <3> QED
      BY <2>0, <2>2, <2>5, <2>6, <2>8, <3>1, <3>2 DEF Keeps
  <2>9. Idle.op # "create"
    BY IdleType
  <2>10. \A d \in Consultations \ {c} :
            /\ status'[d] = status[d] /\ startedAt'[d] = startedAt[d]
            /\ held'[d] = held[d] /\ releases'[d] = releases[d]
            /\ charges'[d] = charges[d] /\ charged'[d] = charged[d]
            /\ lock'[d] = lock[d]
    BY <2>2, <2>5, <2>6
  <2>11. \A s \in Requests \ {r} : OnConsultation(s) /\ req[s].c = c => Keeps(s)
    BY <2>8
  <2> QED
    BY <1>0, <2>0, <2>1, <2>7, <2>9, <2>10, <2>11, RowStep
<1> QED
  BY <1>1, <1>2, <1>3, <1>4, <1>5, <1>6, <1>7, <1>8, <1>9 DEF ReleaseSteps

\* Recharges and other debits keep the invariant.
LEMMA WalletInv ==
    ASSUME IInv, NEW r \in Requests, WalletSteps(r) \/ Abort(r) PROVE IInv'
<1>0. /\ TypeOK
      /\ TypeOK'
      /\ req \in [Requests -> HandlerType]
      /\ HandlerInv(r)
  BY WalletType DEF IInv, TypeOK, HandlerTypes
<1>1. ASSUME Recharge(r) PROVE IInv'
  <2>1. req' = [req EXCEPT ![r] = req[r]] /\ req'[r] = req[r] /\ req[r].op = "idle"
    BY <1>0, <1>1, IdleType DEF Recharge
  <2>2. HandlerInv(r)'
    BY <2>1 DEF HandlerInv, OnConsultation, Releasing, Settling
  <2>3. UNCHANGED <<status, startedAt, held, releases, charges, charged, lock>>
    BY <1>1 DEF Recharge, rows, holds
  <2> QED
    BY <1>0, <2>1, <2>2, <2>3, QuietStep
<1>2. ASSUME BeginDebit(r) PROVE IInv'
  <2>1. PICK amount \in Debits :
          req' = [req EXCEPT ![r] = [Handler("debit", "commit", NoOne) EXCEPT !.pay = amount]]
    BY <1>2 DEF BeginDebit
  <2> DEFINE q == [Handler("debit", "commit", NoOne) EXCEPT !.pay = amount]
  <2>2. req'[r] = q /\ q.op = "debit"
    BY <1>0, <2>1 DEF Handler
  <2>3. HandlerInv(r)'
    BY <2>2 DEF HandlerInv, OnConsultation, Releasing, Settling
  <2>4. UNCHANGED <<status, startedAt, held, releases, charges, charged, lock>>
    BY <1>2 DEF BeginDebit, rows, holds
  <2> HIDE DEF q
  <2>5. req' = [req EXCEPT ![r] = q]
    BY <2>1 DEF q
  <2> QED
    BY <1>0, <2>2, <2>3, <2>4, <2>5, QuietStep
<1>3. ASSUME CommitDebit(r) PROVE IInv'
  <2>1. req' = [req EXCEPT ![r] = Idle] /\ req'[r] = Idle
    BY <1>0, <1>3 DEF CommitDebit
  <2>2. UNCHANGED <<status, startedAt, held, releases, charges, charged, lock>>
    BY <1>3 DEF CommitDebit, rows, holds
  <2> QED
    BY <1>0, <2>1, <2>2, IdleInv, IdleType, QuietStep
<1>4. ASSUME Abort(r) PROVE IInv'
  <2>1. req' = [req EXCEPT ![r] = Idle] /\ req'[r] = Idle
    BY <1>0, <1>4 DEF Abort
  <2>2. UNCHANGED <<status, startedAt, held, releases, charges, charged>>
    BY <1>4 DEF Abort, rows, holds
  <2>3. \A d \in Consultations, s \in Requests \ {r} : lock[d] = s => lock'[d] = s
    BY <1>4 DEF Abort
  <2> QED
    BY <1>0, <2>1, <2>2, <2>3, IdleInv, IdleType, LockStep
<1> QED
  BY <1>1, <1>2, <1>3, <1>4 DEF WalletSteps

\* The invariant holds initially.
LEMMA InitInv == Init => IInv
<1> SUFFICES ASSUME Init PROVE IInv
  OBVIOUS
<1>1. TypeOK
  BY InitType
<1>2. ASSUME NEW c \in Consultations PROVE RowInv(c)
  BY DEF Init, RowInv, Settled, LiveStatuses
<1>3. ASSUME NEW r \in Requests PROVE HandlerInv(r)
  BY IdleType DEF Init, HandlerInv, OnConsultation, Releasing, Settling
<1>4. CreatorIsAlone
  BY IdleType DEF Init, CreatorIsAlone
<1> QED
  BY <1>1, <1>2, <1>3, <1>4 DEF IInv

\* The invariant is inductive.
LEMMA NextInv == IInv /\ [Next]_vars => IInv'
<1> SUFFICES ASSUME IInv, [Next]_vars PROVE IInv'
  OBVIOUS
<1>1. ASSUME NEW r \in Requests,
             OpenSteps(r) \/ ReleaseSteps(r) \/ WalletSteps(r) \/ Abort(r)
      PROVE  IInv'
  BY <1>1, OpenInv, ReleaseInv, WalletInv
<1>2. CASE UNCHANGED vars
  <2>1. UNCHANGED <<status, startedAt, held, releases, charges, charged, lock, req>>
    BY <1>2 DEF vars, rows, holds
  <2>2. TypeOK'
    BY <1>2, NextType DEF IInv
  <2>3. \A c \in Consultations : RowInv(c)'
    BY <2>1 DEF IInv, RowInv, Settled
  <2>4. \A r \in Requests : HandlerInv(r)'
    BY <2>1 DEF IInv, HandlerInv, OnConsultation, Releasing, Settling, WillMove, PastClaim, Settled
  <2>5. CreatorIsAlone'
    BY <2>1 DEF IInv, CreatorIsAlone
  <2> QED
    BY <2>2, <2>3, <2>4, <2>5 DEF IInv
<1> QED
  BY <1>1, <1>2 DEF Next

\* So it always holds.
THEOREM Invariance == Spec => []IInv
  BY InitInv, NextInv, PTL DEF Spec

\* However many handlers overlap, a consultation is charged at most once.
THEOREM ChargedOnce == Spec => []NoDoubleCharge
<1>1. IInv => NoDoubleCharge
  BY DEF IInv, RowInv, NoDoubleCharge
<1> QED
  BY <1>1, Invariance, PTL

\* What is charged for a consultation never exceeds what was held for it.
THEOREM ChargedWithinHold == Spec => []ChargeWithinHold
<1>1. IInv => ChargeWithinHold
  BY DEF IInv, RowInv, ChargeWithinHold
<1> QED
  BY <1>1, Invariance, PTL

\* A consultation that took a hold never shows as completed, reopened or
\* closed before the hold is released.
THEOREM CompletionSettles == Spec => []CompletedIsSettled
<1>1. IInv => CompletedIsSettled
  <2> SUFFICES ASSUME IInv, NEW c \in Consultations,
                      status[c] \in {"completed", "reopened", "closed"}, held[c] > 0
               PROVE  releases[c] > 0
    BY DEF CompletedIsSettled
  <2>1. RowInv(c) /\ held[c] \in Nat
    BY DEF IInv, TypeOK, ColumnTypes
  <2> QED
    BY <2>1 DEF RowInv, Settled, LiveStatuses
<1> QED
  BY <1>1, Invariance, PTL

-----------------------------------------------------------------------------
(* The bill, however many handlers overlap.                                *)

\* Only four statements write money.
LEMMA MoneyMovers ==
    ASSUME [Next]_vars
    PROVE  \/ UNCHANGED <<wallet, totals, holds>>
           \/ \E r \in Requests : \/ CommitCreate(r) \/ CommitRelease(r)
                                  \/ Recharge(r) \/ CommitDebit(r)
<1>1. ASSUME NEW r \in Requests, OpenSteps(r)
      PROVE  UNCHANGED <<wallet, totals, holds>> \/ CommitCreate(r)
  BY <1>1 DEF OpenSteps, BeginCreate, BeginAttach, CommitAttach, Accept, StartClaim,
              StartSelect, StartUpdate, BeginRequest, BeginClose, CommitRequest, CommitClose
<1>2. ASSUME NEW r \in Requests, ReleaseSteps(r)
      PROVE  UNCHANGED <<wallet, totals, holds>> \/ CommitRelease(r)
  BY <1>2 DEF ReleaseSteps, BeginEnd, Withdraw, BeginDrop, ClaimEnd, DropSessions,
              ClaimDrop, ReadHoldRows, ReadWallet
<1>3. ASSUME NEW r \in Requests, WalletSteps(r) \/ Abort(r)
      PROVE  UNCHANGED <<wallet, totals, holds>> \/ Recharge(r) \/ CommitDebit(r)
  BY <1>3 DEF WalletSteps, BeginDebit, Abort
<1>4. CASE UNCHANGED vars
  BY <1>4 DEF vars
<1> QED
  BY <1>1, <1>2, <1>3, <1>4 DEF Next

\* The billing row of a consultation never claims more than its settlements
\* debited, whichever end-consultation writes it last.
THEOREM BilledWithinCharge == Spec => []BillWithinCharge
<1>1. Init => BillWithinCharge
  BY DEF Init, BillWithinCharge
<1>2. ASSUME TypeOK, BillWithinCharge, [Next]_vars PROVE BillWithinCharge'
  <2>1. CASE UNCHANGED <<wallet, totals, holds>>
    BY <1>2, <2>1 DEF holds, BillWithinCharge
  <2>2. ASSUME NEW r \in Requests, CommitCreate(r) \/ Recharge(r) \/ CommitDebit(r)
        PROVE  BillWithinCharge'
    <3>1. UNCHANGED <<charged, billed>>
      BY <2>2 DEF CommitCreate, Recharge, CommitDebit, holds
    <3> QED
      BY <1>2, <3>1 DEF BillWithinCharge
  <2>3. ASSUME NEW r \in Requests, CommitRelease(r) PROVE BillWithinCharge'
    <3>1. req[r].c \in Consultations
      BY <1>2, <2>3 DEF CommitRelease, Releasing, OnConsultation, TypeOK, HandlerTypes
    <3>2. Deduction(r) \in Nat
      BY <1>2, <3>1, AmountsType
    <3>3. /\ charged \in [Consultations -> Nat]
          /\ billed \in [Consultations -> Nat]
      BY <1>2 DEF TypeOK, ColumnTypes
    <3>4. \/ req[r].done /\ charged' = charged
          \/ ~req[r].done /\ charged' = [charged EXCEPT ![req[r].c] = @ + Deduction(r)]
      BY <2>3 DEF CommitRelease, MoveMoney
    <3>5. \/ billed' = billed
          \/ billed' = [billed EXCEPT ![req[r].c] = IF req[r].done THEN 0 ELSE Deduction(r)]
      BY <2>3 DEF CommitRelease, WriteBill
    <3>6. ASSUME NEW d \in Consultations PROVE billed'[d] <= charged'[d]
      <4>1. charged[d] \in Nat /\ billed[d] \in Nat /\ billed[d] <= charged[d]
        BY <1>2, <3>3 DEF BillWithinCharge
      <4>2. charged'[d] = charged[d] \/ (~req[r].done /\ charged'[d] = charged[d] + Deduction(r))
        BY <3>3, <3>4
      <4>3. \/ billed'[d] = billed[d]
            \/ billed'[d] = 0
            \/ d = req[r].c /\ ~req[r].done /\ billed'[d] = Deduction(r)
        BY <3>3, <3>5
      <4>4. d = req[r].c /\ ~req[r].done => charged'[d] = charged[d] + Deduction(r)
        BY <3>3, <3>4
      <4> QED
        BY <3>2, <4>1, <4>2, <4>3, <4>4
    <3> QED
      BY <3>6 DEF BillWithinCharge
  <2> QED
    BY <1>2, <2>1, <2>2, <2>3, MoneyMovers
<1>3. TypeOK /\ BillWithinCharge /\ [Next]_vars => BillWithinCharge'
  BY <1>2
<1> QED
  BY <1>1, <1>3, TypeCorrect, PTL DEF Spec

-----------------------------------------------------------------------------
(* One handler at a time.  What a handler has read is then still true when *)
(* it writes, so the wallet adds up; with two at a time it does not: see   *)
(* NeverRefundTwice.                                                       *)

Serial == \A r, s \in Requests : r = s

\* What was read of the wallet is what it still says.
Fresh(r) == req[r].bal = balance /\ req[r].res = reserved

\* A consultation row under the serial workflows.
SerialRow(c) ==
    /\ held[c] \in {0, Hold[c]}
    /\ status[c] = "absent" => held[c] = 0
    /\ status[c] \in {"absent", "requested"} => ~startedAt[c]
    /\ status[c] = "completed" => "active" \notin Range(sessions[c])

\* What the only handler knows: nothing it has read is stale.
SerialHandler(r) ==
    /\ req[r].op = "create" =>
         /\ Fresh(r)
         /\ req[r].pay \in {0, Hold[req[r].c]}
         /\ req[r].pay > 0 => req[r].pay <= balance
    /\ req[r].op = "debit" => req[r].pay <= balance
    /\ req[r].op = "start" => status[req[r].c] = "active"
    /\ req[r].op \in {"cancel", "reject"} => status[req[r].c] = "requested"
    /\ req[r].op \in {"end", "drop"} => req[r].started = startedAt[req[r].c]
    /\ req[r].op = "drop" /\ req[r].at # "select" => ~req[r].started
    /\ Releasing(r) /\ WillMove(r) => held[req[r].c] > 0 /\ releases[req[r].c] = 0
    /\ Releasing(r) /\ WillMove(r) /\ req[r].at = "commit" => Fresh(r)

SerialRows     == \A c \in Consultations : SerialRow(c)
SerialHandlers == \A r \in Requests : SerialHandler(r)

\* The only handler decides.
LEMMA OnlyHandler ==
    ASSUME Serial, NEW r \in Requests, SerialHandler(r)'
    PROVE  SerialHandlers'
  BY DEF Serial, SerialHandlers

\* A handler that ends keeps the serial invariant.
LEMMA IdleSerial ==
    ASSUME Serial, NEW r \in Requests, req'[r] = Idle
    PROVE  SerialHandlers'
<1>1. SerialHandler(r)'
  BY DEF SerialHandler, Releasing, Idle, Handler
<1> QED
  BY <1>1, OnlyHandler

\* Whether one of the sessions is live.
LiveIn(ss) == "active" \in Range(ss)

\* Closing sessions, or writing another status over one, makes none live.
LEMMA ClosedLive ==
    ASSUME NEW ss \in Seq(SessionStatuses), NEW which
    PROVE  LiveIn(Closed(ss, which)) => LiveIn(ss) /\ "active" \notin which
  BY DEF LiveIn, Closed, Range

\* Sessions that are overwritten in place: which are live.
LEMMA OverwrittenLive ==
    ASSUME NEW ss \in Seq(SessionStatuses), NEW i
    PROVE  LiveIn([ss EXCEPT ![i] = "closed"]) => LiveIn(ss)
  BY DEF LiveIn, Range

\* A session that is appended: which are live.
LEMMA AppendedLive ==
    ASSUME NEW ss \in Seq(SessionStatuses)
    PROVE  LiveIn(Append(ss, "pending")) => LiveIn(ss)
<1>1. "pending" \in SessionStatuses
  BY DEF SessionStatuses
<1> DEFINE tt == Append(ss, "pending")
<1>2. /\ Len(ss) \in Nat
      /\ DOMAIN ss = 1 .. Len(ss)
      /\ Len(tt) = Len(ss) + 1
      /\ DOMAIN tt = 1 .. Len(tt)
      /\ \A i \in 1 .. Len(ss) : tt[i] = ss[i]
      /\ tt[Len(ss) + 1] = "pending"
  BY <1>1, AppendProperties
<1> HIDE DEF tt
<1> QED
  BY <1>2 DEF LiveIn, Range, tt

\* A step that leaves status, start and hold of the rows alone and makes no
\* session of a completed consultation live.
LEMMA RowsKept ==
    ASSUME SerialRows, UNCHANGED <<status, startedAt, held>>,
           \A c \in Consultations :
              status[c] = "completed" /\ LiveIn(sessions'[c]) => LiveIn(sessions[c])
    PROVE  SerialRows'
  BY DEF SerialRows, SerialRow, LiveIn

\* The serial invariant holds initially.
LEMMA InitSerial == Init => SerialRows /\ SerialHandlers
<1> SUFFICES ASSUME Init PROVE SerialRows /\ SerialHandlers
  OBVIOUS
<1>1. SerialRows
  BY DEF Init, SerialRows, SerialRow
<1>2. SerialHandlers
  BY DEF Init, SerialHandlers, SerialHandler, Releasing, Idle, Handler
<1> QED
  BY <1>1, <1>2

\* Requests, answers and sessions keep the serial invariant.
LEMMA OpenSerial ==
    ASSUME Serial, IInv, SerialRows, SerialHandlers, NEW r \in Requests, OpenSteps(r)
    PROVE  SerialRows' /\ SerialHandlers'
<1> USE HoldAssumption
<1>0. /\ ColumnTypes
      /\ req \in [Requests -> HandlerType]
      /\ req[r] \in HandlerType
      /\ HandlerInv(r)
      /\ SerialHandler(r)
      /\ OnConsultation(r) => req[r].c \in Consultations
  BY DEF IInv, TypeOK, HandlerTypes, SerialHandlers
<1>1. ASSUME NEW c \in Consultations, NEW m \in Modes, BeginCreate(r, c, m)
      PROVE  SerialRows' /\ SerialHandlers'
  <2>1. UNCHANGED <<wallet, rows, holds>>
    BY <1>1 DEF BeginCreate
  <2>2. SerialRows'
    BY <2>1, RowsKept DEF rows, holds
  <2>3. PICK free \in BOOLEAN :
          /\ Affordable(c, free)
          /\ req' = [req EXCEPT ![r] =
              [Handler("create", "commit", c) EXCEPT
                 !.mode = m, !.bal = balance, !.res = reserved,
                 !.pay = IF free THEN 0 ELSE Hold[c]]]
    BY <1>1 DEF BeginCreate
  <2>4. /\ req'[r].op = "create" /\ req'[r].c = c
        /\ req'[r].bal = balance /\ req'[r].res = reserved
        /\ req'[r].pay = IF free THEN 0 ELSE Hold[c]
    BY <1>0, <2>3 DEF Handler
  <2>5. SerialHandler(r)'
    <3>1. balance' = balance /\ reserved' = reserved
      BY <2>1 DEF wallet
    <3>2. req'[r].pay \in {0, Hold[c]} /\ (req'[r].pay > 0 => req'[r].pay <= balance)
      BY <1>0, <2>3, <2>4 DEF Affordable, ColumnTypes
    <3> QED
      BY <2>4, <3>1, <3>2 DEF SerialHandler, Fresh, Releasing
  <2> QED
    BY <2>2, <2>5, OnlyHandler
<1>2. ASSUME CommitCreate(r) PROVE SerialRows' /\ SerialHandlers'
  <2> PICK c : c = req[r].c
    OBVIOUS
  <2>1. c \in Consultations /\ status[c] = "absent" /\ req[r].op = "create"
    BY <1>0, <1>2 DEF CommitCreate, At, OnConsultation, HandlerInv
  <2>2. /\ status' = [status EXCEPT ![c] = "requested"]
        /\ sessions' = [sessions EXCEPT ![c] = <<"pending">>]
        /\ held' = [held EXCEPT ![c] = req[r].pay]
        /\ startedAt' = startedAt
        /\ req' = [req EXCEPT ![r] = Idle]
    BY <1>2 DEF CommitCreate
  <2>3. req[r].pay \in {0, Hold[c]}
    BY <1>0, <2>1 DEF SerialHandler
  <2>4. SerialRows'
    BY <1>0, <2>1, <2>2, <2>3 DEF SerialRows, SerialRow, ColumnTypes
  <2> QED
    BY <1>0, <2>2, <2>4, IdleSerial
<1>3. ASSUME NEW c \in Consultations, NEW m \in Modes, BeginAttach(r, c, m)
      PROVE  SerialRows' /\ SerialHandlers'
  <2>1. UNCHANGED <<rows, holds>> /\ req'[r].op = "attach"
    BY <1>0, <1>3 DEF BeginAttach, Handler
  <2>2. SerialRows'
    BY <2>1, RowsKept DEF rows, holds
  <2>3. SerialHandler(r)'
    BY <2>1 DEF SerialHandler, Releasing
  <2> QED
    BY <2>2, <2>3, OnlyHandler
<1>4. ASSUME CommitAttach(r) PROVE SerialRows' /\ SerialHandlers'
  <2>1. /\ UNCHANGED <<status, startedAt, held>>
        /\ sessions' = [sessions EXCEPT ![req[r].c] = Append(@, "pending")]
        /\ req' = [req EXCEPT ![r] = Idle]
    BY <1>4 DEF CommitAttach, holds
  <2>2. ASSUME NEW c \in Consultations, LiveIn(sessions'[c]) PROVE LiveIn(sessions[c])
    <3>1. sessions[c] \in Seq(SessionStatuses)
      BY <1>0 DEF ColumnTypes
    <3>2. sessions'[c] = sessions[c] \/ sessions'[c] = Append(sessions[c], "pending")
      BY <1>0, <2>1 DEF ColumnTypes
    <3> QED
      BY <2>2, <3>1, <3>2, AppendedLive
  <2>3. SerialRows'
    BY <2>1, <2>2, RowsKept
  <2> QED
    BY <1>0, <2>1, <2>3, IdleSerial
<1>5. ASSUME NEW c \in Consultations, Accept(r, c) PROVE SerialRows' /\ SerialHandlers'
  <2>1. /\ status' = [status EXCEPT ![c] = "accepted"]
        /\ UNCHANGED <<startedAt, sessions, held, req>>
        /\ req[r] = Idle
    BY <1>5 DEF Accept, holds
  <2>2. SerialRows'
    BY <1>0, <2>1 DEF SerialRows, SerialRow, ColumnTypes
  <2> QED
    BY <2>1, <2>2, IdleSerial
<1>6. ASSUME NEW c \in Consultations, StartClaim(r, c) PROVE SerialRows' /\ SerialHandlers'
  <2>1. /\ status' = [status EXCEPT ![c] = "active"]
        /\ startedAt' = [startedAt EXCEPT ![c] = TRUE]
        /\ UNCHANGED <<sessions, held>>
        /\ req'[r].op = "start" /\ req'[r].c = c
    BY <1>0, <1>6 DEF StartClaim, holds, Handler
  <2>2. SerialRows'
    BY <1>0, <2>1 DEF SerialRows, SerialRow, ColumnTypes
  <2>3. SerialHandler(r)'
    BY <1>0, <2>1 DEF SerialHandler, Releasing, ColumnTypes
  <2> QED
    BY <2>2, <2>3, OnlyHandler
<1>7. ASSUME StartSelect(r) PROVE SerialRows' /\ SerialHandlers'
  <2>1. UNCHANGED <<rows, holds>> /\ req[r].op = "start"
    BY <1>7 DEF StartSelect, At
  <2>2. SerialRows'
    BY <2>1, RowsKept DEF rows, holds
  <2>3. CASE req' = [req EXCEPT ![r] = Idle]
    BY <1>0, <2>2, <2>3, IdleSerial
  <2>4. ASSUME NEW i, req' = [req EXCEPT ![r].at = "update", ![r].sid = i] PROVE SerialHandlers'
    <3>1. req'[r].op = "start" /\ req'[r].c = req[r].c
      BY <1>0, <2>1, <2>4 DEF HandlerType
    <3>2. SerialHandler(r)'
      BY <1>0, <2>1, <3>1 DEF SerialHandler, Releasing, rows
    <3> QED
      BY <3>2, OnlyHandler
  <2> QED
    BY <1>7, <2>2, <2>3, <2>4 DEF StartSelect
<1>8. ASSUME StartUpdate(r) PROVE SerialRows' /\ SerialHandlers'
  <2>1. /\ UNCHANGED <<status, startedAt, held>>
        /\ \A c \in Consultations \ {req[r].c} : sessions'[c] = sessions[c]
        /\ req' = [req EXCEPT ![r] = Idle]
        /\ req[r].op = "start"
    BY <1>0, <1>8 DEF StartUpdate, At, holds, ColumnTypes
  <2>2. status[req[r].c] = "active"
    BY <1>0, <2>1 DEF SerialHandler
  <2>3. SerialRows'
    BY <2>1, <2>2, RowsKept
  <2> QED
    BY <1>0, <2>1, <2>3, IdleSerial
<1>9. ASSUME NEW c \in Consultations, BeginRequest(r, c) \/ BeginClose(r, c)
      PROVE  SerialRows' /\ SerialHandlers'
  <2>1. UNCHANGED <<rows, holds>> /\ req'[r].op \in {"request", "close"}
    BY <1>0, <1>9 DEF BeginRequest, BeginClose, Handler
  <2>2. SerialRows'
    BY <2>1, RowsKept DEF rows, holds
  <2>3. SerialHandler(r)'
    BY <2>1 DEF SerialHandler, Releasing
  <2> QED
    BY <2>2, <2>3, OnlyHandler
<1>10. ASSUME CommitRequest(r) \/ CommitClose(r) PROVE SerialRows' /\ SerialHandlers'
  <2>1. /\ \/ status' = [status EXCEPT ![req[r].c] = "reopened"]
           \/ status' = [status EXCEPT ![req[r].c] = "closed"]
        /\ \A c \in Consultations \ {req[r].c} : sessions'[c] = sessions[c]
        /\ UNCHANGED <<startedAt, held>>
        /\ req' = [req EXCEPT ![r] = Idle]
        /\ req[r].c \in Consultations
    BY <1>0, <1>10 DEF CommitRequest, CommitClose, At, holds, ColumnTypes, OnConsultation
  <2>2. SerialRows'
    BY <1>0, <2>1 DEF SerialRows, SerialRow, ColumnTypes
  <2> QED
    BY <1>0, <2>1, <2>2, IdleSerial
<1> QED
  BY <1>1, <1>2, <1>3, <1>4, <1>5, <1>6, <1>7, <1>8, <1>9, <1>10 DEF OpenSteps

\* Ends and cancellations keep it.
LEMMA ReleaseSerial ==
    ASSUME Serial, IInv, SerialRows, SerialHandlers, NEW r \in Requests, ReleaseSteps(r)
    PROVE  SerialRows' /\ SerialHandlers'
<1>0. /\ ColumnTypes
      /\ req \in [Requests -> HandlerType]
      /\ req[r] \in HandlerType
      /\ HandlerInv(r)
      /\ SerialHandler(r)
      /\ OnConsultation(r) => req[r].c \in Consultations
  BY DEF IInv, TypeOK, HandlerTypes, SerialHandlers
<1>1. ASSUME NEW c \in Consultations, BeginEnd(r, c) \/ BeginDrop(r, c)
      PROVE  SerialRows' /\ SerialHandlers'
  <2>1. /\ UNCHANGED <<wallet, rows, holds>>
        /\ req'[r].op \in {"end", "drop"} /\ req'[r].c = c
        /\ req'[r].at \in {"claim", "select"}
        /\ req'[r].op = "drop" => req'[r].at = "select"
        /\ req'[r].started = startedAt[c]
    BY <1>0, <1>1 DEF BeginEnd, BeginDrop, Handler
  <2>2. SerialRows'
    BY <2>1, RowsKept DEF rows, holds
  <2>3. SerialHandler(r)'
    BY <2>1 DEF SerialHandler, Releasing, WillMove, rows
  <2> QED
    BY <2>2, <2>3, OnlyHandler
<1>2. ASSUME NEW c \in Consultations, Withdraw(r, c) PROVE SerialRows' /\ SerialHandlers'
  <2>1. /\ UNCHANGED <<wallet, rows, holds>>
        /\ status[c] = "requested"
        /\ req'[r].op \in {"cancel", "reject"} /\ req'[r].c = c
        /\ req'[r].at = "holdRows"
    BY <1>0, <1>2 DEF Withdraw, ClaimRow, Handler, rows
  <2>2. SerialRows'
    BY <2>1, RowsKept DEF rows, holds
  <2>3. SerialHandler(r)'
    BY <2>1 DEF SerialHandler, Releasing, WillMove, rows
  <2> QED
    BY <2>2, <2>3, OnlyHandler
<1>3. ASSUME ClaimEnd(r) \/ ClaimDrop(r) PROVE SerialRows' /\ SerialHandlers'
  <2>1. /\ UNCHANGED <<wallet, rows, holds>>
        /\ req[r].op \in {"end", "drop"} /\ req[r].at = "claim"
        /\ req'[r].op = req[r].op /\ req'[r].c = req[r].c
        /\ req'[r].at = "holdRows" /\ req'[r].started = req[r].started
    BY <1>0, <1>3 DEF ClaimEnd, ClaimDrop, At, ClaimRow, HandlerType, rows
  <2>2. SerialRows'
    BY <2>1, RowsKept DEF rows, holds
  <2>3. SerialHandler(r)'
    BY <1>0, <2>1 DEF SerialHandler, Releasing, WillMove, rows
  <2> QED
    BY <2>2, <2>3, OnlyHandler
<1>4. ASSUME DropSessions(r) PROVE SerialRows' /\ SerialHandlers'
  <2>1. /\ UNCHANGED <<status, startedAt, held>>
        /\ \/ sessions' = sessions
           \/ sessions' = [sessions EXCEPT ![req[r].c] = Closed(@, {"active"})]
        /\ req[r].op = "drop"
    BY <1>4 DEF DropSessions, At, holds
  <2>2. ASSUME NEW c \in Consultations, LiveIn(sessions'[c]) PROVE LiveIn(sessions[c])
    <3>1. sessions[c] \in Seq(SessionStatuses)
      BY <1>0 DEF ColumnTypes
    <3>2. sessions'[c] = sessions[c] \/ sessions'[c] = Closed(sessions[c], {"active"})
      BY <1>0, <2>1 DEF ColumnTypes
    <3> QED
      BY <2>2, <3>1, <3>2, ClosedLive
  <2>3. SerialRows'
    BY <2>1, <2>2, RowsKept
  <2>4. CASE req' = [req EXCEPT ![r] = Idle]
    BY <1>0, <2>3, <2>4, IdleSerial
  <2>5. ASSUME NEW i, Cancellable(r), req' = [req EXCEPT ![r].at = "claim", ![r].sid = i]
        PROVE  SerialHandlers'
    <3>1. /\ req'[r].op = "drop" /\ req'[r].c = req[r].c
          /\ req'[r].at = "claim" /\ req'[r].started = req[r].started
          /\ ~req[r].started
      BY <1>0, <2>1, <2>5 DEF HandlerType, Cancellable
    <3>2. SerialHandler(r)'
      BY <1>0, <2>1, <3>1 DEF SerialHandler, Releasing, WillMove
    <3> QED
      BY <3>2, OnlyHandler
  <2> QED
    BY <1>4, <2>3, <2>4, <2>5 DEF DropSessions
<1>5. ASSUME ReadHoldRows(r) PROVE SerialRows' /\ SerialHandlers'
  <2>1. /\ UNCHANGED <<wallet, rows, holds>>
        /\ Releasing(r) /\ req[r].at = "holdRows"
        /\ req[r].c \in Consultations
        /\ req'[r].op = req[r].op /\ req'[r].c = req[r].c
        /\ req'[r].started = req[r].started
        /\ \/ req'[r].at = "commit" /\ req'[r].done
           \/ req'[r].at = "wallet" /\ ~NothingToRelease(req[r].c)
    BY <1>0, <1>5 DEF ReadHoldRows, HandlerType, Releasing, OnConsultation
  <2>2. SerialRows'
    BY <2>1, RowsKept DEF rows, holds
  <2>3. ~NothingToRelease(req[r].c) => held[req[r].c] > 0 /\ releases[req[r].c] = 0
    <3>1. held[req[r].c] \in Nat /\ releases[req[r].c] \in Nat
      BY <1>0, <2>1 DEF ColumnTypes
    <3> QED
      BY <3>1 DEF NothingToRelease
  <2>4. SerialHandler(r)'
    BY <1>0, <2>1, <2>3 DEF SerialHandler, Releasing, WillMove, rows, holds
  <2> QED
    BY <2>2, <2>4, OnlyHandler
<1>6. ASSUME ReadWallet(r) PROVE SerialRows' /\ SerialHandlers'
  <2>1. /\ UNCHANGED <<wallet, rows, holds>>
        /\ Releasing(r) /\ req[r].at = "wallet"
        /\ req'[r].op = req[r].op /\ req'[r].c = req[r].c
        /\ req'[r].started = req[r].started
        /\ req'[r].at = "commit"
        /\ req'[r].bal = balance /\ req'[r].res = reserved
    BY <1>0, <1>6 DEF ReadWallet, HandlerType
  <2>2. SerialRows'
    BY <2>1, RowsKept DEF rows, holds
  <2>3. SerialHandler(r)'
    BY <1>0, <2>1 DEF SerialHandler, Releasing, WillMove, Fresh, rows, holds, wallet
  <2> QED
    BY <2>2, <2>3, OnlyHandler
<1>7. ASSUME CommitRelease(r) PROVE SerialRows' /\ SerialHandlers'
  <2>1. /\ Releasing(r)
        /\ req[r].c \in Consultations
        /\ UNCHANGED <<startedAt, held>>
        /\ req' = [req EXCEPT ![r] = Idle]
        /\ \/ status' = [status EXCEPT ![req[r].c] = StatusWritten(r)]
           \/ status' = status
        /\ sessions' =
             CASE req[r].op = "end" -> [sessions EXCEPT ![req[r].c] = Closed(@, EndedSessions)]
               [] req[r].op = "drop" -> [sessions EXCEPT ![req[r].c][req[r].sid] = "closed"]
               [] OTHER -> sessions
    BY <1>0, <1>7 DEF CommitRelease, Releasing, OnConsultation
  <2>2. StatusWritten(r) \in {"completed", "cancelled", "rejected"}
    BY <2>1 DEF StatusWritten, Releasing
  <2>3. StatusWritten(r) = "completed" => req[r].op = "end"
    BY <2>1 DEF StatusWritten, Releasing
  <2>4. ASSUME NEW c \in Consultations
        PROVE  /\ LiveIn(sessions'[c]) => LiveIn(sessions[c])
               /\ req[r].op = "end" => ~LiveIn(sessions'[req[r].c])
    <3>1. /\ sessions[c] \in Seq(SessionStatuses)
          /\ sessions[req[r].c] \in Seq(SessionStatuses)
      BY <1>0, <2>1 DEF ColumnTypes
    <3>2. \/ sessions'[c] = sessions[c]
          \/ sessions'[c] = Closed(sessions[c], EndedSessions)
          \/ sessions'[c] = [sessions[c] EXCEPT ![req[r].sid] = "closed"]
      BY <1>0, <2>1 DEF ColumnTypes
    <3>3. req[r].op = "end" =>
            sessions'[req[r].c] = Closed(sessions[req[r].c], EndedSessions)
      BY <1>0, <2>1 DEF ColumnTypes
    <3>4. "active" \in EndedSessions
      BY DEF EndedSessions
    <3> QED
      BY <3>1, <3>2, <3>3, <3>4, ClosedLive, OverwrittenLive
  <2>5. ASSUME NEW c \in Consultations PROVE SerialRow(c)'
    <3>1. SerialRow(c)
      BY DEF SerialRows
    <3>2. status'[c] = status[c] \/ (c = req[r].c /\ status'[c] = StatusWritten(r))
      BY <1>0, <2>1 DEF ColumnTypes
    <3> QED
      BY <2>1, <2>2, <2>3, <2>4, <3>1, <3>2 DEF SerialRow, LiveIn
  <2> QED
    BY <1>0, <2>1, <2>5, IdleSerial DEF SerialRows
<1> QED
  BY <1>1, <1>2, <1>3, <1>4, <1>5, <1>6, <1>7 DEF ReleaseSteps

\* Recharges and other debits keep it.
LEMMA WalletSerial ==
    ASSUME Serial, IInv, SerialRows, SerialHandlers, NEW r \in Requests,
           WalletSteps(r) \/ Abort(r)
    PROVE  SerialRows' /\ SerialHandlers'
<1>0. req \in [Requests -> HandlerType]
  BY DEF IInv, TypeOK, HandlerTypes
<1>1. SerialRows'
  <2>1. UNCHANGED <<rows, held>>
    BY DEF WalletSteps, Recharge, BeginDebit, CommitDebit, Abort, holds
  <2> QED
    BY <2>1, RowsKept DEF rows
<1>2. CASE BeginDebit(r)
  <2>1. /\ UNCHANGED wallet
        /\ req'[r].op = "debit" /\ req'[r].pay <= balance
    <3>1. PICK amount \in Debits :
            /\ balance >= amount
            /\ req' = [req EXCEPT ![r] = [Handler("debit", "commit", NoOne) EXCEPT !.pay = amount]]
      BY <1>2 DEF BeginDebit
    <3>2. req'[r].op = "debit" /\ req'[r].pay = amount
      BY <1>0, <3>1 DEF Handler
    <3>3. amount \in Int /\ balance \in Int
      BY AmountAssumption DEF IInv, TypeOK, ColumnTypes
    <3> QED
      BY <1>2, <3>1, <3>2, <3>3 DEF BeginDebit
  <2>2. SerialHandler(r)'
    BY <2>1 DEF SerialHandler, Releasing, wallet
  <2> QED
    BY <1>1, <2>2, OnlyHandler
<1>3. CASE Recharge(r) \/ CommitDebit(r) \/ Abort(r)
  <2>1. req'[r] = Idle
    BY <1>0, <1>3 DEF Recharge, CommitDebit, Abort
  <2> QED
    BY <1>1, <2>1, IdleSerial
<1> QED
  BY <1>2, <1>3 DEF WalletSteps

\* The serial invariant is inductive.
LEMMA NextSerial ==
    ASSUME Serial, IInv, SerialRows, SerialHandlers, [Next]_vars
    PROVE  SerialRows' /\ SerialHandlers'
<1>1. ASSUME NEW r \in Requests,
             OpenSteps(r) \/ ReleaseSteps(r) \/ WalletSteps(r) \/ Abort(r)
      PROVE  SerialRows' /\ SerialHandlers'
  BY <1>1, OpenSerial, ReleaseSerial, WalletSerial
<1>2. CASE UNCHANGED vars
  BY <1>2 DEF vars, wallet, rows, holds, SerialRows, SerialRow, SerialHandlers, SerialHandler,
              Fresh, Releasing, WillMove
<1> QED
  BY <1>1, <1>2 DEF Next

-----------------------------------------------------------------------------
(* The money, one handler at a time.                                       *)

money == <<balance, reserved, deposited, spent, held, releases, charged>>

\* The four things that happen to it.
TakesHold(c) ==
    /\ held[c] = 0 /\ releases[c] = 0 /\ charged[c] = 0
    /\ balance >= Hold[c]
    /\ balance' = balance - Hold[c]
    /\ reserved' = reserved + Hold[c]
    /\ held' = [held EXCEPT ![c] = Hold[c]]
    /\ UNCHANGED <<deposited, spent, releases, charged>>

GivesBack(c, cost) ==
    /\ held[c] = Hold[c] /\ releases[c] = 0 /\ charged[c] = 0
    /\ balance' = balance + Hold[c] - cost
    /\ reserved' = reserved - Hold[c]
    /\ releases' = [releases EXCEPT ![c] = 1]
    /\ charged' = [charged EXCEPT ![c] = cost]
    /\ UNCHANGED <<deposited, spent, held>>

PaysIn(n) ==
    /\ balance' = balance + n
    /\ deposited' = deposited + n
    /\ UNCHANGED <<reserved, spent, held, releases, charged>>

PaysOut(n) ==
    /\ balance >= n
    /\ balance' = balance - n
    /\ spent' = spent + n
    /\ UNCHANGED <<reserved, deposited, held, releases, charged>>

SerialInv ==
    /\ IInv
    /\ SerialRows
    /\ SerialHandlers
    /\ MoneyConserved
    /\ ReservedIsOpenHolds

\* What is reserved covers every hold that is open.
LEMMA OpenHoldIsReserved ==
    ASSUME TypeOK, ReservedIsOpenHolds, NEW c \in OpenHolds
    PROVE  held[c] <= reserved
<1>1. IsFiniteSet(OpenHolds)
  BY FiniteAssumption, FS_Subset DEF OpenHolds
<1>2. \A d \in OpenHolds : held[d] \in Nat /\ held[d] \in Int
  BY DEF OpenHolds, TypeOK, ColumnTypes
<1>3. SumFunctionOnSet(held, OpenHolds) = held[c] + SumFunctionOnSet(held, OpenHolds \ {c})
  BY <1>1, <1>2, SumTakeOut
<1>4. SumFunctionOnSet(held, OpenHolds \ {c}) \in Nat
  <2>1. IsFiniteSet(OpenHolds \ {c}) /\ \A d \in OpenHolds \ {c} : held[d] \in Nat
    BY <1>1, <1>2, FS_RemoveElement
  <2> QED
    BY <2>1, SumNat
<1> QED
  BY <1>2, <1>3, <1>4 DEF ReservedIsOpenHolds

\* Every step is one of the four, or leaves the money alone.
LEMMA MoneyStep ==
    ASSUME SerialInv, [Next]_vars
    PROVE  \/ UNCHANGED money
           \/ \E c \in Consultations : TakesHold(c)
           \/ \E c \in Consultations : \E cost \in 0 .. Hold[c] : GivesBack(c, cost)
           \/ \E n \in Nat : PaysIn(n)
           \/ \E n \in Nat : PaysOut(n)
<1> USE HoldAssumption, AmountAssumption
<1>0. /\ TypeOK
      /\ ColumnTypes
      /\ \A r \in Requests : /\ req[r] \in HandlerType
                             /\ HandlerInv(r)
                             /\ SerialHandler(r)
                             /\ OnConsultation(r) => req[r].c \in Consultations
      /\ \A c \in Consultations : RowInv(c) /\ SerialRow(c)
  BY DEF SerialInv, IInv, TypeOK, HandlerTypes, SerialHandlers, SerialRows
<1>1. CASE UNCHANGED <<wallet, totals, holds>>
  BY <1>1 DEF wallet, totals, holds, money
<1>2. ASSUME NEW r \in Requests, CommitCreate(r)
      PROVE  UNCHANGED money \/ \E c \in Consultations : TakesHold(c)
  <2> PICK c : c = req[r].c
    OBVIOUS
  <2>1. /\ c \in Consultations
        /\ status[c] = "absent"
        /\ Fresh(r)
        /\ req[r].pay \in {0, Hold[c]}
        /\ req[r].pay > 0 => req[r].pay <= balance
    BY <1>0, <1>2 DEF CommitCreate, At, OnConsultation, HandlerInv, SerialHandler
  <2>2. held[c] = 0 /\ releases[c] = 0 /\ charged[c] = 0
    BY <1>0, <2>1 DEF RowInv, SerialRow
  <2>3. CASE req[r].pay = 0
    <3>1. held' = [held EXCEPT ![c] = 0] /\ UNCHANGED <<wallet, totals, releases, charged>>
      BY <1>2, <2>3 DEF CommitCreate
    <3>2. held' = held
      BY <1>0, <2>1, <2>2, <3>1 DEF ColumnTypes
    <3> QED
      BY <3>1, <3>2 DEF money, wallet, totals
  <2>4. CASE req[r].pay = Hold[c] /\ Hold[c] > 0
    <3>1. /\ held' = [held EXCEPT ![c] = Hold[c]]
          /\ balance' = balance - Hold[c]
          /\ reserved' = reserved + Hold[c]
          /\ UNCHANGED <<totals, releases, charged>>
      BY <1>2, <2>1, <2>4 DEF CommitCreate, Fresh
    <3>2. balance >= Hold[c]
      BY <1>0, <2>1, <2>4 DEF ColumnTypes
    <3> QED
      BY <2>1, <2>2, <3>1, <3>2 DEF TakesHold, totals
  <2> QED
    BY <2>1, <2>3, <2>4
<1>3. ASSUME NEW r \in Requests, CommitRelease(r)
      PROVE  \/ UNCHANGED money
             \/ \E c \in Consultations : \E cost \in 0 .. Hold[c] : GivesBack(c, cost)
  <2> PICK c : c = req[r].c
    OBVIOUS
  <2>1. c \in Consultations /\ Releasing(r) /\ req[r].at = "commit" /\ req[r] \in HandlerType
    BY <1>0, <1>3 DEF CommitRelease, Releasing, OnConsultation
  <2>2. CASE req[r].done
    BY <1>3, <2>2 DEF CommitRelease, MoveMoney, wallet, totals, money
  <2>3. CASE ~req[r].done
    <3>1. Fresh(r) /\ held[c] > 0 /\ releases[c] = 0
      BY <1>0, <2>1, <2>3 DEF SerialHandler, WillMove
    <3>2. /\ held[c] = Hold[c] /\ Hold[c] \in Nat
          /\ charged[c] = 0
          /\ charged \in [Consultations -> Nat] /\ releases \in [Consultations -> Nat]
          /\ balance \in Int /\ reserved \in Nat
      BY <1>0, <2>1, <3>1 DEF SerialRow, RowInv, ColumnTypes
    <3>3. held[c] <= reserved
      BY <1>0, <2>1, <3>1, OpenHoldIsReserved DEF SerialInv, OpenHolds
    <3>4. Releaseable(r) = Hold[c]
      BY <3>1, <3>2, <3>3 DEF Releaseable, Min2, Fresh
    <3>5. Deduction(r) \in Nat /\ Deduction(r) <= Hold[c] /\ Refund(r) = Hold[c] - Deduction(r)
      BY <1>0, <2>1, <3>4, AmountsType DEF Refund
    <3>6. /\ balance' = balance + Refund(r)
          /\ reserved' = reserved - Hold[c]
          /\ releases' = [releases EXCEPT ![c] = @ + 1]
          /\ charged' = [charged EXCEPT ![c] = @ + Deduction(r)]
          /\ UNCHANGED <<deposited, spent, held>>
      BY <1>3, <2>3, <3>1, <3>4 DEF CommitRelease, MoveMoney, Fresh, totals
    <3>7. /\ releases' = [releases EXCEPT ![c] = 1]
          /\ charged' = [charged EXCEPT ![c] = Deduction(r)]
          /\ balance' = balance + Hold[c] - Deduction(r)
      <4>1. releases[c] + 1 = 1 /\ charged[c] + Deduction(r) = Deduction(r)
        BY <3>1, <3>2, <3>5
      <4>2. balance + Refund(r) = balance + Hold[c] - Deduction(r)
        BY <3>2, <3>5
      <4> QED
        BY <3>6, <4>1, <4>2
    <3>8. GivesBack(c, Deduction(r))
      BY <3>1, <3>2, <3>6, <3>7 DEF GivesBack
    <3> QED
      BY <2>1, <3>2, <3>5, <3>8
  <2> QED
    BY <2>2, <2>3
<1>4. ASSUME NEW r \in Requests, Recharge(r) PROVE \E n \in Nat : PaysIn(n)
  <2>1. PICK n \in Credits : balance' = balance + n /\ deposited' = deposited + n
    BY <1>4 DEF Recharge
  <2> QED
    BY <1>4, <2>1 DEF Recharge, PaysIn, holds
<1>5. ASSUME NEW r \in Requests, CommitDebit(r) PROVE \E n \in Nat : PaysOut(n)
  <2>1. req[r].pay \in Nat /\ req[r].pay <= balance /\ balance \in Int
    BY <1>0, <1>5 DEF CommitDebit, At, SerialHandler, HandlerType, ColumnTypes
  <2>2. PaysOut(req[r].pay)
    BY <1>5, <2>1 DEF CommitDebit, PaysOut, holds
  <2> QED
    BY <2>1, <2>2
<1> QED
  BY <1>1, <1>2, <1>3, <1>4, <1>5, MoneyMovers

\* The sum of the open holds follows the reserved balance.
LEMMA ReservedStep ==
    ASSUME SerialInv, [Next]_vars
    PROVE  ReservedIsOpenHolds'
<1> USE HoldAssumption
<1>0. /\ held \in [Consultations -> Nat]
      /\ releases \in [Consultations -> Nat]
      /\ reserved \in Nat
      /\ reserved = SumFunctionOnSet(held, OpenHolds)
      /\ IsFiniteSet(OpenHolds)
      /\ \A d \in OpenHolds : held[d] \in Int
      /\ OpenHolds \subseteq Consultations
  BY FiniteAssumption, FS_Subset
  DEF SerialInv, IInv, TypeOK, ColumnTypes, ReservedIsOpenHolds, OpenHolds
<1>1. CASE UNCHANGED <<held, releases, reserved>>
  BY <1>0, <1>1 DEF ReservedIsOpenHolds, OpenHolds
<1>2. ASSUME NEW c \in Consultations, TakesHold(c) PROVE ReservedIsOpenHolds'
  <2>1. /\ c \notin OpenHolds
        /\ held' = [held EXCEPT ![c] = Hold[c]]
        /\ releases' = releases
        /\ releases[c] = 0
        /\ reserved' = reserved + Hold[c]
        /\ Hold[c] \in Nat /\ Hold[c] > 0
    BY <1>2 DEF TakesHold, OpenHolds
  <2>2. OpenHolds' = OpenHolds \cup {c}
    BY <1>0, <2>1 DEF OpenHolds
  <2>3. \A d \in OpenHolds \cup {c} : held'[d] \in Int
    BY <1>0, <2>1
  <2>4. SumFunctionOnSet(held', OpenHolds \cup {c}) = SumFunctionOnSet(held', OpenHolds) + held'[c]
    BY <1>0, <2>1, <2>3, SumJoin
  <2>5. SumFunctionOnSet(held, OpenHolds) = SumFunctionOnSet(held', OpenHolds)
    <3>1. \A d \in OpenHolds : held[d] = held'[d]
      BY <1>0, <2>1
    <3> QED
      BY <1>0, <3>1, SumSame
  <2>6. held'[c] = Hold[c]
    BY <1>0, <2>1
  <2> QED
    BY <1>0, <2>1, <2>2, <2>4, <2>5, <2>6 DEF ReservedIsOpenHolds
<1>3. ASSUME NEW c \in Consultations, NEW cost, GivesBack(c, cost) PROVE ReservedIsOpenHolds'
  <2>1. /\ held[c] = Hold[c] /\ Hold[c] > 0 /\ releases[c] = 0
        /\ held' = held
        /\ releases' = [releases EXCEPT ![c] = 1]
        /\ reserved' = reserved - Hold[c]
        /\ Hold[c] \in Nat
    BY <1>3 DEF GivesBack
  <2>2. c \in OpenHolds /\ OpenHolds' = OpenHolds \ {c}
    BY <1>0, <2>1 DEF OpenHolds
  <2>3. SumFunctionOnSet(held, OpenHolds) = held[c] + SumFunctionOnSet(held, OpenHolds \ {c})
    BY <1>0, <2>2, SumTakeOut
  <2>4. SumFunctionOnSet(held, OpenHolds \ {c}) \in Int
    <3>1. IsFiniteSet(OpenHolds \ {c}) /\ \A d \in OpenHolds \ {c} : held[d] \in Int
      BY <1>0, FS_RemoveElement
    <3> QED
      BY <3>1, SumType
  <2> QED
    BY <1>0, <2>1, <2>2, <2>3, <2>4 DEF ReservedIsOpenHolds
<1>4. ASSUME NEW n, PaysIn(n) \/ PaysOut(n) PROVE ReservedIsOpenHolds'
  BY <1>1, <1>4 DEF PaysIn, PaysOut
<1> QED
  BY <1>1, <1>2, <1>3, <1>4, MoneyStep DEF money

\* Every step of the serial system conserves the money.
LEMMA ConservedStep ==
    ASSUME SerialInv, [Next]_vars
    PROVE  MoneyConserved'
<1> USE HoldAssumption, FiniteAssumption
<1>0. /\ charged \in [Consultations -> Nat]
      /\ balance \in Int /\ reserved \in Nat /\ deposited \in Nat /\ spent \in Nat
      /\ InitialBalance \in Nat
      /\ MoneyConserved
      /\ \A d \in Consultations : charged[d] \in Int
  BY AmountAssumption DEF SerialInv, IInv, TypeOK, ColumnTypes
<1>1. SumFunctionOnSet(charged, Consultations) \in Int
  BY <1>0, SumType
<1>2. CASE UNCHANGED money
  BY <1>0, <1>2 DEF money, MoneyConserved
<1>3. ASSUME NEW c \in Consultations, TakesHold(c) PROVE MoneyConserved'
  BY <1>0, <1>1, <1>3 DEF TakesHold, MoneyConserved
<1>4. ASSUME NEW c \in Consultations, NEW cost \in 0 .. Hold[c], GivesBack(c, cost)
      PROVE  MoneyConserved'
  <2>1. /\ balance' = balance + Hold[c] - cost
        /\ reserved' = reserved - Hold[c]
        /\ charged' = [charged EXCEPT ![c] = cost]
        /\ charged[c] = 0
        /\ UNCHANGED <<deposited, spent>>
        /\ Hold[c] \in Nat /\ cost \in Int
    BY <1>4 DEF GivesBack
  <2>2. charged'[c] = cost /\ \A d \in Consultations \ {c} : charged'[d] = charged[d]
    BY <1>0, <2>1
  <2>3. SumFunctionOnSet(charged', Consultations) =
          SumFunctionOnSet(charged, Consultations) - charged[c] + charged'[c]
    <3>1. IsFiniteSet(Consultations) /\ charged'[c] \in Int
      BY <2>1, <2>2
    <3> QED
      BY <1>0, <2>2, <3>1, SumChange
  <2> QED
    BY <1>0, <1>1, <2>1, <2>2, <2>3 DEF MoneyConserved
<1>5. ASSUME NEW n \in Nat, PaysIn(n) \/ PaysOut(n) PROVE MoneyConserved'
  <2>1. charged' = charged /\ reserved' = reserved
    BY <1>5 DEF PaysIn, PaysOut
  <2>2. \/ balance' = balance + n /\ deposited' = deposited + n /\ spent' = spent
        \/ balance' = balance - n /\ spent' = spent + n /\ deposited' = deposited
    BY <1>5 DEF PaysIn, PaysOut
  <2>3. balance' + reserved' + SumFunctionOnSet(charged, Consultations) + spent' =
          InitialBalance + deposited'
    <3> DEFINE fees == SumFunctionOnSet(charged, Consultations)
    <3>1. balance + reserved + fees + spent = InitialBalance + deposited /\ fees \in Int
      BY <1>0, <1>1 DEF MoneyConserved
    <3> HIDE DEF fees
    <3>2. balance' + reserved' + fees + spent' = InitialBalance + deposited'
      BY <1>0, <2>1, <2>2, <3>1
    <3> QED
      BY <3>2 DEF fees
  <2> QED
    BY <2>1, <2>3 DEF MoneyConserved
<1> QED
  BY <1>2, <1>3, <1>4, <1>5, MoneyStep

\* Money adds up initially.
LEMMA InitMoney == Init => MoneyConserved /\ ReservedIsOpenHolds
<1> SUFFICES ASSUME Init PROVE MoneyConserved /\ ReservedIsOpenHolds
  OBVIOUS
<1>1. OpenHolds = {} /\ reserved = 0
  BY DEF Init, OpenHolds
<1>2. SumFunctionOnSet(held, {}) = 0
  BY SumEmpty
<1>3. SumFunctionOnSet(charged, Consultations) = 0
  <2> DEFINE T == {0}
  <2>1. 0 \in T /\ \A x \in T : \A y \in T : x + y \in T
    OBVIOUS
  <2>2. \A c \in Consultations : charged[c] \in T
    BY DEF Init
  <2>3. SumFunctionOnSet(charged, Consultations) \in T
    <3> HIDE DEF T
    <3> QED
      BY <2>1, <2>2, FiniteAssumption, SumStaysIn
  <2> QED
    BY <2>3
<1> QED
  BY <1>1, <1>2, <1>3, AmountAssumption DEF Init, MoneyConserved, ReservedIsOpenHolds

\* Every step keeps the serial invariant and the money.
LEMMA NextSerialInv ==
    ASSUME Serial, SerialInv, [Next]_vars PROVE SerialInv'
<1>1. IInv'
  BY NextInv DEF SerialInv
<1>2. SerialRows' /\ SerialHandlers'
  BY NextSerial DEF SerialInv
<1> QED
  BY <1>1, <1>2, ReservedStep, ConservedStep DEF SerialInv

\* One handler at a time, the wallet and everything a handler has read of it
\* stay consistent.
THEOREM SerialInvariance == Serial => (Spec => []SerialInv)
<1>1. Init => SerialInv
  BY InitInv, InitSerial, InitMoney DEF SerialInv
<1> SUFFICES ASSUME Serial PROVE Spec => []SerialInv
  OBVIOUS
<1>2. SerialInv /\ [Next]_vars => SerialInv'
  BY NextSerialInv
<1> QED
  BY <1>1, <1>2, PTL DEF Spec

\* One handler at a time, no rupee is created or lost.
THEOREM MoneyAddsUp == Serial => (Spec => []MoneyConserved)
<1>1. SerialInv => MoneyConserved
  BY DEF SerialInv
<1> SUFFICES ASSUME Serial PROVE Spec => []MoneyConserved
  OBVIOUS
<1>2. Spec => []SerialInv
  BY SerialInvariance
<1> QED
  BY <1>1, <1>2, PTL

\* One handler at a time, the reserved balance is the sum of the open holds.
THEOREM ReservedAddsUp == Serial => (Spec => []ReservedIsOpenHolds)
<1>1. SerialInv => ReservedIsOpenHolds
  BY DEF SerialInv
<1> SUFFICES ASSUME Serial PROVE Spec => []ReservedIsOpenHolds
  OBVIOUS
<1>2. Spec => []SerialInv
  BY SerialInvariance
<1> QED
  BY <1>1, <1>2, PTL

\* One handler at a time, a completed consultation has no live session, also
\* while a handler runs.
THEOREM CompletedHasNoLiveSession == Serial => (Spec => []NoOrphanSession)
<1>1. SerialInv => NoOrphanSession
  BY DEF SerialInv, SerialRows, SerialRow, NoOrphanSession
<1> SUFFICES ASSUME Serial PROVE Spec => []NoOrphanSession
  OBVIOUS
<1>2. Spec => []SerialInv
  BY SerialInvariance
<1> QED
  BY <1>1, <1>2, PTL

\* One handler at a time, a consultation that has started is never cancelled.
THEOREM StartedIsNotCancelled == Serial => (Spec => StartedNeverCancelled)
<1>1. ASSUME SerialInv, [Next]_vars, NEW c \in Consultations,
             startedAt[c], status'[c] = "cancelled"
      PROVE  status[c] = "cancelled"
  <2>0. /\ ColumnTypes
        /\ SerialRow(c)
        /\ \A r \in Requests : /\ req[r] \in HandlerType
                               /\ SerialHandler(r)
                               /\ OnConsultation(r) => req[r].c \in Consultations
    BY <1>1 DEF SerialInv, IInv, TypeOK, HandlerTypes, SerialHandlers, SerialRows
  <2>1. ASSUME NEW r \in Requests, CommitRelease(r) PROVE status[c] = "cancelled"
    <3>1. Releasing(r) /\ req[r].at = "commit" /\ req[r].c \in Consultations
      BY <2>0, <2>1 DEF CommitRelease, Releasing, OnConsultation
    <3>2. status' = status \/ status' = [status EXCEPT ![req[r].c] = StatusWritten(r)]
      BY <2>1 DEF CommitRelease
    <3>3. c = req[r].c => StatusWritten(r) # "cancelled"
      <4>1. CASE c = req[r].c /\ req[r].op \in {"end", "drop"}
        BY <1>1, <2>0, <3>1, <4>1 DEF SerialHandler, StatusWritten
      <4>2. CASE c = req[r].c /\ req[r].op \in {"cancel", "reject"}
        BY <1>1, <2>0, <4>2 DEF SerialHandler, SerialRow
      <4> QED
        BY <3>1, <4>1, <4>2 DEF Releasing
    <3> QED
      BY <1>1, <2>0, <3>1, <3>2, <3>3 DEF ColumnTypes
  <2>2. ASSUME NEW r \in Requests,
               OpenSteps(r) \/ (ReleaseSteps(r) /\ ~CommitRelease(r)) \/ WalletSteps(r) \/ Abort(r)
        PROVE  status[c] = "cancelled"
    <3>1. CASE OpenSteps(r)
      <4>1. \/ UNCHANGED status
            \/ \E d \in Consultations : \E v \in {"requested", "accepted", "active", "reopened", "closed"} :
                  status' = [status EXCEPT ![d] = v]
        BY <2>0, <3>1 DEF OpenSteps, BeginCreate, CommitCreate, BeginAttach, CommitAttach, Accept,
              StartClaim, StartSelect, StartUpdate, BeginRequest, BeginClose, CommitRequest,
              CommitClose, rows, At, OnConsultation
      <4> QED
        BY <1>1, <2>0, <4>1 DEF ColumnTypes
    <3>2. CASE ReleaseSteps(r) /\ ~CommitRelease(r)
      <4>1. UNCHANGED status
        BY <3>2 DEF ReleaseSteps, BeginEnd, Withdraw, BeginDrop, ClaimEnd, DropSessions,
              ClaimDrop, ReadHoldRows, ReadWallet, ClaimRow, rows
      <4> QED
        BY <1>1, <4>1
    <3>3. CASE WalletSteps(r) \/ Abort(r)
      <4>1. UNCHANGED status
        BY <3>3 DEF WalletSteps, Recharge, BeginDebit, CommitDebit, Abort, rows
      <4> QED
        BY <1>1, <4>1
    <3> QED
      BY <2>2, <3>1, <3>2, <3>3
  <2>3. CASE UNCHANGED vars
    BY <1>1, <2>3 DEF vars, rows
  <2> QED
    BY <1>1, <2>1, <2>2, <2>3 DEF Next
<1>2. SerialInv /\ [Next]_vars =>
        [\A c \in Consultations : startedAt[c] =>
          (status'[c] = "cancelled" => status[c] = "cancelled")]_vars
  BY <1>1
<1> SUFFICES ASSUME Serial PROVE Spec => StartedNeverCancelled
  OBVIOUS
<1>3. Spec => []SerialInv
  BY SerialInvariance
<1> QED
  BY <1>2, <1>3, PTL DEF Spec, StartedNeverCancelled

-----------------------------------------------------------------------------
(* One handler at a time, the workflows implement the contract.            *)

\* The phase of each consultation as the contract sees it.
phases == [c \in Consultations |-> HoldPhase(c)]

\* A consultation whose money a step leaves alone stays in its phase.
LEMMA PhasesKept ==
    ASSUME UNCHANGED <<held, releases>> PROVE phases' = phases
  BY DEF phases, HoldPhase

\* One handler at a time, the statements of the workflows implement the
\* contract: every movement is a SetAside, a Settle, a Deposit or a Spend.
THEOREM HoldContractImplemented == Serial => (Spec => ImplementsHoldContract)
<1> USE HoldAssumption
<1>1. ASSUME Init PROVE Contract!Init
  <2>1. phases = [c \in Consultations |-> "none"]
    BY <1>1 DEF Init, phases, HoldPhase
  <2> QED
    BY <1>1, <2>1 DEF Init, Contract!Init, phases
<1>2. ASSUME SerialInv, [Next]_vars PROVE [Contract!Next]_Contract!vars
  <2>0. /\ held \in [Consultations -> Nat]
        /\ releases \in [Consultations -> Nat]
        /\ charged \in [Consultations -> Nat]
        /\ deposited \in Nat /\ spent \in Nat /\ balance \in Int
    BY <1>2 DEF SerialInv, IInv, TypeOK, ColumnTypes
  <2>1. CASE UNCHANGED money
    <3>1. UNCHANGED <<balance, deposited, spent, charged>> /\ phases' = phases
      BY <2>1, PhasesKept DEF money
    <3> QED
      BY <3>1 DEF Contract!vars, phases
  <2>2. ASSUME NEW c \in Consultations, TakesHold(c) PROVE Contract!Next
    <3>1. /\ phases[c] = "none"
          /\ phases' = [phases EXCEPT ![c] = "held"]
      <4>1. /\ held[c] = 0 /\ held' = [held EXCEPT ![c] = Hold[c]]
            /\ releases' = releases /\ releases[c] = 0
            /\ Hold[c] \in Nat /\ Hold[c] > 0
        BY <2>2 DEF TakesHold
      <4>2. ASSUME NEW d \in Consultations
            PROVE  phases'[d] = IF d = c THEN "held" ELSE phases[d]
        BY <2>0, <4>1 DEF phases, HoldPhase
      <4>3. phases[c] = "none"
        BY <4>1 DEF phases, HoldPhase
      <4> QED
        BY <4>2, <4>3 DEF phases
    <3>2. Contract!SetAside(c)
      BY <2>2, <3>1 DEF TakesHold, Contract!SetAside, phases
    <3> QED
      BY <3>2 DEF Contract!Next
  <2>3. ASSUME NEW c \in Consultations, NEW cost \in 0 .. Hold[c], GivesBack(c, cost)
        PROVE  Contract!Next
    <3>1. /\ phases[c] = "held"
          /\ phases' = [phases EXCEPT ![c] = "settled"]
      <4>1. /\ held[c] = Hold[c] /\ held' = held
            /\ releases[c] = 0 /\ releases' = [releases EXCEPT ![c] = 1]
            /\ Hold[c] \in Nat /\ Hold[c] > 0
        BY <2>3 DEF GivesBack
      <4>2. ASSUME NEW d \in Consultations
            PROVE  phases'[d] = IF d = c THEN "settled" ELSE phases[d]
        BY <2>0, <4>1 DEF phases, HoldPhase
      <4>3. phases[c] = "held"
        BY <4>1 DEF phases, HoldPhase
      <4> QED
        BY <4>2, <4>3 DEF phases
    <3>2. Contract!Settle(c)
      BY <2>3, <3>1 DEF GivesBack, Contract!Settle, phases
    <3> QED
      BY <3>2 DEF Contract!Next
  <2>4. ASSUME NEW n \in Nat, PaysIn(n) PROVE [Contract!Next]_Contract!vars
    <3>1. /\ UNCHANGED <<spent, charged>> /\ phases' = phases
          /\ balance' = balance + n /\ deposited' = deposited + n
      BY <2>4, PhasesKept DEF PaysIn
    <3>2. CASE n = 0
      BY <2>0, <3>1, <3>2 DEF Contract!vars, phases
    <3>3. CASE n > 0
      <4>1. deposited' \in Nat /\ deposited' > deposited /\ deposited' - deposited = n
        BY <2>0, <3>1, <3>3
      <4>2. Contract!Deposit
        BY <3>1, <4>1 DEF Contract!Deposit, phases
      <4> QED
        BY <4>2 DEF Contract!Next
    <3> QED
      BY <3>2, <3>3
  <2>5. ASSUME NEW n \in Nat, PaysOut(n) PROVE [Contract!Next]_Contract!vars
    <3>1. /\ UNCHANGED <<deposited, charged>> /\ phases' = phases
          /\ balance >= n
          /\ balance' = balance - n /\ spent' = spent + n
      BY <2>5, PhasesKept DEF PaysOut
    <3>2. CASE n = 0
      BY <2>0, <3>1, <3>2 DEF Contract!vars, phases
    <3>3. CASE n > 0
      <4>1. spent' \in Nat /\ spent' > spent /\ spent' - spent = n /\ n <= balance
        BY <2>0, <3>1, <3>3
      <4>2. Contract!Spend
        BY <3>1, <4>1 DEF Contract!Spend, phases
      <4> QED
        BY <4>2 DEF Contract!Next
    <3> QED
      BY <3>2, <3>3
  <2> QED
    BY <1>2, <2>1, <2>2, <2>3, <2>4, <2>5, MoneyStep
<1> SUFFICES ASSUME Serial PROVE Spec => ImplementsHoldContract
  OBVIOUS
<1>3. Spec => []SerialInv
  BY SerialInvariance
<1> QED
  BY <1>1, <1>2, <1>3, PTL DEF Spec, ImplementsHoldContract, Contract!Spec
=============================================================================
