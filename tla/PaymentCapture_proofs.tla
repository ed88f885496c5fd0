----------------------- MODULE PaymentCapture_proofs -----------------------
(***************************************************************************)
(* PaymentCapture for any number of orders and overlapping handlers: a     *)
(* payment is credited at most once, the two rows never say SUCCESS        *)
(* without the credit, and handlers that read FOR UPDATE are never refused *)
(* by the unique index.                                                    *)
(*                                                                         *)
(* The last needs to know what the locks are for: whoever is about to      *)
(* credit an order holds its legacy row (Holding), and so does a locked    *)
(* handler from its check on, so that the two are the same handler.        *)
(***************************************************************************)
EXTENDS PaymentCapture, SumLemmas, TLAPS

\* The legacy row of its order belongs to a locked handler past the check, and
\* to any handler past its UPDATEs.
Holding ==
    \A w \in Workers :
        \/ Locked(w) /\ Checked(w)
        \/ worker[w].at \in {"wallet", "fulfil"}
        => lLock[worker[w].o] = w

IInv ==
    /\ TypeOK
    /\ SettledIsCredited
    /\ CreditedOnce
    /\ Holding
    /\ LockedNeverRefused

-----------------------------------------------------------------------------
\* The invariant holds initially.
LEMMA InitInv == Init => IInv
<1> SUFFICES ASSUME Init PROVE IInv
  OBVIOUS
<1> USE OldOrdersAssumption, BoundAssumption
<1>1. TypeOK
  <2>1. Idle \in HandlerType
    BY DEF Idle, Handler, HandlerType, Kinds, Steps, GatewayStatuses, LegacyStatuses
  <2>2. legacy \in [Orders -> LegacyStatuses] /\ gateway \in [Orders -> GatewayStatuses]
    BY DEF Init, LegacyStatuses, GatewayStatuses
  <2> QED
    BY <2>1, <2>2 DEF Init, TypeOK, At, Idle, Handler
<1>2. SettledIsCredited /\ CreditedOnce
  BY DEF Init, SettledIsCredited, CreditedOnce
<1>3. Holding /\ LockedNeverRefused
  BY DEF Init, Holding, LockedNeverRefused, Idle, Handler, Checked
<1> QED
  BY <1>1, <1>2, <1>3 DEF IInv

\* The end of a handler leaves its slot idle and frees only its own rows.
LEMMA FinishType ==
    ASSUME TypeOK, NEW w \in Workers, Finish(w)
    PROVE  /\ worker' \in [Workers -> HandlerType]
           /\ \A v \in Workers : worker'[v].at # "idle" => worker'[v].o \in Orders
           /\ gLock' \in [Orders -> Workers \cup {NoOne}]
           /\ lLock' \in [Orders -> Workers \cup {NoOne}]
           /\ wLock' \in Workers \cup {NoOne}
           /\ worker'[w].at = "idle"
           /\ \A v \in Workers \ {w} : worker'[v] = worker[v]
           /\ \A v \in Workers \ {w}, o \in Orders : lLock[o] = v => lLock'[o] = v
<1>1. Idle \in HandlerType /\ Idle.at = "idle"
  BY DEF Idle, Handler, HandlerType, Kinds, Steps, GatewayStatuses, LegacyStatuses
<1>2. worker' = [worker EXCEPT ![w] = Idle] /\ worker \in [Workers -> HandlerType]
  BY DEF Finish, TypeOK
<1>3. /\ worker' \in [Workers -> HandlerType]
      /\ worker'[w].at = "idle"
      /\ \A v \in Workers \ {w} : worker'[v] = worker[v]
  BY <1>1, <1>2
<1>4. \A v \in Workers : worker'[v].at # "idle" => worker'[v].o \in Orders
  BY <1>3 DEF TypeOK, At
<1>5. /\ gLock' \in [Orders -> Workers \cup {NoOne}]
      /\ lLock' \in [Orders -> Workers \cup {NoOne}]
      /\ wLock' \in Workers \cup {NoOne}
      /\ \A v \in Workers \ {w}, o \in Orders : lLock[o] = v => lLock'[o] = v
  BY DEF Finish, Drop, TypeOK
<1> QED
  BY <1>3, <1>4, <1>5

\* Every step keeps the types.
LEMMA NextType == TypeOK /\ [Next]_vars => TypeOK'
<1> SUFFICES ASSUME TypeOK, [Next]_vars PROVE TypeOK'
  OBVIOUS
<1> USE BoundAssumption, AmountAssumption DEF TypeOK
<1>1. ASSUME NEW o \in Orders, Initiate(o) \/ Capture(o) \/ Declined(o) PROVE TypeOK'
  <2>1. /\ gateway' \in [Orders -> GatewayStatuses]
        /\ legacy' \in [Orders -> LegacyStatuses]
    BY <1>1 DEF Initiate, Capture, Declined, tables, GatewayStatuses, LegacyStatuses
  <2> QED
    BY <1>1, <2>1 DEF Initiate, Capture, Declined, tables, locks, At
<1>2. ASSUME NEW w \in Workers, NEW kind \in Kinds, NEW o \in Orders, Begin(w, kind, o)
      PROVE  TypeOK'
  <2>1. Handler(kind, "gateway", o) \in HandlerType
    BY DEF Handler, HandlerType, Steps, GatewayStatuses, LegacyStatuses
  <2>2. worker' \in [Workers -> HandlerType]
    BY <1>2, <2>1 DEF Begin
  <2>3. \A v \in Workers : worker'[v].at # "idle" => worker'[v].o \in Orders
    BY <1>2 DEF Begin, Handler, At
  <2> QED
    BY <1>2, <2>2, <2>3 DEF Begin, tables, locks, At
<1>3. ASSUME NEW w \in Workers, ReadGateway(w) PROVE TypeOK'
  <2> DEFINE o == worker[w].o
  <2>1. worker[w] \in HandlerType /\ o \in Orders /\ gateway[o] \in GatewayStatuses
    BY <1>3 DEF ReadGateway, At
  <2>2. [worker[w] EXCEPT !.at = "legacy", !.seenG = gateway[o]] \in HandlerType
    BY <2>1 DEF HandlerType, Steps
  <2>3. worker' = [worker EXCEPT ![w] = [worker[w] EXCEPT !.at = "legacy", !.seenG = gateway[o]]]
    BY <1>3, <2>1 DEF ReadGateway, HandlerType
  <2>4. worker' \in [Workers -> HandlerType]
    BY <2>2, <2>3
  <2>5. \A v \in Workers : worker'[v].at # "idle" => worker'[v].o \in Orders
    BY <2>1, <2>3 DEF HandlerType, At
  <2>6. gLock' \in [Orders -> Workers \cup {NoOne}]
    BY <1>3 DEF ReadGateway
  <2> QED
    BY <1>3, <2>4, <2>5, <2>6 DEF ReadGateway, tables, At
<1>4. ASSUME NEW w \in Workers, ReadLegacy(w) PROVE TypeOK'
  <2> DEFINE o == worker[w].o
  <2>1. worker[w] \in HandlerType /\ o \in Orders /\ legacy[o] \in LegacyStatuses
    BY <1>4 DEF ReadLegacy, At
  <2>2. CASE Finish(w)
    BY <1>4, <2>2, FinishType DEF ReadLegacy, tables, At
  <2>3. CASE ~Processed(worker[w].seenG, legacy[o])
    <3>1. [worker[w] EXCEPT !.at = "markGateway", !.seenL = legacy[o]] \in HandlerType
      BY <2>1 DEF HandlerType, Steps
    <3>2. worker' = [worker EXCEPT ![w] = [worker[w] EXCEPT !.at = "markGateway", !.seenL = legacy[o]]]
      BY <1>4, <2>1, <2>3 DEF ReadLegacy, HandlerType
    <3>3. worker' \in [Workers -> HandlerType]
      BY <3>1, <3>2
    <3>4. \A v \in Workers : worker'[v].at # "idle" => worker'[v].o \in Orders
      BY <2>1, <3>2 DEF HandlerType, At
    <3>5. lLock' \in [Orders -> Workers \cup {NoOne}]
      BY <1>4, <2>3 DEF ReadLegacy
    <3> QED
      BY <1>4, <2>3, <3>3, <3>4, <3>5 DEF ReadLegacy, tables, At
  <2> QED
    BY <1>4, <2>2, <2>3 DEF ReadLegacy
<1>5. ASSUME NEW w \in Workers, MarkGateway(w) PROVE TypeOK'
  <2>1. CASE Finish(w)
    BY <1>5, <2>1, FinishType DEF MarkGateway, tables, At
  <2>2. CASE ~InsertRefused(w)
    <3>1. [worker[w] EXCEPT !.at = "markLegacy"] \in HandlerType
      BY DEF HandlerType, Steps
    <3>2. worker' \in [Workers -> HandlerType]
      BY <1>5, <2>2, <3>1 DEF MarkGateway, Goto
    <3>3. \A v \in Workers : worker'[v].at # "idle" => worker'[v].o \in Orders
      BY <1>5, <2>2 DEF MarkGateway, Goto, HandlerType, At
    <3>4. gLock' \in [Orders -> Workers \cup {NoOne}]
      BY <1>5, <2>2 DEF MarkGateway
    <3> QED
      BY <1>5, <2>2, <3>2, <3>3, <3>4 DEF MarkGateway, tables, At
  <2> QED
    BY <1>5, <2>1, <2>2 DEF MarkGateway
<1>6. ASSUME NEW w \in Workers, MarkLegacy(w) PROVE TypeOK'
  <2>1. [worker[w] EXCEPT !.at = "wallet"] \in HandlerType
    BY DEF HandlerType, Steps
  <2>2. worker' \in [Workers -> HandlerType]
    BY <1>6, <2>1 DEF MarkLegacy, Goto
  <2>3. \A v \in Workers : worker'[v].at # "idle" => worker'[v].o \in Orders
    BY <1>6 DEF MarkLegacy, Goto, HandlerType, At
  <2>4. lLock' \in [Orders -> Workers \cup {NoOne}]
    BY <1>6 DEF MarkLegacy
  <2> QED
    BY <1>6, <2>2, <2>3, <2>4 DEF MarkLegacy, tables, At
<1>7. ASSUME NEW w \in Workers, ReadWallet(w) PROVE TypeOK'
  <2>1. [worker[w] EXCEPT !.at = "fulfil", !.bal = balance] \in HandlerType
    BY DEF HandlerType, Steps
  <2>2. worker' = [worker EXCEPT ![w] = [worker[w] EXCEPT !.at = "fulfil", !.bal = balance]]
    BY <1>7 DEF ReadWallet, HandlerType
  <2>3. worker' \in [Workers -> HandlerType]
    BY <2>1, <2>2
  <2>4. \A v \in Workers : worker'[v].at # "idle" => worker'[v].o \in Orders
    BY <1>7, <2>2 DEF ReadWallet, HandlerType, At
  <2> QED
    BY <1>7, <2>3, <2>4 DEF ReadWallet, tables, At
<1>8. ASSUME NEW w \in Workers, Fulfil(w) PROVE TypeOK'
  <2> DEFINE o == worker[w].o
  <2>1. Finish(w) /\ o \in Orders
    BY <1>8 DEF Fulfil, At
  <2>2. /\ gateway' \in [Orders -> GatewayStatuses]
        /\ legacy' \in [Orders -> LegacyStatuses]
    BY <1>8, <2>1 DEF Fulfil, MarkSuccess, tables, GatewayStatuses, LegacyStatuses
  <2>3. credits' \in [Orders -> Nat]
    BY <1>8, <2>1 DEF Fulfil, tables
  <2>4. balance' \in Nat
    BY <1>8, <2>1 DEF Fulfil, tables, Credited
  <2> QED
    BY <1>8, <2>1, <2>2, <2>3, <2>4, FinishType DEF Fulfil, At
<1>9. ASSUME NEW w \in Workers, Abort(w) \/ Victim(w) PROVE TypeOK'
  BY <1>9, FinishType DEF Abort, Victim, tables, At
<1>10. CASE UNCHANGED vars
  BY <1>10 DEF vars, tables, locks, At
<1> QED
  BY <1>1, <1>2, <1>3, <1>4, <1>5, <1>6, <1>7, <1>8, <1>9, <1>10 DEF Next, Step

-----------------------------------------------------------------------------
\* The rows and the credits change together: at COMMIT, or not at all.
LEMMA NextSettled ==
    TypeOK /\ SettledIsCredited /\ CreditedOnce /\ [Next]_vars
        => SettledIsCredited' /\ CreditedOnce'
<1> SUFFICES ASSUME TypeOK, SettledIsCredited, CreditedOnce, [Next]_vars
             PROVE  SettledIsCredited' /\ CreditedOnce'
  OBVIOUS
<1> USE DEF SettledIsCredited, CreditedOnce
<1>1. ASSUME NEW o \in Orders, Initiate(o) \/ Capture(o) \/ Declined(o)
      PROVE  SettledIsCredited' /\ CreditedOnce'
  BY <1>1 DEF TypeOK, Initiate, Capture, Declined, tables
<1>2. ASSUME NEW w \in Workers, Fulfil(w)
      PROVE  SettledIsCredited' /\ CreditedOnce'
  <2> DEFINE o == worker[w].o
  <2>1. o \in Orders
    BY <1>2 DEF Fulfil, TypeOK, At
  <2>2. CASE UNCHANGED tables
    BY <2>2 DEF tables
  <2>3. CASE NotYetCredited(o)
    <3>1. gateway' = [gateway EXCEPT ![o] = "SUCCESS"] /\ legacy' = [legacy EXCEPT ![o] = "SUCCESS"]
      BY <1>2, <2>3 DEF Fulfil, MarkSuccess
    <3>2. credits' = [credits EXCEPT ![o] = 1]
      BY <1>2, <2>1, <2>3 DEF Fulfil, NotYetCredited, TypeOK
    <3> QED
      BY <2>1, <3>1, <3>2 DEF TypeOK
  <2> QED
    BY <1>2, <2>2, <2>3 DEF Fulfil
<1>3. CASE UNCHANGED tables
  BY <1>3 DEF tables
<1> QED
  BY <1>1, <1>2, <1>3 DEF Next, Step, Begin, ReadGateway, ReadLegacy, MarkGateway,
     MarkLegacy, ReadWallet, Abort, Victim, vars

\* A slot that another handler's step leaves alone keeps its rows and, unless
\* that handler credits its order, stays uncredited.
LEMMA Undisturbed ==
    ASSUME IInv, NEW w \in Workers, NEW v \in Workers \ {w},
           worker'[v] = worker[v],
           \A o \in Orders : lLock[o] = v => lLock'[o] = v
    PROVE  (Locked(v) /\ Checked(v))' \/ worker'[v].at \in {"wallet", "fulfil"}
             => lLock'[worker'[v].o] = v
<1>1. worker[v].at # "idle" => worker[v].o \in Orders
  BY DEF IInv, TypeOK, At
<1> QED
  BY <1>1 DEF IInv, Holding, Locked, Checked

\* Every step keeps the legacy rows with their owners.
LEMMA NextHolding == IInv /\ [Next]_vars => Holding'
<1> SUFFICES ASSUME IInv, [Next]_vars PROVE Holding'
  OBVIOUS
<1> USE DEF Holding
<1>1. ASSUME NEW w \in Workers, Finish(w) PROVE Holding'
  <2>1. worker'[w].at = "idle"
    BY <1>1, FinishType DEF IInv
  <2>2. ASSUME NEW v \in Workers \ {w}
        PROVE (Locked(v) /\ Checked(v))' \/ worker'[v].at \in {"wallet", "fulfil"}
                => lLock'[worker'[v].o] = v
    BY <1>1, FinishType, Undisturbed DEF IInv
  <2> QED
    BY <2>1, <2>2 DEF Checked
<1>2. ASSUME NEW w \in Workers, NEW kind \in Kinds, NEW o \in Orders, Begin(w, kind, o)
      PROVE  Holding'
  <2>1. worker'[w].at = "gateway" /\ lLock' = lLock
    BY <1>2 DEF Begin, Handler, locks, IInv, TypeOK
  <2>2. \A v \in Workers \ {w} : worker'[v] = worker[v]
    BY <1>2 DEF Begin, IInv, TypeOK
  <2> QED
    BY <2>1, <2>2, Undisturbed DEF Checked
<1>3. ASSUME NEW w \in Workers, ReadGateway(w) PROVE Holding'
  <2>1. worker'[w].at = "legacy" /\ lLock' = lLock
    BY <1>3 DEF ReadGateway, IInv, TypeOK, HandlerType
  <2>2. \A v \in Workers \ {w} : worker'[v] = worker[v]
    BY <1>3 DEF ReadGateway, IInv, TypeOK
  <2> QED
    BY <2>1, <2>2, Undisturbed DEF Checked
<1>4. ASSUME NEW w \in Workers, ReadLegacy(w), ~Processed(worker[w].seenG, legacy[worker[w].o])
      PROVE  Holding'
  <2> DEFINE o == worker[w].o
  <2>1. o \in Orders /\ worker[w] \in HandlerType
    BY <1>4 DEF ReadLegacy, At, IInv, TypeOK
  <2>2. /\ worker'[w].at = "markGateway" /\ worker'[w].o = o
        /\ worker'[w].kind = worker[w].kind
    BY <1>4, <2>1 DEF ReadLegacy, IInv, TypeOK, HandlerType
  <2>3. \A v \in Workers \ {w} : worker'[v] = worker[v]
    BY <1>4 DEF ReadLegacy, IInv, TypeOK
  <2>4. Locked(w)' => lLock'[o] = w
    BY <1>4, <2>1, <2>2 DEF ReadLegacy, Locked, IInv, TypeOK
  <2>5. \A v \in Workers \ {w}, x \in Orders : lLock[x] = v => lLock'[x] = v
    BY <1>4, <2>1, NoOneAssumption DEF ReadLegacy, Free, IInv, TypeOK
  <2> QED
    BY <2>2, <2>3, <2>4, <2>5, Undisturbed
<1>5. ASSUME NEW w \in Workers, MarkGateway(w), ~InsertRefused(w) PROVE Holding'
  <2>1. worker[w] \in HandlerType /\ lLock' = lLock /\ worker[w].at = "markGateway"
    BY <1>5 DEF MarkGateway, IInv, TypeOK, At
  <2>2. /\ worker'[w].at = "markLegacy" /\ worker'[w].o = worker[w].o
        /\ worker'[w].kind = worker[w].kind
    BY <1>5, <2>1 DEF MarkGateway, Goto, IInv, TypeOK, HandlerType
  <2>3. \A v \in Workers \ {w} : worker'[v] = worker[v]
    BY <1>5 DEF MarkGateway, Goto, IInv, TypeOK
  <2> QED
    BY <2>1, <2>2, <2>3, Undisturbed DEF Locked, Checked, IInv
<1>6. ASSUME NEW w \in Workers, MarkLegacy(w) PROVE Holding'
  <2> DEFINE o == worker[w].o
  <2>1. o \in Orders /\ worker[w] \in HandlerType
    BY <1>6 DEF MarkLegacy, At, IInv, TypeOK
  <2>2. worker'[w].o = o /\ lLock'[o] = w
    BY <1>6, <2>1 DEF MarkLegacy, Goto, IInv, TypeOK, HandlerType
  <2>3. \A v \in Workers \ {w} : worker'[v] = worker[v]
    BY <1>6 DEF MarkLegacy, Goto, IInv, TypeOK
  <2>4. \A v \in Workers \ {w}, x \in Orders : lLock[x] = v => lLock'[x] = v
    BY <1>6, <2>1, NoOneAssumption DEF MarkLegacy, Free, IInv, TypeOK
  <2> QED
    BY <2>2, <2>3, <2>4, Undisturbed
<1>7. ASSUME NEW w \in Workers, ReadWallet(w) PROVE Holding'
  <2>1. worker[w] \in HandlerType /\ lLock' = lLock /\ worker[w].at = "wallet"
    BY <1>7 DEF ReadWallet, IInv, TypeOK, At
  <2>2. worker'[w].o = worker[w].o
    BY <1>7, <2>1 DEF ReadWallet, IInv, TypeOK, HandlerType
  <2>3. \A v \in Workers \ {w} : worker'[v] = worker[v]
    BY <1>7 DEF ReadWallet, IInv, TypeOK
  <2> QED
    BY <2>1, <2>2, <2>3, Undisturbed DEF IInv
<1>8. CASE UNCHANGED <<worker, lLock>>
  BY <1>8 DEF IInv, Locked, Checked
<1> QED
  BY <1>1, <1>2, <1>3, <1>4, <1>5, <1>6, <1>7, <1>8 DEF Next, Step, Initiate, Capture,
     Declined, ReadLegacy, MarkGateway, Fulfil, Abort, Victim, vars, locks

\* The credit of an order is made by whoever holds its legacy row, and a locked
\* handler past the check holds it.
LEMMA NextRefused == IInv /\ [Next]_vars => LockedNeverRefused'
<1> SUFFICES ASSUME IInv, [Next]_vars,
                    NEW v \in Workers, (Locked(v) /\ Checked(v))'
             PROVE  credits'[worker'[v].o] = 0
  BY DEF LockedNeverRefused
<1>1. ASSUME NEW w \in Workers, Finish(w), credits' = credits
      PROVE  credits'[worker'[v].o] = 0
  <2>1. v # w /\ worker'[v] = worker[v]
    BY <1>1, FinishType DEF IInv, Checked
  <2> QED
    BY <1>1, <2>1 DEF IInv, LockedNeverRefused, Locked, Checked
<1>2. ASSUME NEW w \in Workers, Fulfil(w), NotYetCredited(worker[w].o)
      PROVE  credits'[worker'[v].o] = 0
  <2> DEFINE o == worker[w].o
  <2>1. Finish(w) /\ o \in Orders /\ worker[w].at = "fulfil"
    BY <1>2 DEF Fulfil, At, IInv, TypeOK
  <2>2. v # w /\ worker'[v] = worker[v]
    BY <2>1, FinishType DEF IInv, Checked
  <2>3. Locked(v) /\ Checked(v) /\ worker[v].o \in Orders
    BY <2>2 DEF Locked, Checked, IInv, TypeOK, At
  <2>4. lLock[worker[v].o] = v /\ lLock[o] = w
    BY <2>1, <2>3 DEF IInv, Holding
  <2>5. worker[v].o # o /\ credits[worker[v].o] = 0
    BY <2>2, <2>3, <2>4 DEF IInv, LockedNeverRefused
  <2> QED
    BY <1>2, <2>1, <2>2, <2>3, <2>5 DEF Fulfil, IInv, TypeOK
<1>3. ASSUME NEW w \in Workers, ReadLegacy(w), ~Processed(worker[w].seenG, legacy[worker[w].o])
      PROVE  credits'[worker'[v].o] = 0
  <2>1. worker[w] \in HandlerType /\ worker[w].o \in Orders /\ credits' = credits
    BY <1>3 DEF ReadLegacy, At, IInv, TypeOK, tables
  <2>2. CASE v = w
    <3>1. worker'[w].o = worker[w].o
      BY <1>3, <2>1 DEF ReadLegacy, IInv, TypeOK, HandlerType
    <3> QED
      BY <1>3, <2>1, <2>2, <3>1 DEF Processed, IInv, TypeOK, SettledIsCredited
  <2>3. CASE v # w
    <3>1. worker'[v] = worker[v]
      BY <1>3, <2>3 DEF ReadLegacy, IInv, TypeOK
    <3> QED
      BY <2>1, <3>1 DEF IInv, LockedNeverRefused, Locked, Checked
  <2> QED
    BY <2>2, <2>3
<1>4. ASSUME NEW w \in Workers,
             \/ \E kind \in Kinds, o \in Orders : Begin(w, kind, o)
             \/ ReadGateway(w)
      PROVE  credits'[worker'[v].o] = 0
  <2>1. ~Checked(w)' /\ credits' = credits
    BY <1>4 DEF Begin, ReadGateway, Checked, Handler, tables, IInv, TypeOK, HandlerType
  <2>2. worker'[v] = worker[v]
    BY <1>4, <2>1 DEF Begin, ReadGateway, IInv, TypeOK
  <2> QED
    BY <2>1, <2>2 DEF IInv, LockedNeverRefused, Locked, Checked
<1>5. ASSUME NEW w \in Workers,
             (MarkGateway(w) /\ ~InsertRefused(w)) \/ MarkLegacy(w) \/ ReadWallet(w)
      PROVE  credits'[worker'[v].o] = 0
  <2>1. credits' = credits /\ Checked(w) /\ worker[w] \in HandlerType
    BY <1>5 DEF MarkGateway, MarkLegacy, ReadWallet, tables, At, Checked, IInv, TypeOK
  <2>2. worker'[w].o = worker[w].o /\ worker'[w].kind = worker[w].kind
    BY <1>5, <2>1 DEF MarkGateway, MarkLegacy, ReadWallet, Goto, IInv, TypeOK, HandlerType
  <2>3. v # w => worker'[v] = worker[v]
    BY <1>5 DEF MarkGateway, MarkLegacy, ReadWallet, Goto, IInv, TypeOK
  <2> QED
    BY <2>1, <2>2, <2>3 DEF IInv, LockedNeverRefused, Locked, Checked
<1>6. ASSUME NEW o \in Orders, Initiate(o) \/ Capture(o) \/ Declined(o)
      PROVE  credits'[worker'[v].o] = 0
  BY <1>6 DEF Initiate, Capture, Declined, tables, IInv, LockedNeverRefused, Locked, Checked
<1>7. CASE UNCHANGED vars
  BY <1>7 DEF vars, tables, IInv, LockedNeverRefused, Locked, Checked
<1> QED
  BY <1>1, <1>2, <1>3, <1>4, <1>5, <1>6, <1>7 DEF Next, Step, ReadLegacy, MarkGateway,
     Fulfil, Abort, Victim, tables

-----------------------------------------------------------------------------
\* The inductive invariant holds for any number of orders and handlers.
LEMMA Invariance == Spec => []IInv
<1>1. IInv /\ [Next]_vars => IInv'
  BY NextType, NextSettled, NextHolding, NextRefused DEF IInv
<1> QED
  BY InitInv, <1>1, PTL DEF Spec

\* Every variable keeps its type.
THEOREM TypeCorrect == Spec => []TypeOK
BY Invariance, PTL DEF IInv

\* A captured payment is credited at most once, whichever of the three handlers
\* run, how often, and how they overlap and crash.
THEOREM CreditedOnceHolds == Spec => []CreditedOnce
BY Invariance, PTL DEF IInv

\* A row that says SUCCESS belongs to a payment that was credited.
THEOREM SettledIsCreditedHolds == Spec => []SettledIsCredited
BY Invariance, PTL DEF IInv

\* The row locks alone keep webhook and verify from crediting twice: past their
\* check the order is uncredited until they credit it.
THEOREM LockedNeverRefusedHolds == Spec => []LockedNeverRefused
BY Invariance, PTL DEF IInv

-----------------------------------------------------------------------------
\* Credits whose UPDATEs overlap all count: the wallet is the sum of the
\* credited orders, because the UPDATE adds to the row's own value and the
\* credit and its row are committed together.
THEOREM BalanceIsCreditsHolds == Spec => []BalanceIsCredits
<1> USE AmountAssumption, OrdersAssumption
<1>1. ASSUME Init PROVE BalanceIsCredits
  <2> DEFINE T == {0}
  <2>1. 0 \in T /\ \A x \in T : \A y \in T : x + y \in T
    OBVIOUS
  <2>2. \A o \in Orders : CreditedAmounts[o] \in T
    BY <1>1 DEF Init, CreditedAmounts
  <2>3. SumFunctionOnSet(CreditedAmounts, Orders) \in T
    <3> HIDE DEF T
    <3> QED
      BY <2>1, <2>2, SumStaysIn
  <2> QED
    BY <1>1, <2>3 DEF Init, BalanceIsCredits
<1>2. ASSUME IInv, BalanceIsCredits, [Next]_vars PROVE BalanceIsCredits'
  <2>1. CASE UNCHANGED <<credits, balance>>
    BY <1>2, <2>1 DEF BalanceIsCredits, CreditedAmounts
  <2>2. ASSUME NEW w \in Workers, Fulfil(w), NotYetCredited(worker[w].o)
        PROVE  BalanceIsCredits'
    <3> DEFINE f == CreditedAmounts
               g == CreditedAmounts'
    <3> PICK o : o = worker[w].o
      OBVIOUS
    <3>1. /\ o \in Orders
          /\ credits \in [Orders -> Nat]
          /\ Amount \in [Orders -> Nat \ {0}]
          /\ balance \in Nat
      BY <1>2, <2>2 DEF Fulfil, At, IInv, TypeOK
    <3>2. /\ credits[o] = 0
          /\ credits' = [credits EXCEPT ![o] = 1]
          /\ balance' = balance + Amount[o]
      BY <2>2, <3>1 DEF Fulfil, NotYetCredited, Credited
    <3>3. \A x \in Orders : f[x] \in Int
      <4>1. \A m, n \in Nat : m * n \in Int
        OBVIOUS
      <4> QED
        BY <3>1, <4>1 DEF CreditedAmounts
    <3>4. f[o] = 0 /\ g[o] = Amount[o] /\ g[o] \in Int
      BY <3>1, <3>2 DEF CreditedAmounts
    <3>5. \A x \in Orders \ {o} : g[x] = f[x]
      BY <3>1, <3>2 DEF CreditedAmounts
    <3>6. SumFunctionOnSet(f, Orders) \in Int
      BY <3>3, SumType
    <3> HIDE DEF f, g
    <3>7. SumFunctionOnSet(g, Orders) = SumFunctionOnSet(f, Orders) - f[o] + g[o]
      BY <3>1, <3>3, <3>4, <3>5, SumChange
    <3>8. balance = SumFunctionOnSet(f, Orders)
      BY <1>2 DEF BalanceIsCredits, f
    <3>9. balance' = SumFunctionOnSet(g, Orders)
      BY <3>1, <3>2, <3>4, <3>6, <3>7, <3>8
    <3> QED
      BY <3>9 DEF BalanceIsCredits, g
  <2> QED
    BY <1>2, <2>1, <2>2 DEF Next, Step, Initiate, Capture, Declined, Begin, ReadGateway,
       ReadLegacy, MarkGateway, MarkLegacy, ReadWallet, Fulfil, Abort, Victim, tables, vars
<1>3. IInv /\ BalanceIsCredits /\ [Next]_vars => BalanceIsCredits'
  BY <1>2
<1> QED
  BY <1>1, <1>3, Invariance, PTL DEF Spec
=============================================================================
