---------------------------- MODULE HoldContract ----------------------------
(***************************************************************************)
(* What a client is promised about the money of consultations: an amount   *)
(* is set aside once per consultation, is set aside only when the client   *)
(* has it, and comes back exactly once, less a fee that never exceeds it.  *)
(* There is no statement, transaction or row here.                         *)
(***************************************************************************)
EXTENDS Integers

CONSTANTS
    Consultations,
    Amount,        \* what is set aside for each consultation
    Initial

VARIABLES
    available, \* what the client may spend
    phase,     \* of each consultation: "none", "held" or "settled"
    fee,       \* what each consultation has cost
    paidIn,    \* what the client has put in
    paidOut    \* what the client has spent on anything else

vars == <<available, phase, fee, paidIn, paidOut>>

Init ==
    /\ available = Initial
    /\ phase = [c \in Consultations |-> "none"]
    /\ fee = [c \in Consultations |-> 0]
    /\ paidIn = 0
    /\ paidOut = 0

SetAside(c) ==
    /\ phase[c] = "none"
    /\ available >= Amount[c]
    /\ available' = available - Amount[c]
    /\ phase' = [phase EXCEPT ![c] = "held"]
    /\ UNCHANGED <<fee, paidIn, paidOut>>

Settle(c) ==
    /\ phase[c] = "held"
    /\ \E cost \in 0 .. Amount[c] :
         /\ available' = available + Amount[c] - cost
         /\ fee' = [fee EXCEPT ![c] = cost]
    /\ phase' = [phase EXCEPT ![c] = "settled"]
    /\ UNCHANGED <<paidIn, paidOut>>

Deposit ==
    /\ paidIn' \in Nat
    /\ paidIn' > paidIn
    /\ available' = available + (paidIn' - paidIn)
    /\ UNCHANGED <<phase, fee, paidOut>>

Spend ==
    /\ paidOut' \in Nat
    /\ paidOut' > paidOut
    /\ paidOut' - paidOut <= available
    /\ available' = available - (paidOut' - paidOut)
    /\ UNCHANGED <<phase, fee, paidIn>>

Next ==
    \/ \E c \in Consultations : SetAside(c) \/ Settle(c)
    \/ Deposit
    \/ Spend

Spec == Init /\ [][Next]_vars
=============================================================================
