CONSTANTS
    Consultations = {c1, c2}
    Requests = {r1}
    NoOne = NoOne
    Modes = {chat, voice}
    HoldAmount = 2
    Hold <- MCHold
    Payables = {1, 3}
    InitialBalance = 4
    Credits = {1}
    Debits = {2}
    MaxDeposited = 1
    MaxSpent = 2
    MaxSessions = 2
SYMMETRY Symmetry
SPECIFICATION Spec
INVARIANTS MoneyConserved ReservedIsOpenHolds BillWithinCharge NoOrphanSession
PROPERTIES ImplementsHoldContract StartedNeverCancelled
