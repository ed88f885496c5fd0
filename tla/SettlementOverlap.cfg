CONSTANTS
    Consultations = {c1}
    Requests = {r1, r2, r3}
    NoOne = NoOne
    Modes = {chat, voice}
    HoldAmount = 2
    Hold <- MCHold
    Payables = {3}
    InitialBalance = 4
    Credits = {}
    Debits = {}
    MaxDeposited = 0
    MaxSpent = 0
    MaxSessions = 2
SYMMETRY Symmetry
SPECIFICATION Spec
INVARIANTS TypeOK NoDoubleCharge ChargeWithinHold CompletedIsSettled
