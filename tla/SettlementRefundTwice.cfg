CONSTANTS
    Consultations = {c1, c2}
    Requests = {r1, r2}
    NoOne = NoOne
    Modes = {chat, voice}
    HoldAmount = 2
    Hold <- MCHold
    Payables = {1}
    InitialBalance = 4
    Credits = {}
    Debits = {}
    MaxDeposited = 0
    MaxSpent = 0
    MaxSessions = 1
SYMMETRY Symmetry
SPECIFICATION Spec
PROPERTY NeverRefundTwice
