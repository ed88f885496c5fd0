CONSTANTS
    Participants = {client, expert}
    Slots = {h1}
    Modes = {"chat"}
    Commands = {"manual", "hold", "dialog", "resume", "end", "recharge", "join", "drop"}
    FromLobby = FALSE
    CrashAnywhere = FALSE
    Budget = 1
    TopUp = 1
    Ttl = 2
    DialogGrace = 1
    LeaveGrace = 2
    MaxElapsed = 4
    MaxCommands = 3
    MaxArming = 1
    MaxCrashes = 1
SPECIFICATION ClockFairSpec
INVARIANTS ClockTypeOK NeverBeyondRealTime MeterWithinBudget
PROPERTIES MeteringStops
