CONSTANTS
    Participants = {client, expert}
    Slots = {h1, h2}
    Modes = {"chat", "call"}
    Commands = {"hold", "resume", "end", "join", "switch"}
    FromLobby = FALSE
    CrashAnywhere = TRUE
    Budget = 2
    TopUp = 1
    Ttl = 2
    DialogGrace = 1
    LeaveGrace = 1
    MaxElapsed = 4
    MaxCommands = 3
    MaxArming = 2
    MaxCrashes = 1
SYMMETRY Symmetry
SPECIFICATION ClockSpec
INVARIANTS MeterCoversTalk
