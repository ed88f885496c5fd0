CONSTANTS
    client = client
    expert = expert
    c0 = c0
    e0 = e0
    Nobody = Nobody
    ClientSockets = {c1}
    ExpertSockets = {e1}
    Actors <- MCActors
    Connections <- MCSockets
    Owner <- MCOwner
    First <- MCFirst
    Registers <- MCRegisters
    MaxComputing = 2
    MaxResumes = 1
CHECK_DEADLOCK FALSE
SPECIFICATION GraceFairSpec
INVARIANTS GraceTypeOK TabProtects
PROPERTIES AbsenceCloses
