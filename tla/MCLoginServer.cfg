SPECIFICATION LoginSpec
CONSTANTS
    MaxConns = 2
    ThreadNums = {0, 1}
    SndCap = 1
    Request = 2
    Answer = 1
    Clients <- MCClients
    OtherIn = 1
    OtherOut = {0, 2}
INVARIANTS AssertsHold DestroyedClean NoFunctorAsleep
PROPERTIES CallbackOrder Reaped
CHECK_DEADLOCK FALSE
