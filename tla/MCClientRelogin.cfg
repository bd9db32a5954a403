SPECIFICATION ClientFairSpec
CONSTANTS
    Handles = {1, 2}
    Invalid = 0
    MaxOps = 1
    MaxEvents = 1
    MaxClicks = 1
    MaxSent = 1
    Patient = TRUE
    MaxFaults = 1
PROPERTIES Reconnects
CHECK_DEADLOCK FALSE
