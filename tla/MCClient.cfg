SPECIFICATION ClientSpec
CONSTANTS
    Handles = {1, 2}
    Invalid = 0
    MaxOps = 1
    MaxEvents = 1
    MaxClicks = 1
    MaxSent = 1
    Patient = FALSE
    MaxFaults = 1
INVARIANTS HandleReached

CHECK_DEADLOCK FALSE
PROPERTIES LostNoticed
