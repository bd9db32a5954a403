SPECIFICATION MsgSpec
CONSTANTS
    NumAddrs = 2
    NumHandles = 2
    Names = {"ann"}
    Ids = {1, 2}
    IdOf <- MCOneName
    MaxAccepts = 2
    MaxReqs = 2
INVARIANTS
    OpenOnlyValidated
CHECK_DEADLOCK FALSE
