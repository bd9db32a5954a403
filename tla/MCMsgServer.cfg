SPECIFICATION MsgFairSpec
CONSTANTS
    NumAddrs = 2
    NumHandles = 2
    Names = {"ann", "Ann", "bob"}
    Ids = {1, 2}
    IdOf <- MCIdOf
    MaxAccepts = 2
    MaxReqs = 3
INVARIANTS
    UserIdMapSound
    OpenConnFound
    DeliveredToOwner
PROPERTIES
    IdentityStable
    EveryConnSettles
CHECK_DEADLOCK FALSE
