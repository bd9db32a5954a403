SPECIFICATION ProxyPartsSpec
CONSTANTS
    Threads = {1, 2}
    NumThreads = 2
    MIN_DB_CONN_CNT = 1
    MaxDbConnCnt = 1
    Handles = {h1}
    MaxAccepts = 1
    MaxReqs = 3
    UuidSpace = 3
    Batches <- MCQueries
    Servers = {"db", "r1", "r2"}
    KindOf <- MCKinds
    MIN_RECONNECT_CNT = 2
    MAX_RECONNECT_CNT = 3
    ServerTimeout = 2
    NoServer = NoServer
INVARIANTS
    ConnExclusive NoConnLost NoLostWakeup
    MasterIsOldest PromptAfterSuccess SilentPeerDropped
PROPERTIES Answered EmptySlotRetried
CHECK_DEADLOCK FALSE
