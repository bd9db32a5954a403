SPECIFICATION ProxyFairSpec
CONSTANTS
    Threads = {1, 2}
    NumThreads = 2
    MIN_DB_CONN_CNT = 1
    MaxDbConnCnt = 1
    Handles = {h1}
    MaxAccepts = 1
    MaxReqs = 1
    UuidSpace = 3
    Batches <- MCQueries
PROPERTIES
    ExitCompletes
CHECK_DEADLOCK FALSE
