SPECIFICATION ImPartsSpec
CONSTANTS
    Threads = {1, 2}
    NumThreads = 2
    MIN_DB_CONN_CNT = 1
    MaxDbConnCnt = 2
    Handles = {h1}
    MaxAccepts = 3
    MaxReqs = 2
    UuidSpace = 3
    Batches <- MCBatches
    Lens = {0, 2}
    SndCap = 2
    MaxPdus <- MCMaxPdus
INVARIANTS ReplyToAsker HandledOnce SameWorkerInOrder NoTaskAsleep
PROPERTIES PoolSpec ChannelSpec EventuallyHandled PeerCloseNoticed
CHECK_DEADLOCK FALSE
