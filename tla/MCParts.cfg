SPECIFICATION PartsSpec
CONSTANTS
    Base = 2
    kCheapPrepend = 1
    kInitialSize = 2
    ExtraSize = 2
    MaxBytes = 4
    MaxData = 2
    Headers <- MCHeaders
    Attachments <- MCAttachments
    ReadBufSize = 17
    MaxSent = 2
    MaxHeaderSize = 60
    ULLONG_MAX = 4095
    Samples <- MCSamples
    Urls <- MCUrls
    MaxPort = 99
    Leftovers <- MCLeftovers
    Beyond = {" ", "a"}
    MaxParses = 2
    Requests <- MCRequests
    Directories <- MCDirectories
    Target <- MCTarget
    MaxIn = 16
    Uint32 = 3
    MaxHttp = 2
    MaxReads = 2
    MsgServers = {1, 2}
    Handles = {1, 2}
    Types = {"login", "route"}
    CountMod = 8
    MaxLinks = 2
    MaxUsers = 2
    MaxChanges = 2
    WorkerKinds = {"logger", "client_logger", "http", "operation", "eventloop"}
    RollSize = 0
    MaxTasks = 3
    MaxSeconds = 2
INVARIANTS BufTypeOK PdusRoundTrip ParsedAsSent UrlTakenApart RequestAnswered CountsSound WorkerWakes LogsKept
PROPERTIES OpsOfQueue HttpSettles DirectoryCleared StopReturns
CHECK_DEADLOCK FALSE
