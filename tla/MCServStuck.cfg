SPECIFICATION ServFairSpec
CONSTANTS
    Servers = {"db"}
    KindOf <- MCDbOnly
    MIN_RECONNECT_CNT = 4
    MAX_RECONNECT_CNT = 64
    ServerTimeout = 30
    NoServer = NoServer
PROPERTIES
    AlwaysRetried
