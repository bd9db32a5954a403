SPECIFICATION UrlSpec
CONSTANTS
    MaxHeaderSize = 60
    ULLONG_MAX = 4095
    Urls <- MCUrls
    Leftovers <- MCCleared
    Beyond = {" ", "a"}
    MaxPort = 99
    MaxParses = 2
INVARIANTS SchemaNeedsHost
CHECK_DEADLOCK FALSE
