SPECIFICATION ServiceSpec
CONSTANTS
    Messages = {}
    AutoAcks = {TRUE}
    HasActions = {FALSE}
    Chans = {c1}
    Stoppers = {s1, s2}
    None = none
    MaxStarts = 1
    BufCap = 1
    ErrCap = 1
    Prefetch = 0
    MaxDeaths = 2
    MaxCancels = 0
    CentralCap = 1
CHECK_DEADLOCK FALSE
PROPERTIES ShutdownEndsLoop ShutdownReturns ErrorsReachHandler GoroutinesEnd ConsumerRecovers
