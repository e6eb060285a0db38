SPECIFICATION Spec
CONSTANTS
    Messages = {}
    AutoAcks = {FALSE}
    HasActions = {TRUE}
    Chans = {c1}
    Stoppers = {s1, s2, s3}
    None = none
    MaxStarts = 1
    BufCap = 1
    ErrCap = 1
    Prefetch = 0
    MaxDeaths = 0
    MaxCancels = 0
CHECK_DEADLOCK FALSE
PROPERTY StopEndsLoop
