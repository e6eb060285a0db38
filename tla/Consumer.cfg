SPECIFICATION Spec
CONSTANTS
    Messages = {m1}
    AutoAcks = {TRUE, FALSE}
    HasActions = {TRUE, FALSE}
    Chans = {c1, c2}
    Stoppers = {s1, s2}
    None = none
    MaxStarts = 2
    BufCap = 1
    ErrCap = 1
    Prefetch = 1
    MaxDeaths = 1
    MaxCancels = 1
SYMMETRY Symmetry
CHECK_DEADLOCK FALSE
INVARIANTS TypeOK AckableNeverLost ChannelsComeBack StartedWhileRunning
