SPECIFICATION Spec
CONSTANTS
    Letters = {a}
    Nil = nil
    MaxStarts = 1
    QueueCap = 1
    Slots = 1
    ErrCap = 1
    StartRetryCount = 3
    MaxRetryCount = 3
    MaxStops = 0
CHECK_DEADLOCK FALSE
INVARIANT FailuresRetried
