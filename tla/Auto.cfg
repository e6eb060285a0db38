SPECIFICATION Spec
CONSTANTS
    Letters = {a, b}
    Nil = nil
    MaxStarts = 2
    QueueCap = 1
    Slots = 1
    ErrCap = 1
    StartRetryCount = 3
    MaxRetryCount = 4
    MaxStops = 2
CHECK_DEADLOCK FALSE
INVARIANTS TypeOK AtMostOneLoop LetterConserved AttemptsBounded NilOnlyAfterRestart
PROPERTIES AcceptedLetterSettled StopEndsLoop
