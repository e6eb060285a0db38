SPECIFICATION Spec
CONSTANTS
    Getter = getter
    Returners = {r1}
    NoOne = noOne
    MaxDials = 3
    MaxOutages = 1
    MaxNotices = 1
    MaxRefusals = 1
INVARIANTS TypeOK OneLiveConnection WatchedConnection
PROPERTIES RecoveryEnds VerifyReturnsWhenUp
