SPECIFICATION Spec
CONSTANTS
    Calls = {k1}
    Chans = {c1}
    None = none
    MaxDeaths = 0
    MaxNacks = 0
    MaxCopies = 2
INVARIANT OneCopyWithoutFault
