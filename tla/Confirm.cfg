SPECIFICATION Spec
CONSTANTS
    Calls = {k1, k2}
    Chans = {c1}
    None = none
    MaxDeaths = 1
    MaxNacks = 1
    MaxCopies = 4
INVARIANTS TypeOK SuccessMeansStored ChannelsAccountedFor RepublishNeedsFault
PROPERTY CallReturns
