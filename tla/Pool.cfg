SPECIFICATION Spec
CONSTANTS
    Users = {u1, u2}
    Owner = owner
    None = none
    MaxConnectionCount = 2
    MaxCacheChannelCount = 1
    MaxLosses = 1
    MaxRefusals = 1
CHECK_DEADLOCK FALSE
INVARIANTS TypeOK ExclusiveLoans PutNeverBlocks
PROPERTIES ChannelsLent ConnectionsLent ErredChannelComesBack TransientChannelServed ShutdownReturns
