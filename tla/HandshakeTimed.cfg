CONSTANTS
    RetryLimit = 10
    ReplyRounds = 3
    MaxLosses = 1
    MaxSkew = 9
SPECIFICATION TimedSpec
INVARIANT HandshakeSucceeds
CHECK_DEADLOCK FALSE
