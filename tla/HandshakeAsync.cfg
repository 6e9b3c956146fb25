CONSTANTS
    RetryLimit = 3
    ReplyRounds = 2
    MaxLosses = 2
    MaxSkew = 0
SPECIFICATION Spec
INVARIANTS
    TypeOK
    BothTookPart
    EvFailsOnlyIfOverwritten
PROPERTY HandshakeEnds
CHECK_DEADLOCK FALSE
