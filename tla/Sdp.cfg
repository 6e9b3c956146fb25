CONSTANTS
    dutEv = dutEv
    dutEvse = dutEvse
    stranger = stranger
    NoAddress = NoAddress
    Empty = Empty
    Addresses <- MCAddresses
    DutEvs <- MCDutEvs
    DutEvses <- MCDutEvses
    TcpPort <- MCTcpPort
    Noise <- MCNoise
    MaxTries = 2
    MaxMishaps = 1
SPECIFICATION Spec
INVARIANTS TypeOK EndpointIsServed AnswerReachesVehicle FailureHasCause BoardsAgree
PROPERTY EvEnds
CHECK_DEADLOCK FALSE
