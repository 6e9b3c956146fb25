CONSTANTS
    MaxRequests = 2
    Mishaps <- NoMishaps
    MaxMishaps = 0
SPECIFICATION Spec
INVARIANT AnsweredAsAsked
CHECK_DEADLOCK FALSE
