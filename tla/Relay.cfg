CONSTANTS
    MaxRequests = 3
    Mishaps <- AllMishaps
    MaxMishaps = 2
SPECIFICATION FairSpec
INVARIANTS
    AnswersOnce
    NoDuplicate
    AnswersMatch
PROPERTIES RelayedLikeACable EveryRequestAnswered
CHECK_DEADLOCK FALSE
