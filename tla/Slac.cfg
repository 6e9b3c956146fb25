CONSTANTS
    NumRetries <- Retries
    NumSounds = 2
    Levels = {"good", "far"}
    LineLength = 3
    MaxRuns = 2
    MaxCrosstalk = 1
SPECIFICATION Spec
INVARIANTS TypeOK KeyOnlyOnRequest MatchedTogether OnlySearchesFail
PROPERTIES EvseFollows PevFollows
CHECK_DEADLOCK FALSE
