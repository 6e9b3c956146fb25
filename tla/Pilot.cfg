CONSTANTS
    Readings <- MCReadings
    NumParts = 3
    MaxLate = 3
SPECIFICATION Spec
INVARIANTS TypeOK LagBounded StaleNeedsBacklog
PROPERTIES ChangeIsMeasured SampleEnds
CHECK_DEADLOCK FALSE
