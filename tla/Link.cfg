CONSTANTS
    NumDown = 2
    NumUp = 2
    MaxMishaps = 1
SPECIFICATION Spec
INVARIANTS InOrder DeafForCause
PROPERTIES ComesUp Delivered
CHECK_DEADLOCK FALSE
