CONSTANTS
    NumDown = 1
    NumUp = 0
    MaxMishaps = 0
SPECIFICATION Spec
PROPERTY EachMessageHandled
CHECK_DEADLOCK FALSE
