CONSTANTS
    DeviceTypes = {"EVSE"}
    MaxMoves = 1
SPECIFICATION Spec
INVARIANT ShutdownIsGraceful
CHECK_DEADLOCK FALSE
