CONSTANTS
    DeviceTypes = {"EV", "EVSE"}
    MaxMoves = 3
SPECIFICATION Spec
INVARIANTS
    TypeOK
    SessionIsEquipped
    PwmOffBeforeUartCloses
    ExitGivesBack
PROPERTIES
    RemoteTimesOut
    SeenUnplugEndsSession
    SeenSignalEndsRun
CHECK_DEADLOCK FALSE
