CONSTANTS
    Byte <- MCByte
    Lines <- MCLines
    BufferSize = 4
    MaxLength = 7
SPECIFICATION Spec
INVARIANT FramedAsAWhole
CHECK_DEADLOCK FALSE
