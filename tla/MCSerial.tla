------------------------------ MODULE MCSerial ------------------------------
EXTENDS Serial

CONSTANT MaxLength

\* Empty messages, messages of a start byte, and stray bytes.
MCByte  == {0, 1, 2, 3}
MCLines == UNION {[1 .. n -> MCByte] : n \in 0 .. MaxLength}
=============================================================================
