------------------------------ MODULE MCPilot -------------------------------
EXTENDS Pilot

\* 12 V, 9 V and 6 V with the oscillator on, and 10.4 V, which is no state.
MCReadings == {<<413, -413>>, <<310, -413>>, <<206, -413>>, <<358, -413>>}
=============================================================================
