-------------------------------- MODULE MCSdp -------------------------------
EXTENDS Sdp

CONSTANTS dutEv, dutEvse, stranger

MCAddresses == {"EV", "EVSE", dutEv, dutEvse, stranger}
MCDutEvs    == {dutEv}
MCDutEvses  == {dutEvse}

\* 65535 of rth_statemachine.cpp:39, and 15118 = 0x3B0E.
MCTcpPort == [s \in {"EVSE", dutEvse} |-> IF s = "EVSE" THEN 65535 ELSE 15118]

\* A response with a stray byte in its length: a vehicle takes it, a station
\* does not.
MCNoise == {[DutResponse(stranger, 15118) EXCEPT !.length = <<0, 1, 0, 20>>]}
=============================================================================
