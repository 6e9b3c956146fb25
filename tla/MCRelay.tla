------------------------------- MODULE MCRelay -------------------------------
EXTENDS Relay

AllMishaps == {"drop", "loss", "split", "exit"}
NoMishaps == {}
=============================================================================
