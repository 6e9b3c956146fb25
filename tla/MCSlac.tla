------------------------------- MODULE MCSlac -------------------------------
EXTENDS Slac

Retries == [pev |-> 1, evse |-> 1]
=============================================================================
