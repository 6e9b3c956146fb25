----------------------------- MODULE MCRthBoard -----------------------------
EXTENDS RthBoard
=============================================================================
