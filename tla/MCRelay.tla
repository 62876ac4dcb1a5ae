------------------------------- MODULE MCRelay -------------------------------
EXTENDS Relay

CONSTANTS d1, v1
=============================================================================
