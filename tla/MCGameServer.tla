----------------------------- MODULE MCGameServer -----------------------------
EXTENDS GameServer

CONSTANTS c1, c2
=============================================================================
