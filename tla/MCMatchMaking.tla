---------------------------- MODULE MCMatchMaking ----------------------------
EXTENDS MatchMaking

CONSTANTS c1, c2, c3
=============================================================================
