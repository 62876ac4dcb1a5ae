------------------------------ MODULE MCTDDriver ------------------------------
EXTENDS TDDriver

ThePairings == {<<"ai", "box">>, <<"rand", "twitch">>}
=============================================================================
