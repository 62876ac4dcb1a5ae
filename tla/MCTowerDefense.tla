--------------------------- MODULE MCTowerDefense ---------------------------
EXTENDS TowerDefense

\* A position that the first side builds on.  The other gets a random one of its own range
\* for it, or hurts the tower there once its range is the whole board.
MCLists == {<<<<0, 1>>>>}
=============================================================================
