\* A tower and a creep a side in the first round, which is played; the towers of the
\* second are placed.
SPECIFICATION Spec
CONSTANTS
  Rows = 5
  Cols = 4
  Farthest = 255
  TowerRows = 1
  TowerCols = 1
  TowerRounds = 3
  TowerAmmo = 2
  AmmoPerLevel = 1
  CreepLife = 1
  LifeRounds = 3
  Lists <- MCLists
  Stride = 1
  MaxRounds = 2
  PlayedRounds = 1
INVARIANTS
  CountersHold
  BoardServes
  CreepsOnTheirWay
PROPERTIES
  KeepsRounds
  RoundsEnd
\* The engine ends, fails, or has placed the towers of the last round.
CHECK_DEADLOCK FALSE
