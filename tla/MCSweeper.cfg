\* Two rows of three cells: a bomb in a corner leaves cells that flood and cells that do not.
SPECIFICATION SweeperSpec
CONSTANTS
  Height = 2
  Width = 3
  Bombs = 1
  MaxVotes = 2
  Messages <- AnyMessages
INVARIANTS
  GameByRules
PROPERTIES
  PicksByRules
\* A pick off the board ends the process.
CHECK_DEADLOCK FALSE
