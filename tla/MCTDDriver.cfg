\* Players of every kind, two rounds, a list of each chat per round.
SPECIFICATION DriverSpec
CONSTANTS
  Pairings <- ThePairings
  OutCap = 2
  MaxPolls = 1
  MaxRounds = 2
INVARIANTS
  NeverUndefined
  ThisRoundsOnly
PROPERTIES
  RoundsGoOn
\* The driver waits for a report that was not read by itself, and the game ends.
CHECK_DEADLOCK FALSE
