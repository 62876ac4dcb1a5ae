\* Three votes for five messages, three rounds; four votes for three places, three ticks.
SPECIFICATION AllSpec
CONSTANTS
  Said <- TheSaid
  ValidMsg <- TheValid
  Places <- ThePlaces
  E = 2
  Newlines = 1
  MaxVotes = 3
  MaxRounds = 3
  Voted <- TheTiles
  BoardRows = 2
  BoardCols = 2
  MaxPlaceVotes = 4
  MaxTicks = 3
PROPERTIES
  WinnersLead
  NoOldVotes
  VotesTakeEffect
\* The chat ends.
CHECK_DEADLOCK FALSE
