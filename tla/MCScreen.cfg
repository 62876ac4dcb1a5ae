\* A row of three cells, two connections.  Two particles in a grid of three columns and two rows.
SPECIFICATION AllSpec
CONSTANTS
  Rows = 1
  Cols = 3
  MaxClients = 2
  ParticleCount = 2
  X = 3
  Y = 2
  MaxLife = 3
  Speeds = {1, 4}
  Deviates <- Drifts
  Parts = 2
  MaxDelta = 2
  MaxNow = 3
  Blink = 2
INVARIANTS
  ClientsServed
  DrawnAsIs
PROPERTIES
  LeaversDropped
CHECK_DEADLOCK FALSE
