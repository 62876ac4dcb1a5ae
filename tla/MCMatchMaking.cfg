\* Three goroutines, any of which may create a server; server 0 may retire,
\* server 1 may die, and one old copy of the stats may be written.
SPECIFICATION Spec
CONSTANTS
  c1 = c1
  c2 = c2
  c3 = c3
  Conns = {c1, c2, c3}
  MaxServers = 3
  MaxLoad = 1
  MaxStatWrites = 1
  Retires = {0}
  Flaky = {1}
INVARIANTS
  OneAtATime
  OnlyOvertakenMiss
PROPERTIES
  CreationEnds
  WaitersReleased
\* The behaviour ends when everyone is matched or the proxy has died.
CHECK_DEADLOCK FALSE
