\* A driver that streams an open frame and two more, a viewer that may leave or
\* stall, and channels that hold one.
SPECIFICATION RelaySpec
CONSTANTS
  None = None
  d1 = d1
  v1 = v1
  Drivers = {d1}
  Viewers = {v1}
  LastFrame = 2
  ChanCap = 1
  ConnsCap = 1
  MsgsCap = 1
  FramesCap = 1
  Leavers = {v1}
  Stallers = {v1}
INVARIANTS
  StreamsKept
PROPERTIES
  StreamsFlow
  LeaversForgotten
  NewcomersTold
\* Drivers finish, peers leave.
CHECK_DEADLOCK FALSE
