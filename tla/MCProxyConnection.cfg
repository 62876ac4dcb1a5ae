\* Two packets each way, channels that hold one, a client that may vanish; three clients for an
\* accept loop whose channel holds one; three reads for a reader whose channel holds one.
SPECIFICATION AllSpec
CONSTANTS
  ClientPackets = 2
  ServerPackets = 2
  ChanCap = 1
  Vanishes = TRUE
  Clients = {c1, c2, c3}
  ChCap = 1
  OutCap = 1
  FramerCap = 1
  MaxReads = 3
INVARIANTS
  AnswerFirst
  InOrder
  AroundSafe
PROPERTIES
  NothingAfterGoodbye
  EveryoneIsServed
\* The connection ends.
CHECK_DEADLOCK FALSE
