\* Two clients, one of which may vanish, and an interrupt at any moment.
SPECIFICATION Spec
CONSTANTS
  c1 = c1
  c2 = c2
  Clients = {c1, c2}
  Droppers = {c2}
  Interruptible = TRUE
  MaxLoad = 1
INVARIANTS
  CountsAgree
  ClosesEmpty
PROPERTIES
  KeepsPromise
  ShutsDown
  RowCatchesUp
\* The process ends.
CHECK_DEADLOCK FALSE
