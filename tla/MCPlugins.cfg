\* Motions of up to five keys.  Six motions in a ring of four, over a period of three.  Two editors,
\* set up three times between them.  Two editors in any two of three projects.
SPECIFICATION AllSpec
CONSTANTS
  Keys = {"3", "d", "i", "w", "v", "f", "g", "o"}
  Digits = {"3"}
  MaxTyped = 5
  Motions = {"j", "dd"}
  apm_repeat_count = 2
  apm_period = 3
  RingSize = 4
  Unit = 6
  MaxMotions = 6
  MotionGap = 1
  ReportGap = 2
  Editors = {e1, e2}
  MaxSetups = 3
  MaxEvents = 2
  MaxClock = 1
  Nvims = {n1, n2}
  Projects = {"p", "q", "r"}
  Files = {"a", "b"}
  Hole = "hole"
  Empty = "(empty)"
  Lists <- Menus
  FirstMarks <- Unmarked
  MaxIdx = 2
  MaxOps = 4
SYMMETRY EditorsAlike
INVARIANTS
  MotionsRecognised
  SumIsWindow
  FilesKept
\* Nothing more is typed, or done, in the end.
CHECK_DEADLOCK FALSE
