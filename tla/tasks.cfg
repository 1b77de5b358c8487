CONSTANTS
  Tokens = {t1, t2}
  NoToken = NoToken
  Ids = {1, 2}
  Bases = {1}
  NewBases = {2}
  Repeats = {0, 2}
  Flags = {"once", "a", "b"}
  Kinds = {"normal", "after", "before"}
  OneSecond = 1
  MaxTasks = 2
  MaxTime = 3
SPECIFICATION Spec
SYMMETRY TokenSymmetry
CHECK_DEADLOCK FALSE
INVARIANTS TypeOK TaskOwnsForward NeverEarly FrameServesDue
PROPERTY RetiredAfterAllRuns
