CONSTANTS
  Jobs = {j1, j2}
  NoJob = NoJob
  Platforms = {"windows"}
  MayPause = FALSE
  MayStop = TRUE
SPECIFICATION Spec
CHECK_DEADLOCK FALSE
PROPERTY StopReturns
