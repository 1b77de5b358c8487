CONSTANTS
  Jobs = {j1, j2, j3}
  NoJob = NoJob
  Platforms = {"windows", "posix"}
  MayPause = TRUE
  MayStop = TRUE
SPECIFICATION Spec
CHECK_DEADLOCK FALSE
INVARIANTS TypeOK LocksOutliveUsers FIFO PauseBound
PROPERTIES JobsServed LostSignalHeals BusyStopReturns Implements
