CONSTANTS
  Clients = {c1, c2, c3}
  MaxSlots = 2
  MaxDepth = 3
  FORWARD_MAX_PARAMS = 2
SPECIFICATION Spec
SYMMETRY ClientSymmetry
CHECK_DEADLOCK FALSE
INVARIANTS TypeOK HandlesExclusive FreeListSound NoSlotLost RunningSlotKept ArrayKeptUntilReset
