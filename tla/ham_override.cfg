CONSTANTS
  spawn = spawn
  killed = killed
  NULL = NULL
  Functions = {spawn, killed}
  MaxForwards = 2
  MaxDepth = 2
  MaxExecuted = 2
SYMMETRY Symmetry
SPECIFICATION Spec
INVARIANT OverrideHonoured
