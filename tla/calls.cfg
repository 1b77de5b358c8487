CONSTANTS
  A = A
  B = B
  give = give
  take = take
  NULL = NULL
  Plugins = {A, B}
  Debug = {A}
  ErrorFilter = {A}
  NativeFilter = {B}
  Natives = {give, take}
  Home <- NativeHome
  Args = {1, 2}
  MaxDepth = 3
SPECIFICATION Spec
INVARIANT TypeOK
INVARIANT DynContext
INVARIANT DebugBalanced
INVARIANT NoStaleTrace
INVARIANT FilterFlags
