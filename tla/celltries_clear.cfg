CONSTANTS
  Chars = {1, 2, 3}
  MaxChar = 3
  BaseSize = 4
  NoValue = NoValue
  NULL = NULL
  Keys <- TrieKeys
  Writes <- TrieWrites
  MaxTries = 1
  MaxCreates = 1
SPECIFICATION Spec
PROPERTY ClearForgets
CHECK_DEADLOCK FALSE
