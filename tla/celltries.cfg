CONSTANTS
  Chars = {1, 2, 3}
  MaxChar = 3
  BaseSize = 4
  NoValue = NoValue
  NULL = NULL
  Keys <- TrieKeys
  Writes <- TrieWrites
  MaxTries = 1
  MaxCreates = 2
SPECIFICATION Spec
INVARIANT TypeOK
INVARIANT NoOrphans
INVARIANT TriesAreDictionaries
PROPERTY BlocksLostWithTrie
PROPERTY RootKept
CHECK_DEADLOCK FALSE
