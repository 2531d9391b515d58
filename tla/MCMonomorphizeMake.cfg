SPECIFICATION Spec
CONSTANTS
  Files <- MCFiles
  Basic <- MCBasic
  Alphabet <- MCAlphabet
  MaxIters = 10
CHECK_DEADLOCK FALSE
INVARIANT EveryVersionCompiles
