SPECIFICATION Spec
CONSTANTS
  Keys <- ThreeKeys
  Copies <- Once
  MaxSize = 3
  Overrides <- Replacing
  IterDirs <- NoIteration
  MaxIterated = 0
  Nil = Nil
PROPERTIES ImplementsSortedList
