SPECIFICATION Spec
CONSTANTS
  Keys <- TenKeys
  Copies <- Once
  MaxSize = 10
  Overrides <- Inserting
  IterDirs <- BothWays
  MaxIterated = 4
  Nil = Nil
INVARIANTS RBTypeOK RedBlack IterationMissesNothing
PROPERTIES HandlesStayValid FixupsEnd ImplementsSortedList
