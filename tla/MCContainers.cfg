SPECIFICATION ProgramSpec
CONSTANTS
  Nil = Nil
  Values <- MCValues
  MaxLen = 7
  TreeKeys <- MCTreeKeys
  Copies <- MCCopies
  TreeSize = 6
  Slots = {s, t}
  Seeds <- MCSeeds
  ListElements <- MCListElements
  ListNodes = 3
  DictKeys <- MCDictKeys
  DictNodes = 4
INVARIANTS ContainersTypeOK ContainersServeRight
PROPERTIES PushAndPopRight ImplementsLists
