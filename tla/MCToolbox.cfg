SPECIFICATION ToolboxSpec
CONSTANTS
  Log2n = 3
  Size = 7
  Marks = {a, m}
  Bad = {m}
  Endpoints <- MCEndpoints
  MaxChanges = 2
  MaxSpoils = 1
  MaxN = 8
  Places = 3
  LowBits = 4
  Width = 5
  Added <- MCAdded
  MaxAdds = 4
  W = 8
  Mod = 3
  Words <- MCWords
  Matrices <- MCMatrices
  MapKeys <- MCMapKeys
  MapSize = 4
INVARIANTS ToolboxTypeOK Aggregates GetAnswersUntilSpoiled LongestAnswersWhenQuiet SolveIsRight ToolsAnswerRight
CHECK_DEADLOCK FALSE
