SPECIFICATION Spec
CONSTANTS
  Values <- MCValues
  MaxLen = 6
PROPERTIES ImplementsPriorityQueue
