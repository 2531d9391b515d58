SPECIFICATION Spec
CONSTANTS
  Keys = {k1, k2, k3, k4}
  Values = {u, v}
  Absent = Absent
  Window = 2
  InitLog = 0
  MaxLog = 3
  Indices1 <- MCIndices1
  Indices2 <- MCIndices2
SYMMETRY Symmetry
INVARIANTS HTTypeOK MapUntilHidden
PROPERTIES SetIsRead
