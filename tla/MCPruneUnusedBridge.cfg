SPECIFICATION Spec
CONSTANTS
  Main = main
  NoMethod = NoMethod
  f = f
  mt = mt
  mu = mu
  T = T
  U = U
  W = W
  I = I
  v = v
  x = x
  y = y
  Funcs = {main, f, mt, mu}
  Types = {T, U, W, I}
  Interfaces = {I}
  Values = {v}
  Names = {x, y}
  Programs <- MCPrograms
INVARIANT BridgeHolds
