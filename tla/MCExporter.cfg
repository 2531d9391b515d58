SPECIFICATION ExporterSpec
CONSTANTS
  Main = main
  NoMethod = NoMethod
  f = f
  mt = mt
  mu = mu
  T = T
  U = U
  W = W
  I = I
  v = v
  x = x
  y = y
  Funcs = {main, f, mt, mu}
  Types = {T, U, W, I}
  Interfaces = {I}
  Values = {v}
  Names = {x, y}
  Programs <- MCPrograms
  NoProgram = NoProgram
  main = pkg_main
  heap = pkg_heap
  utils = pkg_utils
  debug = pkg_debug
  Packages = {pkg_main, pkg_heap, pkg_utils, pkg_debug}
  MainPackage = pkg_main
  Texts <- MCTexts
  Sources <- MCSources
  Basic <- MCBasic
  Alphabet <- MCAlphabet
  MaxIters = 16
INVARIANTS ExporterTypeOK MergesWhatIsNeeded WritesLastGood MeaningKept NoGenericsLeft TractableCompiles KeepsWhatIsUsed KeepsOnlyWhatIsUsed
