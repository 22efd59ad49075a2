CONSTANTS
  main = main
  f = f
  g = g
  u = u
  NoName = NoName
  Name <- MCName
  Programs <- CallGraphs
  MaxIters = 2
SPECIFICATION Spec
INVARIANT ReturnValueSurfaces
CHECK_DEADLOCK FALSE
