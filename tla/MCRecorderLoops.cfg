SPECIFICATION Spec
CONSTANTS
  a = a
  z = z
  c = c
  d = d
  NoTable = NoTable
  Unreadable = Unreadable
  NoName = NoName
  NoTx = NoTx
  NoClass = NoClass
  NoValue = NoValue
  Unknown = Unknown
  NoFn = NoFn
  NoFunction = NoFunction
  Width = 3
  MaxIters = 3
  Programs <- MCPrograms
  Files <- MCFiles
  Bodies <- MCBodies
  Lookups <- MCLookups
INVARIANT LoopsCountIterations
CHECK_DEADLOCK FALSE
