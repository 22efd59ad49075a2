CONSTANTS
  main = main
  f = f
  g = g
  u = u
  NoName = NoName
  Name <- MCName
  Programs <- MCPrograms
  MaxIters = 2
SPECIFICATION FairSpec
INVARIANTS TypeOK PassengerUnique BodiesComplete ReachesCallGraph
PROPERTIES ImplementsRecording WalkEnds
CHECK_DEADLOCK FALSE
