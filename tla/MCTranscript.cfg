SPECIFICATION FairSpec
CONSTANTS
  v = v
  e = e
  Request <- MCRequest
  Results <- MCResults
  Errors <- MCErrors
  Unanswered = Unanswered
  NoFile = NoFile
  Torn = Torn
  Retries = 1
  MaxRuns = 3
  MaxAsks = 2
  MaxCrashes = 1
INVARIANTS TypeOK ServedAsAnswered ReplayReproduces HoldsEveryAnswer
PROPERTY EveryCallReturns
CHECK_DEADLOCK FALSE
