SPECIFICATION FairSpec
CONSTANT MaxTip <- MCMaxTip
INVARIANT TypeOK
INVARIANT FloorIsABoundary
INVARIANT FloorIsTheLowest
PROPERTY ProbeEnds
CHECK_DEADLOCK FALSE
