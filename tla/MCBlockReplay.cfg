SPECIFICATION FairSpec
CONSTANTS
    x = x
    y = y
    a = a
    d = d
    Leaf <- MCLeaf
    Class <- MCClass
    Absent <- MCAbsent
    AtParent <- MCAtParent
    Blocks <- MCBlocks
    Requests <- MCRequests
    Zero = Zero
    Old = Old
    Wrong = Wrong
    NotHeld = NotHeld
    ContractNotFound = ContractNotFound
INVARIANT TypeOK
INVARIANT PrestateIsTheSequencers
INVARIANT RefusalStopsTheBlock
INVARIANT RefusalsHaveACause
INVARIANT DiffIsOfTheWholeBlock
PROPERTY ReplayEnds
CHECK_DEADLOCK FALSE
