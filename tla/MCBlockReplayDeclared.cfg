SPECIFICATION Spec
CONSTANTS
    x = x
    y = y
    a = a
    d = d
    Leaf <- MCLeaf
    Class <- MCClass
    Absent <- MCAbsent
    AtParent <- MCAtParent
    Blocks <- MCBlocks
    Requests <- MCRequests
    Zero = Zero
    Old = Old
    Wrong = Wrong
    NotHeld = NotHeld
    ContractNotFound = ContractNotFound
INVARIANT EveryClassRunWasLoaded
CHECK_DEADLOCK FALSE
