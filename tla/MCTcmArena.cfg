CONSTANTS
    AddressLimit = 16
    MaxAllocations = 3
    Base = 7
    Size = 7
    Requests <- MCRequests
    Alignments <- MCAlignments
    Pointers <- MCPointers
    Null = Null
SPECIFICATION Spec
INVARIANT Coalesced
INVARIANT NoOverlap
INVARIANT NothingLost
INVARIANT FreeListBounded
INVARIANT NoFalseExhaustion
PROPERTY ImplementsRegionAllocator
