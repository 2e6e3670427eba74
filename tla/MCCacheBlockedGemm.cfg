CONSTANTS
    TilesM = 3
    TilesN = 4
    BlocksK = 5
    Adapters <- MCAdapters
    Threads = 3
    Iterations = 2
    Undefined = Undefined
SPECIFICATION FairSpec
INVARIANT OneWriter
INVARIANT PartialSums
INVARIANT OutputIsProduct
PROPERTY RunEnds
