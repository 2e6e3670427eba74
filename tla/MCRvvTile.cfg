SPECIFICATION TileSpec
CONSTANTS
    Kernels <- MCKernels
    TilesM = 2
    TilesN = 2
    Blocks = 3
    KcBlocks = 2
    Iterations = 2
    MayWrap <- MCMayWrap
INVARIANTS
    OutputIsProduct
    SumsAreExact
