SPECIFICATION TileSpec
CONSTANTS
    Kernels <- MCMayWrap
    TilesM = 1
    TilesN = 1
    Blocks = 1
    KcBlocks = 2
    Iterations = 1
    MayWrap <- MCMayWrap
INVARIANTS
    SumsMatchReference
