SPECIFICATION ImeSpec
CONSTANTS
    Kernels <- MCKernels
    Depths <- MCDepths
    TilesM = 2
    TilesN = 2
    McTiles = 1
    NcTiles = 1
    Iterations = 2
INVARIANTS
    OutputIsProduct
    PendingComponents
