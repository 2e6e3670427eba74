CONSTANTS
    Threads = 2
    TilesM = 3
    TilesN = 2
    BlocksK = 3
    RedBatchSize = 2
    TcmBuffers = {tcm}
    Iterations = 2
    Undefined = Undefined
    RrTilesM = 7
    RrTilesN = 3
    RrBlocksK = 2
    MTilesPerChunk = 4
    TilesPerScaleLoad = 2
SPECIFICATION SequenceSpec
INVARIANT ProductsAreRight
INVARIANT BuffersReturned
