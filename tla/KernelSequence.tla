---------------------------- MODULE KernelSequence ----------------------------
(***************************************************************************)
(* The two kernels that borrow TCM, one after the other in one process: the *)
(* driver runs every selected kernel on the arenas its predecessors have    *)
(* used.  The scale outer-product kernel comes first, then the batch-       *)
(* reduction kernel.                                                        *)
(***************************************************************************)
EXTENDS BatchGemm

CONSTANTS
    RrTilesM, RrTilesN, RrBlocksK,      \* the shape in tiles of the first kernel
    MTilesPerChunk, TilesPerScaleLoad   \* its chunks and scale groups

VARIABLES rr_iteration, rr_tile_n, chunk_begin, block, rr_at, buffer, packed_c, rr_output

Rr == INSTANCE OuterProductGemm WITH
    TilesM <- RrTilesM, TilesN <- RrTilesN, BlocksK <- RrBlocksK,
    iteration <- rr_iteration, tile_n <- rr_tile_n, at <- rr_at, output <- rr_output

ASSUME RrAssumption == Rr!OuterProductGemmAssumption

batch == <<iteration, tile_m, tile_n, at, components, kernel, memory, output>>
rr == <<rr_iteration, rr_tile_n, chunk_begin, block, rr_at, buffer, packed_c, rr_output>>

SequenceInit == Rr!Init /\ Init

RunFirst == rr_iteration < Iterations /\ Rr!Next /\ UNCHANGED batch

RunSecond == rr_iteration = Iterations /\ Next /\ UNCHANGED rr

SequenceNext == RunFirst \/ RunSecond

SequenceSpec == SequenceInit /\ [][SequenceNext]_<<batch, rr, granted>>

----------------------------------------------------------------------------
\* Whatever its predecessor left in the buffers, each kernel ends with its product.
ProductsAreRight == Rr!OutputIsProduct /\ OutputIsProduct

\* A worker of the running kernel holds exactly the buffer it uses, and no two use
\* the same; the second kernel finds the arenas whole.
BuffersReturned ==
    IF rr_iteration < Iterations THEN Rr!HoldersMatch ELSE HoldersMatch
=============================================================================
