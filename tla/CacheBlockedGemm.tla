--------------------------- MODULE CacheBlockedGemm ---------------------------
(***************************************************************************)
(* The cache-blocked kernel adapters (m4i-CB, m8b-CB and m8b-DPU-CB):      *)
(* prepare() packs the activations panel by panel, and every iteration of  *)
(* run() walks the K panels and the chunks of M tiles, a parallel loop     *)
(* over the N tiles in each, accumulating in a packed C that is copied out *)
(* at the end.  The pre-unpacking adapter (m8b-DPU-CB) also expands B into *)
(* a buffer of the iteration's own and packs A without padding.            *)
(*                                                                         *)
(* Addresses are those of the code, in blocks and tiles.  A sum of block   *)
(* products is the sequence of its terms in the order of the additions:    *)
(* floating-point addition is not associative, so only the same sequence   *)
(* is sure to be the same number.                                          *)
(***************************************************************************)
EXTENDS Integers, Sequences

CONSTANTS
    TilesM, TilesN, BlocksK,   \* the shape, in tiles and blocks
    Adapters,                  \* the adapters, each with its constexpr values
    Threads,                   \* state.threads
    Iterations,                \* the argument of run()
    Undefined                  \* memory nobody has written

\* blocks_per_panel: kBlocksPerPanel; block_bytes: an activation block with its
\* scales; budget: kAChunkBudgetBytes; pre_unpack: whether it is m8b-DPU-CB.
Adapter ==
    [blocks_per_panel : Nat \ {0}, block_bytes : Nat \ {0}, budget : Nat, pre_unpack : BOOLEAN]

ASSUME CacheBlockedGemmAssumption ==
    /\ TilesM \in Nat \ {0} /\ TilesN \in Nat \ {0} /\ BlocksK \in Nat \ {0}
    /\ Adapters \subseteq Adapter
    /\ Threads \in Nat \ {0} /\ Iterations \in Nat \ {0}

VARIABLES
    adapter,         \* the adapter that runs
    at,              \* before prepare(), or the parallel loop that runs
    iteration,       \* iterations that are complete
    block_k,         \* first block of the panel
    chunk_begin,     \* first M tile of the chunk
    tile,            \* each worker's loop index: an N tile, or an M tile
    inner,           \* each worker's inner index: the other kind of tile
    step,            \* "fill", "load" or "store": where the worker is in a tile
    sum,             \* the tile a worker holds in registers
    packed_a,        \* the activation block at each block address
    unpacked_b,      \* the expanded weight block at each block address
    packed_c,        \* the accumulated tiles, by tile address
    output           \* the output tiles

loops == <<at, iteration, block_k, chunk_begin>>
workers == <<tile, inner, step, sum>>
vars == <<adapter, loops, workers, packed_a, unpacked_b, packed_c, output>>

Worker == 0 .. Threads - 1

BlocksPerPanel == adapter.blocks_per_panel
PreUnpack == adapter.pre_unpack

Lesser(a, b) == IF a < b THEN a ELSE b
Greater(a, b) == IF a > b THEN a ELSE b

----------------------------------------------------------------------------
(* The address arithmetic. *)

LocalBlocks(k) == Lesser(BlocksPerPanel, BlocksK - k)

\* Block addresses between two M tiles of a panel.
Stride(k) == IF PreUnpack THEN LocalBlocks(k) ELSE BlocksPerPanel

PanelBase(k) ==
    IF PreUnpack THEN k * TilesM ELSE (k \div BlocksPerPanel) * TilesM * BlocksPerPanel

\* Where prepare() puts a block.
Destination(k, m, local) == PanelBase(k) + m * Stride(k) + local

\* Fault: the reader takes the panels for the other adapter's.
OperandOtherLayout(k, m) ==
    PanelBase(k) + m * (IF PreUnpack THEN BlocksPerPanel ELSE LocalBlocks(k))

\* Where run() lets the micro kernel start to read.
Operand(k, m) == PanelBase(k) + m * Stride(k)

Panels == (BlocksK + BlocksPerPanel - 1) \div BlocksPerPanel

AddressesOfA ==
    0 .. (IF PreUnpack THEN TilesM * BlocksK ELSE Panels * TilesM * BlocksPerPanel) - 1

\* The weights are packed [N tile][K block].
PackedB(address) == <<address \div BlocksK, address % BlocksK>>

OperandB(k, n) == n * BlocksK + k

\* Fault: the rows of tiles are as long as the columns.
TileOfWrongStride(m, n) == m * TilesM + n

TileOf(m, n) == m * TilesN + n

ChunkTiles(k) ==
    Greater(1, Lesser(TilesM, adapter.budget \div (Stride(k) * adapter.block_bytes)))

ChunkEnd == Lesser(TilesM, chunk_begin + ChunkTiles(block_k))

----------------------------------------------------------------------------
Init ==
    /\ adapter \in Adapters
    /\ at = "prepare" /\ iteration = 0 /\ block_k = 0 /\ chunk_begin = 0
    /\ tile = [w \in Worker |-> 0] /\ inner = [w \in Worker |-> 0]
    /\ step = [w \in Worker |-> "fill"] /\ sum = [w \in Worker |-> <<>>]
    /\ packed_a = [address \in AddressesOfA |-> Undefined]
    /\ unpacked_b = [address \in 0 .. TilesN * BlocksK - 1 |-> Undefined]
    /\ packed_c = [address \in 0 .. TilesM * TilesN - 1 |-> <<>>]
    /\ output = [mn \in (0 .. TilesM - 1) \X (0 .. TilesN - 1) |-> <<>>]

\* schedule(static): contiguous shares, the first ones longer by one.
ShareBegin(w, count) == w * (count \div Threads) + Lesser(w, count % Threads)

\* A parallel loop over count iterations begins; its inner loop begins at first.
Fork(loop, count, first) ==
    /\ at' = loop
    /\ tile' = [w \in Worker |-> ShareBegin(w, count)]
    /\ inner' = [w \in Worker |-> first]
    /\ step' = [w \in Worker |-> "fill"]
    /\ sum' = [w \in Worker |-> <<>>]

Count == IF at = "unpack_c" THEN TilesM ELSE TilesN

Busy(w) ==
    /\ at \in {"unpack_b", "compute", "unpack_c"}
    /\ tile[w] < ShareBegin(w + 1, Count)
    /\ at = "compute" => inner[w] < ChunkEnd

\* Every parallel loop ends in a barrier.
Joined == \A w \in Worker : ~ Busy(w)

\* The first loop of an iteration.
Enter ==
    IF PreUnpack
    THEN /\ Fork("unpack_b", TilesN, 0)
         /\ unpacked_b' = [address \in DOMAIN unpacked_b |-> Undefined]
    ELSE Fork("compute", TilesN, 0) /\ UNCHANGED unpacked_b

\* prepare(): the activations are copied from [M tile][K block] to
\* [K panel][M tile][local block]; then run() begins.
Prepare ==
    /\ at = "prepare"
    /\ packed_a' = [address \in AddressesOfA |->
           LET sources == { source \in (0 .. TilesM - 1) \X (0 .. BlocksK - 1) :
                              LET k     == source[2]
                                  local == k % BlocksPerPanel
                              IN  Destination(k - local, source[1], local) = address }
           IN  IF sources = {} THEN Undefined ELSE CHOOSE source \in sources : TRUE]
    /\ Enter
    /\ UNCHANGED <<adapter, iteration, block_k, chunk_begin, packed_c, output>>

----------------------------------------------------------------------------
\* The pre-unpacking loop: all panels of one N tile.
UnpackB(w) ==
    /\ at = "unpack_b" /\ Busy(w)
    /\ unpacked_b' = [address \in DOMAIN unpacked_b |->
           IF address \in OperandB(0, tile[w]) .. OperandB(BlocksK - 1, tile[w])
           THEN PackedB(address) ELSE unpacked_b[address]]
    /\ tile' = [tile EXCEPT ![w] = @ + 1]
    /\ UNCHANGED <<adapter, loops, inner, step, sum, packed_a, packed_c, output>>

\* The tile is zeroed for the first panel; the pre-unpacking adapter leaves
\* that to its micro kernel.
Fill(w) ==
    /\ at = "compute" /\ Busy(w) /\ step[w] = "fill"
    /\ packed_c' = IF block_k = 0 /\ ~ PreUnpack
                   THEN [packed_c EXCEPT ![TileOf(inner[w], tile[w])] = <<>>]
                   ELSE packed_c
    /\ step' = [step EXCEPT ![w] = "load"]
    /\ UNCHANGED <<adapter, loops, tile, inner, sum, packed_a, unpacked_b, output>>

\* Fault: the first panel adds to what the last iteration has left.
LoadAlways(w) ==
    /\ at = "compute" /\ Busy(w) /\ step[w] = "load"
    /\ sum' = [sum EXCEPT ![w] = packed_c[TileOf(inner[w], tile[w])]]
    /\ step' = [step EXCEPT ![w] = "store"]
    /\ UNCHANGED <<adapter, loops, tile, inner, packed_a, unpacked_b, packed_c, output>>

\* The micro kernel takes the tile into registers; first_kc makes it zero.
Load(w) ==
    /\ at = "compute" /\ Busy(w) /\ step[w] = "load"
    /\ sum' = [sum EXCEPT ![w] = IF block_k = 0 /\ PreUnpack THEN <<>>
                                 ELSE packed_c[TileOf(inner[w], tile[w])]]
    /\ step' = [step EXCEPT ![w] = "store"]
    /\ UNCHANGED <<adapter, loops, tile, inner, packed_a, unpacked_b, packed_c, output>>

\* The products of a panel, in the order in which they are added.
Products(m, n) ==
    [ i \in 1 .. LocalBlocks(block_k) |->
        LET b == OperandB(block_k, n) + i - 1
        IN  <<packed_a[Operand(block_k, m) + i - 1],
              IF PreUnpack THEN unpacked_b[b] ELSE PackedB(b)>> ]

\* The micro kernel adds the panel's products and stores the tile; the worker
\* goes on to the next M tile, then to the next N tile.
Store(w) ==
    /\ at = "compute" /\ Busy(w) /\ step[w] = "store"
    /\ packed_c' = [packed_c EXCEPT ![TileOf(inner[w], tile[w])] =
                                        sum[w] \o Products(inner[w], tile[w])]
    /\ sum' = [sum EXCEPT ![w] = <<>>]
    /\ step' = [step EXCEPT ![w] = "fill"]
    /\ IF inner[w] + 1 < ChunkEnd
       THEN inner' = [inner EXCEPT ![w] = @ + 1] /\ UNCHANGED tile
       ELSE inner' = [inner EXCEPT ![w] = chunk_begin] /\ tile' = [tile EXCEPT ![w] = @ + 1]
    /\ UNCHANGED <<adapter, loops, packed_a, unpacked_b, output>>

\* A tile is copied from the packed C to the output.
UnpackC(w) ==
    /\ at = "unpack_c" /\ Busy(w)
    /\ output' = [output EXCEPT ![<<tile[w], inner[w]>>] = packed_c[TileOf(tile[w], inner[w])]]
    /\ IF inner[w] + 1 < TilesN
       THEN inner' = [inner EXCEPT ![w] = @ + 1] /\ UNCHANGED tile
       ELSE inner' = [inner EXCEPT ![w] = 0] /\ tile' = [tile EXCEPT ![w] = @ + 1]
    /\ UNCHANGED <<adapter, loops, step, sum, packed_a, unpacked_b, packed_c>>

----------------------------------------------------------------------------
(* The main thread between two parallel loops. *)

\* B is expanded; the panels begin.
FirstPanel ==
    /\ at = "unpack_b" /\ Joined
    /\ Fork("compute", TilesN, 0)
    /\ UNCHANGED <<adapter, iteration, block_k, chunk_begin, packed_a, unpacked_b, packed_c, output>>

\* Fault: nobody waits for the slowest worker (nowait on the loop).
NextChunkNowait ==
    /\ at = "compute" /\ \E w \in Worker : ~ Busy(w)
    /\ chunk_begin + ChunkTiles(block_k) < TilesM
    /\ chunk_begin' = chunk_begin + ChunkTiles(block_k)
    /\ Fork("compute", TilesN, chunk_begin')
    /\ UNCHANGED <<adapter, iteration, block_k, packed_a, unpacked_b, packed_c, output>>

\* Fault: chunk_begin = chunk_tiles.
NextChunkAssigning ==
    /\ at = "compute" /\ Joined
    /\ chunk_begin + ChunkTiles(block_k) < TilesM
    /\ chunk_begin' = ChunkTiles(block_k)
    /\ Fork("compute", TilesN, chunk_begin')
    /\ UNCHANGED <<adapter, iteration, block_k, packed_a, unpacked_b, packed_c, output>>

\* chunk_begin += chunk_tiles
NextChunk ==
    /\ at = "compute" /\ Joined
    /\ chunk_begin + ChunkTiles(block_k) < TilesM
    /\ chunk_begin' = chunk_begin + ChunkTiles(block_k)
    /\ Fork("compute", TilesN, chunk_begin')
    /\ UNCHANGED <<adapter, iteration, block_k, packed_a, unpacked_b, packed_c, output>>

LastChunk == at = "compute" /\ Joined /\ chunk_begin + ChunkTiles(block_k) >= TilesM

\* block_k += kBlocksPerPanel
NextPanel ==
    /\ LastChunk /\ block_k + BlocksPerPanel < BlocksK
    /\ block_k' = block_k + BlocksPerPanel /\ chunk_begin' = 0
    /\ Fork("compute", TilesN, 0)
    /\ UNCHANGED <<adapter, iteration, packed_a, unpacked_b, packed_c, output>>

\* After the last panel the tiles are copied out.
CopyOut ==
    /\ LastChunk /\ block_k + BlocksPerPanel >= BlocksK
    /\ Fork("unpack_c", TilesM, 0)
    /\ UNCHANGED <<adapter, iteration, block_k, chunk_begin, packed_a, unpacked_b, packed_c, output>>

\* The end of an iteration, and of run().
NextIteration ==
    /\ at = "unpack_c" /\ Joined
    /\ iteration' = iteration + 1 /\ block_k' = 0 /\ chunk_begin' = 0
    /\ IF iteration' < Iterations THEN Enter
       ELSE at' = "done" /\ UNCHANGED <<workers, unpacked_b>>
    /\ UNCHANGED <<adapter, packed_a, packed_c, output>>

Main == Prepare \/ FirstPanel \/ NextChunk \/ NextPanel \/ CopyOut \/ NextIteration

Work(w) == UnpackB(w) \/ Fill(w) \/ Load(w) \/ Store(w) \/ UnpackC(w)

Next ==
    \/ Main
    \/ \E w \in Worker : Work(w)
    \/ at = "done" /\ UNCHANGED vars

Spec == Init /\ [][Next]_vars

\* Main thread and workers are threads of their own, each on a core.
FairSpec == Spec /\ WF_vars(Main) /\ \A w \in Worker : WF_vars(Work(w))

----------------------------------------------------------------------------
\* The first blocks of the scalar product of a row and a column of tiles, added
\* in the order of K.
Product(m, n, blocks) == [ i \in 1 .. blocks |-> << <<m, i - 1>>, <<n, i - 1>> >> ]

\* Of two workers in the compute loop none touches the tile the other works on.
OneWriter ==
    at = "compute" =>
        \A v, w \in Worker : Busy(v) /\ Busy(w) /\ v # w =>
            TileOf(inner[v], tile[v]) # TileOf(inner[w], tile[w])

\* Between two parallel loops the accumulator holds, of the tiles of the chunks
\* that are through, all blocks up to the end of this panel and, of the others,
\* all blocks before it.
PartialSums ==
    at = "compute" /\ Joined =>
        \A m \in 0 .. TilesM - 1, n \in 0 .. TilesN - 1 :
            IF m < ChunkEnd
            THEN packed_c[TileOf(m, n)] = Product(m, n, block_k + LocalBlocks(block_k))
            ELSE block_k > 0 => packed_c[TileOf(m, n)] = Product(m, n, block_k)

\* After every iteration the output is the product, every block added once and
\* in the order of K: whatever the shape, the threads and their interleaving,
\* the numbers are the same.
OutputIsProduct ==
    at \in {"unpack_b", "compute", "done"} /\ iteration > 0 =>
        \A m \in 0 .. TilesM - 1, n \in 0 .. TilesN - 1 :
            output[m, n] = Product(m, n, BlocksK)

\* run() comes to its end: the panels and, in each, the chunks of whatever length
\* run out, and no worker waits for another for ever at the end of a loop.
RunEnds == <>(at = "done")
=============================================================================
