-------------------------- MODULE OuterProductGemm --------------------------
(***************************************************************************)
(* The scale outer-product adapter (IME-RR): a parallel loop over the N    *)
(* tiles; a worker walks the chunks of M tiles and, within a chunk, the    *)
(* blocks, so that a weight tile stays in registers while the activations  *)
(* stream by.  The chunk's results are kept in a buffer that is borrowed   *)
(* from the TCM arena of the worker's CPU for one N tile, or on the stack. *)
(* Activation scales are packed for groups of tiles: the micro kernel      *)
(* loads a group and slides it down by a lane after each tile.             *)
(***************************************************************************)
EXTENDS Integers, Sequences

CONSTANTS
    Threads,                   \* state.threads
    TilesM, TilesN, BlocksK,   \* the shape, in tiles and blocks
    MTilesPerChunk,            \* kMTilesPerChunk
    TilesPerScaleLoad,         \* kImeRrActivationTilesPerScaleLoad
    TcmBuffers,                \* what the arenas can grant at one time
    Iterations,                \* the argument of run()
    Undefined                  \* a scale lane that prepare() leaves zero

Worker == 0 .. Threads - 1

\* What KernelSequence assumes of the constants.  A chunk begins at the first tile
\* of a group: the code relies on 128 being a multiple of 8.
OuterProductGemmAssumption ==
    /\ Threads \in Nat \ {0} /\ TilesM \in Nat \ {0} /\ TilesN \in Nat \ {0}
    /\ BlocksK \in Nat \ {0} /\ Iterations \in Nat \ {0}
    /\ MTilesPerChunk \in Nat \ {0} /\ TilesPerScaleLoad \in Nat \ {0}
    /\ MTilesPerChunk % TilesPerScaleLoad = 0
    /\ TcmBuffers \cap Worker = {}

VARIABLES
    iteration,       \* iterations that are complete
    tile_n,          \* each worker's N tile
    chunk_begin,     \* first M tile of its chunk
    block,           \* its K block
    at,              \* where each worker is
    buffer,          \* the buffer it keeps the chunk in
    packed_c,        \* contents of the buffers; a worker's number names its stack
    granted,         \* the buffers tcm::allocate has handed out
    output           \* the output tiles

loops == <<tile_n, chunk_begin, block>>
vars == <<iteration, loops, at, buffer, packed_c, granted, output>>

Lesser(a, b) == IF a < b THEN a ELSE b

\* schedule(static): contiguous shares, the first ones longer by one.
ShareBegin(w) == w * (TilesN \div Threads) + Lesser(w, TilesN % Threads)

HasTile(w) == tile_n[w] < ShareBegin(w + 1)

ChunkTiles(w) == Lesser(MTilesPerChunk, TilesM - chunk_begin[w])

----------------------------------------------------------------------------
(* What prepare() has put where: quantized tiles [K block][M tile], scales  *)
(* [K block][group][lane], weights [N tile][K block].                       *)

ScaleGroups == (TilesM + TilesPerScaleLoad - 1) \div TilesPerScaleLoad

QuantAt(address) == <<address % TilesM, address \div TilesM>>

ScaleAt(group, lane) ==
    LET m == (group % ScaleGroups) * TilesPerScaleLoad + lane
    IN  IF m < TilesM THEN <<m, group \div ScaleGroups>> ELSE Undefined

WeightAt(address) == <<address \div BlocksK, address % BlocksK>>

\* Fault: the scales of a block begin with those of the first chunk.
ScaleOfFirstChunk(w, i) ==
    ScaleAt(block[w] * ScaleGroups + i \div TilesPerScaleLoad, i % TilesPerScaleLoad)

\* The scale that has slid into the first lane for the i-th tile of the call.
ScaleOf(w, i) ==
    ScaleAt(block[w] * ScaleGroups + chunk_begin[w] \div TilesPerScaleLoad + i \div TilesPerScaleLoad,
            i % TilesPerScaleLoad)

\* What the micro kernel adds to the i-th tile of the chunk.
TermOf(w, i) ==
    << QuantAt(block[w] * TilesM + chunk_begin[w] + i),
       ScaleOf(w, i),
       WeightAt(tile_n[w] * BlocksK + block[w]) >>

----------------------------------------------------------------------------
Init ==
    /\ iteration = 0
    /\ tile_n = [w \in Worker |-> ShareBegin(w)]
    /\ chunk_begin = [w \in Worker |-> 0] /\ block = [w \in Worker |-> 0]
    /\ at = [w \in Worker |-> "acquire"]
    /\ buffer = [w \in Worker |-> w]
    /\ packed_c = [b \in Worker \cup TcmBuffers |-> [i \in 0 .. MTilesPerChunk - 1 |-> <<>>]]
    /\ granted = {}
    /\ output = [mn \in (0 .. TilesM - 1) \X (0 .. TilesN - 1) |-> <<>>]

Go(w, label) == at' = [at EXCEPT ![w] = label]

\* tcm::allocate() grants a buffer or refuses; then the stack is used.
Acquire(w) ==
    /\ at[w] = "acquire" /\ HasTile(w)
    /\ \/ \E b \in TcmBuffers \ granted :
            /\ granted' = granted \cup {b}
            /\ buffer' = [buffer EXCEPT ![w] = b]
       \/ buffer' = [buffer EXCEPT ![w] = w] /\ UNCHANGED granted
    /\ chunk_begin' = [chunk_begin EXCEPT ![w] = 0]
    /\ Go(w, "clear")
    /\ UNCHANGED <<iteration, tile_n, block, packed_c, output>>

\* A chunk begins: the tiles it has are zeroed.
Clear(w) ==
    /\ at[w] = "clear"
    /\ packed_c' = [packed_c EXCEPT ![buffer[w]] =
           [i \in DOMAIN @ |-> IF i < ChunkTiles(w) THEN <<>> ELSE @[i]]]
    /\ block' = [block EXCEPT ![w] = 0]
    /\ Go(w, "block")
    /\ UNCHANGED <<iteration, tile_n, chunk_begin, buffer, granted, output>>

\* The micro kernel applies one weight tile to all tiles of the chunk.
Block(w) ==
    /\ at[w] = "block"
    /\ packed_c' = [packed_c EXCEPT ![buffer[w]] =
           [i \in DOMAIN @ |-> IF i < ChunkTiles(w) THEN Append(@[i], TermOf(w, i)) ELSE @[i]]]
    /\ block' = [block EXCEPT ![w] = @ + 1]
    /\ Go(w, IF block[w] + 1 < BlocksK THEN "block" ELSE "unpack")
    /\ UNCHANGED <<iteration, tile_n, chunk_begin, buffer, granted, output>>

\* Fault: the buffer is given back when the first chunk is through.
UnpackReleasing(w) ==
    /\ at[w] = "unpack"
    /\ output' = [mn \in DOMAIN output |->
           IF mn[2] = tile_n[w] /\ mn[1] \in chunk_begin[w] .. chunk_begin[w] + ChunkTiles(w) - 1
           THEN packed_c[buffer[w]][mn[1] - chunk_begin[w]] ELSE output[mn]]
    /\ granted' = granted \ {buffer[w]}
    /\ chunk_begin' = [chunk_begin EXCEPT ![w] = @ + MTilesPerChunk]
    /\ Go(w, IF chunk_begin'[w] < TilesM THEN "clear" ELSE "release")
    /\ UNCHANGED <<iteration, tile_n, block, buffer, packed_c>>

\* The chunk is copied to the output; the next chunk, or the end of the N tile.
Unpack(w) ==
    /\ at[w] = "unpack"
    /\ output' = [mn \in DOMAIN output |->
           IF mn[2] = tile_n[w] /\ mn[1] \in chunk_begin[w] .. chunk_begin[w] + ChunkTiles(w) - 1
           THEN packed_c[buffer[w]][mn[1] - chunk_begin[w]] ELSE output[mn]]
    /\ chunk_begin' = [chunk_begin EXCEPT ![w] = @ + MTilesPerChunk]
    /\ Go(w, IF chunk_begin'[w] < TilesM THEN "clear" ELSE "release")
    /\ UNCHANGED <<iteration, tile_n, block, buffer, packed_c, granted>>

\* tcm::deallocate(), if the buffer was granted; the worker's next N tile.
Release(w) ==
    /\ at[w] = "release"
    /\ granted' = granted \ {buffer[w]}
    /\ tile_n' = [tile_n EXCEPT ![w] = @ + 1]
    /\ Go(w, "acquire")
    /\ UNCHANGED <<iteration, chunk_begin, block, buffer, packed_c, output>>

\* The parallel loop ends when every worker is through; the next iteration.
Join ==
    /\ iteration < Iterations
    /\ \A w \in Worker : at[w] = "acquire" /\ ~ HasTile(w)
    /\ iteration' = iteration + 1
    /\ tile_n' = IF iteration' < Iterations THEN [w \in Worker |-> ShareBegin(w)] ELSE tile_n
    /\ UNCHANGED <<chunk_begin, block, at, buffer, packed_c, granted, output>>

Work(w) == Acquire(w) \/ Clear(w) \/ Block(w) \/ Unpack(w) \/ Release(w)

Next == (\E w \in Worker : Work(w)) \/ Join

Spec == Init /\ [][Next]_vars

----------------------------------------------------------------------------
\* The scalar product of a row and a column of tiles: every block once, with the
\* scales of its row and its block, in the order of K.
Product(m, n) == [ i \in 1 .. BlocksK |-> << <<m, i - 1>>, <<m, i - 1>>, <<n, i - 1>> >> ]

\* Whatever chunk a tile falls into and whatever its buffer held, after the last
\* iteration the output is the product; within one, a chunk that is about to be
\* copied is.
OutputIsProduct ==
    /\ \A w \in Worker : at[w] = "unpack" =>
         \A i \in 0 .. ChunkTiles(w) - 1 :
             packed_c[buffer[w]][i] = Product(chunk_begin[w] + i, tile_n[w])
    /\ iteration = Iterations =>
         \A m \in 0 .. TilesM - 1, n \in 0 .. TilesN - 1 : output[m, n] = Product(m, n)

\* A worker holds exactly the buffer it uses, for as long as it uses it, so that
\* run() leaves the arenas as it found them and no two workers share a buffer.
HoldersMatch ==
    /\ granted = { buffer[w] : w \in { v \in Worker : at[v] # "acquire" } } \cap TcmBuffers
    /\ \A v, w \in Worker :
         v # w /\ at[v] # "acquire" /\ at[w] # "acquire" => buffer[v] # buffer[w]
=============================================================================
