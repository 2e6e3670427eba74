------------------------------ MODULE BatchGemm ------------------------------
(***************************************************************************)
(* The batch-reduction adapters and their micro kernels (IME-m8b, for      *)
(* smt-ime1 and smt-ime2).  A parallel loop over the M tiles; for every N  *)
(* tile the micro kernel stores the integer products of up to kRedBatchSize*)
(* blocks in a component buffer before it scales and adds them.  The       *)
(* smt-ime2 adapter borrows that buffer from the TCM arena of the worker's *)
(* CPU for one M tile and falls back to its stack; smt-ime1 always uses    *)
(* the stack (no TcmBuffers).  Nobody clears the buffer in between.        *)
(***************************************************************************)
EXTENDS Integers, Sequences

CONSTANTS
    Threads,                   \* state.threads
    TilesM, TilesN, BlocksK,   \* the shape, in tiles and blocks
    RedBatchSize,              \* kRedBatchSize
    TcmBuffers,                \* what the arenas can grant at one time
    Iterations,                \* the argument of run()
    Undefined                  \* memory nobody has written

Worker == 0 .. Threads - 1

ASSUME BatchGemmAssumption ==
    /\ Threads \in Nat \ {0} /\ TilesM \in Nat \ {0} /\ TilesN \in Nat \ {0}
    /\ BlocksK \in Nat \ {0} /\ RedBatchSize \in Nat \ {0} /\ Iterations \in Nat \ {0}
    /\ TcmBuffers \cap Worker = {}

VARIABLES
    iteration,       \* iterations that are complete
    tile_m, tile_n,  \* each worker's loop indices
    at,              \* where each worker is
    components,      \* the component buffer each worker uses
    bk, count,       \* the micro kernel's bk and reductionCount
    acc,             \* its sum so far: the terms in the order of the additions
    memory,          \* contents of the buffers; a worker's number names its stack
    granted,         \* the buffers tcm::allocate has handed out
    output           \* the output tiles

kernel == <<bk, count, acc>>
vars == <<iteration, tile_m, tile_n, at, components, kernel, memory, granted, output>>

Lesser(a, b) == IF a < b THEN a ELSE b

\* schedule(static): contiguous shares, the first ones longer by one.
ShareBegin(w) == w * (TilesM \div Threads) + Lesser(w, TilesM % Threads)

HasTile(w) == tile_m[w] < ShareBegin(w + 1)

Init ==
    /\ iteration = 0
    /\ tile_m = [w \in Worker |-> ShareBegin(w)] /\ tile_n = [w \in Worker |-> 0]
    /\ at = [w \in Worker |-> "acquire"]
    /\ components = [w \in Worker |-> w]
    /\ bk = [w \in Worker |-> 0] /\ count = [w \in Worker |-> 0]
    /\ acc = [w \in Worker |-> <<>>]
    /\ memory = [b \in Worker \cup TcmBuffers |-> [i \in 0 .. RedBatchSize - 1 |-> Undefined]]
    /\ granted = {}
    /\ output = [mn \in (0 .. TilesM - 1) \X (0 .. TilesN - 1) |-> <<>>]

Go(w, label) == at' = [at EXCEPT ![w] = label]

\* tcm::allocate() grants a buffer or refuses; then the stack's array is used,
\* which holds whatever the stack held.
Acquire(w) ==
    /\ at[w] = "acquire" /\ HasTile(w)
    /\ \/ \E b \in TcmBuffers \ granted :
            /\ granted' = granted \cup {b}
            /\ components' = [components EXCEPT ![w] = b]
       \/ components' = [components EXCEPT ![w] = w] /\ UNCHANGED granted
    /\ Go(w, "tile")
    /\ UNCHANGED <<iteration, tile_m, tile_n, kernel, memory, output>>

\* float acc[kTileFloats] = {}; the micro kernel is entered.
BeginTile(w) ==
    /\ at[w] = "tile"
    /\ acc' = [acc EXCEPT ![w] = <<>>]
    /\ bk' = [bk EXCEPT ![w] = 0] /\ count' = [count EXCEPT ![w] = 0]
    /\ Go(w, "block")
    /\ UNCHANGED <<iteration, tile_m, tile_n, components, memory, granted, output>>

\* Fault: the blocks of a last, incomplete batch are left in the buffer.
FlushDueOnFull(blocks, held) == held = RedBatchSize

FlushDue(blocks, held) == held = RedBatchSize \/ blocks = BlocksK

\* The integer product of one block is stored behind those of the batch.
Block(w) ==
    /\ at[w] = "block"
    /\ memory' = [memory EXCEPT ![components[w]][count[w]] = <<tile_m[w], tile_n[w], bk[w]>>]
    /\ bk' = [bk EXCEPT ![w] = @ + 1]
    /\ count' = [count EXCEPT ![w] = @ + 1]
    /\ Go(w, IF FlushDue(bk'[w], count'[w]) THEN "reduce"
             ELSE IF bk'[w] < BlocksK THEN "block" ELSE "copy")
    /\ UNCHANGED <<iteration, tile_m, tile_n, components, acc, granted, output>>

\* The batch is scaled, each component with the scales of its block, and added.
Reduce(w) ==
    /\ at[w] = "reduce"
    /\ acc' = [acc EXCEPT ![w] = @ \o
           [ i \in 1 .. count[w] |->
               <<memory[components[w]][i - 1], bk[w] - count[w] + i - 1>> ]]
    /\ count' = [count EXCEPT ![w] = 0]
    /\ Go(w, IF bk[w] < BlocksK THEN "block" ELSE "copy")
    /\ UNCHANGED <<iteration, tile_m, tile_n, components, bk, memory, granted, output>>

\* The tile is copied to the output; the next N tile, or the end of the M tile.
CopyTile(w) ==
    /\ at[w] = "copy"
    /\ output' = [output EXCEPT ![<<tile_m[w], tile_n[w]>>] = acc[w]]
    /\ IF tile_n[w] + 1 < TilesN
       THEN tile_n' = [tile_n EXCEPT ![w] = @ + 1] /\ Go(w, "tile")
       ELSE tile_n' = [tile_n EXCEPT ![w] = 0] /\ Go(w, "release")
    /\ UNCHANGED <<iteration, tile_m, components, kernel, memory, granted>>

\* Fault: the worker gives its buffer back only after its last tile.
ReleaseLast(w) ==
    /\ at[w] = "release"
    /\ tile_m' = [tile_m EXCEPT ![w] = @ + 1]
    /\ granted' = IF tile_m[w] + 1 = ShareBegin(w + 1) THEN granted \ {components[w]} ELSE granted
    /\ Go(w, "acquire")
    /\ UNCHANGED <<iteration, tile_n, components, kernel, memory, output>>

\* tcm::deallocate(), if the buffer was granted; the worker's next M tile.
Release(w) ==
    /\ at[w] = "release"
    /\ granted' = granted \ {components[w]}
    /\ tile_m' = [tile_m EXCEPT ![w] = @ + 1]
    /\ Go(w, "acquire")
    /\ UNCHANGED <<iteration, tile_n, components, kernel, memory, output>>

\* The parallel loop ends when every worker is through; the next iteration.
Join ==
    /\ iteration < Iterations
    /\ \A w \in Worker : at[w] = "acquire" /\ ~ HasTile(w)
    /\ iteration' = iteration + 1
    /\ tile_m' = IF iteration' < Iterations THEN [w \in Worker |-> ShareBegin(w)] ELSE tile_m
    /\ UNCHANGED <<tile_n, at, components, kernel, memory, granted, output>>

Work(w) ==
    Acquire(w) \/ BeginTile(w) \/ Block(w) \/ Reduce(w) \/ CopyTile(w) \/ Release(w)

Next ==
    \/ \E w \in Worker : Work(w)
    \/ Join
    \/ iteration = Iterations /\ UNCHANGED vars

Spec == Init /\ [][Next]_vars

----------------------------------------------------------------------------
\* The scalar product of a row and a column of tiles: every block once, with its
\* own scales, in the order of K.
Product(m, n) == [ i \in 1 .. BlocksK |-> << <<m, n, i - 1>>, i - 1 >> ]

\* Whatever the buffer held before and wherever it lies, after every iteration
\* the output is the product.
OutputIsProduct ==
    /\ \A w \in Worker : at[w] = "copy" => acc[w] = Product(tile_m[w], tile_n[w])
    /\ iteration = Iterations =>
         \A m \in 0 .. TilesM - 1, n \in 0 .. TilesN - 1 : output[m, n] = Product(m, n)

\* A worker never holds more than the buffer it uses, so that run() leaves the
\* arenas as it found them, and no two workers write the same buffer.
HoldersMatch ==
    /\ granted = { components[w] : w \in { v \in Worker : at[v] # "acquire" } } \cap TcmBuffers
    /\ \A v, w \in Worker :
         v # w /\ at[v] # "acquire" /\ at[w] # "acquire" => components[v] # components[w]
=============================================================================
