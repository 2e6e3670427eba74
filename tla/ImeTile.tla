------------------------------- MODULE ImeTile -------------------------------
(***************************************************************************)
(* What the matrix-unit kernels compute, down to the register lane.  The   *)
(* adapters pack the quantized operands so that a vector register holds    *)
(* one operand of vmadot; the micro kernel accumulates the dot products of *)
(* a block in integer registers, stores the lanes to a component buffer,   *)
(* scales and adds the components of a batch of blocks, and the result is  *)
(* written to its place in the output.  Every kernel has an arrangement of *)
(* its own for each of these steps, and they must agree.                   *)
(*                                                                         *)
(* A chunk is the run of K values that one vmadot takes from a row or a    *)
(* column: 8 on the A60, 16 on the A100.  Its values stay together and in  *)
(* order in all layouts, so <<row, c>> names the c-th chunk of a row in a  *)
(* block and a packed operand is a function from chunk addresses to names. *)
(* Weights are packed two chunks to the address, in the low (0) and the    *)
(* high (1) nibbles.                                                       *)
(***************************************************************************)
EXTENDS Integers, Sequences, Functions

CONSTANTS
    Kernels,          \* the kernels to run, of KernelNames
    TilesM, TilesN,   \* the shape in tiles
    McTiles,          \* MC of m4n32b, in tiles
    NcTiles,          \* kNc of m32n4, in tiles
    Depths,           \* for each kernel, values of blocks_k
    Iterations        \* the argument of run()

KernelNames == {"upstream", "m4b", "m4i", "m8b", "m8b_dpu", "m4n32b", "m32n4", "m8b_ime2", "rr"}

ASSUME ImeTileAssumption ==
    /\ Kernels \subseteq KernelNames
    /\ Depths \in [Kernels -> SUBSET (Nat \ {0})]
    /\ TilesM \in Nat \ {0} /\ TilesN \in Nat \ {0}
    /\ McTiles \in Nat \ {0} /\ NcTiles \in Nat \ {0} /\ Iterations \in Nat \ {0}

----------------------------------------------------------------------------
(* Packing.  Each layout is given as in the code, by where a chunk goes;    *)
(* the packed operand is what is then found at an address.                  *)

Packed(rows, chunks, Place(_, _)) ==
    AntiFunction([x \in (0 .. rows - 1) \X (0 .. chunks - 1) |-> Place(x[1], x[2])])

\* quantize_a_4row_i8: four rows, all rows of a chunk together.
FourRows == [x \in 0 .. 15 |-> <<x % 4, x \div 4>>]

\* The four-row packing as it is.
PackedA4 == FourRows

\* Two four-row packings, one behind the other.
PackedA8 == [x \in 0 .. 31 |-> << FourRows[x % 16][1] + 4 * (x \div 16), FourRows[x % 16][2] >>]

kPackedAChunkOrder == <<0, 1, 4, 5, 2, 3, 6, 7>>

\* Groups of four chunks, reordered so that one iteration's follow each other.
InterleavedA8 == [x \in 0 .. 31 |-> PackedA8[4 * kPackedAChunkOrder[x \div 4 + 1] + (x % 4)]]

\* Eight four-row packings, one behind the other.
PackedA32 == [x \in 0 .. 127 |-> << FourRows[x % 16][1] + 4 * (x \div 16), FourRows[x % 16][2] >>]

\* One register for each group of eight rows and each window of K.
PackedA16 == Packed(16, 2, LAMBDA row, window : ((row \div 8) * 2 + window) * 8 + (row % 8))

\* The same for a single group.
PackedARr == Packed(8, 2, LAMBDA row, window : window * 8 + row)

\* pack_q4_n16: the first half of K before the second, two chunks to a byte run.
PackedB16 == Packed(16, 4, LAMBDA column, c : << (c \div 2) * 16 + column, c % 2 >>)

\* unpack_q4_0_ime_m8b_rvv: the low nibbles of an iteration, then the high ones.
UnpackedB16 == [x \in 0 .. 63 |-> PackedB16[<< (x \div 32) * 16 + (x % 16), (x % 32) \div 16 >>]]

\* qs[K16 plane][four-column group][chunk].
PackedB32 == Packed(32, 4, LAMBDA column, c : << ((c \div 2) * 8 + column \div 4) * 4 + (column % 4), c % 2 >>)

\* Four columns, first half of K before the second.
PackedB4 == Packed(4, 4, LAMBDA column, c : << (c \div 2) * 4 + column, c % 2 >>)

\* A Q4_0 block as it is: K and K + 16 share a byte; eight columns a register.
PackedB32Wide == Packed(32, 2, LAMBDA column, c : << (column \div 8) * 8 + (column % 8), c >>)

PackedBRr == Packed(32, 2, LAMBDA column, c : << (column \div 8) * 8 + (column % 8), c >>)

----------------------------------------------------------------------------
(* The micro kernels' dot products: for every accumulator, what an          *)
(* iteration of the inner loop adds, as <<A register, B register, nibble>>. *)

DotsM4(i) == [acc \in 0 .. 3 |-> << <<2 * i, 4 * i + acc, 0>>, <<2 * i + 1, 4 * i + acc, 1>> >>]

\* LOAD_B_16x8x2: registers v2 to v5 take the low nibbles of four runs of B, v6
\* to v9 the high ones.
LoadedB(i, v) == << 4 * i + ((v - 2) % 4), (v - 2) \div 4 >>

\* SQ4BIT_KERNEL_COMP_4x16x16: v10 with the low, v11 with the high nibbles.
DotsUpstream(i) ==
    [acc \in 0 .. 3 |-> << << 2 * i, LoadedB(i, 2 + acc)[1], LoadedB(i, 2 + acc)[2] >>,
                           << 2 * i + 1, LoadedB(i, 6 + acc)[1], LoadedB(i, 6 + acc)[2] >> >>]

DotsM8(i) ==
    [acc \in 0 .. 7 |-> LET a == 4 * i + 2 * (acc \div 4)
                            b == 4 * i + (acc % 4)
                        IN  << <<a, b, 0>>, <<a + 1, b, 1>> >>]

DotsDpu(i) ==
    [acc \in 0 .. 7 |-> LET a == 4 * i + 2 * (acc \div 4)
                            b == 8 * i + (acc % 4)
                        IN  << <<a, b, 0>>, <<a + 1, b + 4, 0>> >>]

\* Accumulators 0 to 3 are those of the first half of the columns.
DotsM4n32(plane) ==
    [acc \in 0 .. 7 |-> << <<2 * plane, 8 * plane + acc, 0>>, <<2 * plane + 1, 8 * plane + acc, 1>> >>]

DotsM32n4(i) ==
    [acc \in 0 .. 7 |-> << <<4 * acc + 2 * i, i, 0>>, <<4 * acc + 2 * i + 1, i, 1>> >>]

\* One iteration spans the whole block.
DotsM16(i) ==
    [acc \in 0 .. 7 |-> LET a == 2 * (acc \div 4)
                        IN  << <<a, acc % 4, 0>>, <<a + 1, acc % 4, 1>> >>]

DotsRr(i) == [acc \in 0 .. 3 |-> << <<0, acc, 0>>, <<1, acc, 1>> >>]

----------------------------------------------------------------------------
(* Where a lane of an accumulator is stored among the components.           *)

\* store_unpack: half registers of two rows; the upper four lanes are stored
\* through a mask, from a base that is pulled back by four.
StoreM4(acc, lane) ==
    LET row == 2 * (lane \div 8)
        l   == lane % 8
    IN  IF l < 4 THEN row * 16 + 4 * acc + l ELSE (row + 1) * 16 - 4 + 4 * acc + l

\* Fault: STORE_HIGH's base is not pulled back.
StoreM8Forward(acc, lane) ==
    LET base == (acc \div 4) * 4 * 16 + (acc % 4) * 4 + (lane \div 8) * 2 * 16
        l    == lane % 8
    IN  IF l < 4 THEN base + l ELSE base + 16 + l

\* STORE_LOW, and STORE_HIGH through a mask.
StoreM8(acc, lane) ==
    LET base == (acc \div 4) * 4 * 16 + (acc % 4) * 4 + (lane \div 8) * 2 * 16
        l    == lane % 8
    IN  IF l < 4 THEN base + l ELSE base + 12 + l

\* Four rows to a register half; the chunk of each row by a mask of its own.
StoreM16(acc, lane) ==
    LET base == (acc \div 4) * 8 * 32 + (acc % 4) * 8 + (lane \div 32) * 4 * 32
        l    == lane % 32
    IN  base + (l \div 8) * (32 - 8) + l

\* store_half.
StoreM4n32(acc, lane) == (lane \div 4) * 32 + 4 * (acc % 4) + (lane % 4) + (acc \div 4) * 16

\* One register behind the other: row major, because four columns are a row.
StoreM32n4(acc, lane) == acc * 16 + lane

\* Nothing is stored between the blocks: the position is the lane's own.
InRegisters16(acc, lane) == acc * 16 + lane
InRegisters64(acc, lane) == acc * 64 + lane

----------------------------------------------------------------------------
(* The row and the column whose scales a position is multiplied by, and the *)
(* cell of the output tile it becomes.                                      *)

RowMajor(nr, pos) == << pos \div nr, pos % nr >>

\* A_scale_01 and A_scale_23 by lanes; the column scales are loaded twice, the
\* second time through a mask from a base that is pulled back by four.
ScalesM4i(pos) ==
    LET l == pos % 8
    IN  << (pos % 16) \div 4, IF l < 4 THEN (pos \div 16) * 4 + l ELSE (pos \div 16) * 4 - 4 + l >>

\* LOAD_SCALE_4x16_FP16: the column scales to lanes 0 to 3 and, through a mask
\* from a base pulled back by four, to lanes 4 to 7; an even register with the
\* scales of rows 0 and 1, its copy with those of rows 2 and 3.
ScalesUpstream(pos) ==
    LET l == pos % 8
    IN  << 2 * ((pos \div 8) % 2) + l \div 4, IF l < 4 THEN (pos \div 16) * 4 + l ELSE (pos \div 16) * 4 - 4 + l >>

\* SAVE_RESULT_4x16: a1 and a3 walk rows 0 and 2, a2 and a4 rows 1 and 3; the
\* latter are pulled back by four columns and stored through a mask.
CellUpstream(pos) ==
    LET register == pos \div 8
        l        == pos % 8
        column   == (register \div 2) * 4
    IN  IF l < 4 THEN << 2 * (register % 2), column + l >>
        ELSE << 2 * (register % 2) + 1, column - 4 + l >>

\* c_unpack_ime_m4_n16.
CellM4i(pos) ==
    LET chunk == pos \div 8
        l     == pos % 8
    IN  << 2 * (chunk % 2) + l \div 4, 4 * (chunk \div 2) + (l % 4) >>

\* The outer product of a column of row scales and a row of column scales.
ScalesRr(pos) == << (pos % 64) \div 8, (pos \div 64) * 8 + (pos % 8) >>

\* unpack_c_chunk.
CellRr(pos) == << (pos % 64) \div 8, (pos \div 64) * 8 + (pos % 8) >>

----------------------------------------------------------------------------
(* The kernels.  width is the number of chunks in a register, chunks how    *)
(* many a block has, batch the capacity of the component buffer, early      *)
(* whether a full batch is reduced before the call's last block, depth the  *)
(* blocks of one call (0: all), resumes whether a call continues with what  *)
(* the output holds: never, from the second depth on, or always.            *)

\* The lanes of the accumulators.
Lanes(accs, width) == (0 .. accs - 1) \X (0 .. width * width - 1)

M4b ==
    [ width |-> 4, chunks |-> 4, mr |-> 4, nr |-> 16, accs |-> 4,
      a |-> PackedA4, b |-> PackedB16, dots |-> [i \in 0 .. 1 |-> DotsM4(i)],
      store |-> [al \in Lanes(4, 4) |-> StoreM4(al[1], al[2])],
      scales |-> [pos \in 0 .. 63 |-> RowMajor(16, pos)], cell |-> [pos \in 0 .. 63 |-> RowMajor(16, pos)],
      batch |-> 32, early |-> TRUE, depth |-> 0, resumes |-> "never" ]

M4i ==
    [ M4b EXCEPT !.store = [al \in Lanes(4, 4) |-> InRegisters16(al[1], al[2])],
                 !.scales = [pos \in 0 .. 63 |-> ScalesM4i(pos)],
                 !.cell = [pos \in 0 .. 63 |-> CellM4i(pos)],
                 !.batch = 1 ]

\* SQ4BitGemmM4Kernel_CompInt8_ScaleFp16_Impl<false> as gemm_kernel_i8i4 calls
\* it for four rows and a scale stride of two: the sums stay in v24 to v31.
Upstream ==
    [ M4b EXCEPT !.dots = [i \in 0 .. 1 |-> DotsUpstream(i)],
                 !.store = [al \in Lanes(4, 4) |-> InRegisters16(al[1], al[2])],
                 !.scales = [pos \in 0 .. 63 |-> ScalesUpstream(pos)],
                 !.cell = [pos \in 0 .. 63 |-> CellUpstream(pos)],
                 !.batch = 1 ]

M8b ==
    [ width |-> 4, chunks |-> 4, mr |-> 8, nr |-> 16, accs |-> 8,
      a |-> InterleavedA8, b |-> PackedB16, dots |-> [i \in 0 .. 1 |-> DotsM8(i)],
      store |-> [al \in Lanes(8, 4) |-> StoreM8(al[1], al[2])],
      scales |-> [pos \in 0 .. 127 |-> RowMajor(16, pos)], cell |-> [pos \in 0 .. 127 |-> RowMajor(16, pos)],
      batch |-> 8, early |-> TRUE, depth |-> 0, resumes |-> "never" ]

M8bDpu == [ M8b EXCEPT !.b = [key \in (0 .. 63) \X {0} |-> UnpackedB16[key[1]]],
                       !.dots = [i \in 0 .. 1 |-> DotsDpu(i)] ]

M4n32b ==
    [ width |-> 4, chunks |-> 4, mr |-> 4, nr |-> 32, accs |-> 8,
      a |-> PackedA4, b |-> PackedB32, dots |-> [plane \in 0 .. 1 |-> DotsM4n32(plane)],
      store |-> [al \in Lanes(8, 4) |-> StoreM4n32(al[1], al[2])],
      scales |-> [pos \in 0 .. 127 |-> RowMajor(32, pos)], cell |-> [pos \in 0 .. 127 |-> RowMajor(32, pos)],
      batch |-> 8, early |-> TRUE, depth |-> 16, resumes |-> "later" ]

M32n4 ==
    [ width |-> 4, chunks |-> 4, mr |-> 32, nr |-> 4, accs |-> 8,
      a |-> PackedA32, b |-> PackedB4, dots |-> [i \in 0 .. 1 |-> DotsM32n4(i)],
      store |-> [al \in Lanes(8, 4) |-> StoreM32n4(al[1], al[2])],
      scales |-> [pos \in 0 .. 127 |-> RowMajor(4, pos)], cell |-> [pos \in 0 .. 127 |-> RowMajor(4, pos)],
      batch |-> 8, early |-> FALSE, depth |-> 8, resumes |-> "always" ]

M8bIme2 ==
    [ width |-> 8, chunks |-> 2, mr |-> 16, nr |-> 32, accs |-> 8,
      a |-> PackedA16, b |-> PackedB32Wide, dots |-> [i \in {0} |-> DotsM16(i)],
      store |-> [al \in Lanes(8, 8) |-> StoreM16(al[1], al[2])],
      scales |-> [pos \in 0 .. 511 |-> RowMajor(32, pos)], cell |-> [pos \in 0 .. 511 |-> RowMajor(32, pos)],
      batch |-> 8, early |-> TRUE, depth |-> 0, resumes |-> "never" ]

Rr ==
    [ width |-> 8, chunks |-> 2, mr |-> 8, nr |-> 32, accs |-> 4,
      a |-> PackedARr, b |-> PackedBRr, dots |-> [i \in {0} |-> DotsRr(i)],
      store |-> [al \in Lanes(4, 8) |-> InRegisters64(al[1], al[2])],
      scales |-> [pos \in 0 .. 255 |-> ScalesRr(pos)], cell |-> [pos \in 0 .. 255 |-> CellRr(pos)],
      batch |-> 1, early |-> TRUE, depth |-> 1, resumes |-> "later" ]

Kernel ==
    [ upstream |-> Upstream, m4b |-> M4b, m4i |-> M4i, m8b |-> M8b, m8b_dpu |-> M8bDpu, m4n32b |-> M4n32b,
      m32n4 |-> M32n4, m8b_ime2 |-> M8bIme2, rr |-> Rr ]

VARIABLES
    kernel,       \* the kernel that runs: a name
    blocks,       \* blocks_k
    iteration,    \* iterations that have begun
    todo,         \* the kernel calls still to be made in this iteration
    call,         \* the current one
    at,           \* where the kernel is
    bk, inner,    \* its loop indices
    count,        \* the components that wait to be reduced
    accumulator,  \* the accumulator registers, by lane
    components,   \* the component buffer
    tile,         \* the sums of the current call
    output        \* the output tiles, by cell

loop == <<iteration, todo, call>>
imeVars == <<kernel, blocks, loop, at, bk, inner, count, accumulator, components, tile, output>>

K == Kernel[kernel]

Positions == 0 .. K.mr * K.nr - 1
Cells == (0 .. K.mr - 1) \X (0 .. K.nr - 1)
Tiles == (0 .. TilesM - 1) \X (0 .. TilesN - 1)

----------------------------------------------------------------------------
Lesser(a, b) == IF a < b THEN a ELSE b

Depth == IF K.depth = 0 THEN blocks ELSE K.depth

\* A call: the tile, its first block, and how many blocks it takes.
Calls ==
    { [m |-> t[1], n |-> t[2], first |-> f, depth |-> Lesser(Depth, blocks - f)] :
        t \in Tiles, f \in { b \in 0 .. blocks - 1 : b % Depth = 0 } }

\* The adapters' loop nests, outermost loop first.  A parallel loop over tiles is
\* run in order here, each tile being a call's own; rr has a single chunk, whose
\* packed_c is read and written at the cells it is unpacked to.
LoopNest(c) ==
    CASE kernel = "m4n32b" -> << c.first, c.m \div McTiles, c.n, c.m >>
      [] kernel = "m32n4"  -> << c.first, c.n \div NcTiles, c.m, c.n >>
      [] kernel = "rr"     -> << 0, c.n, c.first, c.m >>
      [] OTHER             -> << 0, 0, c.m, c.n >>

Before(c, d) ==
    \E i \in 1 .. 4 : /\ LoopNest(c)[i] < LoopNest(d)[i]
                      /\ \A j \in 1 .. i - 1 : LoopNest(c)[j] = LoopNest(d)[j]

\* Fault: what the output holds from the iteration before is kept.
ContinuesAlways(c) == K.resumes # "never"

\* Whether the call starts from what the output holds.
Continues(c) == K.resumes = "always" \/ (K.resumes = "later" /\ c.first # 0)

\* Where the operands of a block lie, and which block of which tile is there.
AddressA(m, block) == IF kernel = "rr" THEN block * TilesM + m ELSE m * blocks + block
AddressB(n, block) == n * blocks + block
BlockOfA(address) ==
    IF kernel = "rr" THEN <<address % TilesM, address \div TilesM>> ELSE <<address \div blocks, address % blocks>>
BlockOfB(address) == <<address \div blocks, address % blocks>>

Empty == [al \in Lanes(K.accs, K.width) |-> <<>>]
NoCall == [m |-> 0, n |-> 0, first |-> 0, depth |-> 0]

ImeInit ==
    /\ kernel \in Kernels /\ blocks \in Depths[kernel]
    /\ iteration = 0 /\ todo = {} /\ call = NoCall
    /\ at = "idle" /\ bk = 0 /\ inner = 0 /\ count = 0
    /\ accumulator = Empty
    /\ components = [slot \in 0 .. K.batch - 1 |-> [pos \in Positions |-> <<>>]]
    /\ tile = [pos \in Positions |-> <<>>]
    /\ output = [t \in Tiles |-> [c \in Cells |-> <<>>]]

\* The next iteration of run(); m32n4 clears the output first.
Iterate ==
    /\ at = "idle" /\ todo = {} /\ iteration < Iterations
    /\ iteration' = iteration + 1
    /\ todo' = Calls
    /\ output' = IF K.resumes = "always" THEN [t \in Tiles |-> [c \in Cells |-> <<>>]] ELSE output
    /\ UNCHANGED <<kernel, blocks, call, at, bk, inner, count, accumulator, components, tile>>

\* The loops reach the next call; it starts from zero or from the output.
Call ==
    /\ at = "idle"
    /\ \E c \in todo :
         /\ \A d \in todo \ {c} : Before(c, d)
         /\ call' = c
         /\ todo' = todo \ {c}
         /\ tile' = [pos \in Positions |->
                        IF Continues(c) THEN output[<<c.m, c.n>>][K.cell[pos]] ELSE <<>>]
    /\ bk' = 0 /\ inner' = 0 /\ count' = 0
    /\ accumulator' = Empty
    /\ at' = "dot"
    /\ UNCHANGED <<kernel, blocks, iteration, components, output>>

\* vmadot: lane r * width + c receives the product of the r-th chunk of the A
\* register and the c-th chunk of the B register.
Product(dot, lane) ==
    << K.a[K.width * dot[1] + lane \div K.width], K.b[<< K.width * dot[2] + (lane % K.width), dot[3] >>] >>

\* One iteration of the inner loop.
Dot ==
    /\ at = "dot"
    /\ accumulator' = [al \in DOMAIN accumulator |->
           LET dots == K.dots[inner][al[1]]
           IN  accumulator[al] \o [d \in 1 .. Len(dots) |-> Product(dots[d], al[2])]]
    /\ IF inner + 1 \in DOMAIN K.dots
       THEN inner' = inner + 1 /\ UNCHANGED at
       ELSE inner' = 0 /\ at' = "store"
    /\ UNCHANGED <<kernel, blocks, loop, bk, count, components, tile, output>>

FlushDue(done, held) == (K.early /\ held = K.batch) \/ done = call.depth

\* The accumulators are stored as the next component, together with what they
\* are the product of; the accumulators of the next block start from zero.
Store ==
    /\ at = "store"
    /\ components' = [components EXCEPT ![count] =
           [pos \in Positions |->
               LET stored == { al \in DOMAIN accumulator : K.store[al] = pos }
               IN  IF stored = {} THEN components[count][pos]
                   ELSE << BlockOfA(AddressA(call.m, call.first + bk)),
                           BlockOfB(AddressB(call.n, call.first + bk)),
                           accumulator[CHOOSE al \in stored : TRUE] >>]]
    /\ bk' = bk + 1 /\ count' = count + 1
    /\ accumulator' = Empty
    /\ at' = IF FlushDue(bk', count') THEN "reduce" ELSE IF bk' < call.depth THEN "dot" ELSE "return"
    /\ UNCHANGED <<kernel, blocks, loop, inner, tile, output>>

\* The components of the batch are scaled, each with the scales of its block,
\* and added in the order of the blocks.
Reduce ==
    /\ at = "reduce"
    /\ tile' = [pos \in Positions |->
           tile[pos] \o
           [ i \in 1 .. count |->
               LET block == call.first + bk - count + i - 1
               IN  << components[i - 1][pos],
                      << BlockOfA(AddressA(call.m, block)), K.scales[pos][1] >>,
                      << BlockOfB(AddressB(call.n, block)), K.scales[pos][2] >> >> ]]
    /\ count' = 0
    /\ at' = IF bk < call.depth THEN "dot" ELSE "return"
    /\ UNCHANGED <<kernel, blocks, loop, bk, inner, accumulator, components, output>>

\* The sums are written to the output tile.
Return ==
    /\ at = "return"
    /\ output' = [output EXCEPT ![<<call.m, call.n>>] =
           [ c \in Cells |-> tile[CHOOSE pos \in Positions : K.cell[pos] = c] ]]
    /\ at' = "idle"
    /\ UNCHANGED <<kernel, blocks, loop, bk, inner, count, accumulator, components, tile>>

Finished == at = "idle" /\ todo = {} /\ iteration = Iterations

ImeNext == Iterate \/ Call \/ Dot \/ Store \/ Reduce \/ Return \/ (Finished /\ UNCHANGED imeVars)

ImeSpec == ImeInit /\ [][ImeNext]_imeVars

----------------------------------------------------------------------------
\* The sum over the chunks of a block of the products of row r and column c, in
\* whatever order.
IsDotProduct(terms, r, c) ==
    /\ Len(terms) = K.chunks
    /\ Range(terms) = { << <<r, k>>, <<c, k>> >> : k \in 0 .. K.chunks - 1 }

\* What block b contributes to row r and column c of tile <<m, n>>.
IsContribution(term, m, n, r, c, b) ==
    /\ term[1][1] = <<m, b>> /\ term[1][2] = <<n, b>>
    /\ IsDotProduct(term[1][3], r, c)
    /\ term[2] = << <<m, b>>, r >> /\ term[3] = << <<n, b>>, c >>

\* After every iteration each cell of the output is the scalar product of its
\* row and its column: every block once, in order, all its chunks paired with
\* the same chunks, multiplied by the scales of that row, column and block.
\* Packing, dot products, stores, reduction and unpacking of each kernel agree.
OutputIsProduct ==
    at = "idle" /\ todo = {} /\ iteration > 0 =>
      \A t \in Tiles : \A c \in Cells :
          /\ Len(output[t][c]) = blocks
          /\ \A b \in 1 .. blocks : IsContribution(output[t][c][b], t[1], t[2], c[1], c[2], b - 1)

\* The component buffer never takes more blocks than it has room for, and what
\* waits in it are, complete and in order, the blocks before bk, whatever the
\* buffer held in an earlier batch, call or iteration.
PendingComponents ==
    at \in {"dot", "store", "reduce"} =>
      /\ count <= K.batch /\ count <= bk
      /\ \A i \in 1 .. count : \A pos \in Positions :
           LET b == call.first + bk - count + i - 1
               c == components[i - 1][pos]
           IN  /\ c # <<>> /\ c[1] = <<call.m, b>> /\ c[2] = <<call.n, b>>
               /\ IsDotProduct(c[3], K.scales[pos][1], K.scales[pos][2])
=============================================================================
