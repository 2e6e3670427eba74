------------------------------- MODULE RvvTile -------------------------------
(***************************************************************************)
(* What the vector kernels (RVV) compute, followed in one lane of one row  *)
(* accumulator.  The lanes of a vector are columns and never mix, so the   *)
(* initial state chooses a row and a lane, and the steps are those of the  *)
(* whole kernel.                                                           *)
(*                                                                         *)
(* prepare() arranges the quantized operands so that one vector load takes *)
(* the same K index of all columns; the kernel adds 32 products of four    *)
(* (or two) bit weights and eight bit activations in a 16 bit lane, scales *)
(* the sum of the subblock, adds the subblocks of a block in 32 bits, the  *)
(* blocks in floating point, and subtracts the minima of Q4_K.             *)
(*                                                                         *)
(* A packed operand is given by the place where prepare() puts a value and *)
(* by the place where the kernel reads it; <<byte, 0>> and <<byte, 1>> are *)
(* the low and the high nibble.  A value of the unpacked block is named by *)
(* its own place in that block.                                            *)
(***************************************************************************)
EXTENDS Integers, Sequences, Functions

CONSTANTS
    Kernels,          \* the kernels to run, of KernelNames
    TilesM, TilesN,   \* the shape in tiles
    Blocks,           \* blocks_k
    KcBlocks,         \* KC / QK_K of the batch-reduce IQ2_XXS kernel
    Iterations,       \* the argument of run()
    MayWrap           \* kernels that SumsAreExact leaves out

KernelNames ==
    {"q4_0_my", "q4_0_group", "q4_0_upstream", "q4_0_ime2", "q4_K_my", "q4_K_group",
     "q4_K_upstream", "q4_K_upstream_128", "iq2_br", "iq2_ir", "iq2_upstream"}

ASSUME RvvTileAssumption ==
    /\ Kernels \subseteq KernelNames
    /\ TilesM \in Nat \ {0} /\ TilesN \in Nat \ {0}
    /\ Blocks \in Nat \ {0} /\ KcBlocks \in Nat \ {0} /\ Iterations \in Nat \ {0}

----------------------------------------------------------------------------
(* The unpacked blocks, as llama_reference reads them.                      *)

\* The weight of index k.
ValueQ4_0(k) == << k % 16, k \div 16 >>
ValueQ4_K(k) == LET sb == k \div 32 IN << (sb \div 2) * 32 + (k % 32), sb % 2 >>

\* decode_subblock: the byte that indexes the grid, the lane of the entry, the
\* word and the shift of its signs.
ValueIq2(k) ==
    LET sb == k \div 32
        group == (k % 32) \div 8
    IN  << 8 * sb + group, k % 8, 8 * sb + 4, 7 * group >>

\* Six bits in one byte, or four in one and two on top of another.
ScaleQ4_K(sb) == IF sb < 4 THEN { <<sb, "six">> } ELSE { <<sb + 4, "low">>, <<sb - 4, "top">> }
MinQ4_K(sb) == IF sb < 4 THEN { <<sb + 4, "six">> } ELSE { <<sb + 4, "high">>, <<sb, "top">> }
ScaleIq2(sb) == { <<8 * sb + 4, "top nibble">> }

\* The sum of the activations of a subblock: bsums has one for every half of it.
BsumsOf(sb) == { 2 * sb, 2 * sb + 1 }

----------------------------------------------------------------------------
(* prepare(): where the value of a row or a column goes.                    *)

PlaceA8(row, k) == IF k < 16 THEN k * 16 + row ELSE (k - 16) * 16 + 8 + row

PlaceA12Group(row, k) ==
    IF k < 16 THEN k * 24 + row
    ELSE IF row < 4 THEN (k - 16) * 24 + 12 + row ELSE (k - 16) * 24 + 16 + (row - 4)

PlaceA12(row, k) == k * 12 + row
PlaceA4(row, k) == k * 4 + row

\* qs[z * 32 + q] = src.qs[z]: both nibbles of a byte stay together.
PlaceB32(column, k) == << (k % 16) * 32 + column, k \div 16 >>
PlaceB32Group(column, k) == << (k % 16) * 32 + column, k \div 16 >>

\* The block of four rows: scales, negated sums, values.
PlaceA4Ime2(row, k) == 4 * 4 + 4 * 2 + row * 32 + k
PlaceSumIme2(row) == 4 * 4 + 2 * row

\* pack_weight_block: neighbours along K share a byte, the columns one by one
\* behind the 32 scales.
PlaceB32Ime2(column, k) ==
    LET pair == (k % 16) \div 2
    IN  << 64 + column * 16 + IF k < 16 THEN pair ELSE 8 + pair, k % 2 >>

\* The nibbles are paired anew: neighbours along K in the one, subblocks in the
\* other kernel.
PlaceWPairs(column, k) ==
    LET subblock == k \div 32
        pair == (k % 32) \div 2
    IN  << (subblock * 16 + pair) * 32 + column, k % 2 >>

PlaceWGroups(column, k) ==
    LET group == k \div 64 IN << group * 1024 + (k % 32) * 32 + column, (k \div 32) % 2 >>

\* q4_value of both adapters.
Q4Value(index) == << (index \div 64) * 32 + (index % 32), IF index % 64 < 32 THEN 0 ELSE 1 >>

\* decompress_iq2 of either kernel: a store of four columns, a row of NR for each
\* index.
PlaceWIq2(column, k) ==
    LET t == column \div 4
        sb == k \div 32
    IN  << sb * 32 * 32 + t * 4 + (k % 32) * 32 + (column % 4), 0 >>

PlaceWIq2Ir(column, k) == << ((k \div 32) * 32 + (k % 32)) * 32 + (column \div 4) * 4 + (column % 4), 0 >>

\* decompress_iq2_subblock: four grid entries by an indexed load, then the signs.
\* The pointer is that of a 16 bit word, four of which are a subblock.
Iq2Subblock(k) ==
    LET ptr == (k \div 32) * 8
        lane == k % 32
    IN  << ptr + lane \div 8, lane % 8, ptr + 4, <<0, 7, 14, 21>>[lane \div 8 + 1] >>

Iq2SubblockIr(k) ==
    LET word == (k \div 32) * (32 \div 8)
        entry == (k % 32) \div 8
    IN  << 2 * word + entry, k % 8, 2 * word + 4, <<0, 7, 14, 21>>[entry + 1] >>

\* The scales and minima of the 12x32 kernel: what is unpacked, and where to.
UnpackedScale(sb) == IF sb < 4 THEN { <<sb, "six">> } ELSE { <<8 + sb - 4, "low">>, <<sb - 4, "top">> }
UnpackedMin(sb) == IF sb < 4 THEN { <<4 + sb, "six">> } ELSE { <<8 + sb - 4, "high">>, <<4 + sb - 4, "top">> }
PlaceScale32(column, sb) == { <<sb * 32 + column, "byte">> }

\* q4_scale and q4_min of the 4x32 adapter.
Q4Scale(index) == IF index < 4 THEN { <<index, "six">> } ELSE { <<index + 4, "low">>, <<index - 4, "top">> }
Q4Min(index) == IF index < 4 THEN { <<index + 4, "six">> } ELSE { <<index + 4, "high">>, <<index, "top">> }

\* pack_group_subblock: 48 bytes for each subblock, from scales on and past its
\* end into mins.  The six bits of columns 16 to 31 are split.
GroupAt(sb) == (sb \div 2) * 96 + (sb % 2) * 48

PackedGroupScale(column, sb) ==
    IF column < 16 THEN { <<GroupAt(sb) + column, "six">> }
    ELSE { <<GroupAt(sb) + 32 + column - 16, "low">>, <<GroupAt(sb) + column - 16, "top">> }

PackedGroupMin(column, sb) ==
    IF column < 16 THEN { <<GroupAt(sb) + 16 + column, "six">> }
    ELSE { <<GroupAt(sb) + 32 + column - 16, "high">>, <<GroupAt(sb) + 16 + column - 16, "top">> }

----------------------------------------------------------------------------
(* The kernels: the products that a lane adds for subblock s, in order, as  *)
(* <<place of the activation, place of the weight>>.                        *)

Both(Low(_), High(_)) == [i \in 1 .. 32 |-> IF i % 2 = 1 THEN Low(i \div 2) ELSE High(i \div 2 - 1)]

\* The low nibbles of a vector with the first eight bytes, the high ones with
\* the next.
Reads8x32(row, lane, s) ==
    Both(LAMBDA z : << z * 16 + row, <<z * 32 + lane, 0>> >>,
         LAMBDA z : << z * 16 + 8 + row, <<z * 32 + lane, 1>> >>)

\* Three words of eight activations for each vector of weights: a_0_7, a_8_15
\* and a_16_23.
Reads12x32(row, lane, s) ==
    Both(LAMBDA z : << IF row < 8 THEN 8 * (3 * z) + row ELSE 8 * (3 * z + 1) + row - 8, <<z * 32 + lane, 0>> >>,
         LAMBDA z : << IF row < 4 THEN 8 * (3 * z + 1) + row + 4 ELSE 8 * (3 * z + 2) + row - 4, <<z * 32 + lane, 1>> >>)

\* Two indices from each vector of weights.
ReadsQ4_K(row, lane, s) ==
    Both(LAMBDA i : << (s * 32 + 2 * i) * 12 + row, <<(s * 16 + i) * 32 + lane, 0>> >>,
         LAMBDA i : << (s * 32 + 2 * i + 1) * 12 + row, <<(s * 16 + i) * 32 + lane, 1>> >>)

\* suml_32 and suml_64: two subblocks from each vector of weights.
ReadsQ4_KGroup(row, lane, s) ==
    LET sb == s \div 2
        ssb(z) == sb * 256 + z * 4
    IN  [i \in 1 .. 32 |-> << ssb(i - 1) + 128 * (s % 2) + row, <<sb * 1024 + (i - 1) * 32 + lane, s % 2>> >>]

\* Both IQ2_XXS tile kernels, on the decompressed weights.
ReadsIq2(row, lane, s) == [i \in 1 .. 32 |-> << (s * 32 + i - 1) * 12 + row, <<(s * 32 + i - 1) * 32 + lane, 0>> >>]

\* The upstream kernels are dot products of one row and one column: a lane for
\* each index, reduced at the end of the subblock.
ReadsDotQ4_0(row, lane, s) ==
    Both(LAMBDA z : << z, <<z, 0>> >>, LAMBDA z : << 16 + z, <<z, 1>> >>)

ReadsDotQ4_K(row, lane, s) ==
    LET j == s \div 2
    IN  [i \in 1 .. 32 |-> << j * 64 + (s % 2) * 32 + i - 1, << j * 32 + i - 1, s % 2 >> >>]

\* The assembly of the 128 bit branch: for each accumulator the registers that
\* are multiplied, as the offsets they were loaded from.
Asm128 ==
    << << <<0, 0, 0>>, <<16, 16, 0>> >>,          \* v16: v0 v8, v1 v9
       << <<32, 0, 1>>, <<48, 16, 1>> >>,         \* v20: v4 v10, v5 v11
       << <<64, 32, 0>>, <<80, 48, 0>> >>,        \* v24: v2 v12, v3 v13
       << <<96, 32, 1>>, <<112, 48, 1>> >>,       \* v28: v6 v14, v7 v15
       << <<128, 64, 0>>, <<144, 80, 0>> >>,      \* v18
       << <<160, 64, 1>>, <<176, 80, 1>> >>,      \* v22
       << <<192, 96, 0>>, <<208, 112, 0>> >>,     \* v26
       << <<224, 96, 1>>, <<240, 112, 1>> >> >>   \* v30

ReadsDot128(row, lane, s) ==
    [i \in 1 .. 32 |->
        LET load == Asm128[s + 1][(i - 1) \div 16 + 1]
            l == (i - 1) % 16
        IN  << load[1] + l, <<load[2] + l, load[3]>> >>]

\* Two subblocks of eight bytes in an iteration; indexed loads of four entries.
ReadsDotIq2(row, lane, s) ==
    LET q2 == 16 * (s \div 2) + 8 * (s % 2)
    IN  [i \in 1 .. 32 |->
            LET l == i - 1
            IN  << 32 * s + l, << q2 + l \div 8, l % 8, q2 + 4, <<0, 7, 14, 21>>[l \div 8 + 1] >> >>]

\* vl1r and vl4r of the matrix-unit kernel, its four column groups packed to one
\* row of 32 lanes: four rows of 32 bytes, 32 columns of 16 bytes.
ReadsIme2(row, lane, s) ==
    [i \in 1 .. 32 |-> << 16 + 8 + row * 32 + i - 1, << 64 + lane * 16 + (i - 1) \div 2, (i - 1) % 2 >> >>]

\* Where the scale and the minimum of a subblock are taken from.
ReadScale32(lane, s) == { <<s * 32 + lane, "byte">> }

\* The words of utmp after the masks and shifts: 0 to 3 and 4 to 7 are the
\* scales, 8 to 11 and 12 to 15 the minima.
Utmp16(word, byte) ==
    LET at(w) == 4 * w + byte
        i == word % 4
    IN  CASE word \in 0 .. 3  -> { <<at(i), "six">> }
          [] word \in 4 .. 7  -> { <<at(8 + i), "low">>, <<at(i), "top">> }
          [] word \in 8 .. 11 -> { <<at(4 + i), "six">> }
          [] OTHER            -> { <<at(8 + i), "high">>, <<at(4 + i), "top">> }

FromGroup(parts, s) == { << 96 * (s \div 2) + 48 * (s % 2) + p[1], p[2] >> : p \in parts }
ReadGroupScale(lane, s) == FromGroup(Utmp16(lane \div 4, lane % 4), s)
ReadGroupMin(lane, s) == FromGroup(Utmp16(8 + lane \div 4, lane % 4), s)

\* The same for the twelve bytes of one block, in four words.
Utmp4(word, byte) ==
    LET at(w) == 4 * w + byte
    IN  CASE word = 0 -> { <<at(0), "six">> }
          [] word = 1 -> { <<at(2), "low">>, <<at(0), "top">> }
          [] word = 2 -> { <<at(1), "six">> }
          [] word = 3 -> { <<at(2), "high">>, <<at(1), "top">> }

ReadDotScale(lane, s) == Utmp4(s \div 4, s % 4)
ReadDotMin(lane, s) == Utmp4(2 + s \div 4, s % 4)

\* The 128 bit branch computes the four words in vector registers: the words of
\* the block slid down past d and dmin, two elements at a time, masked into the
\* even words of utmp; the last of them, shifted by 0 and 4, joins their top bits
\* in the odd words.
Utmp128(word, byte) ==
    LET element == word \div 2
        slid(e) == 4 * (e + 1) + byte - 4
    IN  IF word % 2 = 0
        THEN { <<slid(element), "six">> }
        ELSE { <<slid(2), IF element = 0 THEN "low" ELSE "high">>, <<slid(element), "top">> }

ReadDotScale128(lane, s) == Utmp128(s \div 4, s % 4)
ReadDotMin128(lane, s) == Utmp128(2 + s \div 4, s % 4)
ReadDotScaleIq2(lane, s) == { << 16 * (s \div 2) + 8 * (s % 2) + 4, "top nibble" >> }

\* The sums of activations that a minimum is multiplied by.  (ReadBsums: two loads
\* of every other sum, or one load of pairs that is narrowed to either half.)
ReadBsum12(row, s) == { row + s * 12 }
ReadBsum4(row, s) == { row + 4 * (s % 2) + (s \div 2) * 8 }
ReadBsums(row, s) == { 2 * s, 2 * s + 1 }

----------------------------------------------------------------------------
(* The kernels: shape of a tile; narrow, the number of products that are    *)
(* added in 16 bits; pass, whether the minima are added in a second pass,   *)
(* with the block or not at all; depth, the blocks of a panel that is       *)
(* unpacked at a time (0: all).                                             *)

KernelQ4_0My == [ format |-> "q4_0", mr |-> 8, nr |-> 32, narrow |-> 32, pass |-> "none", depth |-> 0 ]
KernelQ4_0Group == [ KernelQ4_0My EXCEPT !.mr = 12 ]

\* vwmul and vwmacc, then a widening reduction of sixteen lanes.
KernelQ4_0Upstream == [ KernelQ4_0My EXCEPT !.mr = 1, !.nr = 1, !.narrow = 2 ]

\* The matrix unit's 32 bit sums of unsigned weights; the offset of the weights
\* is added for the whole block, eight times the negated sum of the activations.
KernelQ4_0Ime2 == [ KernelQ4_0My EXCEPT !.mr = 4, !.narrow = 1, !.pass = "with the block" ]

KernelQ4_KMy == [ format |-> "q4_K", mr |-> 12, nr |-> 32, narrow |-> 32, pass |-> "second", depth |-> 0 ]
KernelQ4_KGroup == [ KernelQ4_KMy EXCEPT !.mr = 4, !.pass = "with the block" ]

\* The 256 bit branch; vredsum adds the 32 products without widening.
KernelQ4_KUpstream == [ KernelQ4_KMy EXCEPT !.mr = 1, !.nr = 1, !.pass = "with the block" ]

\* The 128 bit branch; two products in a lane, then a widening reduction.
KernelQ4_KUpstream128 == [ KernelQ4_KUpstream EXCEPT !.narrow = 2 ]

KernelIq2Ir == [ format |-> "iq2_xxs", mr |-> 12, nr |-> 32, narrow |-> 32, pass |-> "none", depth |-> 0 ]

\* Panels of KC values of K, each unpacked for all rows.
KernelIq2Br == [ KernelIq2Ir EXCEPT !.depth = KcBlocks ]

KernelIq2Upstream == [ KernelIq2Ir EXCEPT !.mr = 1, !.nr = 1, !.narrow = 1 ]

VARIABLES
    kernel,      \* the kernel that runs: a name
    row, lane,   \* the row accumulator and its lane that are followed
    iteration,   \* iterations that have begun
    todo,        \* tiles (and panels of K) still to be computed in this iteration
    call,        \* the current one
    panel,       \* the weights that are unpacked: <<tile of columns, first block>>
    at,          \* where the kernel is
    bk,          \* its block index
    value,       \* the 16 bit sum of a subblock whose products are all extreme
    block,       \* the sum of a block: subblocks and their scales
    sum, mins,   \* the sums over the blocks
    output       \* the cells that the lane has written

loop == <<iteration, todo, call, panel>>
tileVars == <<kernel, row, lane, loop, at, bk, value, block, sum, mins, output>>

K == CASE kernel = "q4_0_my" -> KernelQ4_0My
       [] kernel = "q4_0_group" -> KernelQ4_0Group
       [] kernel = "q4_0_upstream" -> KernelQ4_0Upstream
       [] kernel = "q4_0_ime2" -> KernelQ4_0Ime2
       [] kernel = "q4_K_my" -> KernelQ4_KMy
       [] kernel = "q4_K_group" -> KernelQ4_KGroup
       [] kernel = "q4_K_upstream" -> KernelQ4_KUpstream
       [] kernel = "q4_K_upstream_128" -> KernelQ4_KUpstream128
       [] kernel = "iq2_br" -> KernelIq2Br
       [] kernel = "iq2_ir" -> KernelIq2Ir
       [] kernel = "iq2_upstream" -> KernelIq2Upstream

Subblocks == IF K.format = "q4_0" THEN 1 ELSE 8

\* Each kernel with the prepare() of its adapter: where an activation and a
\* weight of index k are, which weight it is, and what subblock s reads.
PlaceA(k) ==
    CASE kernel = "q4_0_my" -> PlaceA8(row, k)
      [] kernel = "q4_0_group" -> PlaceA12Group(row, k)
      [] kernel = "q4_0_ime2" -> PlaceA4Ime2(row, k)
      [] kernel = "q4_K_group" -> PlaceA4(row, k)
      [] kernel \in {"q4_K_my", "iq2_br", "iq2_ir"} -> PlaceA12(row, k)
      [] OTHER -> k

PlaceW(k) ==
    CASE kernel = "q4_0_my" -> PlaceB32(lane, k)
      [] kernel = "q4_0_group" -> PlaceB32Group(lane, k)
      [] kernel = "q4_0_ime2" -> PlaceB32Ime2(lane, k)
      [] kernel = "q4_K_my" -> PlaceWPairs(lane, k)
      [] kernel = "q4_K_group" -> PlaceWGroups(lane, k)
      [] kernel = "iq2_br" -> PlaceWIq2(lane, k)
      [] kernel = "iq2_ir" -> PlaceWIq2Ir(lane, k)
      [] kernel = "q4_0_upstream" -> ValueQ4_0(k)
      [] kernel \in {"q4_K_upstream", "q4_K_upstream_128"} -> ValueQ4_K(k)
      [] kernel = "iq2_upstream" -> ValueIq2(k)

Taken(k) ==
    CASE K.format = "q4_0" -> << k % 16, k \div 16 >>
      [] kernel \in {"q4_K_my", "q4_K_group"} -> Q4Value(k)
      [] kernel \in {"q4_K_upstream", "q4_K_upstream_128"} -> ValueQ4_K(k)
      [] kernel = "iq2_br" -> Iq2Subblock(k)
      [] kernel = "iq2_ir" -> Iq2SubblockIr(k)
      [] kernel = "iq2_upstream" -> ValueIq2(k)

Reads(s) ==
    CASE kernel = "q4_0_my" -> Reads8x32(row, lane, s)
      [] kernel = "q4_0_group" -> Reads12x32(row, lane, s)
      [] kernel = "q4_0_upstream" -> ReadsDotQ4_0(row, lane, s)
      [] kernel = "q4_0_ime2" -> ReadsIme2(row, lane, s)
      [] kernel = "q4_K_my" -> ReadsQ4_K(row, lane, s)
      [] kernel = "q4_K_group" -> ReadsQ4_KGroup(row, lane, s)
      [] kernel = "q4_K_upstream" -> ReadsDotQ4_K(row, lane, s)
      [] kernel = "q4_K_upstream_128" -> ReadsDot128(row, lane, s)
      [] kernel \in {"iq2_br", "iq2_ir"} -> ReadsIq2(row, lane, s)
      [] kernel = "iq2_upstream" -> ReadsDotIq2(row, lane, s)

\* The scale of subblock s (the minimum, the sum of its activations): what the
\* reference takes, what prepare() takes, where it puts it, what the kernel reads.
Scale(s) ==
    CASE kernel = "q4_K_my" -> << ScaleQ4_K(s), UnpackedScale(s), PlaceScale32(lane, s), ReadScale32(lane, s) >>
      [] kernel = "q4_K_group" -> << ScaleQ4_K(s), Q4Scale(s), PackedGroupScale(lane, s), ReadGroupScale(lane, s) >>
      [] kernel = "q4_K_upstream" -> << ScaleQ4_K(s), ScaleQ4_K(s), ScaleQ4_K(s), ReadDotScale(lane, s) >>
      [] kernel = "q4_K_upstream_128" -> << ScaleQ4_K(s), ScaleQ4_K(s), ScaleQ4_K(s), ReadDotScale128(lane, s) >>
      [] kernel \in {"iq2_br", "iq2_ir"} -> << ScaleIq2(s), { << s * 8 + 4, "top nibble" >> }, PlaceScale32(lane, s), ReadScale32(lane, s) >>
      [] kernel = "iq2_upstream" -> << ScaleIq2(s), ScaleIq2(s), ScaleIq2(s), ReadDotScaleIq2(lane, s) >>
      [] K.format = "q4_0" -> << {}, {}, {}, {} >>

Minimum(s) ==
    CASE kernel = "q4_0_ime2" -> << {"eight"}, {"eight"}, {}, {} >>
      [] kernel = "q4_K_my" -> << MinQ4_K(s), UnpackedMin(s), PlaceScale32(lane, s), ReadScale32(lane, s) >>
      [] kernel = "q4_K_group" -> << MinQ4_K(s), Q4Min(s), PackedGroupMin(lane, s), ReadGroupMin(lane, s) >>
      [] kernel = "q4_K_upstream_128" -> << MinQ4_K(s), MinQ4_K(s), MinQ4_K(s), ReadDotMin128(lane, s) >>
      [] OTHER -> << MinQ4_K(s), MinQ4_K(s), MinQ4_K(s), ReadDotMin(lane, s) >>

Bsum(s) ==
    CASE kernel = "q4_0_ime2" -> << {PlaceSumIme2(row)}, { 16 + 2 * row } >>
      [] kernel = "q4_K_my" -> << {s * 12 + row}, ReadBsum12(row, s) >>
      [] kernel = "q4_K_group" -> << {s * 4 + row}, ReadBsum4(row, s) >>
      [] OTHER -> << BsumsOf(s), ReadBsums(row, s) >>

----------------------------------------------------------------------------
Lesser(a, b) == IF a < b THEN a ELSE b

Depth == IF K.depth = 0 THEN Blocks ELSE K.depth

Calls ==
    { [m |-> m, n |-> n, first |-> f, depth |-> Lesser(Depth, Blocks - f)] :
        m \in 0 .. TilesM - 1, n \in 0 .. TilesN - 1, f \in { b \in 0 .. Blocks - 1 : b % Depth = 0 } }

\* The loop nests of run() and of the kernels, outermost loop first.
LoopNest(c) == IF kernel = "iq2_br" THEN <<c.n, c.first, c.m>> ELSE <<c.m, c.n, c.first>>

Before(c, d) ==
    \E i \in 1 .. 3 : /\ LoopNest(c)[i] < LoopNest(d)[i]
                      /\ \A j \in 1 .. i - 1 : LoopNest(c)[j] = LoopNest(d)[j]

NoCall == [m |-> 0, n |-> 0, first |-> 0, depth |-> 0]

TileInit ==
    /\ kernel \in Kernels
    /\ row \in 0 .. K.mr - 1 /\ lane \in 0 .. K.nr - 1
    /\ iteration = 0 /\ todo = {} /\ call = NoCall /\ panel = <<0, 0>>
    /\ at = "idle" /\ bk = 0 /\ value = 0
    /\ block = <<>> /\ sum = <<>> /\ mins = <<>>
    /\ output = [c \in (0 .. TilesM - 1) \X (0 .. TilesN - 1) |-> << <<>>, <<>> >>]

\* The next iteration of run().
Iterate ==
    /\ at = "idle" /\ todo = {} /\ iteration < Iterations
    /\ iteration' = iteration + 1 /\ todo' = Calls
    /\ UNCHANGED <<kernel, row, lane, call, panel, at, bk, value, block, sum, mins, output>>

\* The loops reach the next tile.  iq2_br unpacks the weights when it reaches the
\* first rows of a panel, iq2_ir all of them at the start; the others take them
\* as prepare() left them.
Call ==
    /\ at = "idle"
    /\ \E c \in todo :
         /\ \A d \in todo \ {c} : Before(c, d)
         /\ call' = c /\ todo' = todo \ {c}
         /\ panel' = IF K.depth = 0 \/ c.m = 0 THEN <<c.n, c.first>> ELSE panel
    /\ bk' = 0 /\ at' = "dot"
    /\ UNCHANGED <<kernel, row, lane, iteration, value, block, sum, mins, output>>

Wrap16(v) == ((v + 32768) % 65536) - 32768

\* Fault: the offset of the four bit weights is not subtracted.
LargestWithoutOffset(format) == CASE format = "iq2_xxs" -> 43 [] OTHER -> 15

\* The largest magnitude of a weight: 0 to 15 less 8, 0 to 15, an entry of the grid.
LargestWeight(format) == CASE format = "q4_0" -> 8 [] format = "q4_K" -> 15 [] format = "iq2_xxs" -> 43

\* The activations lie between -127 and 127.
LargestProduct == LargestWeight(K.format) * 127

\* What the reference multiplies, by format.
ReferenceValue(k) ==
    CASE K.format = "q4_0" -> ValueQ4_0(k) [] K.format = "q4_K" -> ValueQ4_K(k) [] OTHER -> ValueIq2(k)

Indices(s) == 32 * s .. 32 * s + 31

\* The products of subblock s: "all" when they are those of the reference, every
\* index once, from this row and this lane's column.
Dot(s) ==
    IF /\ Len(Reads(s)) = 32
       /\ Range(Reads(s)) = { << PlaceA(k), PlaceW(k) >> : k \in Indices(s) }
       /\ \A k \in Indices(s) : Taken(k) = ReferenceValue(k)
    THEN "all" ELSE "other"

\* Its scale and its minimum with the sum of its activations.
Own(part) == part[1] = part[2] /\ part[3] = part[4]
ScaleRead(s) == IF Own(Scale(s)) THEN "own" ELSE "other"
MinRead(s) == IF Own(Minimum(s)) /\ Bsum(s)[1] = Bsum(s)[2] THEN "own" ELSE "other"

\* A block: the blocks of the row and of the column, the 16 bit sums of its
\* subblocks, scaled and added in 32 bits.
Multiply ==
    /\ at = "dot"
    /\ value' = (32 \div K.narrow) * Wrap16(K.narrow * LargestProduct)
    /\ block' = << call.m, panel[1], call.first + bk, panel[2] + bk,
                   {<< Dot(s), ScaleRead(s) >> : s \in 0 .. Subblocks - 1} >>
    /\ at' = "add"
    /\ UNCHANGED <<kernel, row, lane, loop, bk, sum, mins, output>>

\* The minima of the block.
Minima == << call.m, call.n, call.first + bk, {MinRead(s) : s \in 0 .. Subblocks - 1} >>

\* Fault: the first block is added to what the sums still hold.
NeverStarts(b) == FALSE

\* The first block of a tile sets the sums, the others are added.
Starts(b) == b = 0

\* The block is scaled with the scales of its row and column and added.
Add ==
    /\ at = "add"
    /\ sum' = Append(IF Starts(bk) THEN <<>> ELSE sum, block)
    /\ mins' = IF K.pass = "with the block" THEN Append(IF Starts(bk) THEN <<>> ELSE mins, Minima) ELSE mins
    /\ IF bk + 1 < call.depth THEN bk' = bk + 1 /\ at' = "dot"
       ELSE bk' = 0 /\ at' = IF K.pass = "second" THEN "minima" ELSE "store"
    /\ UNCHANGED <<kernel, row, lane, loop, value, block, output>>

\* The second pass over the blocks.
AddMinima ==
    /\ at = "minima"
    /\ mins' = Append(IF Starts(bk) THEN <<>> ELSE mins, Minima)
    /\ IF bk + 1 < call.depth THEN bk' = bk + 1 /\ at' = at ELSE bk' = 0 /\ at' = "store"
    /\ UNCHANGED <<kernel, row, lane, loop, value, block, sum, output>>

\* Fault: every panel is added to what the output holds.
ContinuesAlways(c) == kernel = "iq2_br"

\* i_kc # 0: a later panel is added to what the output holds.
Continues(c) == c.first # 0

\* The sums less the minima are written to the row and the column of the lane.
Store ==
    /\ at = "store"
    /\ output' = [output EXCEPT ![<<call.m, call.n>>] =
           << (IF Continues(call) THEN @[1] ELSE <<>>) \o sum,
              IF K.pass = "none" THEN <<>> ELSE mins >>]
    /\ at' = "idle"
    /\ UNCHANGED <<kernel, row, lane, loop, bk, value, block, sum, mins>>

Finished == at = "idle" /\ todo = {} /\ iteration = Iterations

TileNext == Iterate \/ Call \/ Multiply \/ Add \/ AddMinima \/ Store \/ (Finished /\ UNCHANGED tileVars)

TileSpec == TileInit /\ [][TileNext]_tileVars

----------------------------------------------------------------------------
\* Q4_K has minima; the offset of unsigned Q4_0 weights is one.
HasMinima == K.format = "q4_K" \/ kernel = "q4_0_ime2"

\* After every iteration the cell of this row and lane in every tile holds what
\* the reference computes for it: every block once, in order, each subblock with
\* its scale and its minimum, weights and activations of the same index paired;
\* nothing is left of another tile or of the iteration before.
OutputIsProduct ==
    at = "idle" /\ todo = {} /\ iteration > 0 =>
      \A m \in 0 .. TilesM - 1, n \in 0 .. TilesN - 1 :
        output[<<m, n>>] =
          << [b \in 1 .. Blocks |-> << m, n, b - 1, b - 1, {<<"all", "own">>} >>],
             IF HasMinima THEN [b \in 1 .. Blocks |-> << m, n, b - 1, {"own"} >>] ELSE <<>> >>

\* The 16 bit sum of a subblock is exact even if every product is the largest.
SumsAreExact == at = "add" /\ kernel \notin MayWrap => value = 32 * LargestProduct

\* run_benchmark compares every kernel with the reference, whose sums do not wrap.
SumsMatchReference == at = "add" => value = 32 * LargestProduct
=============================================================================
