------------------------ MODULE CacheBlockedGemmProofs ------------------------
(***************************************************************************)
(* The cache-blocked adapters for any shape, adapter values, number of     *)
(* threads and iterations: the output is the product, with its terms added *)
(* in the order of K, whatever the interleaving of the workers.            *)
(*                                                                         *)
(* The proof has four layers: shares of a parallel loop are disjoint and   *)
(* cover it; addresses of different blocks and tiles differ; what each     *)
(* loop has done so far; and how one loop hands over to the next.          *)
(***************************************************************************)
EXTENDS CacheBlockedGemm, SequenceTheorems, TLAPS

Rows == 0 .. TilesM - 1
Columns == 0 .. TilesN - 1
Blocks == 0 .. BlocksK - 1

Parallel == {"unpack_b", "compute", "unpack_c"}

TypeOK ==
    /\ adapter \in Adapters
    /\ at \in Parallel \cup {"prepare", "done"}
    /\ iteration \in Nat
    /\ tile \in [Worker -> Nat]
    /\ inner \in [Worker -> Nat]
    /\ step \in [Worker -> {"fill", "load", "store"}]
    /\ DOMAIN sum = Worker
    /\ DOMAIN packed_a = AddressesOfA
    /\ DOMAIN unpacked_b = 0 .. TilesN * BlocksK - 1
    /\ DOMAIN packed_c = 0 .. TilesM * TilesN - 1
    /\ DOMAIN output = Rows \X Columns

\* A block at which a panel begins.
IsPanel(k) == k \in Blocks /\ \E j \in Blocks : k = j * BlocksPerPanel

\* The main thread's loop variables, and the workers' within their shares.
LoopInv ==
    /\ IsPanel(block_k)
    /\ chunk_begin \in Rows
    /\ at = "prepare" => iteration = 0
    /\ at \in {"prepare", "unpack_b"} => block_k = 0 /\ chunk_begin = 0
    /\ at = "unpack_b" => PreUnpack
    /\ at = "unpack_c" => block_k + BlocksPerPanel >= BlocksK
    /\ at \in Parallel =>
         \A w \in Worker : ShareBegin(w, Count) <= tile[w] /\ tile[w] <= ShareBegin(w + 1, Count)
    /\ at = "compute" => \A w \in Worker : chunk_begin <= inner[w] /\ inner[w] < ChunkEnd
    /\ at = "unpack_c" => \A w \in Worker : inner[w] \in Columns

\* Worker w has the index n of the parallel loop in its share.
Owns(w, n) == ShareBegin(w, Count) <= n /\ n < ShareBegin(w + 1, Count)

\* Whoever has n in its share is past it, or at it and past the inner index i.
Through(n) == \A w \in Worker : Owns(w, n) => n < tile[w]
Past(n, i) == \A w \in Worker : Owns(w, n) => n < tile[w] \/ (n = tile[w] /\ i < inner[w])

\* The operands are where the micro kernel reads them.
OperandsInv ==
    /\ at # "prepare" => \A k \in Blocks, m \in Rows :
         IsPanel(k) => \A i \in 0 .. LocalBlocks(k) - 1 :
                         packed_a[Operand(k, m) + i] = <<m, k + i>>
    /\ PreUnpack /\ at \in Parallel => \A n \in Columns :
         (at = "unpack_b" => Through(n)) =>
            \A k \in Blocks : unpacked_b[OperandB(0, n) + k] = <<n, k>>

\* The tiles that have got this panel's products already.
Reached(m, n) == m < chunk_begin \/ (m < ChunkEnd /\ Past(n, m))

\* The sums in memory, of the tiles that this panel has reached and of the others.
SumsInv ==
    at = "compute" => \A m \in Rows, n \in Columns :
        IF Reached(m, n)
        THEN packed_c[TileOf(m, n)] = Product(m, n, block_k + LocalBlocks(block_k))
        ELSE block_k > 0 => packed_c[TileOf(m, n)] = Product(m, n, block_k)

\* The sum that a worker has in registers, or is about to load.
WorkersInv ==
    at = "compute" => \A w \in Worker : Busy(w) =>
        /\ step[w] = "load" /\ block_k = 0 /\ ~ PreUnpack =>
             packed_c[TileOf(inner[w], tile[w])] = <<>>
        /\ step[w] = "store" => sum[w] = Product(inner[w], tile[w], block_k)

CopyInv ==
    at = "unpack_c" => \A m \in Rows, n \in Columns :
        /\ packed_c[TileOf(m, n)] = Product(m, n, BlocksK)
        /\ Past(m, n) => output[m, n] = Product(m, n, BlocksK)

IInv ==
    /\ TypeOK /\ LoopInv /\ OperandsInv
    /\ SumsInv /\ WorkersInv /\ CopyInv
    /\ OutputIsProduct

----------------------------------------------------------------------------
(* Arithmetic. *)

LEMMA ConstantTypes ==
    /\ TilesM \in Nat /\ TilesM > 0 /\ TilesN \in Nat /\ TilesN > 0
    /\ BlocksK \in Nat /\ BlocksK > 0 /\ Threads \in Nat /\ Threads > 0
BY CacheBlockedGemmAssumption

LEMMA TimesMonotone ==
    ASSUME NEW a \in Nat, NEW b \in Nat, NEW c \in Nat, a <= b
    PROVE  a * c \in Nat /\ b * c \in Nat /\ a * c <= b * c
OBVIOUS

LEMMA TimesSuccessor ==
    ASSUME NEW a \in Nat, NEW c \in Nat
    PROVE  a * c \in Nat /\ (a + 1) * c = a * c + c
OBVIOUS

\* Places in a table of rows of a width are different.
LEMMA RowsApart ==
    ASSUME NEW width \in Nat, NEW a \in Nat, NEW b \in Nat, a < b,
           NEW i \in 0 .. width - 1
    PROVE  a * width + i < b * width
<1>1. (a + 1) * width <= b * width /\ b * width \in Nat
  BY TimesMonotone
<1>2. a * width \in Nat /\ (a + 1) * width = a * width + width
  BY TimesSuccessor
<1> QED BY <1>1, <1>2

LEMMA RowMajor ==
    ASSUME NEW width \in Nat, NEW a \in Nat, NEW b \in Nat,
           NEW i \in 0 .. width - 1, NEW j \in 0 .. width - 1,
           a * width + i = b * width + j
    PROVE  a = b /\ i = j
<1>1. a * width \in Nat /\ b * width \in Nat
  BY TimesSuccessor
<1>2. ~ (a < b)
  BY <1>1, RowsApart
<1>3. ~ (b < a)
  BY <1>1, RowsApart
<1> QED BY <1>1, <1>2, <1>3

LEMMA DivMod ==
    ASSUME NEW n \in Nat, NEW d \in Nat \ {0}
    PROVE  /\ n \div d \in Nat /\ n % d \in 0 .. d - 1
           /\ n = (n \div d) * d + (n % d)
           /\ (n \div d) * d <= n /\ n < (n \div d + 1) * d
<1>1. n \div d \in Nat /\ n % d \in 0 .. d - 1 /\ n = d * (n \div d) + (n % d)
  OBVIOUS
<1>2. ((n \div d) + 1) * d = (n \div d) * d + d
  BY <1>1, TimesSuccessor
<1> QED BY <1>1, <1>2

LEMMA DivModOfRow ==
    ASSUME NEW width \in Nat \ {0}, NEW a \in Nat, NEW i \in 0 .. width - 1
    PROVE  (a * width + i) \div width = a /\ (a * width + i) % width = i
<1>1. a * width + i \in Nat
  BY TimesSuccessor
<1> DEFINE n == a * width + i
<1>2. /\ n \div width \in Nat /\ n % width \in 0 .. width - 1
      /\ n = (n \div width) * width + (n % width)
  BY <1>1, DivMod
<1>3. n = a * width + i
  OBVIOUS
<1> HIDE DEF n
<1>4. n \div width = a /\ n % width = i
  BY <1>2, <1>3, RowMajor
<1> QED BY <1>4 DEF n

----------------------------------------------------------------------------
(* schedule(static): shares follow each other without gap or overlap. *)

LEMMA ShareType ==
    ASSUME NEW count \in Nat, NEW w \in Nat
    PROVE  ShareBegin(w, count) \in Nat
<1>1. count \div Threads \in Nat /\ count % Threads \in Nat
  BY DivMod, ConstantTypes
<1>2. w * (count \div Threads) \in Nat
  BY <1>1, TimesSuccessor
<1> QED BY <1>1, <1>2 DEF ShareBegin, Lesser

LEMMA SharesAscend ==
    ASSUME NEW count \in Nat, NEW v \in Nat, NEW w \in Nat, v <= w
    PROVE  ShareBegin(v, count) <= ShareBegin(w, count)
<1>1. count \div Threads \in Nat /\ count % Threads \in Nat
  BY DivMod, ConstantTypes
<1>2. v * (count \div Threads) <= w * (count \div Threads)
      /\ v * (count \div Threads) \in Nat /\ w * (count \div Threads) \in Nat
  BY <1>1, TimesMonotone
<1> QED BY <1>1, <1>2 DEF ShareBegin, Lesser

LEMMA ShareEnds ==
    ASSUME NEW count \in Nat
    PROVE  ShareBegin(0, count) = 0 /\ ShareBegin(Threads, count) = count
<1> DEFINE q == count \div Threads
           r == count % Threads
<1>1. q \in Nat /\ r \in 0 .. Threads - 1 /\ count = q * Threads + r
  BY DivMod, ConstantTypes
<1>2. 0 * q = 0 /\ Threads * q = q * Threads
  BY <1>1, ConstantTypes
<1> QED BY <1>1, <1>2, ConstantTypes DEF ShareBegin, Lesser

\* Two workers never have the same index.
LEMMA SharesApart ==
    ASSUME NEW count \in Nat, NEW v \in Nat, NEW w \in Nat, NEW n \in Int,
           ShareBegin(v, count) <= n, n < ShareBegin(v + 1, count),
           ShareBegin(w, count) <= n, n < ShareBegin(w + 1, count)
    PROVE  v = w
<1>1. /\ ShareBegin(v, count) \in Nat /\ ShareBegin(v + 1, count) \in Nat
      /\ ShareBegin(w, count) \in Nat /\ ShareBegin(w + 1, count) \in Nat
  BY ShareType
<1>2. CASE v < w
  <2>1. ShareBegin(v + 1, count) <= ShareBegin(w, count)
    BY <1>2, SharesAscend
  <2> QED BY <1>1, <2>1
<1>3. CASE w < v
  <2>1. ShareBegin(w + 1, count) <= ShareBegin(v, count)
    BY <1>3, SharesAscend
  <2> QED BY <1>1, <2>1
<1> QED BY <1>2, <1>3

\* Every index is some worker's.
LEMMA SharesCover ==
    ASSUME NEW count \in Nat, NEW n \in 0 .. count - 1
    PROVE  \E w \in Worker : ShareBegin(w, count) <= n /\ n < ShareBegin(w + 1, count)
<1> DEFINE q == count \div Threads
           r == count % Threads
<1>1. q \in Nat /\ r \in 0 .. Threads - 1 /\ count = q * Threads + r
  BY DivMod, ConstantTypes
<1>2. \A w \in Nat : ShareBegin(w, count) = w * q + Lesser(w, r)
  BY DEF ShareBegin
<1>3. r * (q + 1) \in Nat /\ r * (q + 1) = r * q + r /\ r * q \in Nat
  BY <1>1
<1> HIDE DEF q, r
<1>4. CASE n < r * (q + 1)
  <2> DEFINE w == n \div (q + 1)
  <2>0. n \in Nat /\ q + 1 \in Nat \ {0}
    BY <1>1
  <2>1. w \in Nat /\ w * (q + 1) <= n /\ n < (w + 1) * (q + 1)
    BY <2>0, DivMod, Zenon
  <2> HIDE DEF w
  <2>2. w < r
    <3>1. CASE r <= w
      <4>1. r * (q + 1) <= w * (q + 1) /\ w * (q + 1) \in Nat
        BY <1>1, <2>1, <3>1, TimesMonotone
      <4> QED BY <1>3, <1>4, <2>1, <4>1
    <3> QED BY <1>1, <2>1, <3>1
  <2>3. w * (q + 1) = w * q + w /\ (w + 1) * (q + 1) = (w + 1) * q + (w + 1)
    BY <1>1, <2>1
  <2>4. w \in Worker
    BY <1>1, <2>1, <2>2, ConstantTypes DEF Worker
  <2> QED BY <1>1, <1>2, <2>1, <2>2, <2>3, <2>4 DEF Lesser
<1>5. CASE n >= r * (q + 1)
  <2>1. n - r \in Nat /\ r * q <= n - r /\ q > 0
    <3> DEFINE rq == r * q
               tq == q * Threads
    <3>1. rq \in Nat /\ tq \in Nat /\ count = tq + r /\ n >= rq + r
      BY <1>1, <1>3, <1>5, ConstantTypes
    <3>2. q = 0 => tq = 0
      BY ConstantTypes
    <3> HIDE DEF rq, tq
    <3>3. n - r \in Nat /\ rq <= n - r /\ q > 0
      BY <1>1, <3>1, <3>2
    <3> QED BY <3>3 DEF rq
  <2> DEFINE w == (n - r) \div q
  <2>0. q \in Nat \ {0}
    BY <1>1, <2>1
  <2>2. w \in Nat /\ w * q <= n - r /\ n - r < (w + 1) * q
    BY <2>0, <2>1, DivMod, Zenon
  <2> HIDE DEF w
  <2>3. r <= w
    <3>1. CASE w < r
      <4>1. (w + 1) * q <= r * q /\ (w + 1) * q \in Nat
        BY <1>1, <2>2, <3>1, TimesMonotone
      <4> QED BY <1>3, <2>1, <2>2, <4>1
    <3> QED BY <1>1, <2>2, <3>1
  <2>4. w < Threads
    <3>1. CASE Threads <= w
      <4>1. Threads * q <= w * q /\ Threads * q = q * Threads /\ w * q \in Nat
        BY <1>1, <2>2, <3>1, TimesMonotone, ConstantTypes
      <4> DEFINE wq == w * q
                 tq == q * Threads
      <4>2. wq \in Nat /\ tq <= wq /\ wq <= n - r /\ count = tq + r /\ tq \in Nat
        BY <1>1, <2>2, <4>1, ConstantTypes
      <4> HIDE DEF wq, tq
      <4> QED BY <1>1, <4>2
    <3> QED BY <2>2, <3>1, ConstantTypes
  <2>5. w \in Worker
    BY <2>2, <2>4, ConstantTypes DEF Worker
  <2>6. ShareBegin(w, count) = w * q + r /\ ShareBegin(w + 1, count) = (w + 1) * q + r
    <3>1. Lesser(w, r) = r /\ Lesser(w + 1, r) = r
      BY <1>1, <2>2, <2>3 DEF Lesser
    <3>2. w + 1 \in Nat
      BY <2>2
    <3> QED BY <1>2, <2>2, <3>1, <3>2, Zenon
  <2>7. w * q \in Nat /\ (w + 1) * q \in Nat
    BY <1>1, <2>2
  <2> QED BY <1>1, <2>1, <2>2, <2>5, <2>6, <2>7
<1> QED BY <1>3, <1>4, <1>5

----------------------------------------------------------------------------
(* The addresses of the packed activations. *)

LEMMA AdapterTypes ==
    ASSUME adapter \in Adapters
    PROVE  /\ BlocksPerPanel \in Nat /\ BlocksPerPanel > 0
           /\ adapter.block_bytes \in Nat /\ adapter.block_bytes > 0
           /\ adapter.budget \in Nat /\ PreUnpack \in BOOLEAN
BY CacheBlockedGemmAssumption DEF Adapter, BlocksPerPanel, PreUnpack

\* A panel has at least one block and no more than there are.
LEMMA PanelTypes ==
    ASSUME adapter \in Adapters, NEW k \in Blocks
    PROVE  /\ LocalBlocks(k) \in 1 .. BlocksPerPanel /\ k + LocalBlocks(k) <= BlocksK
           /\ Stride(k) \in Nat /\ LocalBlocks(k) <= Stride(k)
           /\ k + BlocksPerPanel < BlocksK => Stride(k) = BlocksPerPanel
           /\ k + BlocksPerPanel >= BlocksK => k + LocalBlocks(k) = BlocksK
           /\ k + BlocksPerPanel < BlocksK => LocalBlocks(k) = BlocksPerPanel
BY AdapterTypes, ConstantTypes DEF LocalBlocks, Lesser, Stride, Blocks

LEMMA PanelBaseIs ==
    ASSUME adapter \in Adapters, NEW k, IsPanel(k)
    PROVE  PanelBase(k) = k * TilesM /\ PanelBase(k) \in Nat
<1>1. k \in Nat /\ TilesM \in Nat /\ k * TilesM \in Nat
  BY ConstantTypes DEF IsPanel, Blocks
<1>2. CASE ~ PreUnpack
  <2>1. PICK j \in Nat : k = j * BlocksPerPanel
    BY DEF IsPanel, Blocks
  <2>2. BlocksPerPanel \in Nat \ {0} /\ 0 \in 0 .. BlocksPerPanel - 1
    BY AdapterTypes
  <2>3. k \div BlocksPerPanel = j
    <3>1. (j * BlocksPerPanel + 0) \div BlocksPerPanel = j
      BY <2>2, DivModOfRow
    <3>2. j * BlocksPerPanel + 0 = j * BlocksPerPanel
      BY <2>2, TimesSuccessor
    <3> QED BY <2>1, <3>1, <3>2
  <2>4. j * TilesM * BlocksPerPanel = j * BlocksPerPanel * TilesM
    BY <1>1, <2>2
  <2> QED BY <1>1, <1>2, <2>1, <2>3, <2>4 DEF PanelBase
<1>3. CASE PreUnpack
  BY <1>1, <1>3 DEF PanelBase
<1> QED BY <1>2, <1>3

\* Panels begin at least a panel apart.
LEMMA PanelsApart ==
    ASSUME adapter \in Adapters, NEW k, NEW l, IsPanel(k), IsPanel(l), k < l
    PROVE  k + BlocksPerPanel <= l
<1>1. PICK i \in Nat, j \in Nat : k = i * BlocksPerPanel /\ l = j * BlocksPerPanel
  BY DEF IsPanel, Blocks
<1>2. BlocksPerPanel \in Nat /\ k \in Nat /\ l \in Nat
  BY AdapterTypes, ConstantTypes DEF IsPanel, Blocks
<1>3. i < j
  <2>1. CASE j <= i
    <3>1. j * BlocksPerPanel <= i * BlocksPerPanel
      BY <1>2, <2>1, TimesMonotone
    <3> QED BY <1>1, <1>2, <3>1
  <2> QED BY <2>1
<1>4. (i + 1) * BlocksPerPanel <= j * BlocksPerPanel
      /\ (i + 1) * BlocksPerPanel = i * BlocksPerPanel + BlocksPerPanel
  BY <1>2, <1>3, TimesMonotone, TimesSuccessor
<1> QED BY <1>1, <1>2, <1>4

\* Every block is in a panel.
LEMMA BlockInPanel ==
    ASSUME adapter \in Adapters, NEW k \in Blocks
    PROVE  /\ k % BlocksPerPanel \in Nat
           /\ IsPanel(k - (k % BlocksPerPanel))
           /\ k % BlocksPerPanel < LocalBlocks(k - (k % BlocksPerPanel))
<1> DEFINE i == k % BlocksPerPanel
           j == k \div BlocksPerPanel
<1>1. k \in Nat /\ k < BlocksK /\ BlocksPerPanel \in Nat \ {0} /\ BlocksPerPanel \in Nat
  BY AdapterTypes, ConstantTypes DEF Blocks
<1>2. j \in Nat /\ i \in 0 .. BlocksPerPanel - 1 /\ k = j * BlocksPerPanel + i
  BY <1>1, DivMod
<1> HIDE DEF i, j
<1>3. j * BlocksPerPanel \in Nat /\ j <= j * BlocksPerPanel
  <2>1. j * 1 <= j * BlocksPerPanel
    BY <1>1, <1>2
  <2> QED BY <1>1, <1>2, <2>1
<1>4. k - i = j * BlocksPerPanel /\ k - i \in Blocks /\ j \in Blocks
  BY <1>1, <1>2, <1>3, ConstantTypes DEF Blocks
<1>5. IsPanel(k - i)
  BY <1>4 DEF IsPanel
<1>6. i < LocalBlocks(k - i)
  BY <1>1, <1>2, <1>4, ConstantTypes DEF LocalBlocks, Lesser, Blocks
<1> QED BY <1>2, <1>5, <1>6 DEF i

\* A block in a panel is found there.
LEMMA PanelOfBlock ==
    ASSUME adapter \in Adapters, NEW k, IsPanel(k), NEW i \in 0 .. LocalBlocks(k) - 1
    PROVE  k + i \in Blocks /\ (k + i) % BlocksPerPanel = i
<1>1. PICK j \in Nat : k = j * BlocksPerPanel
  BY DEF IsPanel, Blocks
<1>2. k \in Blocks /\ BlocksPerPanel \in Nat \ {0}
  BY AdapterTypes DEF IsPanel
<1>3. LocalBlocks(k) \in 1 .. BlocksPerPanel /\ k + LocalBlocks(k) <= BlocksK
  BY <1>2, PanelTypes
<1>4. i \in 0 .. BlocksPerPanel - 1
  BY <1>2, <1>3
<1>5. (j * BlocksPerPanel + i) % BlocksPerPanel = i
  BY <1>2, <1>4, DivModOfRow
<1> QED BY <1>1, <1>2, <1>3, <1>5, ConstantTypes DEF Blocks

\* The panel's tiles lie before the next panel.
LEMMA PlaceInPanel ==
    ASSUME adapter \in Adapters, NEW k, IsPanel(k), NEW m \in Rows,
           NEW i \in 0 .. LocalBlocks(k) - 1
    PROVE  /\ Destination(k, m, i) \in Nat
           /\ Destination(k, m, i) = k * TilesM + (m * Stride(k) + i)
           /\ k * TilesM <= Destination(k, m, i)
           /\ Destination(k, m, i) < k * TilesM + TilesM * Stride(k)
<1>1. k \in Blocks /\ k \in Nat /\ m \in Nat /\ m < TilesM /\ TilesM \in Nat
  BY ConstantTypes DEF IsPanel, Blocks, Rows
<1>2. Stride(k) \in Nat /\ i \in 0 .. Stride(k) - 1 /\ i \in Nat
  BY <1>1, PanelTypes, AdapterTypes
<1>3. m * Stride(k) + i < TilesM * Stride(k) /\ m * Stride(k) \in Nat /\ TilesM * Stride(k) \in Nat
  BY <1>1, <1>2, RowsApart, TimesSuccessor
<1>4. k * TilesM \in Nat /\ PanelBase(k) = k * TilesM
  BY <1>1, TimesSuccessor, PanelBaseIs
<1>5. Destination(k, m, i) = k * TilesM + m * Stride(k) + i
  BY <1>4 DEF Destination
<1> QED BY ONLY <1>2, <1>3, <1>4, <1>5

\* No two blocks have the same place.
LEMMA PlacesApart ==
    ASSUME adapter \in Adapters,
           NEW k, IsPanel(k), NEW m \in Rows, NEW i \in 0 .. LocalBlocks(k) - 1,
           NEW l, IsPanel(l), NEW n \in Rows, NEW j \in 0 .. LocalBlocks(l) - 1,
           Destination(k, m, i) = Destination(l, n, j)
    PROVE  k = l /\ m = n /\ i = j
<1>1. ASSUME NEW p, NEW q, IsPanel(p), IsPanel(q), p < q
      PROVE  p * TilesM + TilesM * Stride(p) <= q * TilesM
  <2>1. p + BlocksPerPanel <= q /\ p \in Blocks /\ q \in Blocks /\ p \in Nat /\ q \in Nat
        /\ BlocksPerPanel \in Nat /\ TilesM \in Nat /\ q < BlocksK /\ BlocksK \in Nat
    BY <1>1, PanelsApart, AdapterTypes, ConstantTypes DEF IsPanel, Blocks
  <2>2. Stride(p) = BlocksPerPanel
    BY <2>1, PanelTypes
  <2>3. (p + BlocksPerPanel) * TilesM <= q * TilesM
    BY <2>1, TimesMonotone
  <2>4. (p + BlocksPerPanel) * TilesM = p * TilesM + TilesM * BlocksPerPanel
    BY <2>1
  <2> QED BY <2>2, <2>3, <2>4
<1>2. /\ k \in Nat /\ l \in Nat /\ k * TilesM \in Nat /\ l * TilesM \in Nat
      /\ k \in Blocks /\ m \in Nat /\ n \in Nat
  BY ConstantTypes, TimesSuccessor DEF IsPanel, Blocks, Rows
<1>3. /\ Destination(k, m, i) \in Nat
      /\ Destination(k, m, i) = k * TilesM + (m * Stride(k) + i)
      /\ k * TilesM <= Destination(k, m, i)
      /\ Destination(k, m, i) < k * TilesM + TilesM * Stride(k)
      /\ Destination(l, n, j) = l * TilesM + (n * Stride(l) + j)
      /\ l * TilesM <= Destination(l, n, j)
      /\ Destination(l, n, j) < l * TilesM + TilesM * Stride(l)
  BY PlaceInPanel
<1>4. /\ Stride(k) \in Nat /\ Stride(l) \in Nat
      /\ TilesM * Stride(k) \in Nat /\ TilesM * Stride(l) \in Nat
  BY PanelTypes, ConstantTypes, TimesSuccessor DEF IsPanel
<1>5. ~ (k < l)
  <2>1. SUFFICES ASSUME k < l PROVE FALSE
    OBVIOUS
  <2>2. k * TilesM + TilesM * Stride(k) <= l * TilesM
    BY <1>1, <2>1
  <2> QED BY ONLY <1>2, <1>3, <1>4, <2>2, Destination(k, m, i) = Destination(l, n, j)
<1>6. ~ (l < k)
  <2>1. SUFFICES ASSUME l < k PROVE FALSE
    OBVIOUS
  <2>2. l * TilesM + TilesM * Stride(l) <= k * TilesM
    BY <1>1, <2>1
  <2> QED BY ONLY <1>2, <1>3, <1>4, <2>2, Destination(k, m, i) = Destination(l, n, j)
<1>7. k = l
  BY <1>2, <1>5, <1>6
<1>8. i \in 0 .. Stride(k) - 1 /\ j \in 0 .. Stride(k) - 1
  BY <1>2, <1>4, <1>7, PanelTypes, AdapterTypes
<1>9. m * Stride(k) + i = n * Stride(k) + j
  <2>1. m * Stride(k) \in Nat /\ n * Stride(k) \in Nat
    BY <1>2, <1>4, TimesSuccessor
  <2>2. k * TilesM + (m * Stride(k) + i) = k * TilesM + (n * Stride(k) + j)
    BY <1>3, <1>7, Zenon
  <2> DEFINE base == k * TilesM
             left == m * Stride(k)
             right == n * Stride(k)
  <2>3. base \in Nat /\ left \in Nat /\ right \in Nat /\ base + (left + i) = base + (right + j)
    BY <1>2, <2>1, <2>2
  <2> HIDE DEF base, left, right
  <2>4. left + i = right + j
    BY <1>8, <2>3, <1>4
  <2> QED BY <2>4 DEF left, right
<1> QED BY <1>2, <1>4, <1>7, <1>8, <1>9, RowMajor

\* Every place is an address of the buffer.
LEMMA PlaceInBuffer ==
    ASSUME adapter \in Adapters, NEW k, IsPanel(k), NEW m \in Rows,
           NEW i \in 0 .. LocalBlocks(k) - 1
    PROVE  Destination(k, m, i) \in AddressesOfA
<1>1. /\ Destination(k, m, i) \in Nat
      /\ Destination(k, m, i) < k * TilesM + TilesM * Stride(k)
  BY PlaceInPanel
<1>2. /\ k \in Blocks /\ k \in Nat /\ TilesM \in Nat /\ BlocksPerPanel \in Nat \ {0} /\ BlocksK \in Nat
      /\ BlocksPerPanel \in Nat
  BY AdapterTypes, ConstantTypes DEF IsPanel, Blocks
<1>3. LocalBlocks(k) \in Nat /\ k + LocalBlocks(k) <= BlocksK /\ Stride(k) \in Nat
  BY <1>2, PanelTypes
<1>4. \A s \in Nat : k * TilesM + TilesM * s = (k + s) * TilesM
  BY <1>2
<1>5. CASE PreUnpack
  <2>1. k * TilesM + TilesM * Stride(k) = (k + LocalBlocks(k)) * TilesM
    BY <1>3, <1>4, <1>5 DEF Stride
  <2>2. (k + LocalBlocks(k)) * TilesM <= BlocksK * TilesM /\ BlocksK * TilesM \in Nat
    BY <1>2, <1>3, TimesMonotone
  <2>3. BlocksK * TilesM = TilesM * BlocksK
    BY <1>2
  <2>4. Destination(k, m, i) < TilesM * BlocksK /\ TilesM * BlocksK \in Nat
    <3> DEFINE a == k * TilesM + TilesM * Stride(k)
               b == (k + LocalBlocks(k)) * TilesM
               c == BlocksK * TilesM
               d == Destination(k, m, i)
    <3>1. d \in Nat /\ d < a /\ a = b /\ b <= c /\ c \in Nat /\ c = TilesM * BlocksK
      BY <1>1, <2>1, <2>2, <2>3
    <3>2. b \in Nat
      BY <1>2, <1>3
    <3> HIDE DEF a, b, c, d
    <3>3. d < c
      BY <3>1, <3>2
    <3> QED BY <3>1, <3>3 DEF c, d
  <2> QED BY <1>1, <1>5, <2>4 DEF AddressesOfA
<1>6. CASE ~ PreUnpack
  <2>1. k * TilesM + TilesM * Stride(k) = (k + BlocksPerPanel) * TilesM
    BY <1>2, <1>4, <1>6 DEF Stride
  <2>2. PICK j \in Nat : k = j * BlocksPerPanel
    BY DEF IsPanel, Blocks
  <2>3. Panels \in Nat /\ BlocksK <= Panels * BlocksPerPanel /\ Panels * BlocksPerPanel \in Nat
    <3>1. BlocksK + BlocksPerPanel - 1 \in Nat
      BY <1>2
    <3> DEFINE all == BlocksK + BlocksPerPanel - 1
    <3>2. all \div BlocksPerPanel \in Nat /\ all < (all \div BlocksPerPanel + 1) * BlocksPerPanel
      BY <1>2, <3>1, DivMod
    <3>3. Panels = all \div BlocksPerPanel
      BY DEF Panels
    <3>4. (Panels + 1) * BlocksPerPanel = Panels * BlocksPerPanel + BlocksPerPanel
          /\ Panels * BlocksPerPanel \in Nat
      BY <1>2, <3>2, <3>3, TimesSuccessor
    <3> QED BY <1>2, <3>2, <3>3, <3>4
  <2>4. j < Panels
    <3>1. CASE Panels <= j
      <4>1. Panels * BlocksPerPanel <= j * BlocksPerPanel
        BY <1>2, <2>3, <3>1, TimesMonotone
      <4> QED BY <1>2, <2>2, <2>3, <4>1, ConstantTypes DEF Blocks
    <3> QED BY <2>3, <3>1
  <2>5. k + BlocksPerPanel <= Panels * BlocksPerPanel
    <3>1. (j + 1) * BlocksPerPanel <= Panels * BlocksPerPanel
          /\ (j + 1) * BlocksPerPanel = j * BlocksPerPanel + BlocksPerPanel
      BY <1>2, <2>3, <2>4, TimesMonotone, TimesSuccessor
    <3> QED BY <2>2, <3>1
  <2>6. (k + BlocksPerPanel) * TilesM <= (Panels * BlocksPerPanel) * TilesM
        /\ (Panels * BlocksPerPanel) * TilesM \in Nat
    BY <1>2, <2>3, <2>5, TimesMonotone
  <2>7. (Panels * BlocksPerPanel) * TilesM = Panels * TilesM * BlocksPerPanel
    BY <1>2, <2>3
  <2>8. Destination(k, m, i) < Panels * TilesM * BlocksPerPanel /\ Panels * TilesM * BlocksPerPanel \in Nat
    <3> DEFINE a == k * TilesM + TilesM * Stride(k)
               b == (k + BlocksPerPanel) * TilesM
               c == (Panels * BlocksPerPanel) * TilesM
               d == Destination(k, m, i)
    <3>1. d \in Nat /\ d < a /\ a = b /\ b <= c /\ c \in Nat /\ c = Panels * TilesM * BlocksPerPanel
      BY <1>1, <2>1, <2>6, <2>7
    <3>2. b \in Nat
      BY <1>2
    <3> HIDE DEF a, b, c, d
    <3>3. d < c
      BY <3>1, <3>2
    <3> QED BY <3>1, <3>3 DEF c, d
  <2> QED BY <1>1, <1>6, <2>8 DEF AddressesOfA
<1> QED BY <1>5, <1>6

\* What prepare() leaves at a place is the block that is wanted there.
LEMMA PrepareFills ==
    ASSUME adapter \in Adapters, Prepare, NEW k, IsPanel(k), NEW m \in Rows,
           NEW i \in 0 .. LocalBlocks(k) - 1
    PROVE  packed_a'[Operand(k, m) + i] = <<m, k + i>>
<1> DEFINE place(b) == Destination(b[2] - (b[2] % BlocksPerPanel), b[1], b[2] % BlocksPerPanel)
           sources(address) == { b \in (0 .. TilesM - 1) \X (0 .. BlocksK - 1) : place(b) = address }
<1>1. \A address \in AddressesOfA : packed_a'[address] =
        IF sources(address) = {} THEN Undefined
        ELSE CHOOSE b \in sources(address) : TRUE
  BY DEF Prepare
<1>2. Operand(k, m) + i = Destination(k, m, i)
  BY DEF Operand, Destination
<1>3. k + i \in Blocks /\ (k + i) % BlocksPerPanel = i /\ k \in Nat /\ i \in Nat
  <2>1. k \in Nat
    BY DEF IsPanel, Blocks
  <2> QED BY <2>1, PanelOfBlock
<1>4. <<m, k + i>> \in sources(Destination(k, m, i))
  <2>1. (k + i) - i = k
    BY <1>3
  <2> QED BY <1>3, <2>1 DEF Rows, Blocks
<1>5. ASSUME NEW b \in sources(Destination(k, m, i))
      PROVE  b = <<m, k + i>>
  <2>1. b = <<b[1], b[2]>> /\ b[1] \in Rows /\ b[2] \in Blocks
    BY DEF Rows, Blocks
  <2> DEFINE j == b[2] % BlocksPerPanel
  <2>2. j \in Nat /\ IsPanel(b[2] - j) /\ j < LocalBlocks(b[2] - j)
    BY <2>1, BlockInPanel
  <2>3. j \in 0 .. LocalBlocks(b[2] - j) - 1
    <3>1. LocalBlocks(b[2] - j) \in Nat
      BY <2>2, PanelTypes, AdapterTypes DEF IsPanel
    <3> HIDE DEF j
    <3> QED BY <2>2, <3>1
  <2>4. Destination(b[2] - j, b[1], j) = Destination(k, m, i)
    OBVIOUS
  <2> HIDE DEF j
  <2>5. b[2] - j = k /\ b[1] = m /\ j = i
    BY <2>1, <2>2, <2>3, <2>4, PlacesApart
  <2>6. b[2] = k + i
    BY <1>3, <2>1, <2>5 DEF Blocks
  <2> QED BY <2>1, <2>5, <2>6
<1> HIDE DEF sources
<1> QED BY <1>1, <1>2, <1>4, <1>5, PlaceInBuffer

----------------------------------------------------------------------------
(* Tiles, weights and chunks. *)

LEMMA TilesApart ==
    ASSUME NEW m \in Rows, NEW n \in Columns, NEW p \in Rows, NEW q \in Columns,
           TileOf(m, n) = TileOf(p, q)
    PROVE  m = p /\ n = q
BY RowMajor, ConstantTypes DEF TileOf, Rows, Columns

LEMMA TileInBuffer ==
    ASSUME NEW m \in Rows, NEW n \in Columns
    PROVE  TileOf(m, n) \in 0 .. TilesM * TilesN - 1
<1>1. m \in Nat /\ m < TilesM /\ n \in Nat /\ TilesM \in Nat /\ TilesN \in Nat
  BY ConstantTypes DEF Rows, Columns
<1>2. m * TilesN + n < TilesM * TilesN /\ m * TilesN \in Nat /\ TilesM * TilesN \in Nat
  BY <1>1, RowsApart, TimesSuccessor DEF Columns
<1> QED BY <1>1, <1>2 DEF TileOf

\* The weights of a block of a column.
LEMMA WeightPlaces ==
    ASSUME NEW n \in Columns, NEW k \in Blocks
    PROVE  /\ OperandB(0, n) + k \in 0 .. TilesN * BlocksK - 1
           /\ OperandB(k, n) = OperandB(0, n) + k
           /\ PackedB(OperandB(0, n) + k) = <<n, k>>
           /\ \A p \in Columns : OperandB(0, n) + k \in OperandB(0, p) .. OperandB(BlocksK - 1, p)
                                   <=> p = n
<1>1. n \in Nat /\ n < TilesN /\ k \in Nat /\ TilesN \in Nat /\ BlocksK \in Nat \ {0} /\ BlocksK \in Nat
  BY ConstantTypes DEF Columns, Blocks
<1>2. n * BlocksK + k < TilesN * BlocksK /\ n * BlocksK \in Nat /\ TilesN * BlocksK \in Nat
  BY <1>1, RowsApart, TimesSuccessor DEF Blocks
<1>3. (n * BlocksK + k) \div BlocksK = n /\ (n * BlocksK + k) % BlocksK = k
  BY <1>1, DivModOfRow DEF Blocks
<1>4. OperandB(0, n) + k = n * BlocksK + k /\ OperandB(k, n) = n * BlocksK + k
  BY <1>1, <1>2 DEF OperandB
<1>5. ASSUME NEW p \in Columns
      PROVE  OperandB(0, n) + k \in OperandB(0, p) .. OperandB(BlocksK - 1, p) <=> p = n
  <2>1. p \in Nat /\ p * BlocksK \in Nat /\ BlocksK - 1 \in 0 .. BlocksK - 1
    BY <1>1, TimesSuccessor DEF Columns
  <2>2. OperandB(0, p) = p * BlocksK /\ OperandB(BlocksK - 1, p) = p * BlocksK + (BlocksK - 1)
    BY <1>1, <2>1 DEF OperandB
  <2>3. p < n => p * BlocksK + (BlocksK - 1) < n * BlocksK
    BY <1>1, <2>1, RowsApart
  <2>4. n < p => n * BlocksK + k < p * BlocksK
    BY <1>1, <2>1, RowsApart DEF Blocks
  <2> DEFINE pb == p * BlocksK
             nb == n * BlocksK
  <2>5. /\ pb \in Nat /\ nb \in Nat /\ p \in Nat /\ n \in Nat /\ k \in 0 .. BlocksK - 1 /\ BlocksK \in Nat
        /\ p < n => pb + (BlocksK - 1) < nb
        /\ n < p => nb + k < pb
        /\ p = n => pb = nb
    BY <1>1, <1>2, <2>1, <2>3, <2>4 DEF Blocks
  <2> HIDE DEF pb, nb
  <2>6. nb + k \in pb .. pb + (BlocksK - 1) <=> p = n
    BY ONLY <2>5
  <2> QED BY <1>4, <2>2, <2>6 DEF pb, nb
<1> QED BY <1>1, <1>2, <1>3, <1>4, <1>5 DEF PackedB

\* A chunk has at least one tile, however small the budget.
LEMMA ChunkTilesType ==
    ASSUME adapter \in Adapters, NEW k \in Blocks
    PROVE  ChunkTiles(k) \in Nat /\ ChunkTiles(k) >= 1
<1>1. Stride(k) \in Nat /\ Stride(k) >= 1
  BY PanelTypes, AdapterTypes
<1>2. Stride(k) * adapter.block_bytes \in Nat \ {0}
  BY <1>1, AdapterTypes
<1>3. adapter.budget \div (Stride(k) * adapter.block_bytes) \in Nat
  BY <1>2, AdapterTypes, DivMod
<1> QED BY <1>3, ConstantTypes DEF ChunkTiles, Lesser, Greater

LEMMA ChunkTypes ==
    ASSUME adapter \in Adapters, block_k \in Blocks, chunk_begin \in Rows
    PROVE  /\ ChunkTiles(block_k) \in Nat /\ ChunkTiles(block_k) >= 1
           /\ ChunkEnd \in Nat /\ chunk_begin < ChunkEnd /\ ChunkEnd <= TilesM
           /\ chunk_begin + ChunkTiles(block_k) >= TilesM => ChunkEnd = TilesM
           /\ chunk_begin + ChunkTiles(block_k) < TilesM =>
                ChunkEnd = chunk_begin + ChunkTiles(block_k)
BY ChunkTilesType, ConstantTypes DEF ChunkEnd, Lesser, Rows

----------------------------------------------------------------------------
(* Sums of products. *)

LEMMA ProductOfNone ==
    ASSUME NEW m, NEW n
    PROVE  Product(m, n, 0) = <<>>
BY DEF Product

\* The terms of b blocks from block a on.
Terms(m, n, a, b) == [ i \in 1 .. b |-> << <<m, a + i - 1>>, <<n, a + i - 1>> >> ]

LEMMA Concatenated ==
    ASSUME NEW T, NEW s \in Seq(T), NEW t \in Seq(T), NEW u \in Seq(T),
           Len(u) = Len(s) + Len(t),
           \A i \in 1 .. Len(s) : u[i] = s[i],
           \A i \in 1 .. Len(t) : u[Len(s) + i] = t[i]
    PROVE  s \o t = u
<1>1. /\ s \o t \in Seq(T) /\ Len(s \o t) = Len(s) + Len(t)
      /\ \A i \in 1 .. Len(s) + Len(t) :
            (s \o t)[i] = IF i <= Len(s) THEN s[i] ELSE t[i - Len(s)]
  BY ConcatProperties
<1>2. Len(s) \in Nat /\ Len(t) \in Nat
  OBVIOUS
<1>3. ASSUME NEW i \in 1 .. Len(s) + Len(t)
      PROVE  (s \o t)[i] = u[i]
  <2>1. CASE i <= Len(s)
    BY <1>1, <1>2, <2>1
  <2>2. CASE i > Len(s)
    <3>1. i - Len(s) \in 1 .. Len(t) /\ Len(s) + (i - Len(s)) = i
      BY <1>2, <2>2
    <3>2. u[Len(s) + (i - Len(s))] = t[i - Len(s)]
      BY <3>1
    <3> QED BY <1>1, <1>2, <2>2, <3>1, <3>2
  <2> QED BY <1>2, <2>1, <2>2
<1> QED BY <1>1, <1>3, SeqEqual

LEMMA ProductGrows ==
    ASSUME NEW m, NEW n, NEW a \in Nat, NEW b \in Nat
    PROVE  Product(m, n, a) \o Terms(m, n, a, b) = Product(m, n, a + b)
<1> DEFINE term(j) == << <<m, j>>, <<n, j>> >>
           T == {term(j) : j \in Nat}
           more == [i \in 1 .. b |-> term(a + i - 1)]
<1>1. /\ Product(m, n, a) \in Seq(T) /\ Len(Product(m, n, a)) = a
      /\ \A i \in 1 .. a : Product(m, n, a)[i] = term(i - 1)
  BY DEF Product
<1>2. /\ Product(m, n, a + b) \in Seq(T) /\ Len(Product(m, n, a + b)) = a + b
      /\ \A i \in 1 .. a + b : Product(m, n, a + b)[i] = term(i - 1)
  BY DEF Product
<1>3. more \in Seq(T) /\ Len(more) = b /\ \A i \in 1 .. b : more[i] = term(a + i - 1)
  OBVIOUS
<1> HIDE DEF T, more, term
<1>4. ASSUME NEW i \in 1 .. a
      PROVE  Product(m, n, a + b)[i] = Product(m, n, a)[i]
  <2>1. i \in 1 .. a + b
    OBVIOUS
  <2> QED BY <1>1, <1>2, <2>1, Zenon
<1>5. ASSUME NEW i \in 1 .. b
      PROVE  Product(m, n, a + b)[a + i] = more[i]
  <2>1. a + i \in 1 .. a + b
    OBVIOUS
  <2>2. Product(m, n, a + b)[a + i] = term(a + i - 1)
    BY <1>2, <2>1
  <2>3. more[i] = term(a + i - 1)
    BY <1>3
  <2> QED BY <2>2, <2>3
<1> DEFINE s == Product(m, n, a)
           u == Product(m, n, a + b)
<1>6. /\ s \in Seq(T) /\ more \in Seq(T) /\ u \in Seq(T)
      /\ Len(s) = a /\ Len(more) = b /\ Len(u) = Len(s) + Len(more)
      /\ \A i \in 1 .. Len(s) : u[i] = s[i]
      /\ \A i \in 1 .. Len(more) : u[Len(s) + i] = more[i]
  BY <1>1, <1>2, <1>3, <1>4, <1>5, Zenon
<1> HIDE DEF s, u
<1>7. s \o more = u
  BY <1>6, Concatenated, Zenon
<1> QED BY <1>7 DEF s, u, more, term, Terms

----------------------------------------------------------------------------
(* Parallel loops. *)

LEMMA CountType == Count \in Nat
BY ConstantTypes DEF Count

LEMMA OwnersApart ==
    ASSUME NEW v \in Worker, NEW w \in Worker, NEW n \in Int, Owns(v, n), Owns(w, n)
    PROVE  v = w
BY CountType, SharesApart, ConstantTypes DEF Owns, Worker

LEMMA SomebodyOwns ==
    ASSUME NEW n \in 0 .. Count - 1
    PROVE  \E w \in Worker : Owns(w, n)
BY CountType, SharesCover DEF Owns

\* A worker that has something to do does it within its share and the chunk.
LEMMA BusyWithin ==
    ASSUME TypeOK, LoopInv, at \in Parallel, NEW w \in Worker, Busy(w)
    PROVE  /\ Owns(w, tile[w]) /\ tile[w] \in 0 .. Count - 1
           /\ at # "unpack_c" => tile[w] \in Columns
           /\ at = "compute" => /\ inner[w] \in Rows
                                /\ chunk_begin <= inner[w] /\ inner[w] < ChunkEnd
           /\ at = "unpack_c" => tile[w] \in Rows /\ inner[w] \in Columns
<1>1. Owns(w, tile[w])
  BY DEF Owns, Busy, LoopInv
<1>2. w \in Nat /\ w + 1 \in Nat /\ w + 1 <= Threads /\ Threads \in Nat /\ Count \in Nat
  BY CountType, ConstantTypes DEF Worker
<1>3. ShareBegin(w + 1, Count) <= Count /\ ShareBegin(w + 1, Count) \in Nat
  <2>1. ShareBegin(w + 1, Count) <= ShareBegin(Threads, Count)
    BY <1>2, SharesAscend, Zenon
  <2>2. ShareBegin(Threads, Count) = Count
    BY <1>2, ShareEnds, Zenon
  <2>3. ShareBegin(w + 1, Count) \in Nat
    BY <1>2, ShareType, Zenon
  <2> QED BY <2>1, <2>2, <2>3, Zenon
<1>4. tile[w] \in Nat /\ inner[w] \in Nat
  BY DEF TypeOK
<1>5. tile[w] \in 0 .. Count - 1
  BY <1>1, <1>2, <1>3, <1>4 DEF Owns
<1>6. at = "compute" => inner[w] \in Rows /\ chunk_begin <= inner[w] /\ inner[w] < ChunkEnd
  BY <1>4, ChunkTypes, ConstantTypes DEF LoopInv, TypeOK, IsPanel, Rows
<1> QED BY <1>1, <1>5, <1>6 DEF Count, Columns, Rows, LoopInv, Parallel

\* Nobody is past the place where a worker is.
LEMMA NotPastSelf ==
    ASSUME TypeOK, NEW w \in Worker, Owns(w, tile[w])
    PROVE  ~ Past(tile[w], inner[w]) /\ ~ Through(tile[w])
<1>1. tile[w] \in Nat /\ inner[w] \in Nat
  BY DEF TypeOK
<1> QED BY <1>1 DEF Past, Through

\* After the barrier everybody is past everything.
LEMMA JoinedPast ==
    ASSUME TypeOK, LoopInv, at \in Parallel, Joined, NEW n \in Nat, NEW i
    PROVE  Past(n, i) /\ Through(n)
<1>1. ASSUME NEW w \in Worker, Owns(w, n)
      PROVE  n < tile[w]
  <2>1. ~ (tile[w] < ShareBegin(w + 1, Count))
    BY DEF Joined, Busy, LoopInv, Parallel
  <2>2. tile[w] \in Nat /\ w + 1 \in Nat
    BY ConstantTypes DEF TypeOK, Worker
  <2>3. ShareBegin(w + 1, Count) \in Nat
    BY <2>2, CountType, ShareType, Zenon
  <2> QED BY <1>1, <2>1, <2>2, <2>3 DEF Owns
<1> QED BY <1>1 DEF Past, Through

\* After the fork nobody is past anything.
LEMMA ForkStarts ==
    ASSUME NEW loop \in Parallel, NEW count \in Nat, NEW first \in Nat,
           Fork(loop, count, first), Count' = count
    PROVE  /\ at' = loop /\ tile' \in [Worker -> Nat] /\ inner' = [w \in Worker |-> first]
           /\ step' = [w \in Worker |-> "fill"] /\ DOMAIN sum' = Worker
           /\ \A w \in Worker : ShareBegin(w, Count') <= tile'[w]
                                  /\ tile'[w] <= ShareBegin(w + 1, Count')
           /\ \A n \in 0 .. count - 1 :
                ~ Through(n)' /\ \A i \in Nat : first <= i => ~ Past(n, i)'
<1>1. \A w \in Worker : w \in Nat /\ w + 1 \in Nat /\ w <= w + 1
  BY ConstantTypes DEF Worker
<1>2. \A w \in Worker : ShareBegin(w, count) \in Nat
                          /\ ShareBegin(w, count) <= ShareBegin(w + 1, count)
  BY <1>1, ShareType, SharesAscend
<1>3. ASSUME NEW n \in 0 .. count - 1
      PROVE  ~ Through(n)' /\ \A i \in Nat : first <= i => ~ Past(n, i)'
  <2>1. PICK w \in Worker : ShareBegin(w, count) <= n /\ n < ShareBegin(w + 1, count)
    BY SharesCover
  <2>2. Owns(w, n)' /\ tile'[w] = ShareBegin(w, count) /\ inner'[w] = first
    BY <2>1 DEF Owns, Fork
  <2>3. ~ (n < tile'[w]) /\ \A i \in Nat : first <= i => ~ (i < inner'[w])
    BY <1>2, <2>1, <2>2
  <2> QED BY <2>2, <2>3 DEF Through, Past
<1> QED BY <1>2, <1>3 DEF Fork

\* A worker goes on to its next tile: what it leaves is past, and nothing else.
LEMMA Advance ==
    ASSUME TypeOK, NEW w \in Worker, NEW lo \in Nat, NEW hi \in Nat, UNCHANGED at,
           Owns(w, tile[w]),
           \A v \in Worker : ShareBegin(v, Count) <= tile[v] /\ tile[v] <= ShareBegin(v + 1, Count),
           \A v \in Worker : lo <= inner[v] /\ inner[v] < hi,
           IF inner[w] + 1 < hi
           THEN inner' = [inner EXCEPT ![w] = @ + 1] /\ UNCHANGED tile
           ELSE inner' = [inner EXCEPT ![w] = lo] /\ tile' = [tile EXCEPT ![w] = @ + 1]
    PROVE  /\ tile' \in [Worker -> Nat] /\ inner' \in [Worker -> Nat]
           /\ \A v \in Worker : ShareBegin(v, Count') <= tile'[v]
                                  /\ tile'[v] <= ShareBegin(v + 1, Count')
           /\ \A v \in Worker : lo <= inner'[v] /\ inner'[v] < hi
           /\ \A v \in Worker \ {w} : tile'[v] = tile[v] /\ inner'[v] = inner[v]
           /\ \A n \in Nat, i \in Nat : lo <= i /\ i < hi =>
                (Past(n, i)' <=> Past(n, i) \/ (n = tile[w] /\ i = inner[w]))
<1>1. Count' = Count /\ Count \in Nat
  BY CountType DEF Count
<1>2. tile \in [Worker -> Nat] /\ inner \in [Worker -> Nat] /\ tile[w] \in Nat /\ inner[w] \in Nat
  BY DEF TypeOK
<1>3. tile' \in [Worker -> Nat] /\ inner' \in [Worker -> Nat]
  BY <1>2
<1>4. \A v \in Worker \ {w} : tile'[v] = tile[v] /\ inner'[v] = inner[v]
  BY <1>2
<1>5. \A v \in Worker : v \in Nat /\ v + 1 \in Nat
  BY ConstantTypes DEF Worker
<1>6. \A v \in Worker : ShareBegin(v, Count) \in Nat /\ ShareBegin(v + 1, Count) \in Nat
  BY <1>1, <1>5, ShareType, Zenon
<1>7. \/ inner[w] + 1 < hi /\ inner'[w] = inner[w] + 1 /\ tile'[w] = tile[w]
      \/ inner[w] + 1 >= hi /\ inner'[w] = lo /\ tile'[w] = tile[w] + 1
  BY <1>2
<1>8. \A v \in Worker : ShareBegin(v, Count) <= tile'[v] /\ tile'[v] <= ShareBegin(v + 1, Count)
  <2>1. ShareBegin(w, Count) <= tile'[w] /\ tile'[w] <= ShareBegin(w + 1, Count)
    BY <1>2, <1>6, <1>7 DEF Owns
  <2> QED BY <1>4, <2>1
<1>9. \A v \in Worker : lo <= inner'[v] /\ inner'[v] < hi
  <2>1. lo <= inner'[w] /\ inner'[w] < hi
    BY <1>2, <1>7
  <2> QED BY <1>4, <2>1
<1>10. ASSUME NEW n \in Nat, NEW i \in Nat, lo <= i, i < hi
       PROVE  Past(n, i)' <=> Past(n, i) \/ (n = tile[w] /\ i = inner[w])
  <2> DEFINE before(v) == n < tile[v] \/ (n = tile[v] /\ i < inner[v])
             after(v) == n < tile'[v] \/ (n = tile'[v] /\ i < inner'[v])
  <2>1. /\ Past(n, i) <=> \A v \in Worker : Owns(v, n) => before(v)
        /\ Past(n, i)' <=> \A v \in Worker : Owns(v, n) => after(v)
    BY <1>1 DEF Past, Owns
  <2>2. \A v \in Worker \ {w} : after(v) <=> before(v)
    BY <1>4
  <2>3. after(w) <=> before(w) \/ (n = tile[w] /\ i = inner[w])
    BY <1>2, <1>7, <1>10
  <2>4. CASE Owns(w, n)
    <3>1. \A v \in Worker : Owns(v, n) => v = w
      BY <2>4, OwnersApart
    <3> HIDE DEF before, after
    <3> QED BY <2>1, <2>3, <2>4, <3>1
  <2>5. CASE ~ Owns(w, n)
    <3>1. n # tile[w]
      BY <2>5
    <3> HIDE DEF before, after
    <3> QED BY <2>1, <2>2, <2>5, <3>1
  <2> QED BY <2>4, <2>5
<1> QED BY <1>1, <1>3, <1>4, <1>8, <1>9, <1>10

----------------------------------------------------------------------------
(* What the operators of a state depend on. *)

LEMMA SameAdapter ==
    ASSUME UNCHANGED adapter
    PROVE  /\ BlocksPerPanel' = BlocksPerPanel /\ PreUnpack' = PreUnpack
           /\ AddressesOfA' = AddressesOfA
           /\ \A k : LocalBlocks(k)' = LocalBlocks(k) /\ Stride(k)' = Stride(k)
                     /\ ChunkTiles(k)' = ChunkTiles(k) /\ (IsPanel(k)' <=> IsPanel(k))
           /\ \A k, m : Operand(k, m)' = Operand(k, m)
BY DEF BlocksPerPanel, PreUnpack, AddressesOfA, Panels, LocalBlocks, Stride, ChunkTiles,
       IsPanel, Operand, PanelBase

LEMMA SameLoops ==
    ASSUME UNCHANGED <<adapter, loops>>
    PROVE  /\ UNCHANGED <<adapter, at, iteration, block_k, chunk_begin>>
           /\ Count' = Count /\ ChunkEnd' = ChunkEnd
           /\ LocalBlocks(block_k)' = LocalBlocks(block_k)
           /\ IsPanel(block_k)' <=> IsPanel(block_k)
           /\ \A v, n : Owns(v, n)' <=> Owns(v, n)
<1>1. UNCHANGED <<adapter, at, iteration, block_k, chunk_begin>>
  BY DEF loops
<1> QED BY <1>1 DEF Count, ChunkEnd, ChunkTiles, Stride, LocalBlocks, IsPanel, BlocksPerPanel,
               PreUnpack, Owns

\* Nothing of the loops and the workers' places changes.
LEMMA SamePlaces ==
    ASSUME UNCHANGED <<adapter, loops, tile, inner>>
    PROVE  /\ \A v : Busy(v)' <=> Busy(v)
           /\ \A n, i : Past(n, i)' <=> Past(n, i)
           /\ \A m, n : Reached(m, n)' <=> Reached(m, n)
           /\ LoopInv => LoopInv'
<1>1. /\ UNCHANGED <<adapter, at, iteration, block_k, chunk_begin, tile, inner>>
      /\ Count' = Count /\ ChunkEnd' = ChunkEnd /\ PreUnpack' = PreUnpack
      /\ BlocksPerPanel' = BlocksPerPanel /\ (IsPanel(block_k)' <=> IsPanel(block_k))
      /\ \A v, n : Owns(v, n)' <=> Owns(v, n)
  BY SameLoops, SameAdapter
<1>2. \A v : Busy(v)' <=> Busy(v)
  BY <1>1 DEF Busy
<1>3. \A n, i : Past(n, i)' <=> Past(n, i)
  BY <1>1 DEF Past
<1>4. \A m, n : Reached(m, n)' <=> Reached(m, n)
  BY <1>1, <1>3 DEF Reached
<1>5. LoopInv => LoopInv'
  BY <1>1 DEF LoopInv
<1> QED BY <1>2, <1>3, <1>4, <1>5

\* A step that leaves the loops and the operands.
LEMMA SameOperands ==
    ASSUME OperandsInv, UNCHANGED <<adapter, loops, tile, packed_a, unpacked_b>>
    PROVE  OperandsInv'
<1>1. /\ UNCHANGED <<adapter, at, tile, packed_a, unpacked_b>>
      /\ \A v, n : Owns(v, n)' <=> Owns(v, n)
      /\ PreUnpack' = PreUnpack
      /\ \A k : LocalBlocks(k)' = LocalBlocks(k) /\ (IsPanel(k)' <=> IsPanel(k))
      /\ \A k, m : Operand(k, m)' = Operand(k, m)
  BY SameLoops, SameAdapter
<1>2. \A n : Through(n)' <=> Through(n)
  BY <1>1 DEF Through
<1> QED BY <1>1, <1>2 DEF OperandsInv

LEMMA SameOutput ==
    ASSUME OutputIsProduct, UNCHANGED <<loops, output>>
    PROVE  OutputIsProduct'
BY DEF OutputIsProduct, loops

\* Another worker's tile is another tile.
LEMMA OthersTile ==
    ASSUME TypeOK, LoopInv, at = "compute", NEW v \in Worker, NEW w \in Worker, v # w,
           Busy(v), Busy(w)
    PROVE  TileOf(inner[v], tile[v]) # TileOf(inner[w], tile[w])
<1>1. /\ Owns(v, tile[v]) /\ tile[v] \in Columns /\ inner[v] \in Rows
      /\ Owns(w, tile[w]) /\ tile[w] \in Columns /\ inner[w] \in Rows
  BY BusyWithin DEF Parallel
<1>2. tile[v] # tile[w]
  BY <1>1, OwnersApart DEF Columns
<1> QED BY <1>1, <1>2, TilesApart

----------------------------------------------------------------------------
(* The steps of a worker. *)

LEMMA FillStep ==
    ASSUME IInv, NEW w \in Worker, Fill(w)
    PROVE  IInv'
<1> USE DEF IInv
<1> DEFINE m == inner[w]
           n == tile[w]
<1>1. /\ at = "compute" /\ Busy(w) /\ UNCHANGED <<adapter, loops, tile, inner>>
      /\ UNCHANGED <<sum, packed_a, unpacked_b, output>>
      /\ step' = [step EXCEPT ![w] = "load"]
      /\ packed_c' = IF block_k = 0 /\ ~ PreUnpack
                     THEN [packed_c EXCEPT ![TileOf(m, n)] = <<>>] ELSE packed_c
  BY DEF Fill
<1>2. /\ UNCHANGED <<at, iteration, block_k, chunk_begin>>
      /\ LocalBlocks(block_k)' = LocalBlocks(block_k)
      /\ PreUnpack' = PreUnpack /\ AddressesOfA' = AddressesOfA
      /\ LoopInv' /\ \A v : Busy(v)' <=> Busy(v)
      /\ \A p, q : Reached(p, q)' <=> Reached(p, q)
  BY <1>1, SameLoops, SameAdapter, SamePlaces
<1>3. m \in Rows /\ n \in Columns /\ chunk_begin <= m /\ Owns(w, n)
  BY <1>1, BusyWithin DEF Parallel
<1>4. ~ Reached(m, n)
  BY <1>3, NotPastSelf, ConstantTypes DEF Reached, LoopInv, Rows
<1>5. ASSUME NEW p \in Rows, NEW q \in Columns, p # m \/ q # n
      PROVE  packed_c'[TileOf(p, q)] = packed_c[TileOf(p, q)]
  BY <1>1, <1>3, <1>5, TilesApart
<1>6. TypeOK'
  BY <1>1, <1>2 DEF TypeOK
<1>7. OperandsInv' /\ OutputIsProduct'
  BY <1>1, SameOperands, SameOutput
<1>8. SumsInv'
  <2>1. ASSUME NEW p \in Rows, NEW q \in Columns, p = m, q = n, block_k > 0
        PROVE  packed_c'[TileOf(p, q)] = packed_c[TileOf(p, q)]
    BY <1>1, <2>1
  <2> QED BY <1>1, <1>2, <1>4, <1>5, <2>1 DEF SumsInv
<1>9. WorkersInv'
  <2>1. ASSUME NEW v \in Worker, Busy(v), v # w
        PROVE  /\ step'[v] = step[v]
               /\ packed_c'[TileOf(inner[v], tile[v])] = packed_c[TileOf(inner[v], tile[v])]
    BY <1>1, <2>1, OthersTile
  <2>2. step'[w] = "load" /\ (block_k = 0 /\ ~ PreUnpack => packed_c'[TileOf(m, n)] = <<>>)
    BY <1>1, <1>3, TileInBuffer DEF TypeOK
  <2> QED BY <1>1, <1>2, <2>1, <2>2 DEF WorkersInv
<1>10. CopyInv'
  BY <1>1, <1>2 DEF CopyInv
<1> QED BY <1>2, <1>6, <1>7, <1>8, <1>9, <1>10

LEMMA LoadStep ==
    ASSUME IInv, NEW w \in Worker, Load(w)
    PROVE  IInv'
<1> USE DEF IInv
<1> DEFINE m == inner[w]
           n == tile[w]
<1>1. /\ at = "compute" /\ Busy(w) /\ step[w] = "load" /\ UNCHANGED <<adapter, loops, tile, inner>>
      /\ UNCHANGED <<packed_a, unpacked_b, packed_c, output>>
      /\ step' = [step EXCEPT ![w] = "store"]
      /\ sum' = [sum EXCEPT ![w] = IF block_k = 0 /\ PreUnpack THEN <<>>
                                   ELSE packed_c[TileOf(m, n)]]
  BY DEF Load
<1>2. /\ UNCHANGED <<at, iteration, block_k, chunk_begin>>
      /\ LocalBlocks(block_k)' = LocalBlocks(block_k)
      /\ PreUnpack' = PreUnpack /\ AddressesOfA' = AddressesOfA
      /\ LoopInv' /\ \A v : Busy(v)' <=> Busy(v)
      /\ \A p, q : Reached(p, q)' <=> Reached(p, q)
  BY <1>1, SameLoops, SameAdapter, SamePlaces
<1>3. m \in Rows /\ n \in Columns /\ chunk_begin <= m /\ Owns(w, n)
  BY <1>1, BusyWithin DEF Parallel
<1>4. ~ Reached(m, n)
  BY <1>3, NotPastSelf, ConstantTypes DEF Reached, LoopInv, Rows
<1>5. sum'[w] = Product(m, n, block_k)
  <2>1. sum'[w] = IF block_k = 0 /\ PreUnpack THEN <<>> ELSE packed_c[TileOf(m, n)]
    BY <1>1 DEF TypeOK
  <2>2. block_k = 0 /\ ~ PreUnpack => packed_c[TileOf(m, n)] = <<>>
    BY <1>1 DEF WorkersInv
  <2>3. block_k > 0 => packed_c[TileOf(m, n)] = Product(m, n, block_k)
    BY <1>1, <1>3, <1>4 DEF SumsInv
  <2>4. block_k = 0 \/ block_k > 0
    BY ConstantTypes DEF LoopInv, IsPanel, Blocks
  <2>5. Product(m, n, 0) = <<>>
    BY ProductOfNone
  <2> QED BY <2>1, <2>2, <2>3, <2>4, <2>5
<1>6. TypeOK'
  BY <1>1, <1>2 DEF TypeOK
<1>7. OperandsInv' /\ OutputIsProduct'
  BY <1>1, SameOperands, SameOutput
<1>8. SumsInv'
  BY <1>1, <1>2 DEF SumsInv
<1>9. WorkersInv'
  <2>1. \A v \in Worker : v # w => step'[v] = step[v] /\ sum'[v] = sum[v]
    BY <1>1 DEF TypeOK
  <2>2. step'[w] = "store"
    BY <1>1 DEF TypeOK
  <2> QED BY <1>1, <1>2, <1>5, <2>1, <2>2 DEF WorkersInv
<1>10. CopyInv'
  BY <1>1, <1>2 DEF CopyInv
<1> QED BY <1>2, <1>6, <1>7, <1>8, <1>9, <1>10

\* The micro kernel multiplies the blocks of its row and its column, in order.
LEMMA ProductsAre ==
    ASSUME IInv, at = "compute", NEW m \in Rows, NEW n \in Columns
    PROVE  Products(m, n) = Terms(m, n, block_k, LocalBlocks(block_k))
<1>1. /\ IsPanel(block_k) /\ block_k \in Blocks /\ block_k \in Nat /\ adapter \in Adapters
      /\ m \in Nat /\ n \in Nat
  BY ConstantTypes DEF IInv, LoopInv, TypeOK, IsPanel, Blocks, Rows, Columns
<1>2. LocalBlocks(block_k) \in Nat /\ block_k + LocalBlocks(block_k) <= BlocksK
  BY <1>1, PanelTypes, AdapterTypes
<1>3. Operand(block_k, m) \in Nat /\ OperandB(0, n) \in Nat
  <2>1. PanelBase(block_k) \in Nat /\ Stride(block_k) \in Nat
    BY <1>1, PanelTypes, PanelBaseIs
  <2>2. m * Stride(block_k) \in Nat /\ n * BlocksK \in Nat
    BY <1>1, <2>1, TimesSuccessor, ConstantTypes
  <2> QED BY <2>1, <2>2 DEF Operand, OperandB
<1>4. ASSUME NEW i \in 1 .. LocalBlocks(block_k)
      PROVE  LET b == OperandB(block_k, n) + i - 1
             IN  <<packed_a[Operand(block_k, m) + i - 1],
                   IF PreUnpack THEN unpacked_b[b] ELSE PackedB(b)>>
                     = << <<m, block_k + i - 1>>, <<n, block_k + i - 1>> >>
  <2> DEFINE j == i - 1
             k == block_k + j
             a == Operand(block_k, m)
             b == OperandB(0, n)
  <2>1. j \in 0 .. LocalBlocks(block_k) - 1 /\ k \in Blocks
    BY <1>1, <1>2, ConstantTypes DEF Blocks
  <2>2. packed_a[a + j] = <<m, k>>
    BY <1>1, <2>1 DEF IInv, OperandsInv
  <2>3. PackedB(b + k) = <<n, k>> /\ OperandB(block_k, n) = b + block_k
    BY <1>1, <2>1, WeightPlaces
  <2>4. PreUnpack => unpacked_b[b + k] = <<n, k>>
    BY <2>1 DEF IInv, OperandsInv, Parallel
  <2>5. /\ OperandB(block_k, n) + i - 1 = b + k
        /\ Operand(block_k, m) + i - 1 = a + j
        /\ block_k + i - 1 = k
    <3>1. a \in Nat /\ b \in Nat /\ OperandB(block_k, n) = b + block_k /\ i \in Nat
      BY <1>2, <1>3, <2>3
    <3> HIDE DEF a, b
    <3>2. (b + block_k) + i - 1 = b + k /\ a + i - 1 = a + j /\ block_k + i - 1 = k
      BY <1>1, <3>1
    <3> QED BY <3>1, <3>2 DEF a
  <2> HIDE DEF j, k, a, b
  <2> QED BY <2>2, <2>3, <2>4, <2>5
<1> QED BY <1>4, Zenon DEF Products, Terms

LEMMA StoreStep ==
    ASSUME IInv, NEW w \in Worker, Store(w)
    PROVE  IInv'
<1> USE DEF IInv
<1> DEFINE m == inner[w]
           n == tile[w]
           more == LocalBlocks(block_k)
<1>1. /\ at = "compute" /\ Busy(w) /\ step[w] = "store" /\ UNCHANGED <<adapter, loops>>
      /\ UNCHANGED <<packed_a, unpacked_b, output>>
      /\ step' = [step EXCEPT ![w] = "fill"] /\ sum' = [sum EXCEPT ![w] = <<>>]
      /\ packed_c' = [packed_c EXCEPT ![TileOf(m, n)] = sum[w] \o Products(m, n)]
      /\ IF inner[w] + 1 < ChunkEnd
         THEN inner' = [inner EXCEPT ![w] = @ + 1] /\ UNCHANGED tile
         ELSE inner' = [inner EXCEPT ![w] = chunk_begin] /\ tile' = [tile EXCEPT ![w] = @ + 1]
  BY DEF Store
<1>2. /\ UNCHANGED <<at, iteration, block_k, chunk_begin>>
      /\ LocalBlocks(block_k)' = LocalBlocks(block_k) /\ ChunkEnd' = ChunkEnd
      /\ Count' = Count /\ BlocksPerPanel' = BlocksPerPanel
      /\ PreUnpack' = PreUnpack /\ AddressesOfA' = AddressesOfA
      /\ IsPanel(block_k)' <=> IsPanel(block_k)
  BY <1>1, SameLoops, SameAdapter
<1>3. m \in Rows /\ n \in Columns /\ chunk_begin <= m /\ m < ChunkEnd /\ Owns(w, n)
  BY <1>1, BusyWithin DEF Parallel
<1>4. /\ chunk_begin \in Nat /\ ChunkEnd \in Nat /\ ChunkEnd <= TilesM /\ block_k \in Nat
      /\ more \in Nat
  <2>1. adapter \in Adapters /\ block_k \in Blocks /\ chunk_begin \in Rows
    BY DEF LoopInv, TypeOK, IsPanel
  <2>2. more \in Nat
    BY <2>1, PanelTypes, AdapterTypes
  <2>3. ChunkEnd \in Nat /\ ChunkEnd <= TilesM
    BY <2>1, ChunkTypes
  <2> QED BY <2>1, <2>2, <2>3, ConstantTypes DEF Rows, Blocks
<1>5. /\ tile' \in [Worker -> Nat] /\ inner' \in [Worker -> Nat]
      /\ \A v \in Worker : ShareBegin(v, Count') <= tile'[v] /\ tile'[v] <= ShareBegin(v + 1, Count')
      /\ \A v \in Worker : chunk_begin <= inner'[v] /\ inner'[v] < ChunkEnd
      /\ \A v \in Worker \ {w} : tile'[v] = tile[v] /\ inner'[v] = inner[v]
      /\ \A q \in Nat, p \in Nat : chunk_begin <= p /\ p < ChunkEnd =>
           (Past(q, p)' <=> Past(q, p) \/ (q = n /\ p = m))
  <2>1. /\ \A v \in Worker : ShareBegin(v, Count) <= tile[v] /\ tile[v] <= ShareBegin(v + 1, Count)
        /\ \A v \in Worker : chunk_begin <= inner[v] /\ inner[v] < ChunkEnd
    BY <1>1 DEF LoopInv, Parallel
  <2> QED BY <1>1, <1>2, <1>3, <1>4, <2>1, Advance
<1>6. \A p \in Rows, q \in Columns : Reached(p, q)' <=> Reached(p, q) \/ (p = m /\ q = n)
  <2>1. ASSUME NEW p \in Rows, NEW q \in Columns
        PROVE  Reached(p, q)' <=> Reached(p, q) \/ (p = m /\ q = n)
    <3>1. p \in Nat /\ q \in Nat
      BY ConstantTypes DEF Rows, Columns
    <3>2. p < chunk_begin \/ chunk_begin <= p
      BY <1>4, <3>1
    <3> QED BY <1>2, <1>3, <1>5, <3>1, <3>2 DEF Reached
  <2> QED BY <2>1
<1>7. packed_c'[TileOf(m, n)] = Product(m, n, block_k + more)
  <2>1. packed_c'[TileOf(m, n)] = sum[w] \o Products(m, n)
    BY <1>1, <1>3, TileInBuffer DEF TypeOK
  <2>2. sum[w] = Product(m, n, block_k)
    BY <1>1 DEF WorkersInv
  <2>3. Products(m, n) = Terms(m, n, block_k, more)
    BY <1>1, <1>3, ProductsAre
  <2>4. Product(m, n, block_k) \o Terms(m, n, block_k, more) = Product(m, n, block_k + more)
    <3> HIDE DEF m, n, more
    <3> QED BY <1>4, ProductGrows, Zenon
  <2> QED BY <2>1, <2>2, <2>3, <2>4
<1>8. ASSUME NEW p \in Rows, NEW q \in Columns, p # m \/ q # n
      PROVE  packed_c'[TileOf(p, q)] = packed_c[TileOf(p, q)]
  BY <1>1, <1>3, <1>8, TilesApart
<1>9. TypeOK'
  BY <1>1, <1>2, <1>5 DEF TypeOK
<1>10. LoopInv'
  BY <1>1, <1>2, <1>5 DEF LoopInv
<1>11. OperandsInv'
  BY <1>1, <1>2, SameAdapter DEF OperandsInv, Parallel
<1>12. OutputIsProduct'
  BY <1>1, SameOutput
<1>13. SumsInv'
  <2>1. ASSUME NEW p \in Rows, NEW q \in Columns
        PROVE  IF Reached(p, q)'
               THEN packed_c'[TileOf(p, q)] = Product(p, q, block_k + LocalBlocks(block_k))
               ELSE block_k > 0 => packed_c'[TileOf(p, q)] = Product(p, q, block_k)
    <3>1. CASE p = m /\ q = n
      BY <1>6, <1>7, <3>1
    <3>2. CASE p # m \/ q # n
      BY <1>1, <1>6, <1>8, <3>2 DEF SumsInv
    <3> QED BY <3>1, <3>2
  <2> QED BY <1>2, <2>1 DEF SumsInv
<1>14. WorkersInv'
  <2>1. ASSUME NEW v \in Worker, Busy(v)', v # w
        PROVE  /\ Busy(v) /\ step'[v] = step[v] /\ sum'[v] = sum[v]
               /\ tile'[v] = tile[v] /\ inner'[v] = inner[v]
               /\ packed_c'[TileOf(inner[v], tile[v])] = packed_c[TileOf(inner[v], tile[v])]
    <3>1. Busy(v)
      BY <1>1, <1>2, <1>5, <2>1 DEF Busy
    <3> QED BY <1>1, <1>5, <2>1, <3>1, OthersTile
  <2>2. step'[w] = "fill"
    BY <1>1 DEF TypeOK
  <2> QED BY <1>1, <1>2, <2>1, <2>2 DEF WorkersInv
<1>15. CopyInv'
  BY <1>1, <1>2 DEF CopyInv
<1> QED BY <1>9, <1>10, <1>11, <1>12, <1>13, <1>14, <1>15

LEMMA UnpackBStep ==
    ASSUME IInv, NEW w \in Worker, UnpackB(w)
    PROVE  IInv'
<1> USE DEF IInv
<1> DEFINE n == tile[w]
<1>1. /\ at = "unpack_b" /\ Busy(w) /\ UNCHANGED <<adapter, loops>>
      /\ UNCHANGED <<inner, step, sum, packed_a, packed_c, output>>
      /\ unpacked_b' = [address \in DOMAIN unpacked_b |->
             IF address \in OperandB(0, n) .. OperandB(BlocksK - 1, n)
             THEN PackedB(address) ELSE unpacked_b[address]]
      /\ tile' = [tile EXCEPT ![w] = @ + 1]
  BY DEF UnpackB
<1>2. /\ UNCHANGED <<at, iteration, block_k, chunk_begin>>
      /\ Count' = Count /\ BlocksPerPanel' = BlocksPerPanel
      /\ PreUnpack' = PreUnpack /\ AddressesOfA' = AddressesOfA
      /\ IsPanel(block_k)' <=> IsPanel(block_k)
      /\ \A v, q : Owns(v, q)' <=> Owns(v, q)
      /\ \A k : LocalBlocks(k)' = LocalBlocks(k) /\ (IsPanel(k)' <=> IsPanel(k))
      /\ \A k, p : Operand(k, p)' = Operand(k, p)
  BY <1>1, SameLoops, SameAdapter
<1>3. n \in Columns /\ n \in Nat /\ Owns(w, n) /\ tile \in [Worker -> Nat]
  BY <1>1, BusyWithin DEF Parallel, TypeOK
<1>4. TypeOK'
  BY <1>1, <1>2 DEF TypeOK
<1>5. LoopInv'
  <2>1. ASSUME NEW v \in Worker
        PROVE  ShareBegin(v, Count) <= tile'[v] /\ tile'[v] <= ShareBegin(v + 1, Count)
    <3>1. v \in Nat /\ v + 1 \in Nat
      BY ConstantTypes DEF Worker
    <3>2. ShareBegin(v, Count) \in Nat /\ ShareBegin(v + 1, Count) \in Nat
      BY <3>1, CountType, ShareType, Zenon
    <3>3. ShareBegin(v, Count) <= tile[v] /\ tile[v] <= ShareBegin(v + 1, Count)
      BY <1>1 DEF LoopInv, Parallel
    <3>4. CASE v = w
      BY <1>1, <1>3, <3>2, <3>3, <3>4 DEF Owns
    <3>5. CASE v # w
      BY <1>1, <1>3, <3>3, <3>5
    <3> QED BY <3>4, <3>5
  <2> QED BY <1>1, <1>2, <2>1 DEF LoopInv, Parallel
<1>6. ASSUME NEW q \in Columns, q # n, Through(q)'
      PROVE  Through(q)
  <2>1. ASSUME NEW v \in Worker, Owns(v, q)
        PROVE  q < tile[v]
    <3>1. q < tile'[v] /\ q \in Nat
      BY <1>2, <1>6, <2>1, ConstantTypes DEF Through, Columns
    <3> QED BY <1>1, <1>3, <1>6, <3>1
  <2> QED BY <2>1 DEF Through
<1>7. OperandsInv'
  <2>1. ASSUME NEW q \in Columns, Through(q)', NEW k \in Blocks, PreUnpack
        PROVE  unpacked_b'[OperandB(0, q) + k] = <<q, k>>
    <3>1. /\ OperandB(0, q) + k \in DOMAIN unpacked_b
          /\ PackedB(OperandB(0, q) + k) = <<q, k>>
          /\ OperandB(0, q) + k \in OperandB(0, n) .. OperandB(BlocksK - 1, n) <=> n = q
      BY <1>3, WeightPlaces DEF TypeOK
    <3>2. CASE q = n
      BY <1>1, <3>1, <3>2
    <3>3. CASE q # n
      <4>1. unpacked_b[OperandB(0, q) + k] = <<q, k>>
        BY <1>1, <1>6, <2>1, <3>3 DEF OperandsInv, Parallel
      <4> QED BY <1>1, <3>1, <3>3, <4>1
    <3> QED BY <3>2, <3>3
  <2> QED BY <1>1, <1>2, <2>1 DEF OperandsInv
<1>8. SumsInv' /\ WorkersInv' /\ CopyInv'
  BY <1>1, <1>2 DEF SumsInv, WorkersInv, CopyInv
<1>9. OutputIsProduct'
  BY <1>1, SameOutput
<1> QED BY <1>4, <1>5, <1>7, <1>8, <1>9

LEMMA UnpackCStep ==
    ASSUME IInv, NEW w \in Worker, UnpackC(w)
    PROVE  IInv'
<1> USE DEF IInv
<1> DEFINE m == tile[w]
           n == inner[w]
<1>1. /\ at = "unpack_c" /\ Busy(w) /\ UNCHANGED <<adapter, loops>>
      /\ UNCHANGED <<step, sum, packed_a, unpacked_b, packed_c>>
      /\ output' = [output EXCEPT ![<<m, n>>] = packed_c[TileOf(m, n)]]
      /\ IF inner[w] + 1 < TilesN
         THEN inner' = [inner EXCEPT ![w] = @ + 1] /\ UNCHANGED tile
         ELSE inner' = [inner EXCEPT ![w] = 0] /\ tile' = [tile EXCEPT ![w] = @ + 1]
  BY DEF UnpackC
<1>2. /\ UNCHANGED <<at, iteration, block_k, chunk_begin>>
      /\ Count' = Count /\ BlocksPerPanel' = BlocksPerPanel
      /\ PreUnpack' = PreUnpack /\ AddressesOfA' = AddressesOfA
      /\ IsPanel(block_k)' <=> IsPanel(block_k)
  BY <1>1, SameLoops, SameAdapter
<1>3. m \in Rows /\ n \in Columns /\ Owns(w, m)
  BY <1>1, BusyWithin DEF Parallel
<1>4. /\ tile' \in [Worker -> Nat] /\ inner' \in [Worker -> Nat]
      /\ \A v \in Worker : ShareBegin(v, Count') <= tile'[v] /\ tile'[v] <= ShareBegin(v + 1, Count')
      /\ \A v \in Worker : inner'[v] \in Columns
      /\ \A p \in Rows, q \in Columns : Past(p, q)' <=> Past(p, q) \/ (p = m /\ q = n)
  <2>1. /\ \A v \in Worker : ShareBegin(v, Count) <= tile[v] /\ tile[v] <= ShareBegin(v + 1, Count)
        /\ \A v \in Worker : inner[v] \in Columns
    BY <1>1 DEF LoopInv, Parallel
  <2>2. \A v \in Worker : 0 <= inner[v] /\ inner[v] < TilesN
    BY <2>1, ConstantTypes DEF Columns
  <2>3. /\ tile' \in [Worker -> Nat] /\ inner' \in [Worker -> Nat]
        /\ \A v \in Worker : ShareBegin(v, Count') <= tile'[v] /\ tile'[v] <= ShareBegin(v + 1, Count')
        /\ \A v \in Worker : 0 <= inner'[v] /\ inner'[v] < TilesN
        /\ \A p \in Nat, q \in Nat : 0 <= q /\ q < TilesN =>
             (Past(p, q)' <=> Past(p, q) \/ (p = m /\ q = n))
    BY <1>1, <1>2, <1>3, <2>1, <2>2, ConstantTypes, Advance
  <2>4. \A v \in Worker : inner'[v] \in Columns
    BY <2>3, ConstantTypes DEF Columns
  <2>5. \A p \in Rows, q \in Columns : p \in Nat /\ q \in Nat /\ 0 <= q /\ q < TilesN
    BY ConstantTypes DEF Rows, Columns
  <2> QED BY <2>3, <2>4, <2>5
<1>5. TypeOK'
  BY <1>1, <1>2, <1>4 DEF TypeOK
<1>6. LoopInv'
  BY <1>1, <1>2, <1>4 DEF LoopInv
<1>7. OperandsInv'
  BY <1>1, <1>2, SameAdapter DEF OperandsInv, Parallel
<1>8. SumsInv' /\ WorkersInv' /\ OutputIsProduct'
  BY <1>1, <1>2 DEF SumsInv, WorkersInv, OutputIsProduct
<1>9. CopyInv'
  <2>1. ASSUME NEW p \in Rows, NEW q \in Columns, Past(p, q)'
        PROVE  output'[p, q] = Product(p, q, BlocksK)
    <3>1. CASE p = m /\ q = n
      <4>1. output'[<<m, n>>] = packed_c[TileOf(m, n)]
        BY <1>1, <1>3 DEF TypeOK
      <4>2. packed_c[TileOf(m, n)] = Product(m, n, BlocksK)
        BY <1>1, <1>3 DEF CopyInv
      <4> QED BY <3>1, <4>1, <4>2
    <3>2. CASE p # m \/ q # n
      <4>1. output[p, q] = Product(p, q, BlocksK)
        BY <1>1, <1>4, <2>1, <3>2 DEF CopyInv
      <4>2. <<p, q>> # <<m, n>> /\ <<p, q>> \in DOMAIN output
        BY <3>2 DEF TypeOK
      <4>3. output'[<<p, q>>] = output[<<p, q>>]
        BY <1>1, <4>2
      <4> QED BY <4>1, <4>3
    <3> QED BY <3>1, <3>2
  <2> QED BY <1>1, <1>2, <2>1 DEF CopyInv
<1> QED BY <1>5, <1>6, <1>7, <1>8, <1>9

----------------------------------------------------------------------------
(* The steps of the main thread. *)

LEMMA FirstIsPanel ==
    ASSUME adapter \in Adapters
    PROVE  IsPanel(0)
<1>1. 0 \in Blocks /\ 0 = 0 * BlocksPerPanel
  BY AdapterTypes, ConstantTypes DEF Blocks
<1> QED BY <1>1 DEF IsPanel

LEMMA NewChunk ==
    ASSUME adapter \in Adapters, UNCHANGED adapter, block_k' \in Blocks, chunk_begin' \in Rows
    PROVE  ChunkEnd' \in Nat /\ chunk_begin' < ChunkEnd'
<1>1. ChunkTiles(block_k)' = ChunkTiles(block_k')
  BY DEF ChunkTiles, Stride, LocalBlocks, PreUnpack, BlocksPerPanel
<1>2. ChunkTiles(block_k') \in Nat /\ ChunkTiles(block_k') >= 1
  BY ChunkTilesType
<1>3. ChunkEnd' = Lesser(TilesM, chunk_begin' + ChunkTiles(block_k'))
  BY <1>1 DEF ChunkEnd
<1> QED BY <1>2, <1>3, ConstantTypes DEF Lesser, Rows

\* A chunk begins: it has reached none of its own tiles yet.
LEMMA ComputeBegins ==
    ASSUME TypeOK, UNCHANGED adapter, Fork("compute", TilesN, chunk_begin'),
           IsPanel(block_k'), chunk_begin' \in Rows
    PROVE  /\ LoopInv' /\ WorkersInv' /\ CopyInv'
           /\ at' = "compute" /\ tile' \in [Worker -> Nat] /\ inner' \in [Worker -> Nat]
           /\ step' \in [Worker -> {"fill", "load", "store"}] /\ DOMAIN sum' = Worker
           /\ \A m \in Rows, n \in Columns : Reached(m, n)' <=> m < chunk_begin'
<1>1. Count' = TilesN /\ TilesN \in Nat /\ chunk_begin' \in Nat
  BY ConstantTypes DEF Count, Fork, Rows
<1>2. /\ at' = "compute" /\ tile' \in [Worker -> Nat]
      /\ inner' = [w \in Worker |-> chunk_begin']
      /\ step' = [w \in Worker |-> "fill"] /\ DOMAIN sum' = Worker
      /\ \A w \in Worker : ShareBegin(w, Count') <= tile'[w] /\ tile'[w] <= ShareBegin(w + 1, Count')
      /\ \A n \in 0 .. TilesN - 1, i \in Nat : chunk_begin' <= i => ~ Past(n, i)'
  BY <1>1, ForkStarts DEF Parallel
<1>3. IsPanel(block_k)' /\ block_k' \in Blocks
  BY DEF IsPanel, BlocksPerPanel
<1>4. ChunkEnd' \in Nat /\ chunk_begin' < ChunkEnd'
  BY <1>3, NewChunk DEF TypeOK
<1>5. \A w \in Worker : chunk_begin' <= inner'[w] /\ inner'[w] < ChunkEnd'
  BY <1>1, <1>2, <1>4
<1>6. LoopInv'
  BY <1>2, <1>3, <1>5 DEF LoopInv
<1>7. WorkersInv' /\ CopyInv'
  BY <1>2 DEF WorkersInv, CopyInv
<1>8. ASSUME NEW m \in Rows, NEW n \in Columns
      PROVE  Reached(m, n)' <=> m < chunk_begin'
  <2>1. m \in Nat /\ n \in 0 .. TilesN - 1
    BY ConstantTypes DEF Rows, Columns
  <2>2. m < chunk_begin' \/ chunk_begin' <= m
    BY <1>1, <2>1
  <2> QED BY <1>2, <2>1, <2>2 DEF Reached
<1> QED BY <1>1, <1>2, <1>6, <1>7, <1>8

\* An iteration begins with the expansion of B or the first chunk.
LEMMA IterationBegins ==
    ASSUME TypeOK, UNCHANGED adapter, Enter, block_k' = 0, chunk_begin' = 0
    PROVE  /\ LoopInv' /\ WorkersInv' /\ CopyInv' /\ SumsInv'
           /\ at' = IF PreUnpack THEN "unpack_b" ELSE "compute"
           /\ tile' \in [Worker -> Nat] /\ inner' \in [Worker -> Nat]
           /\ step' \in [Worker -> {"fill", "load", "store"}] /\ DOMAIN sum' = Worker
           /\ DOMAIN unpacked_b' = DOMAIN unpacked_b
           /\ at' = "unpack_b" => \A n \in Columns : ~ Through(n)'
<1>1. IsPanel(block_k') /\ chunk_begin' \in Rows /\ IsPanel(block_k)'
  <2>1. IsPanel(0) /\ 0 \in Rows
    BY FirstIsPanel, ConstantTypes DEF Rows, TypeOK
  <2> QED BY <2>1 DEF IsPanel, BlocksPerPanel
<1>2. CASE ~ PreUnpack
  <2>1. Fork("compute", TilesN, chunk_begin') /\ UNCHANGED unpacked_b
    BY <1>2 DEF Enter
  <2>2. /\ LoopInv' /\ WorkersInv' /\ CopyInv'
        /\ at' = "compute" /\ tile' \in [Worker -> Nat] /\ inner' \in [Worker -> Nat]
        /\ step' \in [Worker -> {"fill", "load", "store"}] /\ DOMAIN sum' = Worker
        /\ \A m \in Rows, n \in Columns : Reached(m, n)' <=> m < chunk_begin'
    BY <1>1, <2>1, ComputeBegins
  <2>3. \A m \in Rows : ~ (m < chunk_begin')
    BY ConstantTypes DEF Rows
  <2>4. SumsInv'
    BY <2>2, <2>3 DEF SumsInv
  <2> QED BY <1>2, <2>1, <2>2, <2>4
<1>3. CASE PreUnpack
  <2>1. /\ Fork("unpack_b", TilesN, 0)
        /\ unpacked_b' = [address \in DOMAIN unpacked_b |-> Undefined]
    BY <1>3 DEF Enter
  <2>2. Count' = TilesN /\ TilesN \in Nat /\ PreUnpack'
    BY <1>3, <2>1, ConstantTypes DEF Count, Fork, PreUnpack
  <2>3. /\ at' = "unpack_b" /\ tile' \in [Worker -> Nat]
        /\ inner' = [w \in Worker |-> 0]
        /\ step' = [w \in Worker |-> "fill"] /\ DOMAIN sum' = Worker
        /\ \A w \in Worker : ShareBegin(w, Count') <= tile'[w] /\ tile'[w] <= ShareBegin(w + 1, Count')
        /\ \A n \in 0 .. TilesN - 1 : ~ Through(n)'
    BY <2>1, <2>2, ForkStarts DEF Parallel
  <2>4. LoopInv'
    BY <1>1, <2>2, <2>3 DEF LoopInv
  <2>5. WorkersInv' /\ CopyInv' /\ SumsInv'
    BY <2>3 DEF WorkersInv, CopyInv, SumsInv
  <2> QED BY <1>3, <2>1, <2>3, <2>4, <2>5 DEF Columns
<1> QED BY <1>2, <1>3

LEMMA InitHolds ==
    ASSUME Init
    PROVE  IInv
<1>1. adapter \in Adapters /\ IsPanel(block_k) /\ chunk_begin \in Rows
  BY FirstIsPanel, ConstantTypes DEF Init, Rows
<1>2. TypeOK
  BY DEF Init, TypeOK, Parallel, Rows, Columns
<1> QED BY <1>1, <1>2 DEF Init, IInv, LoopInv, OperandsInv, SumsInv, WorkersInv, CopyInv,
                          OutputIsProduct, Parallel

LEMMA PrepareStep ==
    ASSUME IInv, Prepare
    PROVE  IInv'
<1> USE DEF IInv
<1>1. /\ at = "prepare" /\ Enter /\ iteration = 0 /\ adapter \in Adapters
      /\ UNCHANGED <<adapter, iteration, block_k, chunk_begin, packed_c, output>>
      /\ block_k' = 0 /\ chunk_begin' = 0
  BY DEF Prepare, LoopInv, TypeOK
<1>2. /\ LoopInv' /\ WorkersInv' /\ CopyInv' /\ SumsInv'
      /\ at' = IF PreUnpack THEN "unpack_b" ELSE "compute"
      /\ tile' \in [Worker -> Nat] /\ inner' \in [Worker -> Nat]
      /\ step' \in [Worker -> {"fill", "load", "store"}] /\ DOMAIN sum' = Worker
      /\ DOMAIN unpacked_b' = DOMAIN unpacked_b
      /\ at' = "unpack_b" => \A n \in Columns : ~ Through(n)'
  BY <1>1, IterationBegins
<1>3. DOMAIN packed_a' = AddressesOfA /\ AddressesOfA' = AddressesOfA
  BY <1>1, SameAdapter DEF Prepare
<1>4. TypeOK'
  BY <1>1, <1>2, <1>3 DEF TypeOK, Parallel
<1>5. OperandsInv'
  <2>1. /\ PreUnpack' = PreUnpack
        /\ \A k : LocalBlocks(k)' = LocalBlocks(k) /\ (IsPanel(k)' <=> IsPanel(k))
        /\ \A k, m : Operand(k, m)' = Operand(k, m)
    BY <1>1, SameAdapter
  <2>2. \A k \in Blocks, m \in Rows : IsPanel(k) =>
          \A i \in 0 .. LocalBlocks(k) - 1 : packed_a'[Operand(k, m) + i] = <<m, k + i>>
    BY <1>1, PrepareFills
  <2> QED BY <1>2, <2>1, <2>2 DEF OperandsInv
<1>6. OutputIsProduct'
  <2>1. ~ (iteration' > 0)
    BY <1>1
  <2> QED BY <2>1 DEF OutputIsProduct
<1> QED BY <1>2, <1>4, <1>5, <1>6

LEMMA FirstPanelStep ==
    ASSUME IInv, FirstPanel
    PROVE  IInv'
<1> USE DEF IInv
<1>1. /\ at = "unpack_b" /\ Joined /\ Fork("compute", TilesN, chunk_begin') /\ PreUnpack
      /\ UNCHANGED <<adapter, iteration, block_k, chunk_begin>>
      /\ UNCHANGED <<packed_a, unpacked_b, packed_c, output>>
      /\ block_k = 0 /\ chunk_begin = 0 /\ IsPanel(block_k') /\ chunk_begin' \in Rows
  BY DEF FirstPanel, LoopInv
<1>2. /\ LoopInv' /\ WorkersInv' /\ CopyInv'
      /\ at' = "compute" /\ tile' \in [Worker -> Nat] /\ inner' \in [Worker -> Nat]
      /\ step' \in [Worker -> {"fill", "load", "store"}] /\ DOMAIN sum' = Worker
      /\ \A m \in Rows, n \in Columns : Reached(m, n)' <=> m < chunk_begin'
  BY <1>1, ComputeBegins
<1>3. TypeOK'
  BY <1>1, <1>2, SameAdapter DEF TypeOK, Parallel
<1>4. OperandsInv'
  <2>1. \A n \in Columns : Through(n)
    BY <1>1, JoinedPast, ConstantTypes DEF Parallel, Columns
  <2> QED BY <1>1, <1>2, <2>1, SameAdapter DEF OperandsInv, Parallel
<1>5. SumsInv'
  <2>1. \A m \in Rows : ~ (m < chunk_begin')
    BY <1>1, ConstantTypes DEF Rows
  <2> QED BY <1>1, <1>2, <2>1 DEF SumsInv
<1>6. OutputIsProduct'
  BY <1>1, <1>2 DEF OutputIsProduct
<1> QED BY <1>2, <1>3, <1>4, <1>5, <1>6

\* After the barrier the chunk is through.
LEMMA ChunkIsThrough ==
    ASSUME IInv, at = "compute", Joined, NEW m \in Rows, NEW n \in Columns
    PROVE  IF m < ChunkEnd
           THEN packed_c[TileOf(m, n)] = Product(m, n, block_k + LocalBlocks(block_k))
           ELSE block_k > 0 => packed_c[TileOf(m, n)] = Product(m, n, block_k)
<1>1. /\ m \in Nat /\ n \in Nat
      /\ ChunkEnd \in Nat /\ chunk_begin \in Nat /\ chunk_begin < ChunkEnd
  BY ChunkTypes, ConstantTypes DEF IInv, Rows, Columns, LoopInv, TypeOK, IsPanel
<1>2. Past(n, m)
  BY <1>1, JoinedPast DEF IInv, Parallel
<1>3. Reached(m, n) <=> m < ChunkEnd
  BY <1>1, <1>2 DEF Reached
<1> QED BY <1>3 DEF IInv, SumsInv

LEMMA NextChunkStep ==
    ASSUME IInv, NextChunk
    PROVE  IInv'
<1> USE DEF IInv
<1>1. /\ at = "compute" /\ Joined /\ Fork("compute", TilesN, chunk_begin')
      /\ UNCHANGED <<adapter, iteration, block_k>>
      /\ UNCHANGED <<packed_a, unpacked_b, packed_c, output>>
      /\ chunk_begin + ChunkTiles(block_k) < TilesM
      /\ chunk_begin' = chunk_begin + ChunkTiles(block_k)
      /\ IsPanel(block_k') /\ IsPanel(block_k) /\ block_k \in Blocks
      /\ chunk_begin \in Rows /\ adapter \in Adapters
  BY DEF NextChunk, LoopInv, IsPanel, TypeOK
<1>2. chunk_begin' = ChunkEnd /\ chunk_begin' \in Rows /\ ChunkEnd \in Nat /\ chunk_begin < ChunkEnd
  BY <1>1, ChunkTypes, ConstantTypes DEF Rows
<1>3. /\ LoopInv' /\ WorkersInv' /\ CopyInv'
      /\ at' = "compute" /\ tile' \in [Worker -> Nat] /\ inner' \in [Worker -> Nat]
      /\ step' \in [Worker -> {"fill", "load", "store"}] /\ DOMAIN sum' = Worker
      /\ \A m \in Rows, n \in Columns : Reached(m, n)' <=> m < chunk_begin'
  BY <1>1, <1>2, ComputeBegins
<1>4. TypeOK'
  BY <1>1, <1>3, SameAdapter DEF TypeOK, Parallel
<1>5. OperandsInv'
  BY <1>1, <1>3, SameAdapter DEF OperandsInv, Parallel
<1>6. SumsInv'
  <2>1. LocalBlocks(block_k)' = LocalBlocks(block_k)
    BY <1>1 DEF LocalBlocks, BlocksPerPanel
  <2>2. \A m \in Rows, n \in Columns :
          IF m < ChunkEnd
          THEN packed_c[TileOf(m, n)] = Product(m, n, block_k + LocalBlocks(block_k))
          ELSE block_k > 0 => packed_c[TileOf(m, n)] = Product(m, n, block_k)
    BY <1>1, ChunkIsThrough
  <2> QED BY <1>1, <1>2, <1>3, <2>1, <2>2 DEF SumsInv
<1>7. OutputIsProduct'
  BY <1>1, <1>3 DEF OutputIsProduct
<1> QED BY <1>3, <1>4, <1>5, <1>6, <1>7

\* After the last chunk every tile has got the panel's products.
LEMMA PanelIsThrough ==
    ASSUME IInv, LastChunk, NEW m \in Rows, NEW n \in Columns
    PROVE  packed_c[TileOf(m, n)] = Product(m, n, block_k + LocalBlocks(block_k))
<1>1. at = "compute" /\ Joined /\ chunk_begin + ChunkTiles(block_k) >= TilesM
  BY DEF LastChunk
<1>2. ChunkEnd = TilesM /\ m < TilesM
  BY <1>1, ChunkTypes, ConstantTypes DEF IInv, LoopInv, TypeOK, IsPanel, Rows
<1> QED BY <1>1, <1>2, ChunkIsThrough

LEMMA NextPanelStep ==
    ASSUME IInv, NextPanel
    PROVE  IInv'
<1> USE DEF IInv
<1>1. /\ at = "compute" /\ Joined /\ LastChunk /\ Fork("compute", TilesN, chunk_begin')
      /\ UNCHANGED <<adapter, iteration>>
      /\ UNCHANGED <<packed_a, unpacked_b, packed_c, output>>
      /\ block_k + BlocksPerPanel < BlocksK /\ block_k' = block_k + BlocksPerPanel
      /\ chunk_begin' = 0 /\ adapter \in Adapters
      /\ IsPanel(block_k) /\ block_k \in Blocks /\ block_k \in Nat
  BY ConstantTypes DEF NextPanel, LastChunk, LoopInv, IsPanel, TypeOK, Blocks
<1>2. IsPanel(block_k') /\ block_k' > 0 /\ chunk_begin' \in Rows
  <2>1. BlocksPerPanel \in Nat /\ BlocksPerPanel > 0
    BY <1>1, AdapterTypes
  <2>2. PICK j \in Nat : block_k = j * BlocksPerPanel
    BY <1>1 DEF IsPanel, Blocks
  <2>3. (j + 1) * BlocksPerPanel = j * BlocksPerPanel + BlocksPerPanel
    BY <2>1, TimesSuccessor
  <2>4. (j + 1) * 1 <= (j + 1) * BlocksPerPanel
    BY <2>1
  <2>5. block_k' \in Nat /\ block_k' < BlocksK /\ block_k' = (j + 1) * BlocksPerPanel /\ block_k' > 0
    BY <1>1, <2>1, <2>2, <2>3
  <2>6. j + 1 <= block_k'
    BY <2>4, <2>5
  <2>7. block_k' \in Blocks /\ j + 1 \in Blocks
    BY <2>5, <2>6, ConstantTypes DEF Blocks
  <2> QED BY <1>1, <2>5, <2>7, ConstantTypes DEF IsPanel, Rows
<1>3. /\ LoopInv' /\ WorkersInv' /\ CopyInv'
      /\ at' = "compute" /\ tile' \in [Worker -> Nat] /\ inner' \in [Worker -> Nat]
      /\ step' \in [Worker -> {"fill", "load", "store"}] /\ DOMAIN sum' = Worker
      /\ \A m \in Rows, n \in Columns : Reached(m, n)' <=> m < chunk_begin'
  BY <1>1, <1>2, ComputeBegins
<1>4. TypeOK'
  BY <1>1, <1>3, SameAdapter DEF TypeOK, Parallel
<1>5. OperandsInv'
  BY <1>1, <1>3, SameAdapter DEF OperandsInv, Parallel
<1>6. SumsInv'
  <2>1. block_k' = block_k + LocalBlocks(block_k)
    BY <1>1, PanelTypes
  <2>2. \A m \in Rows, n \in Columns : packed_c[TileOf(m, n)] = Product(m, n, block_k')
    BY <1>1, <2>1, PanelIsThrough
  <2>3. \A m \in Rows : ~ (m < chunk_begin')
    BY <1>1, ConstantTypes DEF Rows
  <2> QED BY <1>1, <1>3, <2>2, <2>3 DEF SumsInv
<1>7. OutputIsProduct'
  BY <1>1, <1>3 DEF OutputIsProduct
<1> QED BY <1>3, <1>4, <1>5, <1>6, <1>7

LEMMA CopyOutStep ==
    ASSUME IInv, CopyOut
    PROVE  IInv'
<1> USE DEF IInv
<1>1. /\ at = "compute" /\ LastChunk /\ Fork("unpack_c", TilesM, 0)
      /\ UNCHANGED <<adapter, iteration, block_k, chunk_begin>>
      /\ UNCHANGED <<packed_a, unpacked_b, packed_c, output>>
      /\ block_k + BlocksPerPanel >= BlocksK /\ adapter \in Adapters
      /\ IsPanel(block_k) /\ block_k \in Blocks
  BY DEF CopyOut, LastChunk, LoopInv, IsPanel, TypeOK
<1>2. Count' = TilesM /\ TilesM \in Nat /\ BlocksPerPanel' = BlocksPerPanel
      /\ IsPanel(block_k)'
  BY <1>1, ConstantTypes DEF Count, Fork, BlocksPerPanel, IsPanel
<1>3. /\ at' = "unpack_c" /\ tile' \in [Worker -> Nat]
      /\ inner' = [w \in Worker |-> 0]
      /\ step' = [w \in Worker |-> "fill"] /\ DOMAIN sum' = Worker
      /\ \A w \in Worker : ShareBegin(w, Count') <= tile'[w] /\ tile'[w] <= ShareBegin(w + 1, Count')
      /\ \A m \in 0 .. TilesM - 1, i \in Nat : 0 <= i => ~ Past(m, i)'
  BY <1>1, <1>2, ForkStarts DEF Parallel
<1>4. TypeOK'
  BY <1>1, <1>3, SameAdapter DEF TypeOK, Parallel
<1>5. LoopInv'
  <2>1. 0 \in Columns
    BY ConstantTypes DEF Columns
  <2> QED BY <1>1, <1>2, <1>3, <2>1 DEF LoopInv
<1>6. OperandsInv'
  BY <1>1, <1>3, SameAdapter DEF OperandsInv, Parallel
<1>7. CopyInv'
  <2>1. block_k + LocalBlocks(block_k) = BlocksK
    BY <1>1, PanelTypes
  <2>2. \A m \in Rows, n \in Columns : packed_c[TileOf(m, n)] = Product(m, n, BlocksK)
    BY <1>1, <2>1, PanelIsThrough
  <2>3. \A m \in Rows, n \in Columns : m \in 0 .. TilesM - 1 /\ n \in Nat /\ 0 <= n
    BY ConstantTypes DEF Rows, Columns
  <2> QED BY <1>1, <1>3, <2>2, <2>3 DEF CopyInv
<1>8. SumsInv' /\ WorkersInv' /\ OutputIsProduct'
  BY <1>3 DEF SumsInv, WorkersInv, OutputIsProduct
<1> QED BY <1>4, <1>5, <1>6, <1>7, <1>8

LEMMA NextIterationStep ==
    ASSUME IInv, NextIteration
    PROVE  IInv'
<1> USE DEF IInv
<1>1. /\ at = "unpack_c" /\ Joined /\ iteration' = iteration + 1
      /\ block_k' = 0 /\ chunk_begin' = 0
      /\ UNCHANGED <<adapter, packed_a, packed_c, output>>
      /\ \/ Enter
         \/ at' = "done" /\ UNCHANGED <<tile, inner, step, sum, unpacked_b>>
      /\ adapter \in Adapters /\ iteration \in Nat
  BY DEF NextIteration, TypeOK, workers
<1>2. \A m \in Rows, n \in Columns : output[m, n] = Product(m, n, BlocksK)
  <2>1. \A m \in Rows, n \in Columns : Past(m, n)
    BY <1>1, JoinedPast, ConstantTypes DEF Rows, Parallel
  <2> QED BY <1>1, <2>1 DEF CopyInv
<1>3. OutputIsProduct'
  BY <1>1, <1>2 DEF OutputIsProduct, Rows, Columns
<1>4. CASE Enter
  <2>1. /\ LoopInv' /\ WorkersInv' /\ CopyInv' /\ SumsInv'
        /\ at' = IF PreUnpack THEN "unpack_b" ELSE "compute"
        /\ tile' \in [Worker -> Nat] /\ inner' \in [Worker -> Nat]
        /\ step' \in [Worker -> {"fill", "load", "store"}] /\ DOMAIN sum' = Worker
        /\ DOMAIN unpacked_b' = DOMAIN unpacked_b
        /\ at' = "unpack_b" => \A n \in Columns : ~ Through(n)'
    BY <1>1, <1>4, IterationBegins
  <2>2. TypeOK'
    BY <1>1, <2>1, SameAdapter DEF TypeOK, Parallel
  <2>3. OperandsInv'
    BY <1>1, <2>1, SameAdapter DEF OperandsInv, Parallel
  <2> QED BY <1>3, <2>1, <2>2, <2>3
<1>5. CASE at' = "done" /\ UNCHANGED <<tile, inner, step, sum, unpacked_b>>
  <2>1. TypeOK'
    BY <1>1, <1>5, SameAdapter DEF TypeOK, Parallel
  <2>2. LoopInv'
    <3>1. IsPanel(0) /\ 0 \in Rows
      BY <1>1, FirstIsPanel, ConstantTypes DEF Rows
    <3>2. IsPanel(block_k)'
      BY <1>1, <3>1 DEF IsPanel, BlocksPerPanel
    <3> QED BY <1>1, <1>5, <3>1, <3>2 DEF LoopInv, Parallel
  <2>3. OperandsInv'
    BY <1>1, <1>5, SameAdapter DEF OperandsInv, Parallel
  <2>4. SumsInv' /\ WorkersInv' /\ CopyInv'
    BY <1>5 DEF SumsInv, WorkersInv, CopyInv
  <2> QED BY <1>3, <2>1, <2>2, <2>3, <2>4
<1> QED BY <1>1, <1>4, <1>5

LEMMA StutterStep ==
    ASSUME IInv, UNCHANGED vars
    PROVE  IInv'
<1> USE DEF IInv
<1>1. /\ UNCHANGED <<adapter, loops, tile, inner>>
      /\ UNCHANGED <<adapter, at, iteration, block_k, chunk_begin, tile, inner, step, sum>>
      /\ UNCHANGED <<packed_a, unpacked_b, packed_c, output>>
  BY DEF vars, loops, workers
<1>2. /\ LoopInv' /\ \A v : Busy(v)' <=> Busy(v)
      /\ \A n, i : Past(n, i)' <=> Past(n, i)
      /\ \A m, n : Reached(m, n)' <=> Reached(m, n)
  BY <1>1, SamePlaces
<1>3. OperandsInv' /\ OutputIsProduct'
  BY <1>1, SameOperands, SameOutput
<1>4. /\ LocalBlocks(block_k)' = LocalBlocks(block_k) /\ PreUnpack' = PreUnpack
      /\ AddressesOfA' = AddressesOfA
  BY <1>1, SameLoops, SameAdapter
<1>5. TypeOK'
  BY <1>1, <1>4 DEF TypeOK
<1>6. SumsInv' /\ WorkersInv' /\ CopyInv'
  BY <1>1, <1>2, <1>4 DEF SumsInv, WorkersInv, CopyInv
<1> QED BY <1>2, <1>3, <1>5, <1>6

----------------------------------------------------------------------------
(* The theorems. *)

\* The invariant of the loops: what the packed operands, the accumulator, the
\* registers of the workers and the output hold at every place of run().
THEOREM InductiveInvariant == Spec => []IInv
<1>1. Init => IInv
  BY InitHolds
<1>2. IInv /\ [Next]_vars => IInv'
  <2> SUFFICES ASSUME IInv, [Next]_vars
               PROVE  IInv'
    OBVIOUS
  <2>1. CASE Main
    BY <2>1, PrepareStep, FirstPanelStep, NextChunkStep, NextPanelStep, CopyOutStep,
       NextIterationStep DEF Main
  <2>2. ASSUME NEW w \in Worker, Work(w)
        PROVE  IInv'
    BY <2>2, UnpackBStep, FillStep, LoadStep, StoreStep, UnpackCStep DEF Work
  <2>3. CASE UNCHANGED vars
    BY <2>3, StutterStep
  <2> QED BY <2>1, <2>2, <2>3 DEF Next
<1> QED BY <1>1, <1>2, PTL DEF Spec

\* The parallel loop of run(): no two workers of it ever work on the same tile.
THEOREM OneWriterAlways == Spec => []OneWriter
<1>1. IInv => OneWriter
  BY OthersTile DEF IInv, OneWriter
<1> QED BY <1>1, InductiveInvariant, PTL

\* The accumulation over K panels: at every barrier the accumulator holds the
\* blocks of the panels so far, each once and in the order of K.
THEOREM PartialSumsAlways == Spec => []PartialSums
<1>1. IInv => PartialSums
  BY ChunkIsThrough DEF PartialSums, Rows, Columns
<1> QED BY <1>1, InductiveInvariant, PTL

\* The result of run(): after every iteration the output is the product, whatever
\* the shape, the panel, the budget, the number of threads and their interleaving.
THEOREM OutputIsProductAlways == Spec => []OutputIsProduct
<1>1. IInv => OutputIsProduct
  BY DEF IInv
<1> QED BY <1>1, InductiveInvariant, PTL
===============================================================================
