------------------------- MODULE KernelSequenceProofs -------------------------
(***************************************************************************)
(* The two kernels that borrow TCM, for any shapes, chunks, batches, number *)
(* of threads and buffers: each ends with its product, whatever the other   *)
(* has left in the buffers, and no buffer is used by two workers or kept.   *)
(*                                                                         *)
(* The invariant has a part for each kernel and one for the buffers, which  *)
(* belong to the first kernel until it ends and to the second one then.     *)
(***************************************************************************)
EXTENDS KernelSequence, SequenceTheorems, TLAPS

Rows == 0 .. TilesM - 1
Columns == 0 .. TilesN - 1
RrRows == 0 .. RrTilesM - 1
RrColumns == 0 .. RrTilesN - 1

\* Of the workers that are not at "acquire" each holds its stack or a granted buffer,
\* no two the same, and all granted buffers are held.
Holders(place, held, out) ==
    /\ out \subseteq TcmBuffers
    /\ \A w \in Worker : place[w] # "acquire" => held[w] = w \/ held[w] \in out
    /\ \A b \in out : \E w \in Worker : place[w] # "acquire" /\ held[w] = b
    /\ \A v, w \in Worker :
         v # w /\ place[v] # "acquire" /\ place[w] # "acquire" => held[v] # held[w]

\* The begin of worker w's share of a parallel loop.
Share(w, total) == w * (total \div Threads) + Lesser(w, total % Threads)

----------------------------------------------------------------------------
(* The first kernel. *)

RrTypeOK ==
    /\ rr_iteration \in 0 .. Iterations
    /\ rr_tile_n \in [Worker -> Nat]
    /\ chunk_begin \in [Worker -> Nat]
    /\ block \in [Worker -> Nat]
    /\ rr_at \in [Worker -> {"acquire", "clear", "block", "unpack", "release"}]
    /\ buffer \in [Worker -> Worker \cup TcmBuffers]
    /\ DOMAIN packed_c = Worker \cup TcmBuffers
    /\ \A b \in Worker \cup TcmBuffers : DOMAIN packed_c[b] = 0 .. MTilesPerChunk - 1
    /\ DOMAIN rr_output = RrRows \X RrColumns

RrOwns(w, n) == Share(w, RrTilesN) <= n /\ n < Share(w + 1, RrTilesN)

\* The loops of the workers: shares, chunks and blocks.
RrLoopInv ==
    \A w \in Worker :
        /\ Share(w, RrTilesN) <= rr_tile_n[w] /\ rr_tile_n[w] <= Share(w + 1, RrTilesN)
        /\ rr_at[w] # "acquire" => rr_tile_n[w] < Share(w + 1, RrTilesN)
        /\ rr_at[w] \in {"clear", "block", "unpack"} =>
             chunk_begin[w] < RrTilesM /\ chunk_begin[w] % MTilesPerChunk = 0
        /\ rr_at[w] = "block" => block[w] < RrBlocksK
        /\ rr_at[w] = "release" => chunk_begin[w] >= RrTilesM

\* The first blocks of a product.
RrProduct(m, n, blocks) ==
    [ i \in 1 .. blocks |-> << <<m, i - 1>>, <<m, i - 1>>, <<n, i - 1>> >> ]

\* The chunk that a worker has in its buffer.
RrChunkIs(w, blocks) ==
    \A i \in 0 .. Rr!ChunkTiles(w) - 1 :
        packed_c[buffer[w]][i] = RrProduct(chunk_begin[w] + i, rr_tile_n[w], blocks)

RrSumsInv ==
    \A w \in Worker : /\ rr_at[w] = "block" => RrChunkIs(w, block[w])
                      /\ rr_at[w] = "unpack" => RrChunkIs(w, RrBlocksK)

\* Worker w, who has column n, is past its tile in row m.
RrBehind(w, m, n) ==
    \/ n < rr_tile_n[w]
    \/ n = rr_tile_n[w] /\ rr_at[w] # "acquire" /\ m < chunk_begin[w]

RrPast(m, n) == \A w \in Worker : RrOwns(w, n) => RrBehind(w, m, n)

RrOutputInv ==
    \A m \in RrRows, n \in RrColumns :
        rr_iteration > 0 \/ RrPast(m, n) => rr_output[<<m, n>>] = RrProduct(m, n, RrBlocksK)

RrInv == RrTypeOK /\ RrLoopInv /\ RrSumsInv /\ RrOutputInv

----------------------------------------------------------------------------
(* The second kernel. *)

BatchTypeOK ==
    /\ iteration \in 0 .. Iterations
    /\ tile_m \in [Worker -> Nat]
    /\ tile_n \in [Worker -> Nat]
    /\ at \in [Worker -> {"acquire", "tile", "block", "reduce", "copy", "release"}]
    /\ components \in [Worker -> Worker \cup TcmBuffers]
    /\ bk \in [Worker -> Nat]
    /\ count \in [Worker -> Nat]
    /\ DOMAIN acc = Worker
    /\ DOMAIN memory = Worker \cup TcmBuffers
    /\ \A b \in Worker \cup TcmBuffers : DOMAIN memory[b] = 0 .. RedBatchSize - 1
    /\ DOMAIN output = Rows \X Columns

Owns(w, m) == Share(w, TilesM) <= m /\ m < Share(w + 1, TilesM)

\* The loops of the workers: shares, blocks and the blocks that wait.
BatchLoopInv ==
    \A w \in Worker :
        /\ Share(w, TilesM) <= tile_m[w] /\ tile_m[w] <= Share(w + 1, TilesM)
        /\ at[w] # "acquire" => tile_m[w] < Share(w + 1, TilesM)
        /\ tile_n[w] \in Columns
        /\ at[w] \in {"acquire", "release"} => tile_n[w] = 0
        /\ at[w] = "block" => bk[w] < BlocksK /\ count[w] < RedBatchSize /\ count[w] <= bk[w]
        /\ at[w] = "reduce" => bk[w] <= BlocksK /\ count[w] <= RedBatchSize /\ count[w] <= bk[w]
        /\ at[w] = "copy" => bk[w] = BlocksK /\ count[w] = 0

\* The first blocks of a product.
BatchProduct(m, n, blocks) == [ i \in 1 .. blocks |-> << <<m, n, i - 1>>, i - 1 >> ]

\* What worker w has added, and what waits in its buffer.
WorkerSums(w) ==
    /\ acc[w] = BatchProduct(tile_m[w], tile_n[w], bk[w] - count[w])
    /\ \A i \in 0 .. count[w] - 1 :
         memory[components[w]][i] = <<tile_m[w], tile_n[w], bk[w] - count[w] + i>>

BatchSumsInv == \A w \in Worker : at[w] \in {"block", "reduce", "copy"} => WorkerSums(w)

\* Worker w, who has row m, is past its tile in column n.
Behind(w, m, n) ==
    m < tile_m[w] \/ (m = tile_m[w] /\ (at[w] = "release" \/ n < tile_n[w]))

Past(m, n) == \A w \in Worker : Owns(w, m) => Behind(w, m, n)

BatchOutputInv ==
    \A m \in Rows, n \in Columns :
        iteration > 0 \/ Past(m, n) => output[<<m, n>>] = BatchProduct(m, n, BlocksK)

BatchInv == BatchTypeOK /\ BatchLoopInv /\ BatchSumsInv /\ BatchOutputInv

----------------------------------------------------------------------------
\* The first kernel runs, and the second one has not begun; or the first has ended.
BuffersInv ==
    IF rr_iteration < Iterations
    THEN Holders(rr_at, buffer, granted) /\ \A w \in Worker : at[w] = "acquire"
    ELSE Holders(at, components, granted)

IInv == RrInv /\ BatchInv /\ BuffersInv

----------------------------------------------------------------------------
(* Arithmetic. *)

LEMMA Constants ==
    /\ Threads \in Nat /\ Threads > 0 /\ Iterations \in Nat /\ Iterations > 0
    /\ TilesM \in Nat /\ TilesM > 0 /\ TilesN \in Nat /\ TilesN > 0
    /\ BlocksK \in Nat /\ BlocksK > 0 /\ RedBatchSize \in Nat /\ RedBatchSize > 0
    /\ RrTilesM \in Nat /\ RrTilesM > 0 /\ RrTilesN \in Nat /\ RrTilesN > 0
    /\ RrBlocksK \in Nat /\ RrBlocksK > 0
    /\ MTilesPerChunk \in Nat /\ MTilesPerChunk > 0
    /\ TilesPerScaleLoad \in Nat /\ TilesPerScaleLoad > 0
    /\ MTilesPerChunk % TilesPerScaleLoad = 0
    /\ TcmBuffers \cap Worker = {} /\ Rr!Worker = Worker
<1>1. Rr!Worker = Worker
  BY DEF Rr!Worker, Worker
<1> QED BY <1>1, RrAssumption, BatchGemmAssumption DEF Rr!OuterProductGemmAssumption

LEMMA SomeThread == Threads \in Nat \ {0}
BY Constants

LEMMA TimesMonotone ==
    ASSUME NEW a \in Nat, NEW b \in Nat, NEW c \in Nat, a <= b
    PROVE  a * c \in Nat /\ b * c \in Nat /\ a * c <= b * c
OBVIOUS

LEMMA TimesSuccessor ==
    ASSUME NEW a \in Nat, NEW c \in Nat
    PROVE  a * c \in Nat /\ (a + 1) * c = a * c + c
OBVIOUS

\* Places in a table of rows of a width are different.
LEMMA RowsApart ==
    ASSUME NEW width \in Nat, NEW a \in Nat, NEW b \in Nat, a < b,
           NEW i \in 0 .. width - 1
    PROVE  a * width + i < b * width
<1>1. (a + 1) * width <= b * width /\ b * width \in Nat
  BY TimesMonotone
<1>2. a * width \in Nat /\ (a + 1) * width = a * width + width
  BY TimesSuccessor
<1> QED BY <1>1, <1>2

LEMMA RowMajor ==
    ASSUME NEW width \in Nat, NEW a \in Nat, NEW b \in Nat,
           NEW i \in 0 .. width - 1, NEW j \in 0 .. width - 1,
           a * width + i = b * width + j
    PROVE  a = b /\ i = j
<1>1. a * width \in Nat /\ b * width \in Nat
  BY TimesSuccessor
<1>2. ~ (a < b)
  BY <1>1, RowsApart
<1>3. ~ (b < a)
  BY <1>1, RowsApart
<1> QED BY <1>1, <1>2, <1>3

LEMMA DivMod ==
    ASSUME NEW n \in Nat, NEW d \in Nat \ {0}
    PROVE  /\ n \div d \in Nat /\ n % d \in 0 .. d - 1
           /\ n = (n \div d) * d + (n % d)
           /\ (n \div d) * d <= n /\ n < (n \div d + 1) * d
<1>1. n \div d \in Nat /\ n % d \in 0 .. d - 1 /\ n = d * (n \div d) + (n % d)
  OBVIOUS
<1>2. ((n \div d) + 1) * d = (n \div d) * d + d
  BY <1>1, TimesSuccessor
<1> QED BY <1>1, <1>2

LEMMA DivModOfRow ==
    ASSUME NEW width \in Nat \ {0}, NEW a \in Nat, NEW i \in 0 .. width - 1
    PROVE  (a * width + i) \div width = a /\ (a * width + i) % width = i
<1>1. a * width + i \in Nat
  BY TimesSuccessor
<1> DEFINE n == a * width + i
<1>2. /\ n \div width \in Nat /\ n % width \in 0 .. width - 1
      /\ n = (n \div width) * width + (n % width)
  BY <1>1, DivMod
<1>3. n = a * width + i
  OBVIOUS
<1> HIDE DEF n
<1>4. n \div width = a /\ n % width = i
  BY <1>2, <1>3, RowMajor
<1> QED BY <1>4 DEF n

----------------------------------------------------------------------------
(* schedule(static): shares follow each other without gap or overlap. *)

LEMMA ShareType ==
    ASSUME NEW total \in Nat, NEW w \in Nat
    PROVE  Share(w, total) \in Nat
<1>1. total \div Threads \in Nat /\ total % Threads \in Nat
  BY DivMod, SomeThread
<1>2. w * (total \div Threads) \in Nat
  BY <1>1, TimesSuccessor
<1> QED BY <1>1, <1>2 DEF Share, Lesser

LEMMA SharesAscend ==
    ASSUME NEW total \in Nat, NEW v \in Nat, NEW w \in Nat, v <= w
    PROVE  Share(v, total) <= Share(w, total)
<1>1. total \div Threads \in Nat /\ total % Threads \in Nat
  BY DivMod, SomeThread
<1>2. v * (total \div Threads) <= w * (total \div Threads)
      /\ v * (total \div Threads) \in Nat /\ w * (total \div Threads) \in Nat
  BY <1>1, TimesMonotone
<1> QED BY <1>1, <1>2 DEF Share, Lesser

LEMMA ShareEnds ==
    ASSUME NEW total \in Nat
    PROVE  Share(0, total) = 0 /\ Share(Threads, total) = total
<1> DEFINE q == total \div Threads
           r == total % Threads
<1>1. q \in Nat /\ r \in 0 .. Threads - 1 /\ total = q * Threads + r
  BY DivMod, SomeThread
<1>2. 0 * q = 0 /\ Threads * q = q * Threads
  BY <1>1, SomeThread
<1> QED BY <1>1, <1>2, SomeThread DEF Share, Lesser

\* Two workers never have the same index.
LEMMA SharesApart ==
    ASSUME NEW total \in Nat, NEW v \in Nat, NEW w \in Nat, NEW n \in Int,
           Share(v, total) <= n, n < Share(v + 1, total),
           Share(w, total) <= n, n < Share(w + 1, total)
    PROVE  v = w
<1>0. v + 1 \in Nat /\ w + 1 \in Nat
  OBVIOUS
<1>1. /\ Share(v, total) \in Nat /\ Share(v + 1, total) \in Nat
      /\ Share(w, total) \in Nat /\ Share(w + 1, total) \in Nat
  BY <1>0, ShareType, Zenon
<1>2. CASE v < w
  <2>1. Share(v + 1, total) <= Share(w, total)
    BY <1>2, SharesAscend
  <2> QED BY <1>1, <2>1
<1>3. CASE w < v
  <2>1. Share(w + 1, total) <= Share(v, total)
    BY <1>3, SharesAscend
  <2> QED BY <1>1, <2>1
<1> QED BY <1>2, <1>3

\* Every index is some worker's.
LEMMA SharesCover ==
    ASSUME NEW total \in Nat, NEW n \in 0 .. total - 1
    PROVE  \E w \in Worker : Share(w, total) <= n /\ n < Share(w + 1, total)
<1> DEFINE q == total \div Threads
           r == total % Threads
<1>1. q \in Nat /\ r \in 0 .. Threads - 1 /\ total = q * Threads + r
  BY DivMod, SomeThread
<1>2. \A w \in Nat : Share(w, total) = w * q + Lesser(w, r)
  BY DEF Share
<1>3. r * (q + 1) \in Nat /\ r * (q + 1) = r * q + r /\ r * q \in Nat
  BY <1>1
<1> HIDE DEF q, r
<1>4. CASE n < r * (q + 1)
  <2> DEFINE w == n \div (q + 1)
  <2>0. n \in Nat /\ q + 1 \in Nat \ {0}
    BY <1>1
  <2>1. w \in Nat /\ w * (q + 1) <= n /\ n < (w + 1) * (q + 1)
    BY <2>0, DivMod, Zenon
  <2> HIDE DEF w
  <2>2. w < r
    <3>1. CASE r <= w
      <4>1. r * (q + 1) <= w * (q + 1) /\ w * (q + 1) \in Nat
        BY <1>1, <2>1, <3>1, TimesMonotone
      <4> QED BY <1>3, <1>4, <2>1, <4>1
    <3> QED BY <1>1, <2>1, <3>1
  <2>3. w * (q + 1) = w * q + w /\ (w + 1) * (q + 1) = (w + 1) * q + (w + 1)
    BY <1>1, <2>1
  <2>4. w \in Worker
    BY <1>1, <2>1, <2>2, SomeThread DEF Worker
  <2> QED BY <1>1, <1>2, <2>1, <2>2, <2>3, <2>4 DEF Lesser
<1>5. CASE n >= r * (q + 1)
  <2>1. n - r \in Nat /\ r * q <= n - r /\ q > 0
    <3> DEFINE rq == r * q
               tq == q * Threads
    <3>1. rq \in Nat /\ tq \in Nat /\ total = tq + r /\ n >= rq + r
      BY <1>1, <1>3, <1>5, SomeThread
    <3>2. q = 0 => tq = 0
      BY SomeThread
    <3> HIDE DEF rq, tq
    <3>3. n - r \in Nat /\ rq <= n - r /\ q > 0
      BY <1>1, <3>1, <3>2
    <3> QED BY <3>3 DEF rq
  <2> DEFINE w == (n - r) \div q
  <2>0. q \in Nat \ {0}
    BY <1>1, <2>1
  <2>2. w \in Nat /\ w * q <= n - r /\ n - r < (w + 1) * q
    BY <2>0, <2>1, DivMod, Zenon
  <2> HIDE DEF w
  <2>3. r <= w
    <3>1. CASE w < r
      <4>1. (w + 1) * q <= r * q /\ (w + 1) * q \in Nat
        BY <1>1, <2>2, <3>1, TimesMonotone
      <4> QED BY <1>3, <2>1, <2>2, <4>1
    <3> QED BY <1>1, <2>2, <3>1
  <2>4. w < Threads
    <3>1. CASE Threads <= w
      <4>1. Threads * q <= w * q /\ Threads * q = q * Threads /\ w * q \in Nat
        BY <1>1, <2>2, <3>1, TimesMonotone, SomeThread
      <4> DEFINE wq == w * q
                 tq == q * Threads
      <4>2. wq \in Nat /\ tq <= wq /\ wq <= n - r /\ total = tq + r /\ tq \in Nat
        BY <1>1, <2>2, <4>1, SomeThread
      <4> HIDE DEF wq, tq
      <4> QED BY <1>1, <4>2
    <3> QED BY <2>2, <3>1, SomeThread
  <2>5. w \in Worker
    BY <2>2, <2>4, SomeThread DEF Worker
  <2>6. Share(w, total) = w * q + r /\ Share(w + 1, total) = (w + 1) * q + r
    <3>1. Lesser(w, r) = r /\ Lesser(w + 1, r) = r
      BY <1>1, <2>2, <2>3 DEF Lesser
    <3>2. w + 1 \in Nat
      BY <2>2
    <3> QED BY <1>2, <2>2, <3>1, <3>2, Zenon
  <2>7. w * q \in Nat /\ (w + 1) * q \in Nat
    BY <1>1, <2>2
  <2> QED BY <1>1, <2>1, <2>2, <2>5, <2>6, <2>7
<1> QED BY <1>3, <1>4, <1>5

LEMMA SharesOfBoth ==
    ASSUME NEW w \in Nat
    PROVE  ShareBegin(w) = Share(w, TilesM) /\ Rr!ShareBegin(w) = Share(w, RrTilesN)
BY DEF ShareBegin, Share, Rr!ShareBegin, Rr!Lesser, Lesser

LEMMA WorkerIsNat ==
    ASSUME NEW w \in Worker
    PROVE  w \in Nat /\ w + 1 \in Nat /\ w <= w + 1 /\ w + 1 <= Threads
BY Constants DEF Worker

----------------------------------------------------------------------------
(* Sums of products. *)

LEMMA Concatenated ==
    ASSUME NEW T, NEW s \in Seq(T), NEW t \in Seq(T), NEW u \in Seq(T),
           Len(u) = Len(s) + Len(t),
           \A i \in 1 .. Len(s) : u[i] = s[i],
           \A i \in 1 .. Len(t) : u[Len(s) + i] = t[i]
    PROVE  s \o t = u
<1>1. /\ s \o t \in Seq(T) /\ Len(s \o t) = Len(s) + Len(t)
      /\ \A i \in 1 .. Len(s) + Len(t) :
            (s \o t)[i] = IF i <= Len(s) THEN s[i] ELSE t[i - Len(s)]
  BY ConcatProperties
<1>2. Len(s) \in Nat /\ Len(t) \in Nat
  OBVIOUS
<1>3. ASSUME NEW i \in 1 .. Len(s) + Len(t)
      PROVE  (s \o t)[i] = u[i]
  <2>1. CASE i <= Len(s)
    BY <1>1, <1>2, <2>1
  <2>2. CASE i > Len(s)
    <3>1. i - Len(s) \in 1 .. Len(t) /\ Len(s) + (i - Len(s)) = i
      BY <1>2, <2>2
    <3>2. u[Len(s) + (i - Len(s))] = t[i - Len(s)]
      BY <3>1
    <3> QED BY <1>1, <1>2, <2>2, <3>1, <3>2
  <2> QED BY <1>2, <2>1, <2>2
<1> QED BY <1>1, <1>3, SeqEqual

LEMMA RrProductGrows ==
    ASSUME NEW m, NEW n, NEW b \in Nat
    PROVE  Append(RrProduct(m, n, b), << <<m, b>>, <<m, b>>, <<n, b>> >>) = RrProduct(m, n, b + 1)
<1> DEFINE term(j) == << <<m, j>>, <<m, j>>, <<n, j>> >>
           T == {term(j) : j \in Nat}
           s == RrProduct(m, n, b)
           u == RrProduct(m, n, b + 1)
<1>1. s \in Seq(T) /\ Len(s) = b /\ \A i \in 1 .. b : s[i] = term(i - 1)
  BY DEF RrProduct
<1>2. u \in Seq(T) /\ Len(u) = b + 1 /\ \A i \in 1 .. b + 1 : u[i] = term(i - 1)
  BY DEF RrProduct
<1>3. term(b) \in T
  OBVIOUS
<1> HIDE DEF term, T, s, u
<1>4. /\ Append(s, term(b)) \in Seq(T) /\ Len(Append(s, term(b))) = b + 1
      /\ \A i \in 1 .. b : Append(s, term(b))[i] = s[i]
      /\ Append(s, term(b))[b + 1] = term(b)
  BY <1>1, <1>3, AppendProperties
<1>5. ASSUME NEW i \in 1 .. b + 1
      PROVE  Append(s, term(b))[i] = u[i]
  <2>1. u[i] = term(i - 1)
    BY <1>2
  <2>2. CASE i = b + 1
    BY <1>4, <2>1, <2>2
  <2>3. CASE i # b + 1
    <3>1. i \in 1 .. b
      BY <2>3
    <3> QED BY <1>1, <1>4, <2>1, <3>1
  <2> QED BY <2>2, <2>3
<1>6. Append(s, term(b)) = u
  <2>1. \A i \in 1 .. Len(Append(s, term(b))) : Append(s, term(b))[i] = u[i]
    BY <1>4, <1>5
  <2> DEFINE a == Append(s, term(b))
  <2>2. a \in Seq(T) /\ u \in Seq(T) /\ Len(a) = Len(u) /\ \A i \in 1 .. Len(a) : a[i] = u[i]
    BY <1>2, <1>4, <2>1
  <2> HIDE DEF a
  <2>3. a = u
    BY <2>2, SeqEqual
  <2> QED BY <2>3 DEF a
<1> QED BY <1>6 DEF s, u, term

\* The terms of c blocks from block b on.
BatchTerms(m, n, b, c) == [ i \in 1 .. c |-> << <<m, n, b + i - 1>>, b + i - 1 >> ]

LEMMA BatchProductGrows ==
    ASSUME NEW m, NEW n, NEW b \in Nat, NEW c \in Nat
    PROVE  BatchProduct(m, n, b) \o BatchTerms(m, n, b, c) = BatchProduct(m, n, b + c)
<1> DEFINE term(j) == << <<m, n, j>>, j >>
           T == {term(j) : j \in Nat}
           s == BatchProduct(m, n, b)
           more == BatchTerms(m, n, b, c)
           u == BatchProduct(m, n, b + c)
<1>1. s \in Seq(T) /\ Len(s) = b /\ \A i \in 1 .. b : s[i] = term(i - 1)
  BY DEF BatchProduct
<1>2. u \in Seq(T) /\ Len(u) = b + c /\ \A i \in 1 .. b + c : u[i] = term(i - 1)
  BY DEF BatchProduct
<1>3. more \in Seq(T) /\ Len(more) = c /\ \A i \in 1 .. c : more[i] = term(b + i - 1)
  BY DEF BatchTerms
<1> HIDE DEF T, more, term, s, u
<1>4. ASSUME NEW i \in 1 .. b
      PROVE  u[i] = s[i]
  <2>1. i \in 1 .. b + c
    OBVIOUS
  <2> QED BY <1>1, <1>2, <2>1, Zenon
<1>5. ASSUME NEW i \in 1 .. c
      PROVE  u[b + i] = more[i]
  <2>1. b + i \in 1 .. b + c
    OBVIOUS
  <2>2. u[b + i] = term(b + i - 1)
    BY <1>2, <2>1
  <2>3. more[i] = term(b + i - 1)
    BY <1>3
  <2> QED BY <2>2, <2>3
<1>6. /\ s \in Seq(T) /\ more \in Seq(T) /\ u \in Seq(T)
      /\ Len(s) = b /\ Len(more) = c /\ Len(u) = Len(s) + Len(more)
      /\ \A i \in 1 .. Len(s) : u[i] = s[i]
      /\ \A i \in 1 .. Len(more) : u[Len(s) + i] = more[i]
  BY <1>1, <1>2, <1>3, <1>4, <1>5, Zenon
<1>7. s \o more = u
  BY <1>6, Concatenated, Zenon
<1> QED BY <1>7 DEF s, u, more

----------------------------------------------------------------------------
(* Buffers. *)

LEMMA Granting ==
    ASSUME NEW place, NEW held, NEW out, Holders(place, held, out),
           NEW p, NEW h, NEW o, NEW w \in Worker, place[w] = "acquire", p[w] # "acquire",
           \A v \in Worker \ {w} : p[v] = place[v] /\ h[v] = held[v],
           \/ h[w] = w /\ o = out
           \/ h[w] \in TcmBuffers \ out /\ o = out \cup {h[w]}
    PROVE  Holders(p, h, o)
<1>1. w \notin TcmBuffers /\ \A v \in Worker : v \notin TcmBuffers
  BY Constants
<1>2. o \subseteq TcmBuffers /\ out \subseteq o
  BY DEF Holders
<1>3. ASSUME NEW v \in Worker, p[v] # "acquire"
      PROVE  h[v] = v \/ h[v] \in o
  BY <1>2, <1>3 DEF Holders
<1>4. ASSUME NEW b \in o
      PROVE  \E v \in Worker : p[v] # "acquire" /\ h[v] = b
  <2>1. CASE b \in out
    BY <2>1 DEF Holders
  <2>2. CASE b \notin out
    BY <2>2
  <2> QED BY <2>1, <2>2
<1>5. ASSUME NEW v \in Worker, v # w, p[v] # "acquire"
      PROVE  h[v] # h[w]
  BY <1>1, <1>5 DEF Holders
<1>6. ASSUME NEW u \in Worker, NEW v \in Worker, u # v, p[u] # "acquire", p[v] # "acquire"
      PROVE  h[u] # h[v]
  BY <1>5, <1>6 DEF Holders
<1> QED BY <1>2, <1>3, <1>4, <1>6 DEF Holders

LEMMA Keeping ==
    ASSUME NEW place, NEW held, NEW out, Holders(place, held, out), NEW p,
           \A v \in Worker : p[v] = "acquire" <=> place[v] = "acquire"
    PROVE  Holders(p, held, out)
BY DEF Holders

LEMMA Releasing ==
    ASSUME NEW place, NEW held, NEW out, Holders(place, held, out),
           NEW p, NEW w \in Worker, place[w] # "acquire", p[w] = "acquire",
           \A v \in Worker \ {w} : p[v] = place[v]
    PROVE  Holders(p, held, out \ {held[w]})
BY Constants DEF Holders

LEMMA AllReturned ==
    ASSUME NEW place, NEW held, NEW out, Holders(place, held, out),
           \A w \in Worker : place[w] = "acquire"
    PROVE  out = {}
BY DEF Holders

\* What the property says of the buffers.
LEMMA HoldersAre ==
    ASSUME NEW place, NEW held, NEW out, Holders(place, held, out)
    PROVE  out = { held[w] : w \in { v \in Worker : place[v] # "acquire" } } \cap TcmBuffers
<1>1. ASSUME NEW w \in Worker, place[w] # "acquire", held[w] \in TcmBuffers
      PROVE  held[w] \in out
  BY <1>1, Constants DEF Holders
<1>2. ASSUME NEW b \in out
      PROVE  b \in { held[w] : w \in { v \in Worker : place[v] # "acquire" } } \cap TcmBuffers
  BY <1>2 DEF Holders
<1> QED BY <1>1, <1>2

LEMMA SharesOf ==
    ASSUME NEW total \in Nat, NEW w \in Worker
    PROVE  /\ Share(w, total) \in Nat /\ Share(w + 1, total) \in Nat
           /\ Share(w, total) <= Share(w + 1, total) /\ Share(w + 1, total) <= total
<1>1. w \in Nat /\ w + 1 \in Nat /\ w <= w + 1 /\ w + 1 <= Threads /\ Threads \in Nat
  BY WorkerIsNat, SomeThread
<1>2. Share(w, total) \in Nat /\ Share(w + 1, total) \in Nat
  BY <1>1, ShareType, Zenon
<1>3. Share(w, total) <= Share(w + 1, total) /\ Share(w + 1, total) <= Share(Threads, total)
  BY <1>1, SharesAscend, Zenon
<1>4. Share(Threads, total) = total
  BY ShareEnds, Zenon
<1> QED BY <1>2, <1>3, <1>4

----------------------------------------------------------------------------
(* What the first micro kernel finds where. *)

LEMMA MultipleOfMultiple ==
    ASSUME NEW c \in Nat, NEW m \in Nat \ {0}, NEW s \in Nat \ {0}, c % m = 0, m % s = 0
    PROVE  c % s = 0
<1> DEFINE a == c \div m
           b == m \div s
<1>1. a \in Nat /\ c = a * m + 0
  BY DivMod
<1>2. b \in Nat /\ m = b * s + 0
  BY DivMod
<1> HIDE DEF a, b
<1>3. a * b \in Nat /\ a * (b * s) = (a * b) * s
  BY <1>1, <1>2
<1>4. c = (a * b) * s + 0
  BY <1>1, <1>2, <1>3
<1>5. 0 \in 0 .. s - 1
  OBVIOUS
<1>6. ((a * b) * s + 0) % s = 0
  BY <1>3, <1>5, DivModOfRow, Zenon
<1> QED BY <1>4, <1>6

\* A chunk begins with a group of scales: its i-th tile has lane i % s of group
\* c \div s + i \div s.
LEMMA GroupAndLane ==
    ASSUME NEW c \in Nat, NEW i \in Nat, NEW s \in Nat \ {0}, NEW tiles \in Nat,
           c + i < tiles, c % s = 0
    PROVE  LET g == c \div s + i \div s
           IN  /\ g \in 0 .. (tiles + s - 1) \div s - 1
               /\ g * s + (i % s) = c + i
<1> DEFINE cs == c \div s
           is == i \div s
           lane == i % s
           g == cs + is
           all == tiles + s - 1
           groups == all \div s
<1>1. cs \in Nat /\ c = cs * s + 0
  BY DivMod
<1>2. is \in Nat /\ lane \in 0 .. s - 1 /\ i = is * s + lane
  BY DivMod
<1>3. all \in Nat
  OBVIOUS
<1>4. groups \in Nat /\ all < (groups + 1) * s
  BY <1>3, DivMod, Zenon
<1>5. all = tiles + s - 1
  OBVIOUS
<1> HIDE DEF cs, is, lane, all, groups
<1>6. g \in Nat /\ g * s = cs * s + is * s /\ cs * s \in Nat /\ is * s \in Nat /\ g * s \in Nat
  BY <1>1, <1>2
<1> HIDE DEF g
<1>7. g * s + lane = c + i
  <2> DEFINE x == g * s
             y == cs * s
             z == is * s
  <2>1. x = y + z /\ c = y /\ i = z + lane /\ x \in Nat /\ y \in Nat /\ z \in Nat
    BY <1>1, <1>2, <1>6
  <2> HIDE DEF x, y, z
  <2>2. x + lane = c + i
    BY <1>2, <2>1
  <2> QED BY <2>2 DEF x
<1>8. g < groups
  <2>1. SUFFICES ASSUME groups <= g PROVE FALSE
    BY <1>4, <1>6
  <2>2. (groups + 1) * s <= (g + 1) * s /\ (g + 1) * s = g * s + s /\ (groups + 1) * s \in Nat
    <3>1. groups + 1 \in Nat /\ g + 1 \in Nat /\ groups + 1 <= g + 1 /\ s \in Nat
      BY <1>4, <1>6, <2>1
    <3>2. (groups + 1) * s <= (g + 1) * s /\ (groups + 1) * s \in Nat
      BY <3>1, TimesMonotone, Zenon
    <3>3. (g + 1) * s = g * s + s
      BY <1>6, <3>1, TimesSuccessor, Zenon
    <3> QED BY <3>2, <3>3
  <2> DEFINE x == g * s
             y == (groups + 1) * s
  <2>3. /\ x \in Nat /\ y \in Nat /\ y <= x + s /\ all < y /\ all = tiles + s - 1
        /\ x + lane = c + i
    BY <1>4, <1>5, <1>6, <1>7, <2>2
  <2> HIDE DEF x, y
  <2> QED BY <1>2, <2>3
<1>9. g \in 0 .. groups - 1
  BY <1>4, <1>6, <1>8
<1> QED BY <1>7, <1>9 DEF g, cs, is, lane, groups, all

LEMMA ChunkIs ==
    ASSUME RrTypeOK, NEW w \in Worker, chunk_begin[w] < RrTilesM
    PROVE  /\ Rr!ChunkTiles(w) \in Nat /\ Rr!ChunkTiles(w) <= MTilesPerChunk
           /\ \A i \in 0 .. Rr!ChunkTiles(w) - 1 :
                i \in 0 .. MTilesPerChunk - 1 /\ chunk_begin[w] + i \in RrRows
           /\ \A m \in RrRows : m >= chunk_begin[w] /\ m < chunk_begin[w] + MTilesPerChunk =>
                m - chunk_begin[w] \in 0 .. Rr!ChunkTiles(w) - 1
<1> DEFINE c == chunk_begin[w]
           k == Rr!ChunkTiles(w)
<1>1. c \in Nat /\ c < RrTilesM
  BY DEF RrTypeOK
<1>2. /\ RrTilesM \in Nat /\ MTilesPerChunk \in Nat
      /\ k = IF MTilesPerChunk < RrTilesM - c THEN MTilesPerChunk ELSE RrTilesM - c
  BY Constants DEF Rr!ChunkTiles, Rr!Lesser
<1> HIDE DEF c, k
<1>3. /\ k \in Nat /\ k <= MTilesPerChunk /\ c + k <= RrTilesM
      /\ k < MTilesPerChunk => c + k = RrTilesM
  BY <1>1, <1>2
<1>4. \A i \in 0 .. k - 1 : i \in 0 .. MTilesPerChunk - 1 /\ c + i \in RrRows
  BY <1>1, <1>2, <1>3 DEF RrRows
<1>5. \A m \in RrRows : m >= c /\ m < c + MTilesPerChunk => m - c \in 0 .. k - 1
  BY <1>1, <1>2, <1>3 DEF RrRows
<1> QED BY <1>3, <1>4, <1>5 DEF c, k

LEMMA TermIs ==
    ASSUME RrTypeOK, RrLoopInv, NEW w \in Worker, rr_at[w] = "block",
           NEW i \in 0 .. Rr!ChunkTiles(w) - 1
    PROVE  Rr!TermOf(w, i) = << <<chunk_begin[w] + i, block[w]>>,
                                <<chunk_begin[w] + i, block[w]>>,
                                <<rr_tile_n[w], block[w]>> >>
<1> DEFINE c == chunk_begin[w]
           b == block[w]
           n == rr_tile_n[w]
           s == TilesPerScaleLoad
           g == c \div s + i \div s
<1>1. /\ c \in Nat /\ b \in Nat /\ n \in Nat /\ i \in Nat /\ c + i \in Nat /\ c < RrTilesM
      /\ b < RrBlocksK /\ c % MTilesPerChunk = 0
  BY Constants, ChunkIs DEF RrTypeOK, RrLoopInv
<1>2. c + i \in 0 .. RrTilesM - 1 /\ b \in 0 .. RrBlocksK - 1 /\ c + i < RrTilesM
  BY <1>1, ChunkIs, Constants DEF RrRows
<1>3. s \in Nat \ {0} /\ RrTilesM \in Nat \ {0} /\ RrBlocksK \in Nat \ {0}
  BY Constants
<1> HIDE DEF c, b, n
<1>4. Rr!QuantAt(b * RrTilesM + c + i) = <<c + i, b>>
  <2>1. b * RrTilesM + c + i = b * RrTilesM + (c + i)
    BY <1>1, <1>3
  <2>2. /\ (b * RrTilesM + (c + i)) \div RrTilesM = b
        /\ (b * RrTilesM + (c + i)) % RrTilesM = c + i
    BY <1>1, <1>2, <1>3, DivModOfRow, Zenon
  <2> QED BY <2>1, <2>2 DEF Rr!QuantAt
<1>5. Rr!WeightAt(n * RrBlocksK + b) = <<n, b>>
  BY <1>1, <1>2, <1>3, DivModOfRow, Zenon DEF Rr!WeightAt
<1>6. c % s = 0
  <2>1. MTilesPerChunk \in Nat \ {0} /\ MTilesPerChunk % s = 0
    BY Constants
  <2> QED BY <1>1, <1>3, <2>1, MultipleOfMultiple, Zenon
<1>7. g \in 0 .. Rr!ScaleGroups - 1 /\ g * s + (i % s) = c + i
  BY <1>1, <1>2, <1>3, <1>6, GroupAndLane DEF Rr!ScaleGroups
<1>8. Rr!ScaleAt(b * Rr!ScaleGroups + c \div s + i \div s, i % s) = <<c + i, b>>
  <2>1. /\ c \div s \in Nat /\ i \div s \in Nat /\ Rr!ScaleGroups \in Nat \ {0}
        /\ b * Rr!ScaleGroups \in Nat
    <3>1. RrTilesM + s - 1 \in Nat
      BY <1>3
    <3>2. c \div s \in Nat /\ i \div s \in Nat /\ Rr!ScaleGroups \in Nat
      BY <1>1, <1>3, <3>1, DivMod DEF Rr!ScaleGroups
    <3>3. Rr!ScaleGroups # 0
      BY <1>7, <3>2
    <3> QED BY <1>1, <3>2, <3>3
  <2>2. b * Rr!ScaleGroups + c \div s + i \div s = b * Rr!ScaleGroups + g
    <3> DEFINE x == b * Rr!ScaleGroups
               y == c \div s
               z == i \div s
    <3>1. x \in Nat /\ y \in Nat /\ z \in Nat
      BY <2>1
    <3> HIDE DEF x, y, z
    <3>2. x + y + z = x + (y + z)
      BY <3>1
    <3> QED BY <3>2 DEF x, y, z
  <2> HIDE DEF g
  <2>3. /\ (b * Rr!ScaleGroups + g) \div Rr!ScaleGroups = b
        /\ (b * Rr!ScaleGroups + g) % Rr!ScaleGroups = g
    BY <1>1, <1>7, <2>1, DivModOfRow, Zenon
  <2>4. Rr!ScaleAt(b * Rr!ScaleGroups + g, i % s) = <<c + i, b>>
    BY <1>2, <1>7, <2>3 DEF Rr!ScaleAt
  <2> QED BY <2>2, <2>4
<1> QED BY <1>4, <1>5, <1>8 DEF Rr!TermOf, Rr!ScaleOf, c, b, n

----------------------------------------------------------------------------
(* The steps of the first kernel. *)

\* Two workers that are at work have different buffers.
LEMMA RrOthers ==
    ASSUME RrInv, Holders(rr_at, buffer, granted), NEW w \in Worker, rr_at[w] # "acquire",
           NEW v \in Worker, v # w, rr_at[v] # "acquire"
    PROVE  buffer[v] # buffer[w]
BY DEF Holders

\* Nothing is written, and nobody gets past a tile.
LEMMA RrSameOutput ==
    ASSUME RrOutputInv, UNCHANGED <<rr_iteration, rr_output>>,
           \A v \in Worker : \A m \in RrRows, n \in RrColumns :
               RrOwns(v, n) /\ RrBehind(v, m, n)' => RrBehind(v, m, n)
    PROVE  RrOutputInv'
<1>1. ASSUME NEW m \in RrRows, NEW n \in RrColumns, RrPast(m, n)'
      PROVE  RrPast(m, n)
  BY <1>1 DEF RrPast, RrOwns
<1> QED BY <1>1 DEF RrOutputInv

LEMMA RrAcquireStep ==
    ASSUME RrInv, Holders(rr_at, buffer, granted), NEW w \in Worker, Rr!Acquire(w)
    PROVE  RrInv' /\ Holders(rr_at', buffer', granted')
<1> USE DEF RrInv
<1>1. /\ rr_at[w] = "acquire" /\ rr_tile_n[w] < Share(w + 1, RrTilesN)
      /\ UNCHANGED <<rr_iteration, rr_tile_n, block, packed_c, rr_output>>
      /\ rr_at' = [rr_at EXCEPT ![w] = "clear"]
      /\ chunk_begin' = [chunk_begin EXCEPT ![w] = 0]
  BY WorkerIsNat, SharesOfBoth DEF Rr!Acquire, Rr!HasTile, Rr!Go
<1>2. PICK b \in Worker \cup TcmBuffers :
          /\ buffer' = [buffer EXCEPT ![w] = b]
          /\ \/ b = w /\ granted' = granted
             \/ b \in TcmBuffers \ granted /\ granted' = granted \cup {b}
  BY DEF Rr!Acquire
<1>3. /\ rr_at'[w] = "clear" /\ chunk_begin'[w] = 0 /\ buffer'[w] = b
      /\ \A v \in Worker \ {w} : /\ rr_at'[v] = rr_at[v] /\ chunk_begin'[v] = chunk_begin[v]
                                 /\ buffer'[v] = buffer[v]
  BY <1>1, <1>2 DEF RrTypeOK
<1>4. RrTypeOK'
  BY <1>1, <1>2 DEF RrTypeOK
<1>5. RrLoopInv'
  <2>1. 0 < RrTilesM /\ 0 % MTilesPerChunk = 0
    BY Constants
  <2> QED BY <1>1, <1>3, <2>1 DEF RrLoopInv
<1>6. RrSumsInv'
  <2>1. ASSUME NEW v \in Worker \ {w}, NEW k, RrChunkIs(v, k)
        PROVE  RrChunkIs(v, k)'
    BY <1>1, <1>3, <2>1 DEF RrChunkIs, Rr!ChunkTiles
  <2> QED BY <1>1, <1>3, <2>1 DEF RrSumsInv
<1>7. RrOutputInv'
  <2>1. ASSUME NEW v \in Worker, NEW m \in RrRows, NEW n \in RrColumns, RrBehind(v, m, n)'
        PROVE  RrBehind(v, m, n)
    BY <1>1, <1>3, <2>1, Constants DEF RrBehind, RrRows
  <2> QED BY <1>1, <2>1, RrSameOutput
<1>8. Holders(rr_at', buffer', granted')
  <2>1. \/ buffer'[w] = w /\ granted' = granted
        \/ buffer'[w] \in TcmBuffers \ granted /\ granted' = granted \cup {buffer'[w]}
    BY <1>2, <1>3
  <2>2. /\ rr_at[w] = "acquire" /\ rr_at'[w] # "acquire"
        /\ \A v \in Worker \ {w} : rr_at'[v] = rr_at[v] /\ buffer'[v] = buffer[v]
    BY <1>1, <1>3
  <2> QED BY <2>1, <2>2, Granting
<1> QED BY <1>4, <1>5, <1>6, <1>7, <1>8

\* A step that changes a worker's buffer leaves the chunks of the others.
LEMMA RrOthersChunks ==
    ASSUME RrInv, Holders(rr_at, buffer, granted), NEW w \in Worker, rr_at[w] # "acquire",
           UNCHANGED <<rr_tile_n, chunk_begin, buffer>>,
           \A c \in Worker \cup TcmBuffers : c # buffer[w] => packed_c'[c] = packed_c[c],
           NEW v \in Worker, v # w, rr_at[v] # "acquire", NEW k, RrChunkIs(v, k)
    PROVE  RrChunkIs(v, k)'
<1>1. buffer[v] # buffer[w] /\ buffer[v] \in Worker \cup TcmBuffers
  BY RrOthers DEF RrInv, RrTypeOK
<1>2. packed_c'[buffer[v]] = packed_c[buffer[v]]
  BY <1>1
<1> QED BY <1>2 DEF RrChunkIs, Rr!ChunkTiles

LEMMA RrProductOfNone ==
    ASSUME NEW m, NEW n
    PROVE  RrProduct(m, n, 0) = <<>>
<1>1. 1 .. 0 = {}
  OBVIOUS
<1> QED BY <1>1 DEF RrProduct

LEMMA RrClearStep ==
    ASSUME RrInv, Holders(rr_at, buffer, granted), NEW w \in Worker, Rr!Clear(w)
    PROVE  RrInv' /\ Holders(rr_at', buffer', granted')
<1> USE DEF RrInv
<1> DEFINE tiles == Rr!ChunkTiles(w)
<1>1. /\ rr_at[w] = "clear"
      /\ UNCHANGED <<rr_iteration, rr_tile_n, chunk_begin, buffer, granted, rr_output>>
      /\ rr_at' = [rr_at EXCEPT ![w] = "block"]
      /\ block' = [block EXCEPT ![w] = 0]
      /\ packed_c' = [packed_c EXCEPT ![buffer[w]] =
             [i \in DOMAIN @ |-> IF i < tiles THEN <<>> ELSE @[i]]]
  BY DEF Rr!Clear, Rr!Go
<1> HIDE DEF tiles
<1>2. /\ rr_at'[w] = "block" /\ block'[w] = 0 /\ buffer[w] \in Worker \cup TcmBuffers
      /\ \A v \in Worker \ {w} : rr_at'[v] = rr_at[v] /\ block'[v] = block[v]
  BY <1>1 DEF RrTypeOK
<1>3. /\ \A c \in Worker \cup TcmBuffers : c # buffer[w] => packed_c'[c] = packed_c[c]
      /\ DOMAIN packed_c' = Worker \cup TcmBuffers
      /\ packed_c'[buffer[w]] = [i \in 0 .. MTilesPerChunk - 1 |->
                                    IF i < tiles THEN <<>> ELSE packed_c[buffer[w]][i]]
  BY <1>1, <1>2 DEF RrTypeOK
<1>4. RrTypeOK'
  BY <1>1, <1>2, <1>3 DEF RrTypeOK
<1>5. RrLoopInv'
  BY <1>1, <1>2, Constants DEF RrLoopInv
<1>6. RrSumsInv'
  <2>1. RrChunkIs(w, 0)'
    <3>1. /\ chunk_begin[w] < RrTilesM /\ Rr!ChunkTiles(w)' = tiles
          /\ \A i \in 0 .. tiles - 1 : i \in 0 .. MTilesPerChunk - 1 /\ i < tiles
      BY <1>1, ChunkIs DEF RrLoopInv, Rr!ChunkTiles, tiles
    <3>2. \A i \in 0 .. tiles - 1 : packed_c'[buffer[w]][i] = <<>>
      BY <1>3, <3>1
    <3> QED BY <1>1, <3>1, <3>2, RrProductOfNone DEF RrChunkIs
  <2>2. ASSUME NEW v \in Worker, v # w, rr_at[v] # "acquire", NEW k, RrChunkIs(v, k)
        PROVE  RrChunkIs(v, k)'
    BY <1>1, <1>3, <2>2, RrOthersChunks
  <2>3. rr_at'[w] = "block" /\ block'[w] = 0
    BY <1>2
  <2>4. ASSUME NEW v \in Worker, v # w
        PROVE  /\ rr_at'[v] = "block" => RrChunkIs(v, block[v])'
               /\ rr_at'[v] = "unpack" => RrChunkIs(v, RrBlocksK)'
    BY <1>2, <2>2, <2>4 DEF RrSumsInv
  <2> QED BY <1>2, <2>1, <2>3, <2>4 DEF RrSumsInv
<1>7. RrOutputInv'
  <2>1. ASSUME NEW v \in Worker, NEW m \in RrRows, NEW n \in RrColumns, RrBehind(v, m, n)'
        PROVE  RrBehind(v, m, n)
    BY <1>1, <1>2, <2>1 DEF RrBehind
  <2> QED BY <1>1, <2>1, RrSameOutput
<1>8. Holders(rr_at', buffer', granted')
  <2>1. \A v \in Worker : rr_at'[v] = "acquire" <=> rr_at[v] = "acquire"
    BY <1>1, <1>2
  <2> QED BY <1>1, <2>1, Keeping
<1> QED BY <1>4, <1>5, <1>6, <1>7, <1>8

LEMMA RrBlockStep ==
    ASSUME RrInv, Holders(rr_at, buffer, granted), NEW w \in Worker, Rr!Block(w)
    PROVE  RrInv' /\ Holders(rr_at', buffer', granted')
<1> USE DEF RrInv
<1> DEFINE tiles == Rr!ChunkTiles(w)
           term(i) == Rr!TermOf(w, i)
           next == IF block[w] + 1 < RrBlocksK THEN "block" ELSE "unpack"
<1>1. /\ rr_at[w] = "block"
      /\ UNCHANGED <<rr_iteration, rr_tile_n, chunk_begin, buffer, granted, rr_output>>
      /\ rr_at' = [rr_at EXCEPT ![w] = next]
      /\ block' = [block EXCEPT ![w] = @ + 1]
      /\ packed_c' = [packed_c EXCEPT ![buffer[w]] =
             [i \in DOMAIN @ |-> IF i < tiles THEN Append(@[i], term(i)) ELSE @[i]]]
  BY DEF Rr!Block, Rr!Go
<1>2. /\ rr_at'[w] = next /\ block'[w] = block[w] + 1 /\ buffer[w] \in Worker \cup TcmBuffers
      /\ \A v \in Worker \ {w} : rr_at'[v] = rr_at[v] /\ block'[v] = block[v]
  BY <1>1 DEF RrTypeOK
<1>3. block[w] \in Nat /\ block[w] < RrBlocksK /\ RrBlocksK \in Nat
  BY <1>1, Constants DEF RrTypeOK, RrLoopInv
<1>4. \A i \in 0 .. tiles - 1 : term(i) = << <<chunk_begin[w] + i, block[w]>>,
                                             <<chunk_begin[w] + i, block[w]>>,
                                             <<rr_tile_n[w], block[w]>> >>
  BY <1>1, TermIs
<1> HIDE DEF tiles, term
<1>5. /\ \A c \in Worker \cup TcmBuffers : c # buffer[w] => packed_c'[c] = packed_c[c]
      /\ DOMAIN packed_c' = Worker \cup TcmBuffers
      /\ packed_c'[buffer[w]] =
           [i \in 0 .. MTilesPerChunk - 1 |->
              IF i < tiles THEN Append(packed_c[buffer[w]][i], term(i)) ELSE packed_c[buffer[w]][i]]
  BY <1>1, <1>2 DEF RrTypeOK
<1>6. RrTypeOK'
  <2>1. next \in {"acquire", "clear", "block", "unpack", "release"} /\ block[w] + 1 \in Nat
    BY <1>3
  <2> QED BY <1>1, <1>2, <1>5, <2>1 DEF RrTypeOK
<1>7. RrLoopInv'
  BY <1>1, <1>2, <1>3 DEF RrLoopInv
<1>8. RrSumsInv'
  <2>1. RrChunkIs(w, block[w])'
    <3>1. /\ chunk_begin[w] < RrTilesM /\ Rr!ChunkTiles(w)' = tiles
          /\ \A i \in 0 .. tiles - 1 : i \in 0 .. MTilesPerChunk - 1 /\ i < tiles
      BY <1>1, ChunkIs DEF RrLoopInv, Rr!ChunkTiles, tiles
    <3>2. ASSUME NEW i \in 0 .. tiles - 1
          PROVE  packed_c'[buffer[w]][i] =
                   RrProduct(chunk_begin[w] + i, rr_tile_n[w], block[w] + 1)
      <4>1. packed_c'[buffer[w]][i] = Append(packed_c[buffer[w]][i], term(i))
        BY <1>5, <3>1
      <4>2. packed_c[buffer[w]][i] = RrProduct(chunk_begin[w] + i, rr_tile_n[w], block[w])
        BY <1>1 DEF RrSumsInv, RrChunkIs, tiles
      <4> QED BY <1>3, <1>4, <4>1, <4>2, RrProductGrows
    <3>3. \A i \in 0 .. tiles - 1 : packed_c'[buffer[w]][i] =
            RrProduct(chunk_begin[w] + i, rr_tile_n[w], block'[w])
      BY <1>2, <3>2
    <3> QED BY <1>1, <3>1, <3>3 DEF RrChunkIs
  <2>2. ASSUME NEW v \in Worker, v # w, rr_at[v] # "acquire", NEW k, RrChunkIs(v, k)
        PROVE  RrChunkIs(v, k)'
    BY <1>1, <1>5, <2>2, RrOthersChunks
  <2>3. rr_at'[w] = "unpack" => RrChunkIs(w, RrBlocksK)'
    <3>1. rr_at'[w] = "unpack" => block'[w] = RrBlocksK
      BY <1>2, <1>3
    <3> QED BY <2>1, <3>1 DEF RrChunkIs
  <2>4. ASSUME NEW v \in Worker, v # w
        PROVE  /\ rr_at'[v] = "block" => RrChunkIs(v, block[v])'
               /\ rr_at'[v] = "unpack" => RrChunkIs(v, RrBlocksK)'
    BY <1>2, <2>2, <2>4 DEF RrSumsInv
  <2> QED BY <1>2, <2>1, <2>3, <2>4 DEF RrSumsInv
<1>9. RrOutputInv'
  <2>1. ASSUME NEW v \in Worker, NEW m \in RrRows, NEW n \in RrColumns, RrBehind(v, m, n)'
        PROVE  RrBehind(v, m, n)
    BY <1>1, <1>2, <2>1 DEF RrBehind
  <2> QED BY <1>1, <2>1, RrSameOutput
<1>10. Holders(rr_at', buffer', granted')
  <2>1. \A v \in Worker : rr_at'[v] = "acquire" <=> rr_at[v] = "acquire"
    BY <1>1, <1>2
  <2> QED BY <1>1, <2>1, Keeping
<1> QED BY <1>6, <1>7, <1>8, <1>9, <1>10

LEMMA RrUnpackStep ==
    ASSUME RrInv, Holders(rr_at, buffer, granted), NEW w \in Worker, Rr!Unpack(w)
    PROVE  RrInv' /\ Holders(rr_at', buffer', granted')
<1> USE DEF RrInv
<1> DEFINE tiles == Rr!ChunkTiles(w)
           c == chunk_begin[w]
           n == rr_tile_n[w]
           next == IF c + MTilesPerChunk < RrTilesM THEN "clear" ELSE "release"
<1>1. /\ rr_at[w] = "unpack"
      /\ UNCHANGED <<rr_iteration, rr_tile_n, block, buffer, packed_c, granted>>
      /\ chunk_begin' = [chunk_begin EXCEPT ![w] = @ + MTilesPerChunk]
      /\ rr_at' = [rr_at EXCEPT ![w] = IF chunk_begin'[w] < RrTilesM THEN "clear" ELSE "release"]
      /\ rr_output' = [mn \in DOMAIN rr_output |->
             IF mn[2] = n /\ mn[1] \in c .. c + tiles - 1
             THEN packed_c[buffer[w]][mn[1] - c] ELSE rr_output[mn]]
  BY DEF Rr!Unpack, Rr!Go
<1>2. /\ c \in Nat /\ n \in Nat /\ c < RrTilesM /\ c % MTilesPerChunk = 0
      /\ MTilesPerChunk \in Nat \ {0} /\ RrTilesM \in Nat
  BY <1>1, Constants DEF RrTypeOK, RrLoopInv
<1>3. /\ rr_at'[w] = next /\ chunk_begin'[w] = c + MTilesPerChunk
      /\ \A v \in Worker \ {w} : rr_at'[v] = rr_at[v] /\ chunk_begin'[v] = chunk_begin[v]
  BY <1>1 DEF RrTypeOK
<1>4. /\ tiles \in Nat
      /\ \A m \in RrRows : m >= c /\ m < c + MTilesPerChunk => m - c \in 0 .. tiles - 1
      /\ \A i \in 0 .. tiles - 1 : packed_c[buffer[w]][i] = RrProduct(c + i, n, RrBlocksK)
  BY <1>1, <1>2, ChunkIs DEF RrSumsInv, RrChunkIs
<1> HIDE DEF tiles, c, n
<1>5. ASSUME NEW p \in RrRows, NEW q \in RrColumns
      PROVE  rr_output'[<<p, q>>] = IF q = n /\ p \in c .. c + tiles - 1
                                    THEN packed_c[buffer[w]][p - c] ELSE rr_output[<<p, q>>]
  <2>1. <<p, q>> \in DOMAIN rr_output /\ <<p, q>>[1] = p /\ <<p, q>>[2] = q
    BY DEF RrTypeOK
  <2> QED BY <1>1, <2>1
<1>6. ASSUME NEW p \in RrRows, NEW q \in RrColumns, q = n, p \in c .. c + tiles - 1
      PROVE  rr_output'[<<p, q>>] = RrProduct(p, q, RrBlocksK)
  <2>1. p - c \in 0 .. tiles - 1 /\ c + (p - c) = p
    BY <1>2, <1>4, <1>6 DEF RrRows
  <2> QED BY <1>4, <1>5, <1>6, <2>1
<1>7. RrTypeOK'
  <2>1. next \in {"acquire", "clear", "block", "unpack", "release"} /\ c + MTilesPerChunk \in Nat
    BY <1>2
  <2>2. rr_at' \in [Worker -> {"acquire", "clear", "block", "unpack", "release"}]
    BY <1>1, <1>3, <2>1 DEF RrTypeOK
  <2>3. chunk_begin' \in [Worker -> Nat]
    BY <1>1, <2>1 DEF RrTypeOK, c
  <2>4. DOMAIN rr_output' = RrRows \X RrColumns
    BY <1>1 DEF RrTypeOK
  <2> QED BY <1>1, <2>2, <2>3, <2>4 DEF RrTypeOK
<1>8. RrLoopInv'
  <2>1. (c + MTilesPerChunk) % MTilesPerChunk = 0
    <3> DEFINE d == c \div MTilesPerChunk
    <3>1. d \in Nat /\ c = d * MTilesPerChunk + 0
      BY <1>2, DivMod
    <3> HIDE DEF d
    <3>2. d + 1 \in Nat /\ 0 \in 0 .. MTilesPerChunk - 1 /\ (d + 1) * MTilesPerChunk + 0 = c + MTilesPerChunk
      BY <1>2, <3>1
    <3>3. ((d + 1) * MTilesPerChunk + 0) % MTilesPerChunk = 0
      BY <1>2, <3>2, DivModOfRow, Zenon
    <3> QED BY <3>2, <3>3
  <2>2. /\ rr_at'[w] \in {"clear", "block", "unpack"} =>
             chunk_begin'[w] < RrTilesM /\ chunk_begin'[w] % MTilesPerChunk = 0
        /\ rr_at'[w] # "block"
        /\ rr_at'[w] = "release" => chunk_begin'[w] >= RrTilesM
    BY <1>2, <1>3, <2>1
  <2> QED BY <1>1, <1>3, <2>2 DEF RrLoopInv
<1>9. RrSumsInv'
  <2>1. ASSUME NEW v \in Worker, v # w, NEW k, RrChunkIs(v, k)
        PROVE  RrChunkIs(v, k)'
    BY <1>1, <1>3, <2>1 DEF RrChunkIs, Rr!ChunkTiles
  <2> QED BY <1>1, <1>3, <2>1 DEF RrSumsInv
<1>10. RrOutputInv'
  <2>1. ASSUME NEW p \in RrRows, NEW q \in RrColumns, ~ (q = n /\ p \in c .. c + tiles - 1),
               RrPast(p, q)'
        PROVE  RrPast(p, q)
    <3>1. ASSUME NEW v \in Worker, RrBehind(v, p, q)'
          PROVE  RrBehind(v, p, q)
      <4>1. CASE v # w
        BY <1>1, <1>3, <3>1, <4>1 DEF RrBehind
      <4>2. CASE v = w
        <5>1. q < n \/ (q = n /\ p < c + MTilesPerChunk)
          BY <1>1, <1>3, <3>1, <4>2 DEF RrBehind, n
        <5>2. q = n => p < c
          BY <1>2, <1>4, <2>1, <5>1 DEF RrRows
        <5> QED BY <1>1, <4>2, <5>1, <5>2 DEF RrBehind, n, c
      <4> QED BY <4>1, <4>2
    <3> QED BY <2>1, <3>1 DEF RrPast, RrOwns
  <2>2. ASSUME NEW p \in RrRows, NEW q \in RrColumns, rr_iteration > 0 \/ RrPast(p, q)'
        PROVE  rr_output'[<<p, q>>] = RrProduct(p, q, RrBlocksK)
    <3>1. CASE q = n /\ p \in c .. c + tiles - 1
      BY <1>6, <3>1
    <3>2. CASE ~ (q = n /\ p \in c .. c + tiles - 1)
      <4>1. rr_output'[<<p, q>>] = rr_output[<<p, q>>]
        BY <1>5, <3>2
      <4> QED BY <2>1, <2>2, <3>2, <4>1 DEF RrOutputInv
    <3> QED BY <3>1, <3>2
  <2> QED BY <1>1, <2>2 DEF RrOutputInv
<1>11. Holders(rr_at', buffer', granted')
  <2>1. \A v \in Worker : rr_at'[v] = "acquire" <=> rr_at[v] = "acquire"
    BY <1>1, <1>3
  <2> QED BY <1>1, <2>1, Keeping
<1> QED BY <1>7, <1>8, <1>9, <1>10, <1>11

LEMMA RrReleaseStep ==
    ASSUME RrInv, Holders(rr_at, buffer, granted), NEW w \in Worker, Rr!Release(w)
    PROVE  RrInv' /\ Holders(rr_at', buffer', granted')
<1> USE DEF RrInv
<1>1. /\ rr_at[w] = "release"
      /\ UNCHANGED <<rr_iteration, chunk_begin, block, buffer, packed_c, rr_output>>
      /\ granted' = granted \ {buffer[w]}
      /\ rr_tile_n' = [rr_tile_n EXCEPT ![w] = @ + 1]
      /\ rr_at' = [rr_at EXCEPT ![w] = "acquire"]
  BY DEF Rr!Release, Rr!Go
<1>2. /\ rr_at'[w] = "acquire" /\ rr_tile_n'[w] = rr_tile_n[w] + 1 /\ rr_tile_n[w] \in Nat
      /\ \A v \in Worker \ {w} : rr_at'[v] = rr_at[v] /\ rr_tile_n'[v] = rr_tile_n[v]
  BY <1>1 DEF RrTypeOK
<1>3. /\ rr_tile_n[w] < Share(w + 1, RrTilesN) /\ Share(w, RrTilesN) <= rr_tile_n[w]
      /\ chunk_begin[w] >= RrTilesM /\ chunk_begin[w] \in Nat
      /\ Share(w, RrTilesN) \in Nat /\ Share(w + 1, RrTilesN) \in Nat
  BY <1>1, SharesOf, Constants DEF RrLoopInv, RrTypeOK
<1>4. RrTypeOK'
  BY <1>1, <1>2 DEF RrTypeOK
<1>5. RrLoopInv'
  <2>1. /\ Share(w, RrTilesN) <= rr_tile_n'[w] /\ rr_tile_n'[w] <= Share(w + 1, RrTilesN)
    BY <1>2, <1>3
  <2> QED BY <1>1, <1>2, <2>1 DEF RrLoopInv
<1>6. RrSumsInv'
  <2>1. ASSUME NEW v \in Worker, v # w, NEW k, RrChunkIs(v, k)
        PROVE  RrChunkIs(v, k)'
    BY <1>1, <1>2, <2>1 DEF RrChunkIs, Rr!ChunkTiles
  <2> QED BY <1>1, <1>2, <2>1 DEF RrSumsInv
<1>7. RrOutputInv'
  <2>1. ASSUME NEW v \in Worker, NEW m \in RrRows, NEW n \in RrColumns, RrBehind(v, m, n)'
        PROVE  RrBehind(v, m, n)
    <3>1. CASE v # w
      BY <1>1, <1>2, <2>1, <3>1 DEF RrBehind
    <3>2. CASE v = w
      <4>1. n < rr_tile_n[w] + 1 /\ m < chunk_begin[w]
        BY <1>2, <1>3, <2>1, <3>2, Constants DEF RrBehind, RrRows
      <4> QED BY <1>1, <1>2, <3>2, <4>1 DEF RrBehind, RrColumns
    <3> QED BY <3>1, <3>2
  <2> QED BY <1>1, <2>1, RrSameOutput
<1>8. Holders(rr_at', buffer', granted')
  <2>1. Holders(rr_at', buffer, granted \ {buffer[w]})
    BY <1>1, <1>2, Releasing
  <2> QED BY <1>1, <2>1
<1> QED BY <1>4, <1>5, <1>6, <1>7, <1>8

LEMMA RrJoinStep ==
    ASSUME RrInv, Holders(rr_at, buffer, granted), Rr!Join
    PROVE  RrInv' /\ Holders(rr_at', buffer', granted') /\ granted' = {}
<1> USE DEF RrInv
<1>1. /\ rr_iteration < Iterations /\ rr_iteration' = rr_iteration + 1
      /\ \A w \in Worker : rr_at[w] = "acquire" /\ ~ (rr_tile_n[w] < Share(w + 1, RrTilesN))
      /\ rr_tile_n' = IF rr_iteration' < Iterations
                      THEN [w \in Worker |-> Share(w, RrTilesN)] ELSE rr_tile_n
      /\ UNCHANGED <<chunk_begin, block, rr_at, buffer, packed_c, granted, rr_output>>
  BY WorkerIsNat, SharesOfBoth, Constants DEF Rr!Join, Rr!HasTile
<1>2. ASSUME NEW w \in Worker
      PROVE  /\ Share(w, RrTilesN) \in Nat /\ Share(w + 1, RrTilesN) \in Nat
             /\ Share(w, RrTilesN) <= Share(w + 1, RrTilesN)
             /\ rr_tile_n[w] \in Nat /\ rr_tile_n[w] = Share(w + 1, RrTilesN)
  <2>1. /\ Share(w, RrTilesN) \in Nat /\ Share(w + 1, RrTilesN) \in Nat
        /\ Share(w, RrTilesN) <= Share(w + 1, RrTilesN)
    BY SharesOf, Constants
  <2>2. rr_tile_n[w] \in Nat /\ rr_tile_n[w] <= Share(w + 1, RrTilesN)
        /\ ~ (rr_tile_n[w] < Share(w + 1, RrTilesN))
    BY <1>1 DEF RrTypeOK, RrLoopInv
  <2> QED BY <2>1, <2>2
<1>3. RrTypeOK'
  BY <1>1, <1>2, Constants DEF RrTypeOK
<1>4. RrLoopInv'
  <2>1. ASSUME NEW w \in Worker
        PROVE  Share(w, RrTilesN) <= rr_tile_n'[w] /\ rr_tile_n'[w] <= Share(w + 1, RrTilesN)
    BY <1>1, <1>2
  <2> QED BY <1>1, <2>1 DEF RrLoopInv
<1>5. RrSumsInv'
  BY <1>1 DEF RrSumsInv
<1>6. RrOutputInv'
  <2>1. ASSUME NEW m \in RrRows, NEW n \in RrColumns
        PROVE  RrPast(m, n)
    BY <1>2 DEF RrPast, RrOwns, RrBehind
  <2> QED BY <1>1, <2>1 DEF RrOutputInv
<1>7. Holders(rr_at', buffer', granted') /\ granted' = {}
  BY <1>1, AllReturned
<1> QED BY <1>3, <1>4, <1>5, <1>6, <1>7

LEMMA RrKeeps ==
    ASSUME RrInv, Holders(rr_at, buffer, granted), Rr!Next
    PROVE  RrInv' /\ Holders(rr_at', buffer', granted') /\ (Rr!Join => granted' = {})
<1>1. CASE Rr!Join
  BY <1>1, RrJoinStep
<1>2. ASSUME NEW w \in Worker, Rr!Work(w)
      PROVE  RrInv' /\ Holders(rr_at', buffer', granted')
  BY <1>2, RrAcquireStep, RrClearStep, RrBlockStep, RrUnpackStep, RrReleaseStep DEF Rr!Work
<1> QED BY <1>1, <1>2, RrJoinStep, Constants DEF Rr!Next

----------------------------------------------------------------------------
(* The steps of the second kernel. *)

LEMMA SameSums ==
    ASSUME NEW w, WorkerSums(w),
           tile_m'[w] = tile_m[w], tile_n'[w] = tile_n[w], bk'[w] = bk[w], count'[w] = count[w],
           acc'[w] = acc[w], components'[w] = components[w],
           memory'[components[w]] = memory[components[w]]
    PROVE  WorkerSums(w)'
BY DEF WorkerSums

\* Two workers that are at work have different buffers.
LEMMA BatchOthers ==
    ASSUME Holders(at, components, granted), NEW w \in Worker, at[w] # "acquire",
           NEW v \in Worker, v # w, at[v] # "acquire"
    PROVE  components[v] # components[w]
BY DEF Holders

\* Nothing is written, and nobody gets past a tile.
LEMMA BatchSameOutput ==
    ASSUME BatchOutputInv, UNCHANGED <<iteration, output>>,
           \A v \in Worker : \A m \in Rows, n \in Columns :
               Owns(v, m) /\ Behind(v, m, n)' => Behind(v, m, n)
    PROVE  BatchOutputInv'
<1>1. ASSUME NEW m \in Rows, NEW n \in Columns, Past(m, n)'
      PROVE  Past(m, n)
  BY <1>1 DEF Past, Owns
<1> QED BY <1>1 DEF BatchOutputInv

LEMMA AcquireStep ==
    ASSUME BatchInv, Holders(at, components, granted), NEW w \in Worker, Acquire(w)
    PROVE  BatchInv' /\ Holders(at', components', granted')
<1> USE DEF BatchInv
<1>1. /\ at[w] = "acquire" /\ tile_m[w] < Share(w + 1, TilesM)
      /\ UNCHANGED <<iteration, tile_m, tile_n, bk, count, acc, memory, output>>
      /\ at' = [at EXCEPT ![w] = "tile"]
  BY WorkerIsNat, SharesOfBoth DEF Acquire, HasTile, Go, kernel
<1>2. PICK b \in Worker \cup TcmBuffers :
          /\ components' = [components EXCEPT ![w] = b]
          /\ \/ b = w /\ granted' = granted
             \/ b \in TcmBuffers \ granted /\ granted' = granted \cup {b}
  BY DEF Acquire
<1>3. /\ at'[w] = "tile" /\ components'[w] = b
      /\ \A v \in Worker \ {w} : at'[v] = at[v] /\ components'[v] = components[v]
  BY <1>1, <1>2 DEF BatchTypeOK
<1>4. BatchTypeOK'
  BY <1>1, <1>2 DEF BatchTypeOK
<1>5. BatchLoopInv'
  BY <1>1, <1>3 DEF BatchLoopInv
<1>6. BatchSumsInv'
  <2>1. ASSUME NEW v \in Worker, v # w, WorkerSums(v)
        PROVE  WorkerSums(v)'
    BY <1>1, <1>3, <2>1, SameSums
  <2> QED BY <1>1, <1>3, <2>1 DEF BatchSumsInv
<1>7. BatchOutputInv'
  <2>1. ASSUME NEW v \in Worker, NEW m \in Rows, NEW n \in Columns, Behind(v, m, n)'
        PROVE  Behind(v, m, n)
    BY <1>1, <1>3, <2>1 DEF Behind
  <2> QED BY <1>1, <2>1, BatchSameOutput
<1>8. Holders(at', components', granted')
  <2>1. \/ components'[w] = w /\ granted' = granted
        \/ components'[w] \in TcmBuffers \ granted /\ granted' = granted \cup {components'[w]}
    BY <1>2, <1>3
  <2>2. /\ at[w] = "acquire" /\ at'[w] # "acquire"
        /\ \A v \in Worker \ {w} : at'[v] = at[v] /\ components'[v] = components[v]
    BY <1>1, <1>3
  <2> QED BY <2>1, <2>2, Granting
<1> QED BY <1>4, <1>5, <1>6, <1>7, <1>8

LEMMA BatchProductOfNone ==
    ASSUME NEW m, NEW n
    PROVE  BatchProduct(m, n, 0) = <<>>
<1>1. 1 .. 0 = {}
  OBVIOUS
<1> QED BY <1>1 DEF BatchProduct

LEMMA BeginTileStep ==
    ASSUME BatchInv, Holders(at, components, granted), NEW w \in Worker, BeginTile(w)
    PROVE  BatchInv' /\ Holders(at', components', granted')
<1> USE DEF BatchInv
<1>1. /\ at[w] = "tile"
      /\ UNCHANGED <<iteration, tile_m, tile_n, components, memory, granted, output>>
      /\ acc' = [acc EXCEPT ![w] = <<>>]
      /\ bk' = [bk EXCEPT ![w] = 0] /\ count' = [count EXCEPT ![w] = 0]
      /\ at' = [at EXCEPT ![w] = "block"]
  BY DEF BeginTile, Go
<1>2. /\ at'[w] = "block" /\ acc'[w] = <<>> /\ bk'[w] = 0 /\ count'[w] = 0
      /\ \A v \in Worker \ {w} : /\ at'[v] = at[v] /\ acc'[v] = acc[v]
                                 /\ bk'[v] = bk[v] /\ count'[v] = count[v]
  BY <1>1 DEF BatchTypeOK
<1>3. BatchTypeOK'
  BY <1>1 DEF BatchTypeOK
<1>4. BatchLoopInv'
  BY <1>1, <1>2, Constants DEF BatchLoopInv
<1>5. BatchSumsInv'
  <2>1. WorkerSums(w)'
    <3>1. \A i \in 0 .. count'[w] - 1 : FALSE
      BY <1>2
    <3>2. bk'[w] - count'[w] = 0
      BY <1>2
    <3> QED BY <1>2, <3>1, <3>2, BatchProductOfNone DEF WorkerSums
  <2>2. ASSUME NEW v \in Worker, v # w, WorkerSums(v)
        PROVE  WorkerSums(v)'
    BY <1>1, <1>2, <2>2, SameSums
  <2> QED BY <1>1, <1>2, <2>1, <2>2 DEF BatchSumsInv
<1>6. BatchOutputInv'
  <2>1. ASSUME NEW v \in Worker, NEW m \in Rows, NEW n \in Columns, Behind(v, m, n)'
        PROVE  Behind(v, m, n)
    BY <1>1, <1>2, <2>1 DEF Behind
  <2> QED BY <1>1, <2>1, BatchSameOutput
<1>7. Holders(at', components', granted')
  <2>1. \A v \in Worker : at'[v] = "acquire" <=> at[v] = "acquire"
    BY <1>1, <1>2
  <2> QED BY <1>1, <2>1, Keeping
<1> QED BY <1>3, <1>4, <1>5, <1>6, <1>7

LEMMA BlockStep ==
    ASSUME BatchInv, Holders(at, components, granted), NEW w \in Worker, Block(w)
    PROVE  BatchInv' /\ Holders(at', components', granted')
<1> USE DEF BatchInv
<1> DEFINE next == IF FlushDue(bk'[w], count'[w]) THEN "reduce"
                   ELSE IF bk'[w] < BlocksK THEN "block" ELSE "copy"
           product == <<tile_m[w], tile_n[w], bk[w]>>
<1>1. /\ at[w] = "block"
      /\ UNCHANGED <<iteration, tile_m, tile_n, components, acc, granted, output>>
      /\ memory' = [memory EXCEPT ![components[w]][count[w]] = product]
      /\ bk' = [bk EXCEPT ![w] = @ + 1] /\ count' = [count EXCEPT ![w] = @ + 1]
      /\ at' = [at EXCEPT ![w] = next]
  BY DEF Block, Go
<1>2. /\ bk[w] \in Nat /\ count[w] \in Nat /\ bk[w] < BlocksK /\ count[w] < RedBatchSize
      /\ count[w] <= bk[w] /\ BlocksK \in Nat /\ RedBatchSize \in Nat
      /\ components[w] \in Worker \cup TcmBuffers
  BY <1>1, Constants DEF BatchTypeOK, BatchLoopInv
<1>3. /\ bk'[w] = bk[w] + 1 /\ count'[w] = count[w] + 1
      /\ \A v \in Worker \ {w} : bk'[v] = bk[v] /\ count'[v] = count[v]
  BY <1>1 DEF BatchTypeOK
<1>4. \/ next = "reduce"
      \/ next = "block" /\ bk[w] + 1 < BlocksK /\ count[w] + 1 < RedBatchSize
  BY <1>2, <1>3 DEF FlushDue
<1>5. at'[w] = next /\ \A v \in Worker \ {w} : at'[v] = at[v]
  BY <1>1 DEF BatchTypeOK
<1> HIDE DEF next
<1>6. /\ \A c \in Worker \cup TcmBuffers :
           c # components[w] => memory'[c] = memory[c]
      /\ DOMAIN memory' = Worker \cup TcmBuffers
      /\ DOMAIN memory'[components[w]] = 0 .. RedBatchSize - 1
      /\ memory'[components[w]][count[w]] = product
      /\ \A i \in 0 .. RedBatchSize - 1 :
           i # count[w] => memory'[components[w]][i] = memory[components[w]][i]
  <2>1. count[w] \in 0 .. RedBatchSize - 1
    BY <1>2
  <2>2. memory'[components[w]] = [memory[components[w]] EXCEPT ![count[w]] = product]
    BY <1>1, <1>2 DEF BatchTypeOK
  <2> QED BY <1>1, <1>2, <2>1, <2>2 DEF BatchTypeOK
<1>7. BatchTypeOK'
  <2>1. at' \in [Worker -> {"acquire", "tile", "block", "reduce", "copy", "release"}]
    BY <1>1, <1>4 DEF BatchTypeOK
  <2>2. bk' \in [Worker -> Nat] /\ count' \in [Worker -> Nat]
    BY <1>1, <1>2 DEF BatchTypeOK
  <2>3. \A c \in Worker \cup TcmBuffers : DOMAIN memory'[c] = 0 .. RedBatchSize - 1
    BY <1>6 DEF BatchTypeOK
  <2> QED BY <1>1, <1>6, <2>1, <2>2, <2>3 DEF BatchTypeOK
<1>8. BatchLoopInv'
  <2>1. /\ at'[w] = "block" => bk'[w] < BlocksK /\ count'[w] < RedBatchSize /\ count'[w] <= bk'[w]
        /\ at'[w] = "reduce" => bk'[w] <= BlocksK /\ count'[w] <= RedBatchSize /\ count'[w] <= bk'[w]
        /\ at'[w] \in {"block", "reduce"}
    BY <1>2, <1>3, <1>4, <1>5
  <2> QED BY <1>1, <1>3, <1>5, <2>1 DEF BatchLoopInv
<1>9. BatchSumsInv'
  <2>1. WorkerSums(w)'
    <3>1. WorkerSums(w)
      BY <1>1 DEF BatchSumsInv
    <3>2. bk'[w] - count'[w] = bk[w] - count[w]
      BY <1>2, <1>3
    <3>3. ASSUME NEW i \in 0 .. count'[w] - 1
          PROVE  memory'[components[w]][i] = <<tile_m[w], tile_n[w], bk[w] - count[w] + i>>
      <4>1. CASE i = count[w]
        <5>1. bk[w] - count[w] + i = bk[w]
          BY <1>2, <4>1
        <5> QED BY <1>6, <4>1, <5>1
      <4>2. CASE i # count[w]
        <5>1. i \in 0 .. count[w] - 1 /\ i \in 0 .. RedBatchSize - 1
          BY <1>2, <1>3, <4>2
        <5> QED BY <1>6, <3>1, <4>2, <5>1 DEF WorkerSums
      <4> QED BY <4>1, <4>2
    <3> QED BY <1>1, <3>1, <3>2, <3>3 DEF WorkerSums
  <2>2. ASSUME NEW v \in Worker, v # w, at[v] # "acquire", WorkerSums(v)
        PROVE  WorkerSums(v)'
    <3>1. components[v] # components[w] /\ components[v] \in Worker \cup TcmBuffers
      BY <1>1, <2>2, BatchOthers DEF BatchTypeOK
    <3>2. memory'[components[v]] = memory[components[v]]
      BY <1>6, <3>1
    <3> QED BY <1>1, <1>3, <2>2, <3>2, SameSums
  <2> QED BY <1>1, <1>5, <2>1, <2>2 DEF BatchSumsInv
<1>10. BatchOutputInv'
  <2>1. ASSUME NEW v \in Worker, NEW m \in Rows, NEW n \in Columns, Behind(v, m, n)'
        PROVE  Behind(v, m, n)
    BY <1>1, <1>4, <1>5, <2>1 DEF Behind
  <2> QED BY <1>1, <2>1, BatchSameOutput
<1>11. Holders(at', components', granted')
  <2>1. \A v \in Worker : at'[v] = "acquire" <=> at[v] = "acquire"
    BY <1>1, <1>4, <1>5
  <2> QED BY <1>1, <2>1, Keeping
<1> QED BY <1>7, <1>8, <1>9, <1>10, <1>11

LEMMA ReduceStep ==
    ASSUME BatchInv, Holders(at, components, granted), NEW w \in Worker, Reduce(w)
    PROVE  BatchInv' /\ Holders(at', components', granted')
<1> USE DEF BatchInv
<1> DEFINE next == IF bk[w] < BlocksK THEN "block" ELSE "copy"
           b == bk[w] - count[w]
           m == tile_m[w]
           n == tile_n[w]
           terms == [ i \in 1 .. count[w] |->
                        <<memory[components[w]][i - 1], bk[w] - count[w] + i - 1>> ]
<1>1. /\ at[w] = "reduce"
      /\ UNCHANGED <<iteration, tile_m, tile_n, components, bk, memory, granted, output>>
      /\ acc' = [acc EXCEPT ![w] = @ \o terms]
      /\ count' = [count EXCEPT ![w] = 0]
      /\ at' = [at EXCEPT ![w] = next]
  BY DEF Reduce, Go
<1>2. /\ bk[w] \in Nat /\ count[w] \in Nat /\ bk[w] <= BlocksK /\ count[w] <= RedBatchSize
      /\ count[w] <= bk[w] /\ BlocksK \in Nat /\ RedBatchSize \in Nat /\ RedBatchSize > 0
  BY <1>1, Constants DEF BatchTypeOK, BatchLoopInv
<1>3. WorkerSums(w)
  BY <1>1 DEF BatchSumsInv
<1>4. acc[w] \o terms = BatchProduct(m, n, bk[w])
  <2>1. b \in Nat /\ b + count[w] = bk[w]
    BY <1>2
  <2>2. ASSUME NEW i \in 1 .. count[w]
        PROVE  /\ memory[components[w]][i - 1] = <<m, n, b + i - 1>>
               /\ bk[w] - count[w] + i - 1 = b + i - 1
    <3>1. i - 1 \in 0 .. count[w] - 1 /\ bk[w] - count[w] + (i - 1) = b + i - 1
      BY <1>2
    <3> QED BY <1>2, <1>3, <3>1 DEF WorkerSums
  <2>3. terms = BatchTerms(m, n, b, count[w])
    BY <2>2 DEF BatchTerms
  <2>4. acc[w] = BatchProduct(m, n, b)
    BY <1>3 DEF WorkerSums
  <2> HIDE DEF b, m, n, terms
  <2>5. BatchProduct(m, n, b) \o BatchTerms(m, n, b, count[w]) = BatchProduct(m, n, b + count[w])
    BY <1>2, <2>1, BatchProductGrows
  <2> QED BY <2>1, <2>3, <2>4, <2>5
<1> HIDE DEF terms
<1>5. /\ acc'[w] = acc[w] \o terms /\ count'[w] = 0 /\ at'[w] = next
      /\ \A v \in Worker \ {w} : acc'[v] = acc[v] /\ count'[v] = count[v] /\ at'[v] = at[v]
  BY <1>1 DEF BatchTypeOK
<1>6. BatchTypeOK'
  <2>1. next \in {"acquire", "tile", "block", "reduce", "copy", "release"}
    OBVIOUS
  <2> QED BY <1>1, <2>1 DEF BatchTypeOK
<1>7. BatchLoopInv'
  BY <1>1, <1>2, <1>5 DEF BatchLoopInv
<1>8. BatchSumsInv'
  <2>1. WorkerSums(w)'
    <3>1. bk'[w] - count'[w] = bk[w] /\ \A i \in 0 .. count'[w] - 1 : FALSE
      BY <1>1, <1>2, <1>5
    <3> QED BY <1>1, <1>4, <1>5, <3>1 DEF WorkerSums
  <2>2. ASSUME NEW v \in Worker, v # w, WorkerSums(v)
        PROVE  WorkerSums(v)'
    BY <1>1, <1>5, <2>2, SameSums
  <2> QED BY <1>5, <2>1, <2>2 DEF BatchSumsInv
<1>9. BatchOutputInv'
  <2>1. ASSUME NEW v \in Worker, NEW p \in Rows, NEW q \in Columns, Behind(v, p, q)'
        PROVE  Behind(v, p, q)
    BY <1>1, <1>5, <2>1 DEF Behind
  <2> QED BY <1>1, <2>1, BatchSameOutput
<1>10. Holders(at', components', granted')
  <2>1. \A v \in Worker : at'[v] = "acquire" <=> at[v] = "acquire"
    BY <1>1, <1>5
  <2> QED BY <1>1, <2>1, Keeping
<1> QED BY <1>6, <1>7, <1>8, <1>9, <1>10

LEMMA CopyTileStep ==
    ASSUME BatchInv, Holders(at, components, granted), NEW w \in Worker, CopyTile(w)
    PROVE  BatchInv' /\ Holders(at', components', granted')
<1> USE DEF BatchInv
<1> DEFINE m == tile_m[w]
           n == tile_n[w]
           last == ~ (n + 1 < TilesN)
           next == IF last THEN "release" ELSE "tile"
<1>1. /\ at[w] = "copy"
      /\ UNCHANGED <<iteration, tile_m, components, bk, count, acc, memory, granted>>
      /\ output' = [output EXCEPT ![<<m, n>>] = acc[w]]
      /\ tile_n' = [tile_n EXCEPT ![w] = IF last THEN 0 ELSE n + 1]
      /\ at' = [at EXCEPT ![w] = next]
  BY DEF CopyTile, Go, kernel
<1>2. /\ at'[w] = next /\ tile_n'[w] = IF last THEN 0 ELSE n + 1
      /\ \A v \in Worker \ {w} : at'[v] = at[v] /\ tile_n'[v] = tile_n[v]
  BY <1>1 DEF BatchTypeOK
<1>3. /\ Owns(w, m) /\ m \in Rows /\ n \in Columns /\ n \in Nat /\ TilesN \in Nat /\ TilesN > 0
  <2>1. /\ Share(w, TilesM) <= m /\ m < Share(w + 1, TilesM) /\ n \in Columns /\ m \in Nat
    BY <1>1 DEF BatchLoopInv, BatchTypeOK
  <2>2. Share(w + 1, TilesM) \in Nat /\ Share(w + 1, TilesM) <= TilesM /\ TilesM \in Nat
    BY SharesOf, Constants
  <2> QED BY <2>1, <2>2, Constants DEF Owns, Rows, Columns
<1>4. acc[w] = BatchProduct(m, n, BlocksK)
  <2>1. WorkerSums(w) /\ bk[w] = BlocksK /\ count[w] = 0
    BY <1>1 DEF BatchSumsInv, BatchLoopInv
  <2>2. bk[w] - count[w] = BlocksK
    BY <2>1, Constants
  <2> QED BY <2>1, <2>2 DEF WorkerSums
<1> HIDE DEF m, n
<1>5. /\ output'[<<m, n>>] = BatchProduct(m, n, BlocksK)
      /\ \A p \in Rows, q \in Columns :
           p # m \/ q # n => output'[<<p, q>>] = output[<<p, q>>]
      /\ DOMAIN output' = Rows \X Columns
  BY <1>1, <1>3, <1>4 DEF BatchTypeOK
<1>6. BatchTypeOK'
  <2>1. next \in {"acquire", "tile", "block", "reduce", "copy", "release"}
    OBVIOUS
  <2>2. tile_n' \in [Worker -> Nat]
    BY <1>1, <1>3 DEF BatchTypeOK
  <2> QED BY <1>1, <1>5, <2>1, <2>2 DEF BatchTypeOK
<1>7. BatchLoopInv'
  <2>1. /\ tile_n'[w] \in Columns
        /\ at'[w] \in {"acquire", "release"} => tile_n'[w] = 0
        /\ at'[w] \notin {"acquire", "block", "reduce", "copy"}
    BY <1>2, <1>3 DEF Columns
  <2> QED BY <1>1, <1>2, <2>1 DEF BatchLoopInv
<1>8. BatchSumsInv'
  <2>1. ASSUME NEW v \in Worker, v # w, WorkerSums(v)
        PROVE  WorkerSums(v)'
    BY <1>1, <1>2, <2>1, SameSums
  <2> QED BY <1>2, <2>1 DEF BatchSumsInv
<1>9. BatchOutputInv'
  <2>1. ASSUME NEW v \in Worker, NEW p \in Rows, NEW q \in Columns, p # m \/ q # n,
               Behind(v, p, q)'
        PROVE  Behind(v, p, q)
    <3>1. CASE v # w
      BY <1>1, <1>2, <2>1, <3>1 DEF Behind
    <3>2. CASE v = w
      <4>1. p < m \/ (p = m /\ (at'[w] = "release" \/ q < tile_n'[w]))
        BY <1>1, <2>1, <3>2 DEF Behind, m
      <4>2. p = m => q < n
        BY <1>2, <1>3, <2>1, <4>1 DEF Columns, Rows
      <4> QED BY <1>1, <3>2, <4>1, <4>2 DEF Behind, m, n
    <3> QED BY <3>1, <3>2
  <2>2. ASSUME NEW p \in Rows, NEW q \in Columns, p # m \/ q # n, Past(p, q)'
        PROVE  Past(p, q)
    BY <2>1, <2>2 DEF Past, Owns
  <2> QED BY <1>1, <1>5, <2>2 DEF BatchOutputInv
<1>10. Holders(at', components', granted')
  <2>1. \A v \in Worker : at'[v] = "acquire" <=> at[v] = "acquire"
    BY <1>1, <1>2
  <2> QED BY <1>1, <2>1, Keeping
<1> QED BY <1>6, <1>7, <1>8, <1>9, <1>10

LEMMA ReleaseStep ==
    ASSUME BatchInv, Holders(at, components, granted), NEW w \in Worker, Release(w)
    PROVE  BatchInv' /\ Holders(at', components', granted')
<1> USE DEF BatchInv
<1>1. /\ at[w] = "release"
      /\ UNCHANGED <<iteration, tile_n, components, bk, count, acc, memory, output>>
      /\ granted' = granted \ {components[w]}
      /\ tile_m' = [tile_m EXCEPT ![w] = @ + 1]
      /\ at' = [at EXCEPT ![w] = "acquire"]
  BY DEF Release, Go, kernel
<1>2. /\ at'[w] = "acquire" /\ tile_m'[w] = tile_m[w] + 1 /\ tile_m[w] \in Nat
      /\ \A v \in Worker \ {w} : at'[v] = at[v] /\ tile_m'[v] = tile_m[v]
  BY <1>1 DEF BatchTypeOK
<1>3. /\ tile_m[w] < Share(w + 1, TilesM) /\ Share(w, TilesM) <= tile_m[w]
      /\ Share(w, TilesM) \in Nat /\ Share(w + 1, TilesM) \in Nat /\ tile_n[w] = 0
  BY <1>1, SharesOf, Constants DEF BatchLoopInv
<1>4. BatchTypeOK'
  BY <1>1, <1>2 DEF BatchTypeOK
<1>5. BatchLoopInv'
  <2>1. Share(w, TilesM) <= tile_m'[w] /\ tile_m'[w] <= Share(w + 1, TilesM)
    BY <1>2, <1>3
  <2> QED BY <1>1, <1>2, <1>3, <2>1 DEF BatchLoopInv
<1>6. BatchSumsInv'
  <2>1. ASSUME NEW v \in Worker, v # w, WorkerSums(v)
        PROVE  WorkerSums(v)'
    BY <1>1, <1>2, <2>1, SameSums
  <2> QED BY <1>2, <2>1 DEF BatchSumsInv
<1>7. BatchOutputInv'
  <2>1. ASSUME NEW v \in Worker, NEW p \in Rows, NEW q \in Columns, Behind(v, p, q)'
        PROVE  Behind(v, p, q)
    <3>1. CASE v # w
      BY <1>1, <1>2, <2>1, <3>1 DEF Behind
    <3>2. CASE v = w
      <4>1. p < tile_m[w] + 1
        BY <1>1, <1>2, <1>3, <2>1, <3>2 DEF Behind, Rows, Columns
      <4> QED BY <1>1, <1>2, <3>2, <4>1 DEF Behind, Rows
    <3> QED BY <3>1, <3>2
  <2> QED BY <1>1, <2>1, BatchSameOutput
<1>8. Holders(at', components', granted')
  <2>1. Holders(at', components, granted \ {components[w]})
    BY <1>1, <1>2, Releasing
  <2> QED BY <1>1, <2>1
<1> QED BY <1>4, <1>5, <1>6, <1>7, <1>8

LEMMA JoinStep ==
    ASSUME BatchInv, Holders(at, components, granted), Join
    PROVE  BatchInv' /\ Holders(at', components', granted')
<1> USE DEF BatchInv
<1>1. /\ iteration < Iterations /\ iteration' = iteration + 1
      /\ \A w \in Worker : at[w] = "acquire" /\ ~ (tile_m[w] < Share(w + 1, TilesM))
      /\ tile_m' = IF iteration' < Iterations
                   THEN [w \in Worker |-> Share(w, TilesM)] ELSE tile_m
      /\ UNCHANGED <<tile_n, at, components, bk, count, acc, memory, granted, output>>
  BY WorkerIsNat, SharesOfBoth, Constants DEF Join, HasTile, kernel
<1>2. ASSUME NEW w \in Worker
      PROVE  /\ Share(w, TilesM) \in Nat /\ Share(w + 1, TilesM) \in Nat
             /\ Share(w, TilesM) <= Share(w + 1, TilesM)
             /\ tile_m[w] \in Nat /\ tile_m[w] = Share(w + 1, TilesM)
  <2>1. /\ Share(w, TilesM) \in Nat /\ Share(w + 1, TilesM) \in Nat
        /\ Share(w, TilesM) <= Share(w + 1, TilesM)
    BY SharesOf, Constants
  <2>2. tile_m[w] \in Nat /\ tile_m[w] <= Share(w + 1, TilesM) /\ ~ (tile_m[w] < Share(w + 1, TilesM))
    BY <1>1 DEF BatchTypeOK, BatchLoopInv
  <2> QED BY <2>1, <2>2
<1>3. BatchTypeOK'
  BY <1>1, <1>2, Constants DEF BatchTypeOK
<1>4. BatchLoopInv'
  <2>1. ASSUME NEW w \in Worker
        PROVE  Share(w, TilesM) <= tile_m'[w] /\ tile_m'[w] <= Share(w + 1, TilesM)
    BY <1>1, <1>2
  <2> QED BY <1>1, <2>1 DEF BatchLoopInv
<1>5. BatchSumsInv'
  BY <1>1 DEF BatchSumsInv
<1>6. BatchOutputInv'
  <2>1. ASSUME NEW m \in Rows, NEW n \in Columns
        PROVE  Past(m, n)
    BY <1>2 DEF Past, Owns, Behind
  <2> QED BY <1>1, <2>1 DEF BatchOutputInv
<1>7. Holders(at', components', granted')
  BY <1>1
<1> QED BY <1>3, <1>4, <1>5, <1>6, <1>7

LEMMA BatchKeeps ==
    ASSUME BatchInv, Holders(at, components, granted), Next
    PROVE  BatchInv' /\ Holders(at', components', granted')
<1>1. CASE Join
  BY <1>1, JoinStep
<1>2. CASE UNCHANGED vars
  <2>1. UNCHANGED <<iteration, tile_m, tile_n, at, components, bk, count, acc, memory, granted, output>>
    BY <1>2 DEF vars, kernel
  <2>2. BatchTypeOK' /\ BatchLoopInv'
    BY <2>1 DEF BatchInv, BatchTypeOK, BatchLoopInv
  <2>3. BatchSumsInv'
    BY <2>1 DEF BatchInv, BatchSumsInv, WorkerSums
  <2>4. BatchOutputInv'
    BY <2>1 DEF BatchInv, BatchOutputInv, Past, Behind, Owns
  <2> QED BY <2>1, <2>2, <2>3, <2>4 DEF BatchInv
<1>3. ASSUME NEW w \in Worker, Work(w)
      PROVE  BatchInv' /\ Holders(at', components', granted')
  BY <1>3, AcquireStep, BeginTileStep, BlockStep, ReduceStep, CopyTileStep, ReleaseStep DEF Work
<1> QED BY <1>1, <1>2, <1>3 DEF Next

----------------------------------------------------------------------------
(* The invariant. *)

LEMMA RrInitHolds ==
    ASSUME Rr!Init
    PROVE  RrInv
<1> USE DEF Rr!Init
<1>1. /\ rr_iteration = 0
      /\ rr_tile_n = [w \in Worker |-> Share(w, RrTilesN)]
      /\ rr_at = [w \in Worker |-> "acquire"]
  BY Constants, WorkerIsNat, SharesOfBoth
<1>2. ASSUME NEW w \in Worker
      PROVE  /\ Share(w, RrTilesN) \in Nat
             /\ Share(w, RrTilesN) <= Share(w + 1, RrTilesN)
  BY SharesOf, Constants
<1>3. RrTypeOK
  BY <1>1, <1>2, Constants DEF RrTypeOK, RrRows, RrColumns
<1>4. RrLoopInv
  <2>1. \A w \in Worker : Share(w, RrTilesN) <= rr_tile_n[w]
    BY <1>1, <1>2
  <2> QED BY <1>1, <1>2, <2>1 DEF RrLoopInv
<1>5. RrSumsInv
  BY <1>1 DEF RrSumsInv
<1>6. RrOutputInv
  <2>1. ASSUME NEW m \in RrRows, NEW n \in RrColumns, RrPast(m, n)
        PROVE  FALSE
    <3>1. PICK w \in Worker : Share(w, RrTilesN) <= n /\ n < Share(w + 1, RrTilesN)
      BY SharesCover, Constants DEF RrColumns
    <3>2. n < Share(w, RrTilesN)
      BY <1>1, <2>1, <3>1 DEF RrPast, RrOwns, RrBehind
    <3> QED BY <1>2, <3>1, <3>2 DEF RrColumns
  <2> QED BY <1>1, <2>1 DEF RrOutputInv
<1> QED BY <1>3, <1>4, <1>5, <1>6 DEF RrInv

LEMMA BatchInitHolds ==
    ASSUME Init
    PROVE  BatchInv
<1> USE DEF Init
<1>1. /\ iteration = 0 /\ tile_n = [w \in Worker |-> 0]
      /\ tile_m = [w \in Worker |-> Share(w, TilesM)]
      /\ at = [w \in Worker |-> "acquire"]
  BY WorkerIsNat, SharesOfBoth
<1>2. ASSUME NEW w \in Worker
      PROVE  Share(w, TilesM) \in Nat /\ Share(w, TilesM) <= Share(w + 1, TilesM)
  BY SharesOf, Constants
<1>3. BatchTypeOK
  BY <1>1, <1>2, Constants DEF BatchTypeOK, Rows, Columns
<1>4. BatchLoopInv
  <2>1. \A w \in Worker : Share(w, TilesM) <= tile_m[w]
    BY <1>1, <1>2
  <2> QED BY <1>1, <1>2, <2>1, Constants DEF BatchLoopInv, Columns
<1>5. BatchSumsInv
  BY <1>1 DEF BatchSumsInv
<1>6. BatchOutputInv
  <2>1. ASSUME NEW m \in Rows, NEW n \in Columns, Past(m, n)
        PROVE  FALSE
    <3>1. PICK w \in Worker : Share(w, TilesM) <= m /\ m < Share(w + 1, TilesM)
      BY SharesCover, Constants DEF Rows
    <3>2. m < Share(w, TilesM) \/ (m = Share(w, TilesM) /\ n < 0)
      BY <1>1, <2>1, <3>1 DEF Past, Owns, Behind
    <3> QED BY <1>2, <3>1, <3>2 DEF Rows, Columns
  <2> QED BY <1>1, <2>1 DEF BatchOutputInv
<1> QED BY <1>3, <1>4, <1>5, <1>6 DEF BatchInv

LEMMA InitHolds == SequenceInit => IInv
<1> SUFFICES ASSUME SequenceInit PROVE IInv
  OBVIOUS
<1>1. RrInv /\ BatchInv
  BY RrInitHolds, BatchInitHolds DEF SequenceInit
<1>2. /\ rr_iteration = 0 /\ granted = {} /\ rr_at = [w \in Worker |-> "acquire"]
      /\ at = [w \in Worker |-> "acquire"]
  BY Constants DEF SequenceInit, Rr!Init, Init
<1>3. BuffersInv
  BY <1>2, Constants DEF BuffersInv, Holders
<1> QED BY <1>1, <1>3 DEF IInv

LEMMA RrUnchanged ==
    ASSUME RrInv, UNCHANGED rr
    PROVE  RrInv'
<1>1. UNCHANGED <<rr_iteration, rr_tile_n, chunk_begin, block, rr_at, buffer, packed_c, rr_output>>
  BY DEF rr
<1>2. RrTypeOK' /\ RrLoopInv'
  BY <1>1 DEF RrInv, RrTypeOK, RrLoopInv
<1>3. RrSumsInv'
  BY <1>1 DEF RrInv, RrSumsInv, RrChunkIs, Rr!ChunkTiles
<1>4. RrOutputInv'
  BY <1>1 DEF RrInv, RrOutputInv, RrPast, RrBehind, RrOwns
<1> QED BY <1>2, <1>3, <1>4 DEF RrInv

LEMMA BatchUnchanged ==
    ASSUME BatchInv, UNCHANGED batch
    PROVE  BatchInv'
<1>1. UNCHANGED <<iteration, tile_m, tile_n, at, components, bk, count, acc, memory, output>>
  BY DEF batch, kernel
<1>2. BatchTypeOK' /\ BatchLoopInv'
  BY <1>1 DEF BatchInv, BatchTypeOK, BatchLoopInv
<1>3. BatchSumsInv'
  BY <1>1 DEF BatchInv, BatchSumsInv, WorkerSums
<1>4. BatchOutputInv'
  BY <1>1 DEF BatchInv, BatchOutputInv, Past, Behind, Owns
<1> QED BY <1>2, <1>3, <1>4 DEF BatchInv

LEMMA RunFirstKeeps ==
    ASSUME IInv, RunFirst
    PROVE  IInv'
<1> USE DEF IInv
<1>1. rr_iteration < Iterations /\ Rr!Next /\ UNCHANGED batch /\ rr_iteration \in 0 .. Iterations
  BY DEF RunFirst, RrInv, RrTypeOK
<1>2. Holders(rr_at, buffer, granted) /\ \A w \in Worker : at[w] = "acquire"
  BY <1>1 DEF BuffersInv
<1>3. RrInv' /\ Holders(rr_at', buffer', granted') /\ (Rr!Join => granted' = {})
  BY <1>1, <1>2, RrKeeps
<1>4. BatchInv' /\ at' = at
  BY <1>1, BatchUnchanged DEF batch
<1>5. BuffersInv'
  <2>1. CASE rr_iteration' < Iterations
    BY <1>2, <1>3, <1>4, <2>1 DEF BuffersInv
  <2>2. CASE ~ (rr_iteration' < Iterations)
    <3>1. Rr!Join
      BY <1>1, <2>2 DEF Rr!Next, Rr!Work, Rr!Acquire, Rr!Clear, Rr!Block, Rr!Unpack, Rr!Release
    <3>2. Holders(at', components', granted')
      BY <1>2, <1>3, <1>4, <3>1 DEF Holders
    <3> QED BY <2>2, <3>2 DEF BuffersInv
  <2> QED BY <2>1, <2>2
<1> QED BY <1>3, <1>4, <1>5

LEMMA RunSecondKeeps ==
    ASSUME IInv, RunSecond
    PROVE  IInv'
<1> USE DEF IInv
<1>1. rr_iteration = Iterations /\ Next /\ UNCHANGED rr /\ ~ (rr_iteration < Iterations)
  BY Constants DEF RunSecond
<1>2. Holders(at, components, granted)
  BY <1>1 DEF BuffersInv
<1>3. BatchInv' /\ Holders(at', components', granted')
  BY <1>1, <1>2, BatchKeeps
<1>4. RrInv' /\ ~ (rr_iteration' < Iterations)
  BY <1>1, RrUnchanged DEF rr
<1> QED BY <1>3, <1>4 DEF BuffersInv

\* The invariant of the two kernels: where the workers are in their loops, what is in
\* each buffer and each sum, which output tiles are final, and who holds which buffer.
THEOREM InductiveInvariant == SequenceSpec => []IInv
<1>1. SequenceInit => IInv
  BY InitHolds
<1>2. IInv /\ [SequenceNext]_<<batch, rr, granted>> => IInv'
  <2> SUFFICES ASSUME IInv, [SequenceNext]_<<batch, rr, granted>> PROVE IInv'
    OBVIOUS
  <2>1. CASE RunFirst
    BY <2>1, RunFirstKeeps
  <2>2. CASE RunSecond
    BY <2>2, RunSecondKeeps
  <2>3. CASE UNCHANGED <<batch, rr, granted>>
    <3>1. RrInv' /\ BatchInv'
      BY <2>3, RrUnchanged, BatchUnchanged DEF IInv
    <3>2. UNCHANGED <<rr_iteration, rr_at, buffer, at, components, granted>>
      BY <2>3 DEF batch, rr
    <3> QED BY <3>1, <3>2 DEF IInv, BuffersInv, Holders
  <2> QED BY <2>1, <2>2, <2>3 DEF SequenceNext
<1> QED BY <1>1, <1>2, PTL DEF SequenceSpec

\* Whatever the other kernel has left in the buffers, and however many of its workers
\* were refused one, each kernel ends with the products of its operands.
THEOREM ProductsAreRightAlways == SequenceSpec => []ProductsAreRight
<1>1. IInv => ProductsAreRight
  <2> SUFFICES ASSUME IInv PROVE ProductsAreRight
    OBVIOUS
  <2> USE DEF IInv
  <2>1. ASSUME NEW w \in Worker, rr_at[w] = "unpack", NEW i \in 0 .. Rr!ChunkTiles(w) - 1
        PROVE  packed_c[buffer[w]][i] = Rr!Product(chunk_begin[w] + i, rr_tile_n[w])
    BY <2>1 DEF RrInv, RrSumsInv, RrChunkIs, RrProduct, Rr!Product
  <2>2. ASSUME rr_iteration = Iterations, NEW m \in RrRows, NEW n \in RrColumns
        PROVE  rr_output[m, n] = Rr!Product(m, n)
    BY <2>2, Constants DEF RrInv, RrOutputInv, RrProduct, Rr!Product
  <2>3. Rr!OutputIsProduct
    BY <2>1, <2>2, Constants DEF Rr!OutputIsProduct, RrRows, RrColumns
  <2>4. ASSUME NEW w \in Worker, at[w] = "copy"
        PROVE  acc[w] = Product(tile_m[w], tile_n[w])
    <3>1. WorkerSums(w) /\ bk[w] = BlocksK /\ count[w] = 0
      BY <2>4 DEF BatchInv, BatchSumsInv, BatchLoopInv
    <3>2. bk[w] - count[w] = BlocksK
      BY <3>1, Constants
    <3> QED BY <3>1, <3>2 DEF WorkerSums, BatchProduct, Product
  <2>5. ASSUME iteration = Iterations, NEW m \in Rows, NEW n \in Columns
        PROVE  output[m, n] = Product(m, n)
    BY <2>5, Constants DEF BatchInv, BatchOutputInv, BatchProduct, Product
  <2>6. OutputIsProduct
    BY <2>4, <2>5 DEF OutputIsProduct, Rows, Columns
  <2> QED BY <2>3, <2>6 DEF ProductsAreRight
<1> QED BY <1>1, InductiveInvariant, PTL

\* Nothing is granted but what workers of the running kernel use, no two the same, and
\* the second kernel finds every buffer free.
THEOREM BuffersReturnedAlways == SequenceSpec => []BuffersReturned
<1>1. IInv => BuffersReturned
  <2> SUFFICES ASSUME IInv PROVE BuffersReturned
    OBVIOUS
  <2>1. CASE rr_iteration < Iterations
    <3>1. Holders(rr_at, buffer, granted)
      BY <2>1 DEF IInv, BuffersInv
    <3>2. granted = { buffer[w] : w \in { v \in Worker : rr_at[v] # "acquire" } } \cap TcmBuffers
      BY <3>1, HoldersAre
    <3> QED BY <2>1, <3>1, <3>2, Constants DEF BuffersReturned, Rr!HoldersMatch, Holders
  <2>2. CASE ~ (rr_iteration < Iterations)
    <3>1. Holders(at, components, granted)
      BY <2>2 DEF IInv, BuffersInv
    <3>2. granted = { components[w] : w \in { v \in Worker : at[v] # "acquire" } } \cap TcmBuffers
      BY <3>1, HoldersAre
    <3> QED BY <2>2, <3>1, <3>2 DEF BuffersReturned, HoldersMatch, Holders
  <2> QED BY <2>1, <2>2
<1> QED BY <1>1, InductiveInvariant, PTL
===============================================================================
