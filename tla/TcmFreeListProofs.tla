------------------------- MODULE TcmFreeListProofs -------------------------
(***************************************************************************)
(* What the free-list operators of TcmFreeList return.  A list is          *)
(* described by three facts: it is a sequence of blocks, it is coalesced   *)
(* (CoalescedList), and which bytes it covers.                             *)
(*                                                                         *)
(* Then, one arena as a partition of its bytes: the free blocks and the    *)
(* live allocations share no byte and leave none out.  An allocation and a *)
(* deallocation keep it so, the free blocks are never more than the        *)
(* allocations plus one, and the first-fit scan finds whatever room there  *)
(* is.  Everything is about the two lists of one arena, of any size.       *)
(***************************************************************************)
EXTENDS TcmFreeList, FiniteSetTheorems, SequenceTheorems, WellFoundedInduction, TLAPS

(* The sequence operators of SequencesExt that the array manipulations are  *)
(* written with, index by index.                                            *)

\* A non-empty set of naturals has a least element, and Min denotes it.
LEMMA MinOfNaturals ==
    ASSUME NEW T \in SUBSET Nat, T # {}
    PROVE  /\ Min(T) \in T
           /\ \A x \in T : Min(T) <= x
<1>1. PICK m \in T : \A y \in T : ~ (<<y, m>> \in OpToRel(<, Nat))
  BY NatLessThanWellFounded, WFMin
<1>2. \A y \in T : m <= y
  <2>1. SUFFICES ASSUME NEW y \in T, y < m  PROVE  FALSE
    OBVIOUS
  <2>2. <<y, m>> \in Nat \X Nat /\ <<y, m>>[1] < <<y, m>>[2]
    BY <2>1
  <2>3. <<y, m>> \in OpToRel(<, Nat)
    BY <2>2, Zenon DEF OpToRel
  <2> QED BY <1>1, <2>3
<1> QED BY <1>2 DEF Min

LEMMA InsertAtProperties ==
    ASSUME NEW S, NEW s \in Seq(S), NEW e \in S, NEW i \in 1 .. Len(s) + 1
    PROVE  /\ InsertAt(s, i, e) \in Seq(S)
           /\ Len(InsertAt(s, i, e)) = Len(s) + 1
           /\ \A j \in 1 .. Len(s) + 1 :
                InsertAt(s, i, e)[j] =
                  IF j < i THEN s[j] ELSE IF j = i THEN e ELSE s[j - 1]
<1> DEFINE l == SubSeq(s, 1, i - 1)
           r == SubSeq(s, i, Len(s))
           le == l \o <<e>>
<1>0. Len(s) \in Nat /\ i \in Int /\ i - 1 \in Int /\ \A k \in 1 .. Len(s) : s[k] \in S
  BY LenProperties, ElementOfSeq
<1>1. /\ l \in Seq(S) /\ Len(l) = i - 1
      /\ \A k \in 1 .. i - 1 : l[k] = s[k]
  <2>1. \A k \in 1 .. i - 1 : s[k] \in S
    BY <1>0
  <2> QED BY <1>0, <2>1, SubSeqProperties
<1>2. /\ r \in Seq(S) /\ Len(r) = Len(s) - i + 1
      /\ \A k \in 1 .. Len(s) - i + 1 : r[k] = s[i + k - 1]
  <2>1. \A k \in i .. Len(s) : s[k] \in S
    BY <1>0
  <2> QED BY <1>0, <2>1, SubSeqProperties
<1>3. /\ <<e>> \in Seq(S) /\ Len(<<e>>) = 1 /\ <<e>>[1] = e
  OBVIOUS
<1> HIDE DEF l, r
<1>4. /\ le \in Seq(S) /\ Len(le) = i
      /\ \A k \in 1 .. i : le[k] = IF k < i THEN s[k] ELSE e
  BY <1>0, <1>1, <1>3, ConcatProperties
<1>7. InsertAt(s, i, e) = le \o r
  BY DEF InsertAt, l, r
<1> HIDE DEF le
<1>5. /\ le \o r \in Seq(S)
      /\ Len(le \o r) = i + Len(r)
      /\ \A j \in 1 .. i + Len(r) : (le \o r)[j] =
            IF j <= i THEN le[j] ELSE r[j - i]
  BY <1>2, <1>4, ConcatProperties
<1>6. \A j \in 1 .. Len(s) + 1 : j > i => r[j - i] = s[j - 1]
  BY <1>0, <1>2
<1> QED BY <1>0, <1>2, <1>4, <1>5, <1>6, <1>7

LEMMA RemoveAtProperties ==
    ASSUME NEW S, NEW s \in Seq(S), NEW i \in 1 .. Len(s)
    PROVE  /\ RemoveAt(s, i) \in Seq(S)
           /\ Len(RemoveAt(s, i)) = Len(s) - 1
           /\ \A j \in 1 .. Len(s) - 1 :
                RemoveAt(s, i)[j] = IF j < i THEN s[j] ELSE s[j + 1]
<1> DEFINE l == SubSeq(s, 1, i - 1)
           r == SubSeq(s, i + 1, Len(s))
<1>0. Len(s) \in Nat /\ i \in Int /\ i - 1 \in Int /\ \A k \in 1 .. Len(s) : s[k] \in S
  BY LenProperties, ElementOfSeq
<1>1. /\ l \in Seq(S) /\ Len(l) = i - 1
      /\ \A k \in 1 .. i - 1 : l[k] = s[k]
  <2>1. \A k \in 1 .. i - 1 : s[k] \in S
    BY <1>0
  <2> QED BY <1>0, <2>1, SubSeqProperties
<1>2. /\ r \in Seq(S) /\ Len(r) = Len(s) - i
      /\ \A k \in 1 .. Len(s) - i : r[k] = s[i + k]
  <2>1. \A k \in i + 1 .. Len(s) : s[k] \in S
    BY <1>0
  <2>2. /\ r \in Seq(S)
        /\ Len(r) = IF i + 1 <= Len(s) THEN Len(s) - (i + 1) + 1 ELSE 0
        /\ \A k \in 1 .. Len(s) - (i + 1) + 1 : r[k] = s[i + 1 + k - 1]
    BY <1>0, <2>1, SubSeqProperties
  <2> QED BY <1>0, <2>2
<1>3. RemoveAt(s, i) = l \o r
  BY DEF RemoveAt, l, r
<1> HIDE DEF l, r
<1>4. /\ l \o r \in Seq(S)
      /\ Len(l \o r) = Len(l) + Len(r)
      /\ \A j \in 1 .. Len(l) + Len(r) : (l \o r)[j] =
            IF j <= Len(l) THEN l[j] ELSE r[j - Len(l)]
  BY <1>1, <1>2, ConcatProperties
<1>5. \A j \in 1 .. Len(s) - 1 : j >= i => r[j - (i - 1)] = s[j + 1]
  BY <1>0, <1>2
<1>6. Len(l) + Len(r) = Len(s) - 1
  BY <1>0, <1>1, <1>2
<1>7. ASSUME NEW j \in 1 .. Len(s) - 1
      PROVE  (l \o r)[j] = IF j < i THEN s[j] ELSE s[j + 1]
  <2>1. (l \o r)[j] = IF j <= i - 1 THEN l[j] ELSE r[j - (i - 1)]
    BY <1>1, <1>4, <1>6
  <2>2. CASE j < i
    BY <1>0, <1>1, <2>1, <2>2
  <2>3. CASE j >= i
    BY <1>0, <1>5, <2>1, <2>3
  <2>4. j < i \/ j >= i
    BY ONLY <1>0, j \in 1 .. Len(s) - 1
  <2> QED BY ONLY <2>2, <2>3, <2>4, Zenon
<1> QED BY <1>3, <1>4, <1>6, <1>7

LEMMA ReplaceAtProperties ==
    ASSUME NEW S, NEW s \in Seq(S), NEW i \in 1 .. Len(s), NEW e \in S
    PROVE  /\ ReplaceAt(s, i, e) \in Seq(S)
           /\ Len(ReplaceAt(s, i, e)) = Len(s)
           /\ \A j \in 1 .. Len(s) :
                ReplaceAt(s, i, e)[j] = IF j = i THEN e ELSE s[j]
BY ExceptSeq DEF ReplaceAt

LEMMA FrontProperties ==
    ASSUME NEW S, NEW s \in Seq(S), Len(s) > 0
    PROVE  /\ Front(s) \in Seq(S)
           /\ Len(Front(s)) = Len(s) - 1
           /\ \A j \in 1 .. Len(s) - 1 : Front(s)[j] = s[j]
<1> DEFINE n == Len(s) - 1
           r == SubSeq(s, 1, n)
<1>1. n \in Nat /\ \A k \in 1 .. n : s[k] \in S
  BY LenProperties, ElementOfSeq
<1> HIDE DEF n
<1>2. /\ r \in Seq(S)
      /\ Len(r) = IF 1 <= n THEN n - 1 + 1 ELSE 0
      /\ \A j \in 1 .. n - 1 + 1 : r[j] = s[1 + j - 1]
  BY <1>1, SubSeqProperties
<1>3. Front(s) = r
  BY DEF Front, n
<1> HIDE DEF r
<1>4. Len(r) = n /\ \A j \in 1 .. n : r[j] = s[j]
  BY <1>1, <1>2
<1> QED BY <1>2, <1>3, <1>4 DEF n

----------------------------------------------------------------------------
\* Sorted by offset without overlap, neighbours may touch: what the list is
\* between the insertion of a block and the merges.
Sorted(blocks) ==
    /\ \A i \in DOMAIN blocks : blocks[i].size > 0
    /\ \A i, j \in DOMAIN blocks : i < j => BlockEnd(blocks[i]) <= blocks[j].offset

\* Sizes add up within the naturals.
LEMMA SumNat == \A x, y \in Nat : x + y \in Nat /\ x <= x + y
OBVIOUS

\* Blocks of a sequence have natural offsets, sizes and ends.
LEMMA BlockFacts ==
    ASSUME NEW f \in Seq(Block)
    PROVE  /\ Len(f) \in Nat
           /\ DOMAIN f = 1 .. Len(f)
           /\ \A i \in 1 .. Len(f) :
                /\ f[i] \in Block /\ f[i].offset \in Nat /\ f[i].size \in Nat
                /\ BlockEnd(f[i]) \in Nat
                /\ BlockEnd(f[i]) = f[i].offset + f[i].size
                /\ f[i].offset <= BlockEnd(f[i])
<1>1. Len(f) \in Nat /\ DOMAIN f = 1 .. Len(f) /\ \A i \in 1 .. Len(f) : f[i] \in Block
  BY LenProperties, ElementOfSeq
<1>2. \A b \in Block : b.offset \in Nat /\ b.size \in Nat /\ BlockEnd(b) = b.offset + b.size
  BY DEF Block, BlockEnd
<1>3. \A b \in Block : BlockEnd(b) \in Nat /\ b.offset <= BlockEnd(b)
  BY <1>2, SumNat, Zenon
<1> QED BY ONLY <1>1, <1>2, <1>3, Zenon

\* The array operations on lists of blocks.
LEMMA ReplaceBlock ==
    ASSUME NEW f \in Seq(Block), NEW i \in 1 .. Len(f), NEW block \in Block
    PROVE  /\ ReplaceAt(f, i, block) \in Seq(Block)
           /\ Len(ReplaceAt(f, i, block)) = Len(f)
           /\ \A j \in 1 .. Len(f) :
                ReplaceAt(f, i, block)[j] = IF j = i THEN block ELSE f[j]
BY ReplaceAtProperties

LEMMA InsertBlock ==
    ASSUME NEW f \in Seq(Block), NEW i \in 1 .. Len(f) + 1, NEW block \in Block
    PROVE  /\ InsertAt(f, i, block) \in Seq(Block)
           /\ Len(InsertAt(f, i, block)) = Len(f) + 1
           /\ \A j \in 1 .. Len(f) + 1 :
                InsertAt(f, i, block)[j] =
                  IF j < i THEN f[j] ELSE IF j = i THEN block ELSE f[j - 1]
BY InsertAtProperties

LEMMA RemoveBlock ==
    ASSUME NEW f \in Seq(Block), NEW i \in 1 .. Len(f)
    PROVE  /\ RemoveAt(f, i) \in Seq(Block)
           /\ Len(RemoveAt(f, i)) = Len(f) - 1
           /\ \A j \in 1 .. Len(f) - 1 :
                RemoveAt(f, i)[j] = IF j < i THEN f[j] ELSE f[j + 1]
BY RemoveAtProperties

\* A sorted list without touching neighbours is coalesced.
LEMMA SortedNoTouch ==
    ASSUME NEW f \in Seq(Block), Sorted(f), \A i \in Int : ~ Touch(f, i)
    PROVE  CoalescedList(f)
<1>1. SUFFICES ASSUME NEW i \in 1 .. Len(f), NEW j \in 1 .. Len(f), i < j
               PROVE  BlockEnd(f[i]) < f[j].offset
  BY BlockFacts DEF CoalescedList, Sorted
<1>2. /\ i + 1 \in 1 .. Len(f) /\ i \in Int
      /\ BlockEnd(f[i]) < f[i + 1].offset
  <2>1. i + 1 \in 1 .. Len(f) /\ i \in Int
    BY <1>1, BlockFacts
  <2>2. BlockEnd(f[i]) <= f[i + 1].offset
    BY <2>1, BlockFacts DEF Sorted
  <2>3. BlockEnd(f[i]) # f[i + 1].offset
    BY <2>1, BlockFacts DEF Touch
  <2>4. BlockEnd(f[i]) \in Nat /\ f[i + 1].offset \in Nat
    BY <2>1, BlockFacts
  <2> QED BY <2>1, <2>2, <2>3, <2>4
<1>3. CASE j = i + 1
  BY <1>2, <1>3
<1>4. CASE j # i + 1
  <2>1. i + 1 < j /\ Len(f) \in Nat
    BY <1>1, <1>4, BlockFacts
  <2>2. BlockEnd(f[i + 1]) <= f[j].offset /\ f[i + 1].size > 0
    BY <1>2, <2>1, BlockFacts DEF Sorted
  <2>3. /\ BlockEnd(f[i]) \in Nat /\ f[i + 1].offset \in Nat /\ f[i + 1].size \in Nat
        /\ BlockEnd(f[i + 1]) = f[i + 1].offset + f[i + 1].size
        /\ f[j].offset \in Nat
    BY <1>2, BlockFacts
  <2> QED BY <1>2, <2>2, <2>3
<1> QED BY <1>3, <1>4

LEMMA CoalescedNoTouch ==
    ASSUME NEW f \in Seq(Block), CoalescedList(f)
    PROVE  Sorted(f) /\ \A i \in Int : ~ Touch(f, i)
<1>1. Sorted(f)
  <2>1. \A i, j \in 1 .. Len(f) : i < j => BlockEnd(f[i]) < f[j].offset
    BY BlockFacts DEF CoalescedList
  <2>2. \A i \in 1 .. Len(f) : BlockEnd(f[i]) \in Nat /\ f[i].offset \in Nat
    BY BlockFacts
  <2>3. \A i, j \in 1 .. Len(f) : i < j => BlockEnd(f[i]) <= f[j].offset
    BY <2>1, <2>2
  <2> QED BY <2>3, BlockFacts DEF CoalescedList, Sorted
<1>2. ASSUME NEW i \in Int, Touch(f, i)  PROVE FALSE
  <2>1. i \in 1 .. Len(f) /\ i + 1 \in 1 .. Len(f) /\ i < i + 1
    BY <1>2, BlockFacts DEF Touch
  <2>2. BlockEnd(f[i]) < f[i + 1].offset /\ BlockEnd(f[i]) \in Nat
    BY <2>1, BlockFacts DEF CoalescedList
  <2> QED BY <1>2, <2>2 DEF Touch
<1> QED BY <1>1, <1>2

\* Absorbing the next block: index by index.
LEMMA MergeProperties ==
    ASSUME NEW f \in Seq(Block), NEW k \in Int, Touch(f, k)
    PROVE  /\ Merge(f, k) \in Seq(Block)
           /\ Len(Merge(f, k)) = Len(f) - 1
           /\ \A j \in 1 .. Len(f) - 1 :
                Merge(f, k)[j] =
                  IF j < k THEN f[j]
                  ELSE IF j = k
                  THEN [offset |-> f[k].offset, size |-> f[k].size + f[k + 1].size]
                  ELSE f[j + 1]
<1> DEFINE wide == [offset |-> f[k].offset, size |-> f[k].size + f[k + 1].size]
           g == ReplaceAt(f, k, wide)
<1>1. k \in 1 .. Len(f) /\ k + 1 \in 1 .. Len(f) /\ Len(f) \in Nat
  BY BlockFacts DEF Touch
<1>2. wide \in Block
  <2>1. f[k].offset \in Nat /\ f[k].size \in Nat /\ f[k + 1].size \in Nat
    <3>1. \A j \in 1 .. Len(f) : f[j].offset \in Nat /\ f[j].size \in Nat
      BY ONLY f \in Seq(Block), BlockFacts
    <3>2. f[k].offset \in Nat /\ f[k].size \in Nat
      BY ONLY <1>1, <3>1, Zenon
    <3>3. f[k + 1].size \in Nat
      BY ONLY <1>1, <3>1, Zenon
    <3> QED BY ONLY <3>2, <3>3, Zenon
  <2>2. f[k].size + f[k + 1].size \in Nat
    BY ONLY <2>1, SumNat, Zenon
  <2> QED BY ONLY <2>1, <2>2 DEF wide, Block
<1> HIDE DEF wide
<1>3. /\ g \in Seq(Block) /\ Len(g) = Len(f)
      /\ \A j \in 1 .. Len(f) : g[j] = IF j = k THEN wide ELSE f[j]
  <2>1. /\ ReplaceAt(f, k, wide) \in Seq(Block) /\ Len(ReplaceAt(f, k, wide)) = Len(f)
        /\ \A j \in 1 .. Len(f) :
             ReplaceAt(f, k, wide)[j] = IF j = k THEN wide ELSE f[j]
    <3> HIDE DEF g
    <3> QED BY ONLY f \in Seq(Block), <1>1, <1>2, ReplaceBlock
  <2> QED BY ONLY <2>1, Zenon
<1>4. Merge(f, k) = RemoveAt(g, k + 1)
  BY DEF Merge, wide
<1> HIDE DEF g
<1>5. /\ RemoveAt(g, k + 1) \in Seq(Block)
      /\ Len(RemoveAt(g, k + 1)) = Len(g) - 1
      /\ \A j \in 1 .. Len(g) - 1 :
           RemoveAt(g, k + 1)[j] = IF j < k + 1 THEN g[j] ELSE g[j + 1]
  BY <1>1, <1>3, RemoveBlock
<1> QED BY <1>1, <1>3, <1>4, <1>5 DEF wide

\* Absorbing the next block keeps a list sorted and covers the same bytes,
\* and moves the places where neighbours touch along.
LEMMA MergeKeeps ==
    ASSUME NEW f \in Seq(Block), NEW k \in Int, Sorted(f), Touch(f, k)
    PROVE  /\ Sorted(Merge(f, k))
           /\ \A byte \in Nat : Covers(Merge(f, k), byte) <=> Covers(f, byte)
           /\ \A i \in Int : Touch(Merge(f, k), i)
                => (Touch(f, i) /\ i < k) \/ (Touch(f, i + 1) /\ i >= k)
<1> DEFINE g == Merge(f, k)
           merged == [offset |-> f[k].offset, size |-> f[k].size + f[k + 1].size]
<1>1. /\ g \in Seq(Block) /\ Len(g) = Len(f) - 1
      /\ \A j \in 1 .. Len(f) - 1 :
           g[j] = IF j < k THEN f[j] ELSE IF j = k THEN merged ELSE f[j + 1]
  BY MergeProperties
<1>2. /\ k \in 1 .. Len(f) /\ k + 1 \in 1 .. Len(f) /\ Len(f) \in Nat
      /\ BlockEnd(f[k]) = f[k + 1].offset
  BY BlockFacts DEF Touch
<1>3. /\ merged.offset = f[k].offset /\ merged.size = f[k].size + f[k + 1].size
      /\ BlockEnd(merged) = BlockEnd(f[k + 1])
  BY <1>2, BlockFacts DEF BlockEnd
<1> HIDE DEF g, merged
<1>4. /\ DOMAIN g = 1 .. Len(f) - 1 /\ DOMAIN f = 1 .. Len(f)
      /\ \A i \in 1 .. Len(f) :
           /\ f[i].offset \in Nat /\ f[i].size \in Nat /\ f[i].size > 0
           /\ BlockEnd(f[i]) \in Nat /\ BlockEnd(f[i]) = f[i].offset + f[i].size
  BY <1>1, BlockFacts DEF Sorted
<1>5. \A i, j \in 1 .. Len(f) : i < j => BlockEnd(f[i]) <= f[j].offset
  BY <1>4 DEF Sorted
\* offset, end and size of the entries of g in terms of those of f
<1>6. \A j \in 1 .. Len(f) - 1 :
        /\ g[j].offset = IF j <= k THEN f[j].offset ELSE f[j + 1].offset
        /\ BlockEnd(g[j]) = IF j < k THEN BlockEnd(f[j]) ELSE BlockEnd(f[j + 1])
        /\ g[j].size > 0
  <2> TAKE j \in 1 .. Len(f) - 1
  <2>1. j \in 1 .. Len(f) /\ j + 1 \in 1 .. Len(f) /\ k \in Int /\ j \in Int
    BY <1>2
  <2>2. CASE j < k
    BY <1>1, <1>4, <2>1, <2>2
  <2>3. CASE j = k
    <3>1. g[j] = merged
      BY <1>1, <2>1, <2>3
    <3> QED BY <1>2, <1>3, <1>4, <2>1, <2>3, <3>1
  <2>4. CASE j > k
    <3>1. g[j] = f[j + 1]
      BY <1>1, <2>1, <2>4
    <3> QED BY <1>4, <2>1, <2>4, <3>1
  <2> QED BY <2>1, <2>2, <2>3, <2>4
<1>7. Sorted(g)
  <2>1. ASSUME NEW i \in 1 .. Len(f) - 1, NEW j \in 1 .. Len(f) - 1, i < j
        PROVE  BlockEnd(g[i]) <= g[j].offset
    <3>1. /\ i \in 1 .. Len(f) /\ i + 1 \in 1 .. Len(f)
          /\ j \in 1 .. Len(f) /\ j + 1 \in 1 .. Len(f)
          /\ i \in Int /\ j \in Int /\ k \in Int /\ i < j + 1 /\ i + 1 < j + 1
      BY <1>2, <2>1
    <3>2. CASE j <= k
      <4>1. BlockEnd(g[i]) = BlockEnd(f[i]) /\ g[j].offset = f[j].offset
        BY <1>6, <2>1, <3>1, <3>2
      <4> QED BY <1>5, <2>1, <3>1, <4>1
    <3>3. CASE j > k
      <4>1. g[j].offset = f[j + 1].offset
        BY <1>6, <3>1, <3>3
      <4>2. BlockEnd(g[i]) = BlockEnd(f[i]) \/ BlockEnd(g[i]) = BlockEnd(f[i + 1])
        BY <1>6
      <4> QED BY <1>5, <3>1, <4>1, <4>2
    <3> QED BY <3>1, <3>2, <3>3
  <2> QED BY <1>4, <1>6, <2>1 DEF Sorted
<1>8. ASSUME NEW byte \in Nat  PROVE  Covers(g, byte) <=> Covers(f, byte)
  <2>1. ASSUME NEW j \in 1 .. Len(f) - 1, g[j].offset <= byte, byte < BlockEnd(g[j])
        PROVE  Covers(f, byte)
    <3>1. j # k => \E i \in 1 .. Len(f) : f[i].offset <= byte /\ byte < BlockEnd(f[i])
      <4>1. j \in 1 .. Len(f) /\ j + 1 \in 1 .. Len(f)
        BY <1>2
      <4> QED BY <1>2, <1>6, <2>1, <4>1
    <3>2. j = k => f[k].offset <= byte /\ byte < BlockEnd(f[k + 1])
      BY <1>2, <1>6, <2>1
    <3>3. CASE j = k
      <4>1. BlockEnd(f[k]) = f[k + 1].offset /\ f[k + 1].offset \in Nat
        BY <1>2, <1>4
      <4>2. byte < BlockEnd(f[k]) \/ f[k + 1].offset <= byte
        BY <4>1
      <4> QED BY <1>2, <1>4, <3>2, <3>3, <4>2 DEF Covers
    <3> QED BY <1>4, <3>1, <3>3 DEF Covers
  <2>2. ASSUME NEW i \in 1 .. Len(f), f[i].offset <= byte, byte < BlockEnd(f[i])
        PROVE  Covers(g, byte)
    <3>1. CASE i <= k
      <4>1. i \in 1 .. Len(f) - 1 /\ g[i].offset = f[i].offset
        BY <1>2, <1>6, <3>1
      <4>2. byte < BlockEnd(g[i])
        BY <1>2, <1>4, <1>6, <2>2, <3>1, <4>1
      <4> QED BY <1>4, <2>2, <4>1, <4>2 DEF Covers
    <3>2. CASE i > k
      <4>1. i - 1 \in 1 .. Len(f) - 1 /\ i - 1 + 1 = i
        BY <1>2, <3>2
      <4>2. BlockEnd(g[i - 1]) = BlockEnd(f[i])
        BY <1>2, <1>6, <3>2, <4>1
      <4>3. g[i - 1].offset <= byte
        <5>1. CASE i - 1 = k
          <6>1. g[i - 1].offset = f[k].offset
            BY <1>2, <1>6, <4>1, <5>1
          <6>2. f[k].offset <= BlockEnd(f[k]) /\ BlockEnd(f[k]) = f[i].offset
            BY <1>2, <1>4, <5>1
          <6> QED BY <1>2, <1>4, <2>2, <6>1, <6>2
        <5>2. CASE i - 1 # k
          BY <1>2, <1>6, <2>2, <3>2, <4>1, <5>2
        <5> QED BY <5>1, <5>2
      <4> QED BY <1>4, <2>2, <4>1, <4>2, <4>3 DEF Covers
    <3> QED BY <1>2, <3>1, <3>2
  <2> QED BY <1>4, <2>1, <2>2 DEF Covers
<1>9. ASSUME NEW i \in Int, Touch(g, i)
      PROVE  (Touch(f, i) /\ i < k) \/ (Touch(f, i + 1) /\ i >= k)
  <2>1. /\ i >= 1 /\ i + 1 <= Len(f) - 1 /\ i \in 1 .. Len(f) - 1 /\ i + 1 \in 1 .. Len(f) - 1
        /\ BlockEnd(g[i]) = g[i + 1].offset
    BY <1>1, <1>2, <1>9 DEF Touch
  <2>2. CASE i < k
    BY <1>2, <1>6, <2>1, <2>2 DEF Touch
  <2>3. CASE i >= k
    BY <1>2, <1>6, <2>1, <2>3 DEF Touch
  <2> QED BY <1>2, <2>1, <2>2, <2>3
<1> QED BY <1>7, <1>8, <1>9 DEF g

\* Where the while loop of insert_free_block stops: entries before it start
\* lower than the block, the entry at it does not.
LEMMA InsertPositionProperties ==
    ASSUME NEW f \in Seq(Block), NEW block \in Block
    PROVE  LET at == InsertPosition(f, block) IN
           /\ at \in 1 .. Len(f) + 1
           /\ \A j \in 1 .. Len(f) : j < at => f[j].offset < block.offset
           /\ at <= Len(f) => f[at].offset >= block.offset
<1> DEFINE I == {i \in 1 .. Len(f) : f[i].offset >= block.offset}
<1>1. /\ Len(f) \in Nat /\ DOMAIN f = 1 .. Len(f) /\ block.offset \in Nat
      /\ \A i \in 1 .. Len(f) : f[i].offset \in Nat
  BY BlockFacts DEF Block
<1>2. CASE I = {}
  <2>1. InsertPosition(f, block) = Len(f) + 1
    BY <1>1, <1>2 DEF InsertPosition
  <2>2. \A j \in 1 .. Len(f) : f[j].offset < block.offset
    BY <1>1, <1>2
  <2> QED BY <1>1, <2>1, <2>2
<1>3. CASE I # {}
  <2>1. I \in SUBSET Nat
    BY <1>1
  <2>2. Min(I) \in I /\ \A x \in I : Min(I) <= x
    BY <1>3, <2>1, MinOfNaturals
  <2>3. InsertPosition(f, block) = Min(I)
    BY <1>1, <1>3 DEF InsertPosition, SelectInSeq
  <2>4. \A j \in 1 .. Len(f) : j < Min(I) => f[j].offset < block.offset
    BY <1>1, <2>1, <2>2
  <2> QED BY <1>1, <2>2, <2>3, <2>4
<1> QED BY <1>2, <1>3

\* Coalescing at the only two places that may touch leaves one place.
LEMMA CoalesceFirst ==
    ASSUME NEW f \in Seq(Block), NEW k \in Int, Sorted(f),
           \A i \in Int : Touch(f, i) => i = k \/ i = k + 1
    PROVE  LET g == Coalesce(f, k) IN
           /\ g \in Seq(Block)
           /\ Sorted(g)
           /\ \A byte \in Nat : Covers(g, byte) <=> Covers(f, byte)
           /\ \A i \in Int : Touch(g, i) => i = IF Touch(f, k) THEN k ELSE k + 1
<1>1. CASE Touch(f, k)
  <2>1. Coalesce(f, k) = Merge(f, k)
    BY <1>1 DEF Coalesce
  <2>2. \A i \in Int : Touch(Merge(f, k), i) => i = k
    <3>1. SUFFICES ASSUME NEW i \in Int, Touch(Merge(f, k), i)  PROVE i = k
      OBVIOUS
    <3>2. (Touch(f, i) /\ i < k) \/ (Touch(f, i + 1) /\ i >= k)
      BY <1>1, <3>1, MergeKeeps
    <3>3. i + 1 \in Int
      BY ONLY i \in Int
    <3>4. CASE Touch(f, i) /\ i < k
      <4>1. i = k \/ i = k + 1
        BY ONLY <3>4, i \in Int, \A j \in Int : Touch(f, j) => j = k \/ j = k + 1, Zenon
      <4> QED BY ONLY <3>4, <4>1, i \in Int, k \in Int
    <3>5. CASE Touch(f, i + 1) /\ i >= k
      <4>1. i + 1 = k \/ i + 1 = k + 1
        BY ONLY <3>5, <3>3, \A j \in Int : Touch(f, j) => j = k \/ j = k + 1, Zenon
      <4> QED BY ONLY <3>5, <4>1, i \in Int, k \in Int
    <3> QED BY ONLY <3>2, <3>4, <3>5
  <2>3. /\ Merge(f, k) \in Seq(Block) /\ Sorted(Merge(f, k))
        /\ \A byte \in Nat : Covers(Merge(f, k), byte) <=> Covers(f, byte)
    BY <1>1, MergeProperties, MergeKeeps, Zenon
  <2> QED BY <1>1, <2>1, <2>2, <2>3, Zenon
<1>2. CASE ~ Touch(f, k)
  BY <1>2 DEF Coalesce
<1> QED BY <1>1, <1>2

\* Coalescing at the only place that may touch leaves none.
LEMMA CoalesceLast ==
    ASSUME NEW f \in Seq(Block), NEW k \in Int, Sorted(f),
           \A i \in Int : Touch(f, i) => i = k
    PROVE  LET g == Coalesce(f, k) IN
           /\ g \in Seq(Block)
           /\ CoalescedList(g)
           /\ \A byte \in Nat : Covers(g, byte) <=> Covers(f, byte)
<1>1. CASE Touch(f, k)
  <2>1. Coalesce(f, k) = Merge(f, k)
    BY <1>1 DEF Coalesce
  <2>2. \A i \in Int : ~ Touch(Merge(f, k), i)
    <3>1. SUFFICES ASSUME NEW i \in Int, Touch(Merge(f, k), i)  PROVE FALSE
      OBVIOUS
    <3>2. (Touch(f, i) /\ i < k) \/ (Touch(f, i + 1) /\ i >= k)
      BY <1>1, <3>1, MergeKeeps
    <3>3. i + 1 \in Int
      OBVIOUS
    <3> QED BY <3>2, <3>3
  <2>3. Merge(f, k) \in Seq(Block) /\ Sorted(Merge(f, k))
    BY <1>1, MergeProperties, MergeKeeps
  <2> QED BY <1>1, <2>1, <2>2, <2>3, MergeKeeps, SortedNoTouch
<1>2. CASE ~ Touch(f, k)
  BY <1>2, SortedNoTouch DEF Coalesce
<1> QED BY <1>1, <1>2

\* A returned block that overlaps no free one: the list stays coalesced, and
\* exactly the block's bytes are added to what it covers.
LEMMA InsertFreeBlockProperties ==
    ASSUME NEW f \in Seq(Block), CoalescedList(f),
           NEW block \in Block, block.size > 0,
           \A i \in DOMAIN f : Disjoint(f[i], block)
    PROVE  /\ InsertFreeBlock(f, block) \in Seq(Block)
           /\ CoalescedList(InsertFreeBlock(f, block))
           /\ \A byte \in Nat :
                Covers(InsertFreeBlock(f, block), byte)
                  <=> \/ Covers(f, byte)
                      \/ block.offset <= byte /\ byte < BlockEnd(block)
<1> DEFINE at == InsertPosition(f, block)
           g == InsertAt(f, at, block)
           here == IF Touch(g, at - 1) THEN at - 1 ELSE at
<1>1. /\ Len(f) \in Nat /\ DOMAIN f = 1 .. Len(f)
      /\ \A i \in 1 .. Len(f) :
           /\ f[i].offset \in Nat /\ f[i].size \in Nat /\ f[i].size > 0
           /\ BlockEnd(f[i]) \in Nat /\ BlockEnd(f[i]) = f[i].offset + f[i].size
           /\ f[i].offset <= BlockEnd(f[i])
      /\ \A i, j \in 1 .. Len(f) : i < j => BlockEnd(f[i]) < f[j].offset
      /\ \A i \in 1 .. Len(f) :
           BlockEnd(f[i]) <= block.offset \/ BlockEnd(block) <= f[i].offset
      /\ block.offset \in Nat /\ block.size \in Nat
      /\ BlockEnd(block) \in Nat /\ BlockEnd(block) = block.offset + block.size
  <2>1. block.offset \in Nat /\ block.size \in Nat
    BY DEF Block
  <2>2. /\ Len(f) \in Nat /\ DOMAIN f = 1 .. Len(f)
        /\ \A i \in 1 .. Len(f) :
             /\ f[i].offset \in Nat /\ f[i].size \in Nat
             /\ BlockEnd(f[i]) \in Nat /\ BlockEnd(f[i]) = f[i].offset + f[i].size
             /\ f[i].offset <= BlockEnd(f[i])
    BY BlockFacts
  <2>3. BlockEnd(block) \in Nat /\ BlockEnd(block) = block.offset + block.size
    BY <2>1 DEF BlockEnd
  <2>4. /\ \A i \in 1 .. Len(f) : f[i].size > 0
        /\ \A i, j \in 1 .. Len(f) : i < j => BlockEnd(f[i]) < f[j].offset
    BY <2>2 DEF CoalescedList
  <2>5. \A i \in 1 .. Len(f) :
           BlockEnd(f[i]) <= block.offset \/ BlockEnd(block) <= f[i].offset
    BY <2>2 DEF Disjoint
  <2> QED BY <2>1, <2>2, <2>3, <2>4, <2>5
<1>2. /\ at \in 1 .. Len(f) + 1
      /\ \A j \in 1 .. Len(f) : j < at => f[j].offset < block.offset
      /\ at <= Len(f) => f[at].offset >= block.offset
  BY InsertPositionProperties
<1> HIDE DEF at
<1>3. /\ g \in Seq(Block) /\ Len(g) = Len(f) + 1
      /\ \A j \in 1 .. Len(f) + 1 :
           g[j] = IF j < at THEN f[j] ELSE IF j = at THEN block ELSE f[j - 1]
  BY <1>2, InsertBlock
<1> HIDE DEF g
<1>4. DOMAIN g = 1 .. Len(f) + 1
  BY <1>3, BlockFacts
\* entries before the block end at or before it, the others start after it
<1>5. /\ \A j \in 1 .. Len(f) : j < at => BlockEnd(f[j]) <= block.offset
      /\ \A j \in 1 .. Len(f) : j >= at => BlockEnd(block) <= f[j].offset
  <2>1. ASSUME NEW j \in 1 .. Len(f), j < at  PROVE BlockEnd(f[j]) <= block.offset
    BY <1>1, <1>2, <2>1
  <2>2. ASSUME NEW j \in 1 .. Len(f), j >= at  PROVE BlockEnd(block) <= f[j].offset
    <3>1. at \in 1 .. Len(f) /\ f[at].offset >= block.offset
      BY <1>1, <1>2, <2>2
    <3>2. BlockEnd(block) <= f[at].offset
      <4>1. /\ BlockEnd(f[at]) <= block.offset \/ BlockEnd(block) <= f[at].offset
            /\ f[at].size > 0
        BY ONLY <1>1, <3>1
      <4>2. /\ BlockEnd(f[at]) = f[at].offset + f[at].size
            /\ f[at].offset \in Int /\ f[at].size \in Int
            /\ block.offset \in Int /\ BlockEnd(block) \in Int
        BY ONLY <1>1, <3>1
      <4> QED BY ONLY <3>1, <4>1, <4>2
    <3>3. CASE j = at
      BY <3>2, <3>3
    <3>4. CASE j # at
      <4>1. at < j
        BY <1>1, <1>2, <2>2, <3>4
      <4>2. BlockEnd(f[at]) < f[j].offset
        BY ONLY <1>1, <3>1, <2>2, <4>1
      <4>4. f[at].offset <= BlockEnd(f[at])
        BY ONLY <1>1, <3>1, Zenon
      <4>3. /\ BlockEnd(block) \in Int /\ f[at].offset \in Int
            /\ BlockEnd(f[at]) \in Int /\ f[j].offset \in Int
        BY ONLY <1>1, <3>1, <2>2
      <4> QED BY ONLY <3>2, <4>2, <4>3, <4>4
    <3> QED BY <3>3, <3>4
  <2> QED BY <2>1, <2>2
<1>6. ASSUME NEW i \in 1 .. Len(f) + 1, NEW j \in 1 .. Len(f) + 1, i < j
      PROVE  /\ BlockEnd(g[i]) <= g[j].offset
             /\ i # at /\ j # at => BlockEnd(g[i]) < g[j].offset
  <2>1. at \in Int /\ i \in Int /\ j \in Int
    BY <1>2
  <2>2. CASE j < at
    <3>1. g[i] = f[i] /\ g[j] = f[j] /\ i \in 1 .. Len(f) /\ j \in 1 .. Len(f)
      BY <1>1, <1>2, <1>3, <1>6, <2>1, <2>2
    <3> QED BY <1>1, <1>6, <3>1
  <2>3. CASE j = at
    <3>1. g[i] = f[i] /\ g[j] = block /\ i \in 1 .. Len(f) /\ i < at
      BY <1>1, <1>2, <1>3, <1>6, <2>1, <2>3
    <3> QED BY <1>5, <2>3, <3>1
  <2>4. CASE at < j /\ i < at
    <3>1. /\ g[i] = f[i] /\ g[j] = f[j - 1] /\ i \in 1 .. Len(f) /\ j - 1 \in 1 .. Len(f)
          /\ i < j - 1 \/ i = j - 1
      BY <1>1, <1>2, <1>3, <1>6, <2>1, <2>4
    <3>2. i < j - 1
      BY <1>2, <2>1, <2>4
    <3> QED BY <1>1, <3>1, <3>2
  <2>5. CASE i = at
    <3>1. g[i] = block /\ g[j] = f[j - 1] /\ j - 1 \in 1 .. Len(f) /\ j - 1 >= at
      BY <1>1, <1>2, <1>3, <1>6, <2>1, <2>5
    <3> QED BY <1>5, <2>5, <3>1
  <2>6. CASE at < i
    <3>1. /\ g[i] = f[i - 1] /\ g[j] = f[j - 1]
          /\ i - 1 \in 1 .. Len(f) /\ j - 1 \in 1 .. Len(f) /\ i - 1 < j - 1
      BY <1>1, <1>2, <1>3, <1>6, <2>1, <2>6
    <3>2. /\ BlockEnd(f[i - 1]) < f[j - 1].offset
          /\ BlockEnd(f[i - 1]) \in Nat /\ f[j - 1].offset \in Nat
      BY <1>1, <3>1
    <3> QED BY <3>1, <3>2
  <2> QED BY <1>6, <2>1, <2>2, <2>3, <2>4, <2>5, <2>6
<1>7. Sorted(g)
  <2>1. \A j \in 1 .. Len(f) + 1 : g[j].size > 0
    <3> TAKE j \in 1 .. Len(f) + 1
    <3>1. \/ g[j] = block
          \/ j \in 1 .. Len(f) /\ g[j] = f[j]
          \/ j - 1 \in 1 .. Len(f) /\ g[j] = f[j - 1]
      BY <1>1, <1>2, <1>3
    <3> QED BY <1>1, <3>1
  <2> QED BY <1>4, <1>6, <2>1 DEF Sorted
<1>8. \A i \in Int : Touch(g, i) => i = at - 1 \/ i = at - 1 + 1
  <2>1. SUFFICES ASSUME NEW i \in Int, Touch(g, i), i # at - 1, i # at  PROVE FALSE
    BY <1>2
  <2>2. /\ i \in 1 .. Len(f) + 1 /\ i + 1 \in 1 .. Len(f) + 1 /\ i < i + 1
        /\ i # at /\ i + 1 # at /\ BlockEnd(g[i]) = g[i + 1].offset
    BY <1>1, <1>2, <1>3, <2>1 DEF Touch
  <2>3. BlockEnd(g[i]) < g[i + 1].offset /\ BlockEnd(g[i]) \in Nat
    BY <1>3, <1>6, <2>2, BlockFacts
  <2> QED BY <2>2, <2>3
<1>9. \A byte \in Nat :
        Covers(g, byte) <=> \/ Covers(f, byte)
                            \/ block.offset <= byte /\ byte < BlockEnd(block)
  <2> TAKE byte \in Nat
  <2>1. ASSUME NEW j \in 1 .. Len(f) + 1, g[j].offset <= byte, byte < BlockEnd(g[j])
        PROVE  Covers(f, byte) \/ (block.offset <= byte /\ byte < BlockEnd(block))
    <3>1. \/ g[j] = block
          \/ j \in 1 .. Len(f) /\ g[j] = f[j]
          \/ j - 1 \in 1 .. Len(f) /\ g[j] = f[j - 1]
      BY <1>1, <1>2, <1>3
    <3> QED BY <1>1, <2>1, <3>1 DEF Covers
  <2>2. ASSUME NEW j \in 1 .. Len(f), f[j].offset <= byte, byte < BlockEnd(f[j])
        PROVE  Covers(g, byte)
    <3>1. /\ j \in 1 .. Len(f) + 1 /\ j + 1 \in 1 .. Len(f) + 1
          /\ g[j] = f[j] \/ g[j + 1] = f[j]
      BY <1>1, <1>2, <1>3
    <3> QED BY <1>4, <2>2, <3>1 DEF Covers
  <2>3. ASSUME block.offset <= byte, byte < BlockEnd(block)
        PROVE  Covers(g, byte)
    <3>1. at \in 1 .. Len(f) + 1 /\ g[at] = block
      BY <1>1, <1>2, <1>3
    <3> QED BY <1>4, <2>3, <3>1 DEF Covers
  <2> QED BY <1>1, <1>4, <2>1, <2>2, <2>3 DEF Covers
<1>10. at - 1 \in Int /\ here \in Int /\ here = IF Touch(g, at - 1) THEN at - 1 ELSE at - 1 + 1
  BY <1>2 DEF here
<1> DEFINE h == Coalesce(g, at - 1)
<1>11. /\ h \in Seq(Block) /\ Sorted(h)
       /\ \A byte \in Nat : Covers(h, byte) <=> Covers(g, byte)
       /\ \A i \in Int : Touch(h, i) => i = here
  BY <1>3, <1>7, <1>8, <1>10, CoalesceFirst
<1>12. InsertFreeBlock(f, block) = Coalesce(h, here)
  BY DEF InsertFreeBlock, at, g, h, here
<1> HIDE DEF h, here
<1>13. /\ Coalesce(h, here) \in Seq(Block) /\ CoalescedList(Coalesce(h, here))
       /\ \A byte \in Nat : Covers(Coalesce(h, here), byte) <=> Covers(h, byte)
  BY <1>10, <1>11, CoalesceLast
<1> QED BY <1>9, <1>11, <1>12, <1>13

\* The first-fit scan stops at an entry the request fits in, and finds one when
\* there is one.
LEMMA FirstFitProperties ==
    ASSUME NEW f \in Seq(Block), NEW base, NEW bytes, NEW alignment
    PROVE  LET i == FirstFit(f, base, bytes, alignment) IN
           /\ i \in 0 .. Len(f)
           /\ i # 0 => Fits(f[i], AlignedOffset(base, f[i].offset, alignment), bytes)
           /\ i = 0 => \A j \in 1 .. Len(f) :
                         ~ Fits(f[j], AlignedOffset(base, f[j].offset, alignment), bytes)
<1> DEFINE I == {i \in 1 .. Len(f) :
                   Fits(f[i], AlignedOffset(base, f[i].offset, alignment), bytes)}
<1>1. Len(f) \in Nat
  BY BlockFacts
<1>2. FirstFit(f, base, bytes, alignment) = IF I # {} THEN Min(I) ELSE 0
  BY DEF FirstFit, SelectInSeq
<1>3. I \in SUBSET Nat
  BY <1>1
<1>4. CASE I = {}
  BY <1>1, <1>2, <1>4
<1>5. CASE I # {}
  <2>1. Min(I) \in I
    BY <1>3, <1>5, MinOfNaturals
  <2>2. Min(I) \in 1 .. Len(f) /\ Min(I) # 0
    BY <1>1, <2>1
  <2> QED BY <1>1, <1>2, <1>5, <2>1, <2>2
<1> QED BY <1>4, <1>5

\* deallocate's linear search returns an entry with the pointer, and finds one
\* when there is one.
LEMMA FindAllocationProperties ==
    ASSUME NEW a \in Seq(Block), NEW base, NEW pointer
    PROVE  LET i == FindAllocation(a, base, pointer) IN
           /\ i \in 0 .. Len(a)
           /\ i # 0 => base + a[i].offset = pointer
           /\ i = 0 => \A j \in 1 .. Len(a) : base + a[j].offset # pointer
<1> DEFINE I == {i \in 1 .. Len(a) : base + a[i].offset = pointer}
<1>1. Len(a) \in Nat
  BY BlockFacts
<1>2. FindAllocation(a, base, pointer) = IF I # {} THEN Min(I) ELSE 0
  BY DEF FindAllocation, SelectInSeq
<1>3. I \in SUBSET Nat
  BY <1>1
<1>4. CASE I = {}
  BY <1>1, <1>2, <1>4
<1>5. CASE I # {}
  <2>1. Min(I) \in I
    BY <1>3, <1>5, MinOfNaturals
  <2>2. Min(I) \in 1 .. Len(a) /\ Min(I) # 0
    BY <1>1, <2>1
  <2> QED BY <1>1, <1>2, <1>5, <2>1, <2>2
<1> QED BY <1>4, <1>5

\* Swap-removal drops entry i and keeps every other one.
LEMMA SwapRemoveProperties ==
    ASSUME NEW a \in Seq(Block), NEW i \in 1 .. Len(a)
    PROVE  /\ SwapRemove(a, i) \in Seq(Block)
           /\ Len(SwapRemove(a, i)) = Len(a) - 1
           /\ \A j \in 1 .. Len(a) - 1 :
                SwapRemove(a, i)[j] = IF j = i THEN a[Len(a)] ELSE a[j]
<1> DEFINE r == ReplaceAt(a, i, Last(a))
<1>1. Len(a) \in Nat /\ Len(a) \in 1 .. Len(a) /\ Last(a) = a[Len(a)] /\ Last(a) \in Block
  BY BlockFacts DEF Last
<1>2. /\ r \in Seq(Block) /\ Len(r) = Len(a)
      /\ \A j \in 1 .. Len(a) : r[j] = IF j = i THEN a[Len(a)] ELSE a[j]
  <2>1. \A w \in Block :
          /\ ReplaceAt(a, i, w) \in Seq(Block) /\ Len(ReplaceAt(a, i, w)) = Len(a)
          /\ \A j \in 1 .. Len(a) : ReplaceAt(a, i, w)[j] = IF j = i THEN w ELSE a[j]
    BY ReplaceBlock
  <2> QED BY ONLY <1>1, <2>1, Zenon
<1>3. SwapRemove(a, i) = Front(r)
  BY DEF SwapRemove
<1> HIDE DEF r
<1>4. /\ Front(r) \in Seq(Block) /\ Len(Front(r)) = Len(r) - 1
      /\ \A j \in 1 .. Len(r) - 1 : Front(r)[j] = r[j]
  BY <1>1, <1>2, FrontProperties
<1> QED BY <1>1, <1>2, <1>3, <1>4

\* The arithmetic facts of a coalesced list, in one place.
LEMMA CoalescedFacts ==
    ASSUME NEW f \in Seq(Block), CoalescedList(f)
    PROVE  /\ Len(f) \in Nat /\ DOMAIN f = 1 .. Len(f)
           /\ \A i \in 1 .. Len(f) :
                /\ f[i] \in Block
                /\ f[i].offset \in Nat /\ f[i].size \in Nat /\ f[i].size > 0
                /\ BlockEnd(f[i]) \in Nat /\ BlockEnd(f[i]) = f[i].offset + f[i].size
                /\ f[i].offset <= BlockEnd(f[i])
           /\ \A i, j \in 1 .. Len(f) : i < j => BlockEnd(f[i]) < f[j].offset
BY BlockFacts DEF CoalescedList

\* Shrinking one entry to a non-empty part of it.
LEMMA ShrinkProperties ==
    ASSUME NEW f \in Seq(Block), CoalescedList(f), NEW i \in 1 .. Len(f),
           NEW part \in Block, part.size > 0,
           f[i].offset <= part.offset, BlockEnd(part) <= BlockEnd(f[i])
    PROVE  /\ ReplaceAt(f, i, part) \in Seq(Block)
           /\ Len(ReplaceAt(f, i, part)) = Len(f)
           /\ ReplaceAt(f, i, part)[i] = part
           /\ \A j \in 1 .. Len(f) : j # i => ReplaceAt(f, i, part)[j] = f[j]
           /\ CoalescedList(ReplaceAt(f, i, part))
           /\ \A byte \in Nat :
                Covers(ReplaceAt(f, i, part), byte)
                  <=> /\ Covers(f, byte)
                      /\ f[i].offset <= byte /\ byte < BlockEnd(f[i])
                           => part.offset <= byte /\ byte < BlockEnd(part)
<1> DEFINE g == ReplaceAt(f, i, part)
<1>1. /\ Len(f) \in Nat /\ DOMAIN f = 1 .. Len(f)
      /\ \A j \in 1 .. Len(f) :
           /\ f[j].offset \in Nat /\ f[j].size > 0
           /\ BlockEnd(f[j]) \in Nat /\ f[j].offset <= BlockEnd(f[j])
      /\ \A j, k \in 1 .. Len(f) : j < k => BlockEnd(f[j]) < f[k].offset
  BY CoalescedFacts
<1>2. /\ g \in Seq(Block) /\ Len(g) = Len(f) /\ DOMAIN g = 1 .. Len(f) /\ g[i] = part
      /\ \A j \in 1 .. Len(f) : j # i => g[j] = f[j]
  <2>2. /\ g \in Seq(Block) /\ Len(g) = Len(f)
        /\ \A j \in 1 .. Len(f) : g[j] = IF j = i THEN part ELSE f[j]
    BY ReplaceBlock
  <2> HIDE DEF g
  <2> QED BY <2>2, BlockFacts
<1>3. part.offset \in Nat /\ part.size \in Nat /\ BlockEnd(part) = part.offset + part.size
  BY DEF Block, BlockEnd
<1> HIDE DEF g
<1>4. \A j \in 1 .. Len(f) : /\ g[j].size > 0
                             /\ f[j].offset <= g[j].offset
                             /\ BlockEnd(g[j]) <= BlockEnd(f[j])
                             /\ BlockEnd(g[j]) \in Nat /\ g[j].offset \in Nat
  <2> TAKE j \in 1 .. Len(f)
  <2>1. CASE j = i
    BY <1>1, <1>2, <1>3, <2>1
  <2>2. CASE j # i
    BY <1>1, <1>2, <2>2
  <2> QED BY <2>1, <2>2
<1>5. CoalescedList(g)
  <2>1. ASSUME NEW j \in 1 .. Len(f), NEW k \in 1 .. Len(f), j < k
        PROVE  BlockEnd(g[j]) < g[k].offset
    <3>1. BlockEnd(f[j]) < f[k].offset
      BY ONLY <1>1, <2>1
    <3>2. /\ BlockEnd(g[j]) <= BlockEnd(f[j]) /\ f[k].offset <= g[k].offset
          /\ BlockEnd(g[j]) \in Int /\ g[k].offset \in Int
      BY ONLY <1>4, <2>1
    <3>3. BlockEnd(f[j]) \in Int /\ f[k].offset \in Int
      BY ONLY <1>1, <2>1
    <3> QED BY ONLY <3>1, <3>2, <3>3
  <2> QED BY <1>2, <1>4, <2>1 DEF CoalescedList
<1>6. ASSUME NEW byte \in Nat
      PROVE  Covers(g, byte) <=> /\ Covers(f, byte)
                                 /\ f[i].offset <= byte /\ byte < BlockEnd(f[i])
                                      => part.offset <= byte /\ byte < BlockEnd(part)
  <2>1. ASSUME NEW j \in 1 .. Len(f), g[j].offset <= byte, byte < BlockEnd(g[j])
        PROVE  /\ Covers(f, byte)
               /\ f[i].offset <= byte /\ byte < BlockEnd(f[i])
                    => part.offset <= byte /\ byte < BlockEnd(part)
    <3>1. f[j].offset <= byte /\ byte < BlockEnd(f[j])
      BY <1>1, <1>4, <2>1
    <3>2. CASE j = i
      BY <1>1, <1>2, <2>1, <3>1, <3>2 DEF Covers
    <3>3. CASE j # i
      <4>1. ~ (f[i].offset <= byte /\ byte < BlockEnd(f[i]))
        <5>1. j < i \/ i < j
          BY <1>1, <3>3
        <5> QED BY <1>1, <3>1, <5>1
      <4> QED BY <1>1, <3>1, <4>1 DEF Covers
    <3> QED BY <3>2, <3>3
  <2>2. ASSUME NEW j \in 1 .. Len(f), f[j].offset <= byte, byte < BlockEnd(f[j]),
               f[i].offset <= byte /\ byte < BlockEnd(f[i])
                 => part.offset <= byte /\ byte < BlockEnd(part)
        PROVE  Covers(g, byte)
    <3>1. CASE j = i
      BY <1>2, <2>2, <3>1 DEF Covers
    <3>2. CASE j # i
      BY <1>2, <2>2, <3>2 DEF Covers
    <3> QED BY <3>1, <3>2
  <2> QED BY <1>1, <1>2, <2>1, <2>2 DEF Covers
<1> QED BY <1>2, <1>5, <1>6 DEF g

\* Inserting a block into the gap before entry i.
LEMMA InsertInGapProperties ==
    ASSUME NEW f \in Seq(Block), CoalescedList(f), NEW i \in 1 .. Len(f),
           NEW part \in Block, part.size > 0,
           BlockEnd(part) < f[i].offset,
           \A j \in 1 .. Len(f) : j < i => BlockEnd(f[j]) < part.offset
    PROVE  /\ InsertAt(f, i, part) \in Seq(Block)
           /\ CoalescedList(InsertAt(f, i, part))
           /\ \A byte \in Nat :
                Covers(InsertAt(f, i, part), byte)
                  <=> \/ Covers(f, byte)
                      \/ part.offset <= byte /\ byte < BlockEnd(part)
<1> DEFINE g == InsertAt(f, i, part)
<1>1. /\ Len(f) \in Nat /\ DOMAIN f = 1 .. Len(f)
      /\ \A j \in 1 .. Len(f) :
           /\ f[j].offset \in Nat /\ f[j].size > 0
           /\ BlockEnd(f[j]) \in Nat /\ f[j].offset <= BlockEnd(f[j])
      /\ \A j, k \in 1 .. Len(f) : j < k => BlockEnd(f[j]) < f[k].offset
  BY CoalescedFacts
<1>2. part.offset \in Nat /\ part.size \in Nat /\ BlockEnd(part) = part.offset + part.size
  BY DEF Block, BlockEnd
<1>3. i \in 1 .. Len(f) + 1
  BY <1>1
<1>4. /\ g \in Seq(Block) /\ Len(g) = Len(f) + 1
      /\ \A j \in 1 .. Len(f) + 1 :
           g[j] = IF j < i THEN f[j] ELSE IF j = i THEN part ELSE f[j - 1]
  <2>1. f \in Seq(Block) /\ part \in Block
    OBVIOUS
  <2> QED BY ONLY <1>3, <2>1, InsertBlock
<1>5. DOMAIN g = 1 .. Len(f) + 1
  BY <1>4, BlockFacts
<1> HIDE DEF g
<1>6. \A j \in 1 .. Len(f) : j >= i => BlockEnd(part) < f[j].offset
  <2> TAKE j \in 1 .. Len(f)
  <2>1. CASE j = i
    BY <2>1
  <2>2. CASE j > i
    <3>1. BlockEnd(f[i]) < f[j].offset /\ f[i].offset <= BlockEnd(f[i])
      BY <1>1, <2>2
    <3> QED BY <1>1, <1>2, <3>1
  <2> QED BY <1>1, <2>1, <2>2
<1>7. ASSUME NEW j \in 1 .. Len(f) + 1, NEW k \in 1 .. Len(f) + 1, j < k
      PROVE  BlockEnd(g[j]) < g[k].offset
  <2>1. i \in Int /\ j \in Int /\ k \in Int
    OBVIOUS
  <2>2. CASE k < i
    <3>1. g[j] = f[j] /\ g[k] = f[k] /\ j \in 1 .. Len(f) /\ k \in 1 .. Len(f)
      BY <1>1, <1>4, <1>7, <2>1, <2>2
    <3> QED BY <1>1, <1>7, <3>1
  <2>3. CASE k = i
    <3>1. g[j] = f[j] /\ g[k] = part /\ j \in 1 .. Len(f) /\ j < i
      BY <1>1, <1>4, <1>7, <2>1, <2>3
    <3> QED BY <3>1
  <2>4. CASE i < k /\ j < i
    <3>1. /\ g[j] = f[j] /\ g[k] = f[k - 1] /\ j \in 1 .. Len(f) /\ k - 1 \in 1 .. Len(f)
          /\ j < k - 1
      BY <1>1, <1>4, <1>7, <2>1, <2>4
    <3> QED BY <1>1, <3>1
  <2>5. CASE j = i
    <3>1. g[j] = part /\ g[k] = f[k - 1] /\ k - 1 \in 1 .. Len(f) /\ k - 1 >= i
      BY <1>1, <1>4, <1>7, <2>1, <2>5
    <3> QED BY <1>6, <3>1
  <2>6. CASE i < j
    <3>1. /\ g[j] = f[j - 1] /\ g[k] = f[k - 1]
          /\ j - 1 \in 1 .. Len(f) /\ k - 1 \in 1 .. Len(f) /\ j - 1 < k - 1
      BY <1>1, <1>4, <1>7, <2>1, <2>6
    <3>2. BlockEnd(f[j - 1]) < f[k - 1].offset
      BY <1>1, <3>1
    <3> QED BY <3>1, <3>2
  <2> QED BY <1>7, <2>1, <2>2, <2>3, <2>4, <2>5, <2>6
<1>8. \A j \in 1 .. Len(f) + 1 : \/ g[j] = part
                                 \/ j \in 1 .. Len(f) /\ g[j] = f[j]
                                 \/ j - 1 \in 1 .. Len(f) /\ g[j] = f[j - 1]
  BY <1>1, <1>4
<1>9. CoalescedList(g)
  <2>1. \A j \in 1 .. Len(f) + 1 : g[j].size > 0
    BY <1>1, <1>8
  <2> QED BY <1>5, <1>7, <2>1 DEF CoalescedList
<1>10. ASSUME NEW byte \in Nat
       PROVE  Covers(g, byte) <=> \/ Covers(f, byte)
                                  \/ part.offset <= byte /\ byte < BlockEnd(part)
  <2>1. ASSUME NEW j \in 1 .. Len(f) + 1, g[j].offset <= byte, byte < BlockEnd(g[j])
        PROVE  Covers(f, byte) \/ (part.offset <= byte /\ byte < BlockEnd(part))
    BY <1>1, <1>8, <2>1 DEF Covers
  <2>2. ASSUME NEW j \in 1 .. Len(f), f[j].offset <= byte, byte < BlockEnd(f[j])
        PROVE  Covers(g, byte)
    <3>1. /\ j \in 1 .. Len(f) + 1 /\ j + 1 \in 1 .. Len(f) + 1
          /\ g[j] = f[j] \/ g[j + 1] = f[j]
      BY <1>1, <1>4
    <3> QED BY <1>5, <2>2, <3>1 DEF Covers
  <2>3. g[i] = part
    BY <1>3, <1>4
  <2> QED BY <1>1, <1>3, <1>5, <2>1, <2>2, <2>3 DEF Covers
<1> QED BY <1>4, <1>9, <1>10 DEF g

\* Removing an entry.
LEMMA RemoveProperties ==
    ASSUME NEW f \in Seq(Block), CoalescedList(f), NEW i \in 1 .. Len(f)
    PROVE  /\ RemoveAt(f, i) \in Seq(Block)
           /\ CoalescedList(RemoveAt(f, i))
           /\ \A byte \in Nat :
                Covers(RemoveAt(f, i), byte)
                  <=> /\ Covers(f, byte)
                      /\ ~ (f[i].offset <= byte /\ byte < BlockEnd(f[i]))
<1> DEFINE g == RemoveAt(f, i)
<1>1. /\ Len(f) \in Nat /\ DOMAIN f = 1 .. Len(f)
      /\ \A j \in 1 .. Len(f) :
           /\ f[j].offset \in Nat /\ f[j].size > 0
           /\ BlockEnd(f[j]) \in Nat /\ f[j].offset <= BlockEnd(f[j])
      /\ \A j, k \in 1 .. Len(f) : j < k => BlockEnd(f[j]) < f[k].offset
  BY CoalescedFacts
<1>2. /\ g \in Seq(Block) /\ Len(g) = Len(f) - 1
      /\ \A j \in 1 .. Len(f) - 1 : g[j] = IF j < i THEN f[j] ELSE f[j + 1]
  BY RemoveBlock
<1> HIDE DEF g
<1>3. DOMAIN g = 1 .. Len(f) - 1
  BY <1>2, BlockFacts
<1>4. ASSUME NEW j \in 1 .. Len(f) - 1, NEW k \in 1 .. Len(f) - 1, j < k
      PROVE  BlockEnd(g[j]) < g[k].offset
  <2>1. /\ j \in 1 .. Len(f) /\ j + 1 \in 1 .. Len(f)
        /\ k \in 1 .. Len(f) /\ k + 1 \in 1 .. Len(f)
        /\ j < k + 1 /\ j + 1 < k + 1
    BY <1>1, <1>4
  <2>2. CASE k < i
    <3>1. g[j] = f[j] /\ g[k] = f[k]
      BY <1>2, <1>4, <2>1, <2>2
    <3> QED BY <1>1, <1>4, <2>1, <3>1
  <2>3. CASE k >= i
    <3>1. (g[j] = f[j] \/ g[j] = f[j + 1]) /\ g[k] = f[k + 1]
      BY <1>2, <2>1, <2>3
    <3> QED BY <1>1, <2>1, <3>1
  <2> QED BY <2>1, <2>2, <2>3
<1>5. \A j \in 1 .. Len(f) - 1 :
        \/ j \in 1 .. Len(f) /\ j # i /\ g[j] = f[j]
        \/ j + 1 \in 1 .. Len(f) /\ j + 1 # i /\ g[j] = f[j + 1]
  BY <1>1, <1>2
<1>6. CoalescedList(g)
  <2>1. \A j \in 1 .. Len(f) - 1 : g[j].size > 0
    BY <1>1, <1>5
  <2> QED BY <1>3, <1>4, <2>1 DEF CoalescedList
<1>7. ASSUME NEW byte \in Nat, NEW j \in 1 .. Len(f), j # i,
             f[j].offset <= byte, byte < BlockEnd(f[j])
      PROVE  ~ (f[i].offset <= byte /\ byte < BlockEnd(f[i]))
  <2>1. j < i \/ i < j
    BY <1>1, <1>7
  <2> QED BY <1>1, <1>7, <2>1
<1>8. ASSUME NEW byte \in Nat
      PROVE  Covers(g, byte) <=> /\ Covers(f, byte)
                                 /\ ~ (f[i].offset <= byte /\ byte < BlockEnd(f[i]))
  <2>1. ASSUME NEW j \in 1 .. Len(f) - 1, g[j].offset <= byte, byte < BlockEnd(g[j])
        PROVE  /\ Covers(f, byte)
               /\ ~ (f[i].offset <= byte /\ byte < BlockEnd(f[i]))
    <3>1. PICK k \in 1 .. Len(f) : k # i /\ f[k] = g[j]
      BY <1>5
    <3>2. f[k].offset <= byte /\ byte < BlockEnd(f[k])
      BY <2>1, <3>1
    <3> QED BY <1>1, <1>7, <3>1, <3>2 DEF Covers
  <2>2. ASSUME NEW j \in 1 .. Len(f), f[j].offset <= byte, byte < BlockEnd(f[j]), j # i
        PROVE  Covers(g, byte)
    <3>1. \/ j \in 1 .. Len(f) - 1 /\ g[j] = f[j]
          \/ j - 1 \in 1 .. Len(f) - 1 /\ g[j - 1] = f[j]
      BY <1>1, <1>2, <2>2
    <3> QED BY <1>3, <2>2, <3>1 DEF Covers
  <2> QED BY <1>1, <1>3, <2>1, <2>2 DEF Covers
<1> QED BY <1>2, <1>6, <1>8 DEF g

\* Carving a request out of the entry it fits in: the list stays coalesced
\* and exactly the bytes handed out leave it.
LEMMA CarveProperties ==
    ASSUME NEW f \in Seq(Block), CoalescedList(f), NEW i \in 1 .. Len(f),
           NEW start \in Nat, NEW bytes \in Nat, bytes > 0,
           Fits(f[i], start, bytes)
    PROVE  /\ Carve(f, i, start, bytes) \in Seq(Block)
           /\ CoalescedList(Carve(f, i, start, bytes))
           /\ \A byte \in Nat :
                Covers(Carve(f, i, start, bytes), byte)
                  <=> /\ Covers(f, byte)
                      /\ ~ (start <= byte /\ byte < start + bytes)
<1> DEFINE prefix == [offset |-> f[i].offset, size |-> start - f[i].offset]
           suffix == [offset |-> start + bytes,
                      size   |-> BlockEnd(f[i]) - (start + bytes)]
           g == Carve(f, i, start, bytes)
<1>1. /\ Len(f) \in Nat /\ DOMAIN f = 1 .. Len(f)
      /\ \A j \in 1 .. Len(f) :
           /\ f[j].offset \in Nat /\ f[j].size \in Nat
           /\ BlockEnd(f[j]) \in Nat /\ BlockEnd(f[j]) = f[j].offset + f[j].size
      /\ \A j, k \in 1 .. Len(f) : j < k => BlockEnd(f[j]) < f[k].offset
  BY CoalescedFacts
<1>2. f[i].offset <= start /\ start + bytes <= BlockEnd(f[i])
  BY <1>1 DEF Fits
<1>3. /\ prefix \in Block /\ prefix.offset = f[i].offset
      /\ prefix.size = start - f[i].offset /\ prefix.size \in Nat
      /\ BlockEnd(prefix) = start
  <2>1. start - f[i].offset \in Nat /\ f[i].offset + (start - f[i].offset) = start
    BY <1>1, <1>2
  <2>2. prefix \in Block /\ prefix.offset = f[i].offset /\ prefix.size = start - f[i].offset
    BY <1>1, <2>1 DEF Block
  <2>3. BlockEnd(prefix) = prefix.offset + prefix.size
    BY DEF BlockEnd
  <2> QED BY <2>1, <2>2, <2>3
<1>4. /\ suffix \in Block /\ suffix.offset = start + bytes
      /\ suffix.size = BlockEnd(f[i]) - (start + bytes) /\ suffix.size \in Nat
      /\ BlockEnd(suffix) = BlockEnd(f[i])
  <2>1. BlockEnd(f[i]) - (start + bytes) \in Nat
    BY <1>1, <1>2
  <2>2. start + bytes + (BlockEnd(f[i]) - (start + bytes)) = BlockEnd(f[i])
    BY <1>1
  <2>3. suffix \in Block /\ suffix.offset = start + bytes
        /\ suffix.size = BlockEnd(f[i]) - (start + bytes)
    BY <2>1 DEF Block
  <2>4. BlockEnd(suffix) = suffix.offset + suffix.size
    BY DEF BlockEnd
  <2> QED BY <2>1, <2>2, <2>3, <2>4
<1>5. g = IF prefix.size # 0 /\ suffix.size # 0
          THEN InsertAt(ReplaceAt(f, i, suffix), i, prefix)
          ELSE IF prefix.size # 0 THEN ReplaceAt(f, i, prefix)
          ELSE IF suffix.size # 0 THEN ReplaceAt(f, i, suffix)
          ELSE RemoveAt(f, i)
  BY DEF Carve
<1> HIDE DEF prefix, suffix, g
<1>6. ASSUME NEW byte \in Nat
      PROVE  /\ prefix.size = 0 => ~ (f[i].offset <= byte /\ byte < start)
             /\ suffix.size = 0 => ~ (start + bytes <= byte /\ byte < BlockEnd(f[i]))
             /\ f[i].offset <= byte /\ byte < BlockEnd(f[i]) => Covers(f, byte)
  BY <1>1, <1>2, <1>3, <1>4 DEF Covers
<1>7. CASE prefix.size # 0 /\ suffix.size = 0
  <2>1. /\ ReplaceAt(f, i, prefix) \in Seq(Block)
        /\ CoalescedList(ReplaceAt(f, i, prefix))
        /\ \A byte \in Nat :
             Covers(ReplaceAt(f, i, prefix), byte)
               <=> /\ Covers(f, byte)
                   /\ f[i].offset <= byte /\ byte < BlockEnd(f[i])
                        => prefix.offset <= byte /\ byte < BlockEnd(prefix)
    <3>1. /\ f \in Seq(Block) /\ CoalescedList(f) /\ i \in 1 .. Len(f)
          /\ prefix \in Block /\ prefix.size > 0
          /\ f[i].offset <= prefix.offset /\ BlockEnd(prefix) <= BlockEnd(f[i])
      BY <1>1, <1>2, <1>3, <1>7
    <3> QED BY ONLY <3>1, ShrinkProperties
  <2>2. start + bytes = BlockEnd(f[i])
    <3>1. BlockEnd(f[i]) \in Nat /\ BlockEnd(f[i]) - (start + bytes) = 0
      BY <1>1, <1>4, <1>7
    <3> QED BY <3>1
  <2>3. g = ReplaceAt(f, i, prefix)
    BY <1>5, <1>7
  <2>4. ASSUME NEW byte \in Nat
        PROVE  Covers(g, byte) <=> /\ Covers(f, byte)
                                   /\ ~ (start <= byte /\ byte < start + bytes)
    <3>1. Covers(g, byte) <=> /\ Covers(f, byte)
                              /\ f[i].offset <= byte /\ byte < BlockEnd(f[i])
                                   => f[i].offset <= byte /\ byte < start
      BY <1>3, <2>1, <2>3
    <3> QED BY <1>1, <1>2, <2>2, <3>1
  <2> QED BY <2>1, <2>3, <2>4 DEF g
<1>8. ASSUME suffix.size # 0
      PROVE  /\ ReplaceAt(f, i, suffix) \in Seq(Block)
             /\ Len(ReplaceAt(f, i, suffix)) = Len(f)
             /\ ReplaceAt(f, i, suffix)[i] = suffix
             /\ \A j \in 1 .. Len(f) : j # i => ReplaceAt(f, i, suffix)[j] = f[j]
             /\ CoalescedList(ReplaceAt(f, i, suffix))
             /\ \A byte \in Nat :
                  Covers(ReplaceAt(f, i, suffix), byte)
                    <=> /\ Covers(f, byte)
                        /\ f[i].offset <= byte /\ byte < BlockEnd(f[i])
                             => suffix.offset <= byte /\ byte < BlockEnd(suffix)
  <2>1. /\ f \in Seq(Block) /\ CoalescedList(f) /\ i \in 1 .. Len(f)
        /\ suffix \in Block /\ suffix.size > 0
        /\ f[i].offset <= suffix.offset /\ BlockEnd(suffix) <= BlockEnd(f[i])
    BY <1>1, <1>2, <1>4, <1>8
  <2> QED BY ONLY <2>1, ShrinkProperties
<1>9. CASE prefix.size = 0 /\ suffix.size # 0
  <2>1. g = ReplaceAt(f, i, suffix) /\ start = f[i].offset
    <3>1. start = f[i].offset
      BY <1>1, <1>3, <1>9
    <3> QED BY <1>5, <1>9, <3>1
  <2>2. ASSUME NEW byte \in Nat
        PROVE  Covers(g, byte) <=> /\ Covers(f, byte)
                                   /\ ~ (start <= byte /\ byte < start + bytes)
    <3>1. Covers(g, byte) <=> /\ Covers(f, byte)
                              /\ f[i].offset <= byte /\ byte < BlockEnd(f[i])
                                   => start + bytes <= byte /\ byte < BlockEnd(f[i])
      BY <1>4, <1>8, <1>9, <2>1
    <3> QED BY <1>1, <1>2, <2>1, <3>1
  <2> QED BY <1>8, <1>9, <2>1, <2>2 DEF g
<1>10. CASE prefix.size # 0 /\ suffix.size # 0
  <2> DEFINE h == ReplaceAt(f, i, suffix)
  <2>1. /\ h \in Seq(Block) /\ CoalescedList(h) /\ i \in 1 .. Len(h)
        /\ BlockEnd(prefix) < h[i].offset
        /\ \A j \in 1 .. Len(h) : j < i => BlockEnd(h[j]) < prefix.offset
    <3>1. start < start + bytes
      OBVIOUS
    <3>2. \A j \in 1 .. Len(f) : j < i => BlockEnd(f[j]) < f[i].offset
      BY <1>1
    <3> QED BY <1>3, <1>4, <1>8, <1>10, <3>1, <3>2
  <2> HIDE DEF h
  <2>2. /\ InsertAt(h, i, prefix) \in Seq(Block)
        /\ CoalescedList(InsertAt(h, i, prefix))
        /\ \A byte \in Nat :
             Covers(InsertAt(h, i, prefix), byte)
               <=> \/ Covers(h, byte)
                   \/ prefix.offset <= byte /\ byte < BlockEnd(prefix)
    BY <1>3, <1>10, <2>1, InsertInGapProperties
  <2>3. g = InsertAt(h, i, prefix)
    BY <1>5, <1>10 DEF h
  <2>4. ASSUME NEW byte \in Nat
        PROVE  Covers(h, byte)
                 <=> /\ Covers(f, byte)
                     /\ f[i].offset <= byte /\ byte < BlockEnd(f[i])
                          => suffix.offset <= byte /\ byte < BlockEnd(suffix)
    BY <1>8, <1>10 DEF h
  <2>5. ASSUME NEW byte \in Nat
        PROVE  Covers(g, byte) <=> /\ Covers(f, byte)
                                   /\ ~ (start <= byte /\ byte < start + bytes)
    <3>1. Covers(g, byte)
            <=> \/ /\ Covers(f, byte)
                   /\ f[i].offset <= byte /\ byte < BlockEnd(f[i])
                        => start + bytes <= byte /\ byte < BlockEnd(f[i])
                \/ f[i].offset <= byte /\ byte < start
      BY <1>3, <1>4, <2>2, <2>3, <2>4
    <3> QED BY <1>1, <1>2, <1>6, <3>1
  <2> QED BY <2>2, <2>3, <2>5 DEF g
<1>11. CASE prefix.size = 0 /\ suffix.size = 0
  <2>1. /\ RemoveAt(f, i) \in Seq(Block) /\ CoalescedList(RemoveAt(f, i))
        /\ \A byte \in Nat :
             Covers(RemoveAt(f, i), byte)
               <=> /\ Covers(f, byte)
                   /\ ~ (f[i].offset <= byte /\ byte < BlockEnd(f[i]))
    BY RemoveProperties
  <2>2. start = f[i].offset /\ start + bytes = BlockEnd(f[i])
    <3>1. start - f[i].offset = 0 /\ BlockEnd(f[i]) - (start + bytes) = 0
      BY <1>3, <1>4, <1>11
    <3>2. f[i].offset \in Nat /\ BlockEnd(f[i]) \in Nat
      BY <1>1
    <3> QED BY <3>1, <3>2
  <2> QED BY <1>5, <1>11, <2>1, <2>2 DEF g
<1> QED BY <1>7, <1>9, <1>10, <1>11 DEF g

----------------------------------------------------------------------------
(* The arena as a partition of its bytes. *)

LEMMA IntervalFrom1 ==
    ASSUME NEW n \in Int
    PROVE  IsFiniteSet(1 .. n) /\ Cardinality(1 .. n) = IF 1 > n THEN 0 ELSE n
<1>1. 1 \in Int
  OBVIOUS
<1>2. IsFiniteSet(1 .. n) /\ Cardinality(1 .. n) = IF 1 > n THEN 0 ELSE n - 1 + 1
  BY <1>1, FS_Interval, Zenon
<1> QED BY <1>2

\* The byte after a free block is not free: the blocks are coalesced.
LEMMA EndNotCovered ==
    ASSUME NEW f \in Seq(Block), CoalescedList(f), NEW i \in 1 .. Len(f)
    PROVE  ~ Covers(f, BlockEnd(f[i]))
<1>1. /\ Len(f) \in Nat /\ DOMAIN f = 1 .. Len(f)
      /\ \A j \in 1 .. Len(f) :
           f[j].offset \in Nat /\ BlockEnd(f[j]) \in Nat /\ f[j].offset <= BlockEnd(f[j])
      /\ \A j, k \in 1 .. Len(f) : j < k => BlockEnd(f[j]) < f[k].offset
  BY CoalescedFacts
<1>2. SUFFICES ASSUME NEW k \in 1 .. Len(f),
                      f[k].offset <= BlockEnd(f[i]), BlockEnd(f[i]) < BlockEnd(f[k])
               PROVE  FALSE
  BY <1>1 DEF Covers
<1>3. /\ f[i].offset \in Int /\ f[k].offset \in Int
      /\ BlockEnd(f[i]) \in Int /\ BlockEnd(f[k]) \in Int
      /\ f[i].offset <= BlockEnd(f[i])
  BY <1>1
<1>4. k < i => BlockEnd(f[k]) < f[i].offset
  BY <1>1
<1>5. i < k => BlockEnd(f[i]) < f[k].offset
  BY <1>1
<1>6. k < i \/ k = i \/ i < k
  BY <1>1
<1> QED BY ONLY <1>2, <1>3, <1>4, <1>5, <1>6

\* In a partition of the arena into free blocks and allocations, each gap
\* between two free blocks starts with a byte of an allocation of its own.
LEMMA GapsNeedAllocations ==
    ASSUME NEW f \in Seq(Block), NEW a \in Seq(Block), NEW size \in Nat,
           CoalescedList(f),
           \A i \in DOMAIN a, j \in DOMAIN f : Disjoint(a[i], f[j]),
           \A byte \in 0 .. size - 1 : Covers(f, byte) \/ Covers(a, byte),
           \A i \in DOMAIN f : BlockEnd(f[i]) <= size
    PROVE  Len(f) <= Len(a) + 1
<1> DEFINE n == Len(f) - 1
           Holds(i, j) == a[j].offset <= BlockEnd(f[i]) /\ BlockEnd(f[i]) < BlockEnd(a[j])
           owner == [i \in 1 .. n |-> CHOOSE j \in 1 .. Len(a) : Holds(i, j)]
<1>1. /\ Len(f) \in Nat /\ DOMAIN f = 1 .. Len(f)
      /\ \A i \in 1 .. Len(f) :
           /\ f[i].offset \in Nat /\ f[i].size > 0
           /\ BlockEnd(f[i]) \in Nat /\ f[i].offset <= BlockEnd(f[i])
      /\ \A i, j \in 1 .. Len(f) : i < j => BlockEnd(f[i]) < f[j].offset
      /\ \A i \in 1 .. Len(f) : f[i].size \in Nat /\ BlockEnd(f[i]) = f[i].offset + f[i].size
  BY CoalescedFacts
<1>2. /\ Len(a) \in Nat /\ DOMAIN a = 1 .. Len(a)
      /\ \A i \in 1 .. Len(a) : a[i].offset \in Nat /\ BlockEnd(a[i]) \in Nat
  BY BlockFacts
<1>3. ASSUME NEW i \in 1 .. n  PROVE \E j \in 1 .. Len(a) : Holds(i, j)
  <2>1. i \in 1 .. Len(f) /\ i + 1 \in 1 .. Len(f)
    BY <1>1
  <2>2. BlockEnd(f[i]) < f[i + 1].offset /\ BlockEnd(f[i + 1]) <= size
    <3>1. i < i + 1
      OBVIOUS
    <3> QED BY <1>1, <2>1, <3>1
  <2>3. BlockEnd(f[i]) \in 0 .. size - 1
    BY <1>1, <2>1, <2>2
  <2>4. ~ Covers(f, BlockEnd(f[i]))
    BY <2>1, EndNotCovered
  <2> QED BY <1>2, <2>3, <2>4 DEF Covers
<1>4. \A i \in 1 .. n : owner[i] \in 1 .. Len(a) /\ Holds(i, owner[i])
  BY <1>3
<1>5. ASSUME NEW i \in 1 .. n, NEW k \in 1 .. n, i < k  PROVE owner[i] # owner[k]
  <2>1. SUFFICES ASSUME NEW j \in 1 .. Len(a), Holds(i, j), Holds(k, j)  PROVE FALSE
    BY <1>4
  <2>2. i \in 1 .. Len(f) /\ k \in 1 .. Len(f)
    BY <1>1
  <2>3. BlockEnd(a[j]) <= f[k].offset \/ BlockEnd(f[k]) <= a[j].offset
    BY <1>1, <1>2, <2>2 DEF Disjoint
  <2>4. BlockEnd(f[i]) < f[k].offset /\ f[k].size > 0
    BY <1>1, <1>5, <2>2
  <2>5. f[k].offset \in Nat /\ f[k].size \in Nat /\ BlockEnd(f[k]) = f[k].offset + f[k].size
    BY ONLY <1>1, <2>2, Zenon
  <2>6. BlockEnd(f[i]) \in Nat
    BY ONLY <1>1, <2>2, Zenon
  <2>7. a[j].offset \in Nat /\ BlockEnd(a[j]) \in Nat
    BY ONLY <1>2, <2>1, Zenon
  <2>8. f[k].offset <= BlockEnd(f[k])
    BY ONLY <2>5, SumNat, Zenon
  <2>9. CASE BlockEnd(a[j]) <= f[k].offset
    <3>1. BlockEnd(f[k]) < BlockEnd(a[j]) /\ BlockEnd(f[k]) \in Nat
      BY ONLY <2>1, <2>5, SumNat, Zenon
    <3> QED BY ONLY <2>5, <2>7, <2>8, <2>9, <3>1
  <2>10. CASE BlockEnd(f[k]) <= a[j].offset
    <3>1. a[j].offset <= BlockEnd(f[i])
      BY ONLY <2>1, Zenon
    <3>2. BlockEnd(f[k]) \in Nat
      BY ONLY <2>5, SumNat, Zenon
    <3>3. BlockEnd(f[k]) <= BlockEnd(f[i])
      BY ONLY <2>6, <2>7, <2>10, <3>1, <3>2
    <3>4. f[k].offset <= BlockEnd(f[i])
      BY ONLY <2>5, <2>6, <2>8, <3>2, <3>3
    <3>5. BlockEnd(f[i]) < f[k].offset /\ f[k].offset \in Nat
      BY ONLY <2>4, <2>5, Zenon
    <3> QED BY ONLY <2>6, <3>4, <3>5
  <2> QED BY ONLY <2>3, <2>9, <2>10
<1> HIDE DEF Holds
<1>6. owner \in Injection(1 .. n, 1 .. Len(a))
  <2>1. owner \in [1 .. n -> 1 .. Len(a)]
    BY <1>4
  <2>2. \A i, k \in 1 .. n : owner[i] = owner[k] => i = k
    <3>1. SUFFICES ASSUME NEW i \in 1 .. n, NEW k \in 1 .. n, i # k
                   PROVE  owner[i] # owner[k]
      OBVIOUS
    <3>2. i < k \/ k < i
      BY <3>1
    <3> HIDE DEF owner
    <3> QED BY <1>5, <3>2
  <2> QED BY <2>1, <2>2 DEF Injection, IsInjective
<1>7. IsFiniteSet(1 .. Len(a)) /\ Cardinality(1 .. Len(a)) = IF 1 > Len(a) THEN 0 ELSE Len(a)
  BY <1>2, IntervalFrom1
<1>8. n \in Int /\ Cardinality(1 .. n) = IF 1 > n THEN 0 ELSE n
  BY <1>1, IntervalFrom1
<1>9. Cardinality(1 .. n) <= Cardinality(1 .. Len(a))
  BY <1>6, <1>7, FS_Injection
<1> QED BY <1>1, <1>2, <1>7, <1>8, <1>9

----------------------------------------------------------------------------
\* The partition of the arena, byte by byte.
InBlock(block, byte) == block.offset <= byte /\ byte < BlockEnd(block)

NonEmpty(a) == \A i \in DOMAIN a : a[i].size > 0

ByteWise(f, a, size) ==
    /\ \A byte \in Nat : Covers(f, byte) \/ Covers(a, byte) <=> byte < size
    /\ \A byte \in Nat : ~ (Covers(f, byte) /\ Covers(a, byte))

LEMMA NonEmptyFacts ==
    ASSUME NEW a \in Seq(Block), NonEmpty(a)
    PROVE  /\ Len(a) \in Nat /\ DOMAIN a = 1 .. Len(a)
           /\ \A i \in 1 .. Len(a) :
                /\ a[i] \in Block
                /\ a[i].offset \in Nat /\ a[i].size \in Nat /\ a[i].size > 0
                /\ BlockEnd(a[i]) \in Nat /\ BlockEnd(a[i]) = a[i].offset + a[i].size
                /\ a[i].offset < BlockEnd(a[i])
           /\ \A byte : Covers(a, byte) <=> \E i \in 1 .. Len(a) : InBlock(a[i], byte)
<1>1. /\ Len(a) \in Nat /\ DOMAIN a = 1 .. Len(a)
      /\ \A i \in 1 .. Len(a) :
           /\ a[i] \in Block /\ a[i].offset \in Nat /\ a[i].size \in Nat
           /\ BlockEnd(a[i]) \in Nat /\ BlockEnd(a[i]) = a[i].offset + a[i].size
  BY BlockFacts
<1>2. \A i \in 1 .. Len(a) : a[i].size > 0 /\ a[i].offset < BlockEnd(a[i])
  BY <1>1 DEF NonEmpty
<1>3. \A byte : Covers(a, byte) <=> \E i \in 1 .. Len(a) : InBlock(a[i], byte)
  BY <1>1 DEF Covers, InBlock
<1> QED BY <1>1, <1>2, <1>3

\* Two non-empty blocks are disjoint exactly when they share no byte.
LEMMA DisjointMeansNoSharedByte ==
    ASSUME NEW b \in Block, NEW c \in Block, b.size > 0, c.size > 0
    PROVE  Disjoint(b, c) <=> \A byte \in Nat : ~ (InBlock(b, byte) /\ InBlock(c, byte))
<1>1. /\ b.offset \in Nat /\ b.size \in Nat /\ c.offset \in Nat /\ c.size \in Nat
      /\ BlockEnd(b) = b.offset + b.size /\ BlockEnd(c) = c.offset + c.size
  BY DEF Block, BlockEnd
<1>2. ASSUME Disjoint(b, c), NEW byte \in Nat, InBlock(b, byte), InBlock(c, byte)  PROVE FALSE
  BY <1>1, <1>2 DEF Disjoint, InBlock
<1>3. ASSUME ~ Disjoint(b, c)
      PROVE  \E byte \in Nat : InBlock(b, byte) /\ InBlock(c, byte)
  <2>1. c.offset < BlockEnd(b) /\ b.offset < BlockEnd(c)
    BY <1>1, <1>3 DEF Disjoint
  <2>2. CASE b.offset <= c.offset
    BY <1>1, <2>1, <2>2 DEF InBlock
  <2>3. CASE c.offset < b.offset
    BY <1>1, <2>1, <2>3 DEF InBlock
  <2> QED BY <1>1, <2>2, <2>3
<1> QED BY <1>2, <1>3

\* The partition stated over list entries is the partition stated over bytes.
LEMMA PartitionByteWise ==
    ASSUME NEW f \in Seq(Block), NEW a \in Seq(Block), NEW size \in Nat,
           CoalescedList(f), NonEmpty(a)
    PROVE  ByteWise(f, a, size)
             <=> /\ \A i \in DOMAIN a, j \in DOMAIN f : Disjoint(a[i], f[j])
                 /\ \A byte \in 0 .. size - 1 : Covers(f, byte) \/ Covers(a, byte)
                 /\ \A i \in DOMAIN f : BlockEnd(f[i]) <= size
                 /\ \A i \in DOMAIN a : BlockEnd(a[i]) <= size
<1>0. size \in Nat
  OBVIOUS
<1>1. NonEmpty(f)
  BY CoalescedFacts DEF NonEmpty
<1>2. \A i \in 1 .. Len(a), j \in 1 .. Len(f) :
        Disjoint(a[i], f[j]) <=> \A byte \in Nat : ~ (InBlock(a[i], byte) /\ InBlock(f[j], byte))
  <2> TAKE i \in 1 .. Len(a), j \in 1 .. Len(f)
  <2>1. a[i] \in Block /\ a[i].size > 0 /\ f[j] \in Block /\ f[j].size > 0
    BY <1>1, NonEmptyFacts
  <2> QED BY <2>1, DisjointMeansNoSharedByte
<1>3. (\A i \in 1 .. Len(a), j \in 1 .. Len(f) : Disjoint(a[i], f[j]))
        <=> \A byte \in Nat : ~ (Covers(f, byte) /\ Covers(a, byte))
  <2>1. \A byte \in Nat : Covers(f, byte) <=> \E j \in 1 .. Len(f) : InBlock(f[j], byte)
    BY <1>1, NonEmptyFacts
  <2>2. \A byte \in Nat : Covers(a, byte) <=> \E j \in 1 .. Len(a) : InBlock(a[j], byte)
    BY NonEmptyFacts
  <2> QED BY <1>2, <2>1, <2>2
<1>4. ASSUME NEW g \in Seq(Block), NonEmpty(g)
      PROVE  (\A i \in 1 .. Len(g) : BlockEnd(g[i]) <= size)
               <=> \A byte \in Nat : Covers(g, byte) => byte < size
  <2>1. /\ \A i \in 1 .. Len(g) :
             /\ g[i].offset \in Nat /\ BlockEnd(g[i]) \in Nat /\ g[i].offset < BlockEnd(g[i])
        /\ \A byte \in Nat : Covers(g, byte) <=> \E i \in 1 .. Len(g) : InBlock(g[i], byte)
    BY <1>4, NonEmptyFacts
  <2>2. ASSUME \A i \in 1 .. Len(g) : BlockEnd(g[i]) <= size, NEW byte \in Nat, Covers(g, byte)
        PROVE  byte < size
    BY <1>0, <2>1, <2>2 DEF InBlock
  <2>3. ASSUME \A byte \in Nat : Covers(g, byte) => byte < size, NEW i \in 1 .. Len(g)
        PROVE  BlockEnd(g[i]) <= size
    <3>1. BlockEnd(g[i]) - 1 \in Nat /\ InBlock(g[i], BlockEnd(g[i]) - 1)
      BY <2>1 DEF InBlock
    <3>2. BlockEnd(g[i]) - 1 < size
      BY <2>1, <2>3, <3>1
    <3> QED BY <1>0, <2>1, <3>2
  <2> QED BY <2>2, <2>3
<1>5. DOMAIN f = 1 .. Len(f) /\ DOMAIN a = 1 .. Len(a)
  BY BlockFacts
<1>6. (\A i \in 1 .. Len(f) : BlockEnd(f[i]) <= size)
        <=> \A byte \in Nat : Covers(f, byte) => byte < size
  BY <1>1, <1>4
<1>7. (\A i \in 1 .. Len(a) : BlockEnd(a[i]) <= size)
        <=> \A byte \in Nat : Covers(a, byte) => byte < size
  BY <1>4
<1>8. (\A byte \in 0 .. size - 1 : Covers(f, byte) \/ Covers(a, byte))
        <=> \A byte \in Nat : byte < size => Covers(f, byte) \/ Covers(a, byte)
  BY <1>0
<1>9. ByteWise(f, a, size)
        <=> /\ \A byte \in Nat : ~ (Covers(f, byte) /\ Covers(a, byte))
            /\ \A byte \in Nat : byte < size => Covers(f, byte) \/ Covers(a, byte)
            /\ \A byte \in Nat : Covers(f, byte) => byte < size
            /\ \A byte \in Nat : Covers(a, byte) => byte < size
  BY DEF ByteWise
<1> QED BY <1>3, <1>5, <1>6, <1>7, <1>8, <1>9

----------------------------------------------------------------------------
Separate(a) == \A i, j \in DOMAIN a : i # j => Disjoint(a[i], a[j])

\* What the two lists of an arena of `size` bytes are to each other, as a relation between the two lists.
Partition(f, a, size) ==
    /\ CoalescedList(f)
    /\ NonEmpty(a)
    /\ Separate(a)
    /\ ByteWise(f, a, size)
    /\ Len(a) <= MaxAllocations

LEMMA PartitionByEntries ==
    ASSUME NEW f \in Seq(Block), NEW a \in Seq(Block), NEW size \in Nat
    PROVE  Partition(f, a, size)
             <=> /\ CoalescedList(f)
                 /\ \A i \in DOMAIN a : a[i].size > 0
                 /\ \A i, j \in DOMAIN a : i # j => Disjoint(a[i], a[j])
                 /\ \A i \in DOMAIN a, j \in DOMAIN f : Disjoint(a[i], f[j])
                 /\ \A byte \in 0 .. size - 1 : Covers(f, byte) \/ Covers(a, byte)
                 /\ \A i \in DOMAIN f : BlockEnd(f[i]) <= size
                 /\ \A i \in DOMAIN a : BlockEnd(a[i]) <= size
                 /\ Len(a) <= MaxAllocations
<1>1. CASE CoalescedList(f) /\ NonEmpty(a)
  <2>1. ByteWise(f, a, size)
          <=> /\ \A i \in DOMAIN a, j \in DOMAIN f : Disjoint(a[i], f[j])
              /\ \A byte \in 0 .. size - 1 : Covers(f, byte) \/ Covers(a, byte)
              /\ \A i \in DOMAIN f : BlockEnd(f[i]) <= size
              /\ \A i \in DOMAIN a : BlockEnd(a[i]) <= size
    BY <1>1, PartitionByteWise
  <2>2. NonEmpty(a) <=> \A i \in DOMAIN a : a[i].size > 0
    BY DEF NonEmpty
  <2>3. Separate(a) <=> \A i, j \in DOMAIN a : i # j => Disjoint(a[i], a[j])
    BY DEF Separate
  <2> QED BY ONLY <1>1, <2>1, <2>2, <2>3, Zenon DEF Partition
<1>2. CASE ~ (CoalescedList(f) /\ NonEmpty(a))
  BY <1>2 DEF Partition, NonEmpty
<1> QED BY <1>1, <1>2

\* An arena after reset(): one free block, no allocation.
LEMMA WholeIsPartition ==
    ASSUME NEW size \in Nat, size > 0
    PROVE  LET whole == <<[offset |-> 0, size |-> size]>> IN
           whole \in Seq(Block) /\ Partition(whole, <<>>, size)
<1> DEFINE block == [offset |-> 0, size |-> size]
           f == <<block>>
<1>1. block \in Block /\ block.offset = 0 /\ block.size = size /\ BlockEnd(block) = size
  BY DEF Block, BlockEnd
<1> HIDE DEF block
<1>2. f \in Seq(Block) /\ DOMAIN f = {1} /\ f[1] = block
  BY <1>1
<1>3. /\ <<>> \in Seq(Block) /\ DOMAIN <<>> = {}
      /\ Len(<<>>) = 0 /\ MaxAllocations \in Nat
  BY TcmFreeListAssumption
<1>4. CoalescedList(f)
  BY <1>1, <1>2 DEF CoalescedList
<1>5. \A byte \in 0 .. size - 1 : Covers(f, byte)
  BY <1>1, <1>2 DEF Covers
<1>6. \A i \in DOMAIN f : BlockEnd(f[i]) <= size
  BY <1>1, <1>2
<1> DEFINE g == <<>>
<1>7. /\ g \in Seq(Block) /\ DOMAIN g = {} /\ Len(g) <= MaxAllocations
  BY <1>3
<1> HIDE DEF f, g
<1>8. Partition(f, g, size)
  BY <1>2, <1>4, <1>5, <1>6, <1>7, PartitionByEntries
<1> QED BY <1>2, <1>8 DEF f, g, block

\* An allocation moves the bytes it takes from the free list to the table.
LEMMA CarveKeepsPartition ==
    ASSUME NEW f \in Seq(Block), NEW a \in Seq(Block), NEW size \in Nat,
           Partition(f, a, size),
           Len(a) # MaxAllocations,
           NEW i \in 1 .. Len(f), NEW start \in Nat, NEW bytes \in Nat, bytes > 0,
           Fits(f[i], start, bytes)
    PROVE  LET block == [offset |-> start, size |-> bytes] IN
           /\ Carve(f, i, start, bytes) \in Seq(Block)
           /\ Append(a, block) \in Seq(Block)
           /\ Partition(Carve(f, i, start, bytes), Append(a, block), size)
<1> DEFINE block == [offset |-> start, size |-> bytes]
           g == Carve(f, i, start, bytes)
           b == Append(a, block)
<1>1. /\ CoalescedList(f) /\ NonEmpty(a) /\ Separate(a) /\ ByteWise(f, a, size)
      /\ Len(a) <= MaxAllocations
  BY DEF Partition
<1>2. /\ g \in Seq(Block) /\ CoalescedList(g)
      /\ \A byte \in Nat :
           Covers(g, byte) <=> Covers(f, byte) /\ ~ (start <= byte /\ byte < start + bytes)
  BY <1>1, CarveProperties
<1>3. /\ block \in Block /\ block.size > 0
      /\ \A byte : InBlock(block, byte) <=> start <= byte /\ byte < start + bytes
  BY DEF Block, InBlock, BlockEnd
<1> HIDE DEF block, g
<1>4. /\ Len(a) \in Nat /\ DOMAIN a = 1 .. Len(a)
      /\ \A j \in 1 .. Len(a) : a[j] \in Block /\ a[j].size > 0
      /\ \A byte \in Nat : Covers(a, byte) <=> \E j \in 1 .. Len(a) : InBlock(a[j], byte)
  BY <1>1, NonEmptyFacts
<1>5. /\ b \in Seq(Block) /\ Len(b) = Len(a) + 1 /\ DOMAIN b = 1 .. Len(a) + 1
      /\ \A j \in 1 .. Len(a) : b[j] = a[j]
      /\ b[Len(a) + 1] = block
  <2>1. b \in Seq(Block)
    BY <1>3
  <2>2. Len(b) = Len(a) + 1 /\ \A j \in 1 .. Len(a) : b[j] = a[j]
    BY <1>3, <1>4
  <2>3. b[Len(a) + 1] = block
    BY <1>3, <1>4
  <2> QED BY <2>1, <2>2, <2>3, BlockFacts
<1> HIDE DEF b
<1>6. NonEmpty(b)
  <2>1. \A j \in 1 .. Len(a) + 1 : j \in 1 .. Len(a) \/ j = Len(a) + 1
    BY <1>4
  <2> QED BY <1>3, <1>4, <1>5, <2>1 DEF NonEmpty
<1>7. \A byte \in Nat : InBlock(block, byte) => Covers(f, byte)
  <2>1. /\ f[i].offset \in Nat /\ f[i].size \in Nat /\ DOMAIN f = 1 .. Len(f)
        /\ BlockEnd(f[i]) = f[i].offset + f[i].size
    BY BlockFacts
  <2>2. \A byte \in Nat : start <= byte /\ byte < start + bytes
                            => f[i].offset <= byte /\ byte < BlockEnd(f[i])
    BY <2>1 DEF Fits
  <2> QED BY <1>3, <2>1, <2>2 DEF Covers
<1>8. \A byte \in Nat : Covers(b, byte) <=> Covers(a, byte) \/ InBlock(block, byte)
  <2> TAKE byte \in Nat
  <2>1. Covers(b, byte) <=> \E j \in 1 .. Len(a) + 1 : InBlock(b[j], byte)
    BY <1>5, <1>6, NonEmptyFacts
  <2>2. \A j : j \in 1 .. Len(a) + 1 <=> j \in 1 .. Len(a) \/ j = Len(a) + 1
    BY <1>4
  <2> QED BY <1>4, <1>5, <2>1, <2>2
<1>9. ByteWise(g, b, size)
  <2>1. \A byte \in Nat : Covers(f, byte) \/ Covers(a, byte) <=> byte < size
    BY <1>1 DEF ByteWise
  <2>2. \A byte \in Nat : ~ (Covers(f, byte) /\ Covers(a, byte))
    BY <1>1 DEF ByteWise
  <2>3. \A byte \in Nat : Covers(g, byte) <=> Covers(f, byte) /\ ~ InBlock(block, byte)
    BY <1>2, <1>3
  <2>4. \A byte \in Nat : Covers(g, byte) \/ Covers(b, byte) <=> byte < size
    BY ONLY <1>7, <1>8, <2>1, <2>3
  <2>5. \A byte \in Nat : ~ (Covers(g, byte) /\ Covers(b, byte))
    BY ONLY <1>7, <1>8, <2>2, <2>3
  <2> QED BY <2>4, <2>5 DEF ByteWise
<1>10. \A j \in 1 .. Len(a) : Disjoint(a[j], block) /\ Disjoint(block, a[j])
  <2> TAKE j \in 1 .. Len(a)
  <2>1. \A byte \in Nat : ~ (InBlock(a[j], byte) /\ InBlock(block, byte))
    BY <1>1, <1>4, <1>7 DEF ByteWise
  <2>2. Disjoint(a[j], block)
    BY ONLY <1>3, <1>4, <2>1, DisjointMeansNoSharedByte
  <2> QED BY <2>2 DEF Disjoint
<1>11. Separate(b)
  <2>1. SUFFICES ASSUME NEW j \in 1 .. Len(a) + 1, NEW k \in 1 .. Len(a) + 1, j # k
                 PROVE  Disjoint(b[j], b[k])
    BY <1>5 DEF Separate
  <2>2. CASE j \in 1 .. Len(a) /\ k \in 1 .. Len(a)
    BY <1>1, <1>4, <1>5, <2>1, <2>2 DEF Separate
  <2>3. CASE j \in 1 .. Len(a) /\ k = Len(a) + 1
    BY <1>5, <1>10, <2>3
  <2>4. CASE j = Len(a) + 1 /\ k \in 1 .. Len(a)
    BY <1>5, <1>10, <2>4
  <2>5. \A m \in 1 .. Len(a) + 1 : m \in 1 .. Len(a) \/ m = Len(a) + 1
    <3>1. Len(a) \in Nat
      BY <1>4
    <3> QED BY ONLY <3>1
  <2> QED BY ONLY <2>1, <2>2, <2>3, <2>4, <2>5, Zenon
<1>12. Len(b) <= MaxAllocations
  <2>1. Len(a) \in Nat /\ MaxAllocations \in Nat /\ Len(a) # MaxAllocations
    BY <1>4, TcmFreeListAssumption
  <2> QED BY ONLY <1>1, <1>5, <2>1
<1> QED BY <1>1, <1>2, <1>5, <1>6, <1>9, <1>11, <1>12 DEF Partition, block, g, b

\* A deallocation moves the block's bytes back: swap-remove takes exactly that
\* entry out of the table, and the free list gains exactly its bytes.
LEMMA ReclaimKeepsPartition ==
    ASSUME NEW f \in Seq(Block), NEW a \in Seq(Block), NEW size \in Nat,
           Partition(f, a, size),
           NEW i \in 1 .. Len(a)
    PROVE  /\ InsertFreeBlock(f, a[i]) \in Seq(Block)
           /\ SwapRemove(a, i) \in Seq(Block)
           /\ Partition(InsertFreeBlock(f, a[i]), SwapRemove(a, i), size)
<1> DEFINE g == InsertFreeBlock(f, a[i])
           b == SwapRemove(a, i)
           n == Len(a)
           from(j) == IF j = i THEN n ELSE j
<1>1. /\ CoalescedList(f) /\ NonEmpty(a) /\ Separate(a) /\ ByteWise(f, a, size)
      /\ Len(a) <= MaxAllocations
  BY DEF Partition
<1>2. /\ n \in Nat /\ DOMAIN a = 1 .. n
      /\ \A j \in 1 .. n : a[j] \in Block /\ a[j].size > 0
      /\ \A byte \in Nat : Covers(a, byte) <=> \E j \in 1 .. n : InBlock(a[j], byte)
  BY <1>1, NonEmptyFacts
<1>3. /\ b \in Seq(Block) /\ Len(b) = n - 1
      /\ \A j \in 1 .. n - 1 : b[j] = a[from(j)]
  <2>1. b \in Seq(Block) /\ Len(b) = n - 1
    BY SwapRemoveProperties
  <2>2. \A j \in 1 .. n - 1 : b[j] = IF j = i THEN a[n] ELSE a[j]
    BY SwapRemoveProperties
  <2> HIDE DEF b
  <2> QED BY ONLY <2>1, <2>2, Zenon DEF from
<1>4. DOMAIN b = 1 .. n - 1
  <2> HIDE DEF b
  <2> QED BY <1>3, BlockFacts
<1> HIDE DEF b, g
<1>5. i \in 1 .. n
  OBVIOUS
<1> HIDE DEF n
<1>6. /\ \A j \in 1 .. n - 1 : from(j) \in 1 .. n /\ from(j) # i
      /\ \A j, k \in 1 .. n - 1 : j # k => from(j) # from(k)
      /\ \A k \in 1 .. n : k # i => \E j \in 1 .. n - 1 : from(j) = k
  <2>1. n \in Nat
    BY <1>2
  <2>2. \A j \in 1 .. n - 1 : from(j) \in 1 .. n /\ from(j) # i
    BY ONLY <1>5, <2>1 DEF from
  <2>3. \A j, k \in 1 .. n - 1 : j # k => from(j) # from(k)
    BY ONLY <1>5, <2>1 DEF from
  <2>4. ASSUME NEW k \in 1 .. n, k # i  PROVE \E j \in 1 .. n - 1 : from(j) = k
    <3>1. CASE k = n
      <4>1. i \in 1 .. n - 1 /\ from(i) = n
        BY ONLY <1>5, <2>1, <2>4, <3>1 DEF from
      <4> QED BY ONLY <3>1, <4>1, Zenon
    <3>2. CASE k # n
      <4>1. k \in 1 .. n - 1 /\ from(k) = k
        BY ONLY <2>1, <2>4, <3>2 DEF from
      <4> QED BY ONLY <4>1, Zenon
    <3> QED BY <3>1, <3>2
  <2> QED BY <2>2, <2>3, <2>4
<1> HIDE DEF from
<1>7. \A j \in 1 .. n - 1 : b[j] \in Block /\ b[j].size > 0
  BY ONLY <1>2, <1>3, <1>6, Zenon
<1>8. NonEmpty(b)
  BY ONLY <1>4, <1>7, Zenon DEF NonEmpty
<1>9. Separate(b)
  <2>1. SUFFICES ASSUME NEW j \in 1 .. n - 1, NEW k \in 1 .. n - 1, j # k
                 PROVE  Disjoint(b[j], b[k])
    BY <1>4 DEF Separate
  <2>2. from(j) \in 1 .. n /\ from(k) \in 1 .. n /\ from(j) # from(k)
    BY ONLY <1>6, <2>1, Zenon
  <2>3. Disjoint(a[from(j)], a[from(k)])
    BY ONLY <1>1, <1>2, <2>2, Zenon DEF Separate
  <2> QED BY ONLY <1>3, <2>1, <2>3, Zenon
<1>10. \A j \in 1 .. n : j # i => \A byte \in Nat : ~ (InBlock(a[j], byte) /\ InBlock(a[i], byte))
  <2>1. SUFFICES ASSUME NEW j \in 1 .. n, j # i
                 PROVE  \A byte \in Nat : ~ (InBlock(a[j], byte) /\ InBlock(a[i], byte))
    OBVIOUS
  <2>2. Disjoint(a[j], a[i])
    BY ONLY <1>1, <1>2, <1>5, <2>1, Zenon DEF Separate
  <2>3. a[j] \in Block /\ a[j].size > 0 /\ a[i] \in Block /\ a[i].size > 0
    BY ONLY <1>2, <1>5, <2>1, Zenon
  <2> QED BY ONLY <2>2, <2>3, DisjointMeansNoSharedByte
<1>11. \A byte \in Nat : Covers(b, byte) <=> Covers(a, byte) /\ ~ InBlock(a[i], byte)
  <2> TAKE byte \in Nat
  <2>1. Covers(b, byte) <=> \E j \in 1 .. n - 1 : InBlock(b[j], byte)
    BY <1>3, <1>8, NonEmptyFacts
  <2>2. ASSUME NEW j \in 1 .. n - 1, InBlock(b[j], byte)
        PROVE  (\E k \in 1 .. n : InBlock(a[k], byte)) /\ ~ InBlock(a[i], byte)
    BY ONLY <1>3, <1>6, <1>10, <2>2, byte \in Nat, Zenon
  <2>3. ASSUME NEW k \in 1 .. n, InBlock(a[k], byte), ~ InBlock(a[i], byte)
        PROVE  \E j \in 1 .. n - 1 : InBlock(b[j], byte)
    <3>1. k # i
      BY ONLY <2>3, Zenon
    <3>2. PICK j \in 1 .. n - 1 : from(j) = k
      BY ONLY <1>6, <3>1, k \in 1 .. n, Zenon
    <3>3. b[j] = a[k]
      BY ONLY <1>3, <3>2, Zenon
    <3> QED BY ONLY <2>3, <3>2, <3>3, Zenon
  <2>4. Covers(a, byte) <=> \E k \in 1 .. n : InBlock(a[k], byte)
    BY <1>2
  <2> QED BY ONLY <2>1, <2>2, <2>3, <2>4, Zenon
<1>12. /\ g \in Seq(Block) /\ CoalescedList(g)
       /\ \A byte \in Nat : Covers(g, byte) <=> Covers(f, byte) \/ InBlock(a[i], byte)
  <2>1. a[i] \in Block /\ a[i].size > 0
    BY ONLY <1>2, <1>5, Zenon
  <2>2. \A j \in DOMAIN f : Disjoint(f[j], a[i])
    <3>1. \A k \in DOMAIN a, j \in DOMAIN f : Disjoint(a[k], f[j])
      BY <1>1, PartitionByteWise
    <3>2. \A j \in DOMAIN f : Disjoint(a[i], f[j])
      BY ONLY <1>2, <1>5, <3>1, Zenon
    <3> QED BY ONLY <3>2, Zenon DEF Disjoint
  <2>3. /\ g \in Seq(Block) /\ CoalescedList(g)
        /\ \A byte \in Nat :
             Covers(g, byte)
               <=> Covers(f, byte) \/ (a[i].offset <= byte /\ byte < BlockEnd(a[i]))
    BY ONLY <1>1, <2>1, <2>2, f \in Seq(Block), InsertFreeBlockProperties DEF g
  <2> QED BY ONLY <2>3, Zenon DEF InBlock
<1>13. ByteWise(g, b, size)
  <2>1. \A byte \in Nat : Covers(f, byte) \/ Covers(a, byte) <=> byte < size
    BY <1>1 DEF ByteWise
  <2>2. \A byte \in Nat : ~ (Covers(f, byte) /\ Covers(a, byte))
    BY <1>1 DEF ByteWise
  <2>3. \A byte \in Nat : InBlock(a[i], byte) => Covers(a, byte)
    BY ONLY <1>2, <1>5, Zenon
  <2>4. \A byte \in Nat : Covers(g, byte) \/ Covers(b, byte) <=> byte < size
    BY ONLY <1>11, <1>12, <2>1, <2>3
  <2>5. \A byte \in Nat : ~ (Covers(g, byte) /\ Covers(b, byte))
    BY ONLY <1>11, <1>12, <2>2, <2>3
  <2> QED BY <2>4, <2>5 DEF ByteWise
<1>14. Len(b) <= MaxAllocations
  <2>1. n \in Nat /\ Len(b) = n - 1 /\ n <= MaxAllocations /\ MaxAllocations \in Nat
    BY <1>1, <1>2, <1>3, TcmFreeListAssumption DEF n
  <2> QED BY ONLY <2>1
<1> QED BY <1>3, <1>8, <1>9, <1>12, <1>13, <1>14 DEF Partition, g, b

----------------------------------------------------------------------------
(* Alignment.                                                               *)

\* A set with one element more has twice as many subsets.
LEMMA PowerDoubles ==
    ASSUME NEW n \in Nat
    PROVE  2^n \in Nat /\ 2^n > 0 /\ 2^(n + 1) = 2^n + 2^n
<1> DEFINE S == 1 .. n
           T == 1 .. n + 1
           With == {X \cup {n + 1} : X \in SUBSET S}
<1>1. IsFiniteSet(S) /\ Cardinality(S) = n
  BY IntervalFrom1
<1>2. IsFiniteSet(T) /\ Cardinality(T) = n + 1
  BY IntervalFrom1
<1>3. n + 1 \notin S /\ T = S \cup {n + 1}
  OBVIOUS
<1> HIDE DEF S, T
<1>4. IsFiniteSet(SUBSET S) /\ Cardinality(SUBSET S) = 2^n
  BY <1>1, FS_SUBSET
<1>5. IsFiniteSet(SUBSET T) /\ Cardinality(SUBSET T) = 2^(n + 1)
  BY <1>2, FS_SUBSET
<1>6. Cardinality(SUBSET S) \in Nat /\ Cardinality(SUBSET S) # 0
  <2>1. SUBSET S # {}
    OBVIOUS
  <2> QED BY <1>4, <2>1, FS_CardinalityType, FS_EmptySet
<1>7. IsFiniteSet(With) /\ Cardinality(With) = Cardinality(SUBSET S)
  <2> DEFINE add == [X \in SUBSET S |-> X \cup {n + 1}]
  <2>1. add \in [SUBSET S -> With]
    OBVIOUS
  <2>2. \A X, Y \in SUBSET S : add[X] = add[Y] => X = Y
    <3>1. \A X \in SUBSET S : X = add[X] \ {n + 1}
      BY <1>3
    <3> QED BY ONLY <3>1, Zenon
  <2>3. \A Z \in With : \E X \in SUBSET S : add[X] = Z
    OBVIOUS
  <2> HIDE DEF add, With
  <2>4. add \in Bijection(SUBSET S, With)
    BY <2>1, <2>2, <2>3 DEF Bijection, Injection, IsInjective, Surjection
  <2> QED BY <1>4, <2>4, FS_Bijection DEF ExistsBijection
<1>8. SUBSET T = (SUBSET S) \cup With /\ (SUBSET S) \cap With = {}
  <2>1. ASSUME NEW X \in SUBSET T  PROVE X \in SUBSET S \/ X \in With
    <3>1. CASE n + 1 \in X
      <4>1. X = (X \ {n + 1}) \cup {n + 1} /\ X \ {n + 1} \in SUBSET S
        BY <1>3, <2>1, <3>1
      <4> QED BY <4>1
    <3>2. CASE n + 1 \notin X
      BY <1>3, <2>1, <3>2
    <3> QED BY <3>1, <3>2
  <2>2. ASSUME NEW X \in SUBSET S  PROVE X \in SUBSET T
    BY <1>3
  <2>3. ASSUME NEW X \in With  PROVE X \in SUBSET T /\ X \notin SUBSET S
    BY <1>3
  <2> HIDE DEF With
  <2> QED BY <2>1, <2>2, <2>3
<1> HIDE DEF With
<1>9. Cardinality(SUBSET T) = Cardinality(SUBSET S) + Cardinality(With) - Cardinality({})
  BY <1>4, <1>7, <1>8, FS_Union
<1> QED BY <1>4, <1>5, <1>6, <1>7, <1>9, FS_EmptySet

\* The smaller of two powers of two divides the larger.
LEMMA PowerDivides ==
    ASSUME NEW i \in Nat, NEW k \in Nat, i <= k
    PROVE  \E q \in Nat : 2^k = q * 2^i
<1> DEFINE Bad == {j \in Nat : ~ \E q \in Nat : 2^(i + j) = q * 2^i}
<1>1. CASE Bad = {}
  <2>1. k - i \in Nat /\ i + (k - i) = k
    OBVIOUS
  <2>2. k - i \notin Bad
    BY <1>1
  <2> QED BY <2>1, <2>2
<1>2. CASE Bad # {}
  <2>1. PICK j \in Bad : \A x \in Bad : j <= x
    BY <1>2, MinOfNaturals
  <2>2. j \in Nat /\ 2^i \in Nat
    BY PowerDoubles
  <2>3. CASE j = 0
    <3>1. i + 0 = i /\ 2^i = 1 * 2^i
      BY <2>2
    <3> QED BY <2>1, <2>3, <3>1
  <2>4. CASE j > 0
    <3>1. j - 1 \in Nat /\ ~ (j <= j - 1) /\ i + (j - 1) \in Nat /\ i + (j - 1) + 1 = i + j
      BY <2>2, <2>4
    <3>2. j - 1 \notin Bad
      BY <2>1, <3>1
    <3>3. PICK q \in Nat : 2^(i + (j - 1)) = q * 2^i
      BY <3>1, <3>2
    <3>4. 2^(i + (j - 1) + 1) = 2^(i + (j - 1)) + 2^(i + (j - 1))
      BY <3>1, PowerDoubles
    <3>5. \A x \in Nat : q * x + q * x = (q + q) * x
      OBVIOUS
    <3>6. 2^(i + j) = (q + q) * 2^i
      BY <2>2, <3>1, <3>3, <3>4, <3>5
    <3>7. q + q \in Nat
      OBVIOUS
    <3> QED BY ONLY <2>1, <3>6, <3>7, Zenon
  <2> QED BY <2>2, <2>3, <2>4
<1> QED BY <1>1, <1>2

\* Division with remainder.
LEMMA DivMod ==
    ASSUME NEW x \in Nat, NEW m \in Nat, m > 0
    PROVE  x % m \in Nat /\ x % m < m /\ \E q \in Nat : x = (q * m) + (x % m)
<1>1. x = (m * (x \div m)) + (x % m) /\ x % m \in Nat /\ x % m < m /\ x \div m \in Nat
  OBVIOUS
<1>2. m * (x \div m) = (x \div m) * m
  BY <1>1
<1> QED BY <1>1, <1>2

\* A multiple that is not below x is not below x rounded up.
LEMMA RoundedUp ==
    ASSUME NEW x \in Nat, NEW m \in Nat, m > 0
    PROVE  LET sum == x + m - 1
               up == sum - (sum % m)
           IN  /\ up \in Nat /\ up % m = 0 /\ x <= up
               /\ \A y \in Nat : y % m = 0 /\ x <= y => up <= y
<1> DEFINE sum == x + m - 1
           up == sum - (sum % m)
<1>1. sum \in Nat /\ sum % m \in Nat /\ sum % m < m
  BY DivMod
<1>2. PICK q \in Nat : sum = (q * m) + (sum % m)
  BY <1>1, DivMod
<1>3. q * m \in Nat /\ up = q * m
  BY <1>1, <1>2
<1>4. (q * m) % m = 0
  BY <1>3
<1>5. x <= up
  BY <1>1, <1>3
<1>6. ASSUME NEW y \in Nat, y % m = 0, x <= y  PROVE up <= y
  <2>1. PICK p \in Nat : y = p * m
    BY <1>6, DivMod
  <2>2. CASE p < q
    <3>1. (p + 1) * m <= q * m /\ (p + 1) * m = p * m + m
      BY <2>2
    <3> QED BY <1>1, <1>3, <1>6, <2>1, <3>1
  <2>3. CASE p >= q
    <3>1. q * m <= p * m
      BY <2>3
    <3> QED BY <1>3, <2>1, <3>1
  <2> QED BY <2>2, <2>3
<1> QED BY <1>3, <1>4, <1>5, <1>6

LEMMA RoundedDown ==
    ASSUME NEW x \in Nat, NEW m \in Nat, m > 0
    PROVE  /\ x - (x % m) \in Nat /\ x - (x % m) <= x
           /\ (x - (x % m)) % m = 0
<1>1. x % m \in Nat /\ x % m < m
  BY DivMod
<1>2. PICK q \in Nat : x = (q * m) + (x % m)
  BY DivMod
<1>3. q * m \in Nat /\ x - (x % m) = q * m
  BY <1>1, <1>2
<1>4. (q * m) % m = 0
  BY <1>3
<1> QED BY <1>1, <1>2, <1>3, <1>4

LEMMA NegativeMod ==
    ASSUME NEW x \in Int, NEW m \in Nat, m > 0, x < 0, -m <= x
    PROVE  x % m = x + m
<1> DEFINE d == x \div m
<1>1. d \in Int /\ x = (m * d) + (x % m) /\ x % m \in Nat /\ x % m < m
  OBVIOUS
<1> HIDE DEF d
<1>2. d < 0
  <2>1. d >= 0 => m * d >= 0
    BY <1>1
  <2> QED BY <1>1, <2>1
<1>3. d > -2
  <2>1. d <= -2 => m * d <= m * (-2)
    BY <1>1
  <2> QED BY <1>1, <2>1
<1>4. d = -1
  BY <1>1, <1>2, <1>3
<1>5. m * d = -m
  BY <1>4
<1> QED BY <1>1, <1>5

\* Of two powers of two the one that is not larger divides the other.
LEMMA SmallerDivides ==
    ASSUME NEW a \in Nat, NEW b \in Nat, IsPowerOfTwo(a), IsPowerOfTwo(b), a <= b
    PROVE  \E q \in Nat : b = q * a
<1>1. PICK i \in Nat : a = 2^i
  BY DEF IsPowerOfTwo
<1>2. PICK k \in Nat : b = 2^k
  BY DEF IsPowerOfTwo
<1>3. CASE i <= k
  BY <1>1, <1>2, <1>3, PowerDivides
<1>4. CASE k < i
  <2>1. PICK q \in Nat : 2^i = q * 2^k
    <3>1. k <= i
      BY <1>4
    <3> QED BY ONLY <3>1, i \in Nat, k \in Nat, PowerDivides
  <2>2. a # 0 /\ b > 0
    BY DEF IsPowerOfTwo
  <2>3. a = q * b
    BY <1>1, <1>2, <2>1
  <2>4. q >= 1
    BY <2>2, <2>3
  <2>5. q * b >= 1 * b
    BY <2>2, <2>4
  <2>6. b = 1 * a
    BY <2>3, <2>5
  <2> QED BY <2>6
<1> QED BY <1>3, <1>4

\* Where align_up leads in an arena of `size` bytes at `base` that ends within
\* the address space: what it finds in the arena is aligned, and no aligned
\* offset before that is missed, although sums and differences wrap.
LEMMA AlignedOffsetProperties ==
    ASSUME NEW base \in Nat, base > 0, NEW size \in Nat, base + size <= AddressLimit,
           NEW offset \in Nat, NEW alignment \in Nat, IsPowerOfTwo(alignment)
    PROVE  LET start == AlignedOffset(base, offset, alignment)
           IN  /\ start \in Nat
               /\ start < size => (base + start) % alignment = 0
               /\ \A s \in Nat : offset <= s /\ s < size /\ (base + s) % alignment = 0
                                   => offset <= start /\ start <= s
<1> DEFINE start == AlignedOffset(base, offset, alignment)
           x == base + offset
           sum == x + alignment - 1
           wrapped == sum % AddressLimit
           up == wrapped - (wrapped % alignment)
<1>1. /\ AddressLimit \in Nat /\ AddressLimit > 0 /\ IsPowerOfTwo(AddressLimit)
      /\ alignment > 0 /\ x \in Nat /\ sum \in Nat
  BY TcmFreeListAssumption DEF IsPowerOfTwo
<1>2. wrapped \in Nat /\ wrapped < AddressLimit
  <2> HIDE DEF sum
  <2> QED BY <1>1, DivMod
<1>3. up \in Nat /\ up <= wrapped /\ up % alignment = 0
  <2> HIDE DEF wrapped
  <2> QED BY <1>1, <1>2, RoundedDown
<1>4. start = (up - base) % AddressLimit
  BY DEF AlignedOffset, AlignUp
<1>5. start = IF up >= base THEN up - base ELSE up - base + AddressLimit
  <2> HIDE DEF up, start
  <2>1. base <= AddressLimit /\ up < AddressLimit
    BY <1>1, <1>2, <1>3
  <2>2. \A y \in Nat, m \in Nat : m > 0 /\ y < m => y % m = y
    OBVIOUS
  <2>3. CASE up >= base
    BY <1>1, <1>3, <1>4, <2>1, <2>2, <2>3
  <2>4. CASE up < base
    <3>1. up - base \in Int /\ up - base < 0 /\ -AddressLimit <= up - base
      BY <1>1, <1>3, <2>1, <2>4
    <3>2. (up - base) % AddressLimit = up - base + AddressLimit
      BY ONLY <1>1, <3>1, NegativeMod
    <3> QED BY <1>3, <1>4, <2>4, <3>2
  <2> QED BY <1>3, <2>3, <2>4
<1>6. start \in Nat /\ (start < size => base + start = up)
  <2> HIDE DEF up, start
  <2> QED BY <1>1, <1>2, <1>3, <1>5
<1>7. ASSUME NEW s \in Nat, offset <= s, s < size, (base + s) % alignment = 0
      PROVE  offset <= start /\ start <= s
  <2>1. base + s \in Nat /\ x <= base + s /\ base + s < AddressLimit
    BY <1>1, <1>7
  <2>2. CASE sum < AddressLimit
    <3>1. wrapped = sum
      BY <1>1, <2>2
    <3>2. /\ x <= sum - (sum % alignment)
          /\ \A y \in Nat : y % alignment = 0 /\ x <= y => sum - (sum % alignment) <= y
      <4> HIDE DEF x
      <4> QED BY <1>1, RoundedUp
    <3>3. x <= up /\ up <= base + s
      <4> HIDE DEF x, sum, wrapped
      <4> QED BY <1>7, <2>1, <3>1, <3>2
    <3> HIDE DEF up, start
    <3> QED BY <1>3, <1>5, <1>7, <3>3
  <2>3. CASE sum >= AddressLimit
    <3>1. base + s > AddressLimit - alignment
      BY <1>1, <2>1, <2>3
    <3>2. PICK p \in Nat : base + s = p * alignment
      <4>1. (base + s) = base + s /\ (base + s) % alignment = 0
        BY <1>7
      <4> QED BY <1>1, <2>1, <4>1, DivMod
    <3>3. CASE alignment <= AddressLimit
      <4>1. PICK q \in Nat : AddressLimit = q * alignment
        BY <1>1, <3>3, SmallerDivides
      <4>2. CASE p < q
        <5>1. (p + 1) * alignment <= q * alignment /\ (p + 1) * alignment = p * alignment + alignment
          BY <1>1, <4>2
        <5> QED BY <1>1, <2>1, <3>1, <3>2, <4>1, <5>1
      <4>3. CASE p >= q
        <5>1. q * alignment <= p * alignment
          BY <1>1, <4>3
        <5> QED BY <1>1, <2>1, <3>2, <4>1, <5>1
      <4> QED BY <4>2, <4>3
    <3>4. CASE alignment > AddressLimit
      <4>1. p = 0 \/ p * alignment >= alignment
        BY <1>1
      <4> QED BY <1>1, <2>1, <3>2, <3>4, <4>1
    <3> QED BY <1>1, <3>3, <3>4
  <2> QED BY <1>1, <2>2, <2>3
<1>8. start < size => (base + start) % alignment = 0
  <2> HIDE DEF up, start
  <2> QED BY <1>3, <1>6
<1> QED BY <1>6, <1>7, <1>8

----------------------------------------------------------------------------
(* The first-fit scan and the room there is.                                *)

\* A free block starts at the beginning of the arena or where an allocation ends.
LEMMA FreeBlockStart ==
    ASSUME NEW f \in Seq(Block), NEW a \in Seq(Block), NEW size \in Nat,
           Partition(f, a, size), NEW i \in 1 .. Len(f)
    PROVE  f[i].offset = 0 \/ \E j \in DOMAIN a : BlockEnd(a[j]) = f[i].offset
<1>1. CoalescedList(f) /\ NonEmpty(a) /\ ByteWise(f, a, size)
  BY DEF Partition
<1>2. /\ Len(f) \in Nat /\ DOMAIN f = 1 .. Len(f)
      /\ \A k \in 1 .. Len(f) :
           /\ f[k].offset \in Nat /\ f[k].size \in Nat /\ f[k].size > 0
           /\ BlockEnd(f[k]) \in Nat /\ BlockEnd(f[k]) = f[k].offset + f[k].size
      /\ \A k, l \in 1 .. Len(f) : k < l => BlockEnd(f[k]) < f[l].offset
  BY <1>1, CoalescedFacts
<1>3. SUFFICES ASSUME f[i].offset > 0
               PROVE  \E j \in DOMAIN a : BlockEnd(a[j]) = f[i].offset
  BY <1>2
<1> DEFINE byte == f[i].offset - 1
<1>4. byte \in Nat /\ byte < f[i].offset
  BY <1>2, <1>3
<1>5. /\ \A j \in DOMAIN a, k \in DOMAIN f : Disjoint(a[j], f[k])
      /\ \A k \in DOMAIN f : BlockEnd(f[k]) <= size
      /\ \A b \in 0 .. size - 1 : Covers(f, b) \/ Covers(a, b)
  BY <1>1, PartitionByteWise
<1>6. ~ Covers(f, byte)
  <2>1. SUFFICES ASSUME NEW k \in 1 .. Len(f), f[k].offset <= byte, byte < BlockEnd(f[k])
                 PROVE  FALSE
    BY <1>2 DEF Covers
  <2>2. /\ f[k].offset \in Int /\ BlockEnd(f[k]) \in Int
        /\ f[i].offset \in Int /\ BlockEnd(f[i]) \in Int /\ f[i].offset <= BlockEnd(f[i])
    BY <1>2
  <2>3. k < i => BlockEnd(f[k]) < f[i].offset
    BY <1>2
  <2>4. i < k => BlockEnd(f[i]) < f[k].offset
    BY <1>2
  <2>5. k < i \/ k = i \/ i < k
    BY <1>2
  <2> QED BY ONLY <2>1, <2>2, <2>3, <2>4, <2>5
<1>7. byte \in 0 .. size - 1
  <2>1. BlockEnd(f[i]) <= size /\ f[i].offset < BlockEnd(f[i])
    BY <1>2, <1>5
  <2> QED BY <1>2, <1>4, <2>1
<1>8. PICK j \in DOMAIN a : a[j].offset <= byte /\ byte < BlockEnd(a[j])
  BY <1>5, <1>6, <1>7 DEF Covers
<1>9. a[j].offset \in Nat /\ BlockEnd(a[j]) \in Nat
  BY BlockFacts
<1>10. BlockEnd(a[j]) <= f[i].offset \/ BlockEnd(f[i]) <= a[j].offset
  BY <1>2, <1>5 DEF Disjoint
<1>11. f[i].offset \in Nat /\ BlockEnd(f[i]) \in Nat /\ f[i].offset <= BlockEnd(f[i])
  BY <1>2
<1>12. BlockEnd(a[j]) = f[i].offset
  BY ONLY <1>8, <1>9, <1>10, <1>11
<1> QED BY <1>12

\* Bytes in a row that no allocation holds are all in one free block.
LEMMA RunInOneBlock ==
    ASSUME NEW f \in Seq(Block), NEW a \in Seq(Block), NEW size \in Nat,
           Partition(f, a, size),
           NEW start \in Nat, NEW bytes \in Nat, bytes > 0, start + bytes <= size,
           \A j \in DOMAIN a : Disjoint(a[j], [offset |-> start, size |-> bytes])
    PROVE  \E i \in 1 .. Len(f) : f[i].offset <= start /\ start + bytes <= BlockEnd(f[i])
<1> DEFINE run == [offset |-> start, size |-> bytes]
<1>1. CoalescedList(f) /\ NonEmpty(a) /\ ByteWise(f, a, size)
  BY DEF Partition
<1>2. /\ run \in Block /\ run.size > 0
      /\ \A byte : InBlock(run, byte) <=> start <= byte /\ byte < start + bytes
  BY DEF Block, InBlock, BlockEnd
<1>3. \A j \in DOMAIN a : Disjoint(a[j], run)
  OBVIOUS
<1> HIDE DEF run
<1>4. /\ DOMAIN a = 1 .. Len(a)
      /\ \A j \in 1 .. Len(a) : a[j] \in Block /\ a[j].size > 0
      /\ \A byte : Covers(a, byte) <=> \E j \in 1 .. Len(a) : InBlock(a[j], byte)
  BY <1>1, NonEmptyFacts
<1>5. \A byte \in Nat : start <= byte /\ byte < start + bytes => ~ Covers(a, byte)
  BY <1>2, <1>3, <1>4, DisjointMeansNoSharedByte
<1>6. \A byte \in Nat : start <= byte /\ byte < start + bytes => Covers(f, byte)
  BY <1>1, <1>5 DEF ByteWise
<1>7. /\ Len(f) \in Nat /\ DOMAIN f = 1 .. Len(f)
      /\ \A i \in 1 .. Len(f) : f[i].offset \in Nat /\ BlockEnd(f[i]) \in Nat
  BY <1>1, CoalescedFacts
<1>8. PICK i \in 1 .. Len(f) : f[i].offset <= start /\ start < BlockEnd(f[i])
  <2>1. Covers(f, start)
    BY <1>6
  <2> QED BY <1>7, <2>1 DEF Covers
<1>9. ~ (BlockEnd(f[i]) < start + bytes)
  <2>1. ~ Covers(f, BlockEnd(f[i])) /\ BlockEnd(f[i]) \in Nat
    BY <1>1, <1>7, EndNotCovered
  <2> QED BY <1>6, <1>7, <1>8, <2>1
<1>10. start + bytes <= BlockEnd(f[i])
  <2>1. BlockEnd(f[i]) \in Nat
    BY <1>7
  <2> QED BY <1>9, <2>1
<1> QED BY <1>8, <1>10

\* allocate_from finds room whenever there is an aligned run of bytes that no
\* allocation holds.
LEMMA FirstFitFindsRoom ==
    ASSUME NEW f \in Seq(Block), NEW a \in Seq(Block), NEW size \in Nat,
           Partition(f, a, size),
           NEW base \in Nat, base > 0, base + size <= AddressLimit,
           NEW alignment \in Nat, IsPowerOfTwo(alignment),
           NEW start \in Nat, NEW bytes \in Nat, bytes > 0, start + bytes <= size,
           (base + start) % alignment = 0,
           \A j \in DOMAIN a : Disjoint(a[j], [offset |-> start, size |-> bytes])
    PROVE  FirstFit(f, base, bytes, alignment) # 0
<1>1. PICK i \in 1 .. Len(f) : f[i].offset <= start /\ start + bytes <= BlockEnd(f[i])
  BY RunInOneBlock
<1>2. /\ f[i].offset \in Nat /\ f[i].size \in Nat
      /\ BlockEnd(f[i]) = f[i].offset + f[i].size
  BY BlockFacts
<1> DEFINE there == AlignedOffset(base, f[i].offset, alignment)
<1>3. there \in Nat /\ f[i].offset <= there /\ there <= start
  <2>1. start < size
    OBVIOUS
  <2>2. LET at == AlignedOffset(base, f[i].offset, alignment)
        IN  /\ at \in Nat
            /\ at < size => (base + at) % alignment = 0
            /\ \A s \in Nat : f[i].offset <= s /\ s < size /\ (base + s) % alignment = 0
                                => f[i].offset <= at /\ at <= s
    BY ONLY <1>2, AlignedOffsetProperties, base \in Nat, base > 0, size \in Nat,
            base + size <= AddressLimit, alignment \in Nat, IsPowerOfTwo(alignment)
  <2> QED BY <1>1, <2>1, <2>2
<1> HIDE DEF there
<1>4. Fits(f[i], there, bytes)
  <2>1. start + bytes <= f[i].offset + f[i].size
    BY <1>1, <1>2
  <2> QED BY ONLY <1>2, <1>3, <2>1, start \in Nat, bytes \in Nat DEF Fits
<1> QED BY <1>4, FirstFitProperties DEF there

\* What allocate_from finds is an aligned run of bytes that no allocation holds.
LEMMA FirstFitIsRoom ==
    ASSUME NEW f \in Seq(Block), NEW a \in Seq(Block), NEW size \in Nat,
           Partition(f, a, size),
           NEW base \in Nat, base > 0, base + size <= AddressLimit,
           NEW alignment \in Nat, IsPowerOfTwo(alignment),
           NEW bytes \in Nat, bytes > 0,
           FirstFit(f, base, bytes, alignment) # 0
    PROVE  LET i     == FirstFit(f, base, bytes, alignment)
               start == AlignedOffset(base, f[i].offset, alignment)
           IN  /\ i \in 1 .. Len(f)
               /\ Fits(f[i], start, bytes)
               /\ start \in Nat /\ start + bytes <= size
               /\ (base + start) % alignment = 0
               /\ \A j \in DOMAIN a :
                    Disjoint(a[j], [offset |-> start, size |-> bytes])
<1> DEFINE i     == FirstFit(f, base, bytes, alignment)
           start == AlignedOffset(base, f[i].offset, alignment)
           run   == [offset |-> start, size |-> bytes]
<1>1. CoalescedList(f) /\ NonEmpty(a) /\ ByteWise(f, a, size)
  BY DEF Partition
<1>2. i \in 1 .. Len(f) /\ Fits(f[i], start, bytes)
  <2>1. i \in 0 .. Len(f) /\ Fits(f[i], start, bytes)
    BY FirstFitProperties
  <2>2. Len(f) \in Nat /\ i # 0
    BY BlockFacts
  <2> HIDE DEF i, start
  <2> QED BY ONLY <2>1, <2>2
<1> HIDE DEF i
<1>3. /\ f[i].offset \in Nat /\ f[i].size \in Nat
      /\ BlockEnd(f[i]) \in Nat /\ BlockEnd(f[i]) = f[i].offset + f[i].size
  BY <1>2, BlockFacts
<1>4. start \in Nat /\ (start < size => (base + start) % alignment = 0)
  BY <1>3, AlignedOffsetProperties
<1> HIDE DEF start
<1>5. f[i].offset <= start /\ start + bytes <= BlockEnd(f[i])
  BY <1>2, <1>3, <1>4 DEF Fits
<1>6. /\ \A j \in DOMAIN a, k \in DOMAIN f : Disjoint(a[j], f[k])
      /\ \A k \in DOMAIN f : BlockEnd(f[k]) <= size
      /\ DOMAIN f = 1 .. Len(f) /\ DOMAIN a = 1 .. Len(a)
  BY <1>1, PartitionByteWise, BlockFacts
<1>7. start + bytes <= size
  <2>1. BlockEnd(f[i]) <= size
    BY <1>2, <1>6
  <2> QED BY <1>3, <1>4, <1>5, <2>1
<1>8. ASSUME NEW j \in DOMAIN a  PROVE Disjoint(a[j], run)
  <2>1. a[j].offset \in Nat /\ BlockEnd(a[j]) \in Nat
    BY <1>6, BlockFacts
  <2>2. BlockEnd(a[j]) <= f[i].offset \/ BlockEnd(f[i]) <= a[j].offset
    BY <1>2, <1>6 DEF Disjoint
  <2>3. BlockEnd(a[j]) <= start \/ start + bytes <= a[j].offset
    BY ONLY <1>3, <1>4, <1>5, <2>1, <2>2, bytes \in Nat
  <2> QED BY <2>3 DEF Disjoint, BlockEnd
<1>9. (base + start) % alignment = 0
  BY <1>4, <1>7
<1> QED BY <1>2, <1>4, <1>7, <1>8, <1>9 DEF i, start

\* Live allocations start at different offsets, so a pointer names one of them.
LEMMA OffsetsDiffer ==
    ASSUME NEW a \in Seq(Block), NonEmpty(a), Separate(a),
           NEW i \in 1 .. Len(a), NEW j \in 1 .. Len(a), a[i].offset = a[j].offset
    PROVE  i = j
<1>1. SUFFICES ASSUME i # j PROVE FALSE
  OBVIOUS
<1>2. /\ a[i].offset \in Nat /\ a[i].offset < BlockEnd(a[i]) /\ BlockEnd(a[i]) \in Nat
      /\ a[j].offset \in Nat /\ a[j].offset < BlockEnd(a[j]) /\ BlockEnd(a[j]) \in Nat
  BY NonEmptyFacts
<1>3. BlockEnd(a[i]) <= a[j].offset \/ BlockEnd(a[j]) <= a[i].offset
  BY <1>1, NonEmptyFacts DEF Separate, Disjoint
<1> QED BY <1>2, <1>3

\* The table as a set has as many members as the table has entries.
LEMMA TableCardinality ==
    ASSUME NEW a \in Seq(Block), NonEmpty(a), Separate(a)
    PROVE  IsFiniteSet(ToSet(a)) /\ Cardinality(ToSet(a)) = Len(a)
<1>1. Len(a) \in Nat /\ DOMAIN a = 1 .. Len(a)
  BY NonEmptyFacts
<1>2. ToSet(a) = {a[i] : i \in 1 .. Len(a)}
  BY <1>1 DEF ToSet
<1>3. a \in Bijection(1 .. Len(a), ToSet(a))
  <2>1. a \in [1 .. Len(a) -> ToSet(a)]
    BY <1>2
  <2>2. \A i, j \in 1 .. Len(a) : a[i] = a[j] => i = j
    BY OffsetsDiffer
  <2>3. \A b \in ToSet(a) : \E i \in 1 .. Len(a) : a[i] = b
    BY <1>2
  <2> QED BY <2>1, <2>2, <2>3 DEF Bijection, Injection, IsInjective, Surjection
<1>4. /\ IsFiniteSet(1 .. Len(a))
      /\ Cardinality(1 .. Len(a)) = IF 1 > Len(a) THEN 0 ELSE Len(a)
  BY <1>1, IntervalFrom1
<1>5. IsFiniteSet(ToSet(a)) /\ Cardinality(ToSet(a)) = Cardinality(1 .. Len(a))
  BY <1>3, <1>4, FS_Bijection DEF ExistsBijection
<1> QED BY <1>1, <1>4, <1>5

\* Recording an allocation keeps every entry and adds one.
LEMMA AppendEntries ==
    ASSUME NEW a \in Seq(Block), NEW block \in Block
    PROVE  /\ DOMAIN Append(a, block) = 1 .. Len(a) + 1
           /\ \A j \in 1 .. Len(a) : Append(a, block)[j] = a[j]
           /\ Append(a, block)[Len(a) + 1] = block
           /\ \A j \in 1 .. Len(a) + 1 : j \in 1 .. Len(a) \/ j = Len(a) + 1
           /\ 1 .. Len(a) \subseteq 1 .. Len(a) + 1 /\ Len(a) + 1 \in 1 .. Len(a) + 1
<1>1. Len(a) \in Nat
  OBVIOUS
<1> QED BY <1>1

\* Swap-removal drops entry i and no other.
LEMMA SwapRemoveEntries ==
    ASSUME NEW a \in Seq(Block), NEW i \in 1 .. Len(a)
    PROVE  /\ \A k \in DOMAIN SwapRemove(a, i) :
                \E j \in 1 .. Len(a) : j # i /\ SwapRemove(a, i)[k] = a[j]
           /\ \A j \in 1 .. Len(a) :
                j # i => \E k \in DOMAIN SwapRemove(a, i) : SwapRemove(a, i)[k] = a[j]
<1> DEFINE b == SwapRemove(a, i)
           n == Len(a)
<1>1. /\ b \in Seq(Block) /\ Len(b) = n - 1
      /\ \A j \in 1 .. n - 1 : b[j] = IF j = i THEN a[n] ELSE a[j]
  BY SwapRemoveProperties
<1>2. DOMAIN b = 1 .. n - 1 /\ n \in Nat
  BY <1>1, BlockFacts
<1> HIDE DEF b, n
<1>3. i \in 1 .. n
  BY DEF n
<1>4. /\ 1 .. n - 1 \subseteq 1 .. n /\ n \in 1 .. n
      /\ \A j \in 1 .. n - 1 : j # n
      /\ \A j \in 1 .. n : j \in 1 .. n - 1 \/ j = n
  BY ONLY <1>2, <1>3
<1>5. ASSUME NEW k \in 1 .. n - 1
      PROVE  \E j \in 1 .. n : j # i /\ b[k] = a[j]
  <2>1. CASE k = i
    BY <1>1, <1>4, <2>1
  <2>2. CASE k # i
    BY <1>1, <1>4, <2>2
  <2> QED BY <2>1, <2>2
<1>6. ASSUME NEW j \in 1 .. n, j # i
      PROVE  \E k \in 1 .. n - 1 : b[k] = a[j]
  <2>1. CASE j = n
    BY <1>1, <1>3, <1>4, <1>6, <2>1
  <2>2. CASE j # n
    BY <1>1, <1>4, <1>6, <2>2
  <2> QED BY <2>1, <2>2
<1> QED BY <1>2, <1>5, <1>6 DEF b, n

\* An arena without allocations is one free block.
LEMMA EmptyTableMeansWhole ==
    ASSUME NEW f \in Seq(Block), NEW size \in Nat, size > 0, Partition(f, <<>>, size)
    PROVE  f = <<[offset |-> 0, size |-> size]>>
<1>1. CoalescedList(f) /\ ByteWise(f, <<>>, size)
  BY DEF Partition
<1>2. \A byte : ~ Covers(<<>>, byte)
  BY DEF Covers
<1>3. /\ Len(f) \in Nat /\ DOMAIN f = 1 .. Len(f)
      /\ \A i \in 1 .. Len(f) :
           /\ f[i] \in Block /\ f[i].offset \in Nat /\ f[i].size \in Nat /\ f[i].size > 0
           /\ BlockEnd(f[i]) \in Nat /\ BlockEnd(f[i]) = f[i].offset + f[i].size
      /\ \A i, j \in 1 .. Len(f) : i < j => BlockEnd(f[i]) < f[j].offset
  BY <1>1, CoalescedFacts
<1>4. \A byte \in Nat : Covers(f, byte) <=> byte < size
  BY <1>1, <1>2 DEF ByteWise
<1>5. ASSUME NEW i \in 1 .. Len(f)  PROVE BlockEnd(f[i]) >= size
  <2>1. ~ Covers(f, BlockEnd(f[i])) /\ BlockEnd(f[i]) \in Nat
    BY <1>1, <1>3, <1>5, EndNotCovered
  <2>2. ~ (BlockEnd(f[i]) < size)
    BY ONLY <1>4, <2>1
  <2> QED BY ONLY <2>1, <2>2, size \in Nat
<1>6. ASSUME NEW i \in 1 .. Len(f)
      PROVE  f[i].offset < size /\ BlockEnd(f[i]) <= size
  <2>1. BlockEnd(f[i]) - 1 \in Nat /\ Covers(f, BlockEnd(f[i]) - 1)
    <3>1. f[i].offset <= BlockEnd(f[i]) - 1 /\ BlockEnd(f[i]) - 1 < BlockEnd(f[i])
      BY <1>3
    <3>2. BlockEnd(f[i]) - 1 \in Nat
      BY <1>3
    <3> QED BY <1>3, <3>1, <3>2 DEF Covers
  <2>2. BlockEnd(f[i]) - 1 < size
    BY <1>4, <2>1
  <2>3. f[i].offset \in Nat /\ Covers(f, f[i].offset)
    BY <1>3 DEF Covers
  <2>4. f[i].offset < size
    BY <1>4, <2>3
  <2> QED BY <1>3, <2>2, <2>4
<1>7. PICK i \in 1 .. Len(f) : f[i].offset <= 0
  BY <1>3, <1>4 DEF Covers
<1>8. ASSUME NEW j \in 1 .. Len(f), j # i  PROVE FALSE
  <2>1. j < i \/ i < j
    BY <1>3, <1>8
  <2>2. CASE j < i
    <3>1. BlockEnd(f[j]) < f[i].offset
      BY <1>3, <2>2
    <3> QED BY <1>3, <1>7, <3>1
  <2>3. CASE i < j
    <3>1. BlockEnd(f[i]) < f[j].offset
      BY <1>3, <2>3
    <3>2. f[j].offset < size /\ BlockEnd(f[i]) >= size
      BY <1>5, <1>6
    <3> QED BY <1>3, <3>1, <3>2
  <2> QED BY <2>1, <2>2, <2>3
<1>9. Len(f) = 1 /\ i = 1
  <2>1. 1 \in 1 .. Len(f) /\ Len(f) \in 1 .. Len(f)
    BY <1>3
  <2> QED BY <1>8, <2>1
<1>10. f[1].offset = 0 /\ f[1].size = size
  BY <1>3, <1>5, <1>6, <1>7, <1>9
<1>11. f[1] = [offset |-> 0, size |-> size]
  BY <1>3, <1>9, <1>10 DEF Block
<1> QED BY <1>9, <1>11
----------------------------------------------------------------------------
(* Buffers of one size in an arena whose base and size of buffer keep the   *)
(* alignment: they stay in slots of that size, so no gap is too small.      *)

IsSlot(offset, bytes) == \E k \in Nat : offset = k * bytes

Slotted(a, bytes) == \A i \in DOMAIN a : IsSlot(a[i].offset, bytes)

LEMMA SlotAligned ==
    ASSUME NEW base \in Nat, NEW bytes \in Nat, NEW alignment \in Nat, alignment > 0,
           base % alignment = 0, bytes % alignment = 0, NEW k \in Nat
    PROVE  (base + k * bytes) % alignment = 0
<1>0. ASSUME NEW x \in Nat, x % alignment = 0  PROVE \E q \in Nat : x = q * alignment
  <2>1. PICK q \in Nat : x = (q * alignment) + (x % alignment)
    BY DivMod
  <2>2. q * alignment \in Nat
    OBVIOUS
  <2>3. x = q * alignment
    BY <1>0, <2>1, <2>2
  <2> QED BY <2>3
<1>1. PICK p \in Nat : base = p * alignment
  BY <1>0
<1>2. PICK q \in Nat : bytes = q * alignment
  BY <1>0
<1>3. base + k * bytes = (p + k * q) * alignment
  BY <1>1, <1>2
<1> DEFINE n == p + k * q
<1>4. n \in Nat
  OBVIOUS
<1> HIDE DEF n
<1>5. (n * alignment) % alignment = 0
  BY <1>4
<1> QED BY <1>3, <1>5 DEF n

\* The run allocate_from carves for a buffer is a slot.
LEMMA FirstFitIsSlot ==
    ASSUME NEW f \in Seq(Block), NEW a \in Seq(Block), NEW size \in Nat,
           Partition(f, a, size),
           NEW base \in Nat, base > 0, base + size <= AddressLimit,
           NEW alignment \in Nat, IsPowerOfTwo(alignment),
           NEW bytes \in Nat, bytes > 0,
           base % alignment = 0, bytes % alignment = 0,
           Slotted(a, bytes), \A j \in DOMAIN a : a[j].size = bytes,
           NEW i, i = FirstFit(f, base, bytes, alignment), i # 0
    PROVE  IsSlot(AlignedOffset(base, f[i].offset, alignment), bytes)
<1> DEFINE start == AlignedOffset(base, f[i].offset, alignment)
<1>1. /\ i \in 1 .. Len(f) /\ Fits(f[i], start, bytes)
      /\ start \in Nat /\ start + bytes <= size
  BY FirstFitIsRoom
<1>2. f[i].offset \in Nat /\ f[i].size \in Nat
  BY <1>1, BlockFacts
<1>3. PICK k \in Nat : f[i].offset = k * bytes
  <2>1. CASE f[i].offset = 0
    <3>1. f[i].offset = 0 * bytes
      BY <2>1
    <3> QED BY <3>1
  <2>2. CASE f[i].offset # 0
    <3>1. PICK j \in DOMAIN a : BlockEnd(a[j]) = f[i].offset
      BY <1>1, <2>2, FreeBlockStart
    <3>2. PICK l \in Nat : a[j].offset = l * bytes
      BY DEF Slotted, IsSlot
    <3>3. f[i].offset = (l * bytes) + bytes
      BY <3>1, <3>2 DEF BlockEnd
    <3>4. f[i].offset = (l + 1) * bytes /\ l + 1 \in Nat
      BY <3>3
    <3> QED BY <3>4
  <2> QED BY <2>1, <2>2
<1>4. alignment > 0
  BY DEF IsPowerOfTwo
<1>5. (base + f[i].offset) % alignment = 0
  <2>1. (base + k * bytes) % alignment = 0
    BY <1>4, SlotAligned
  <2> QED BY <1>3, <2>1
<1>6. start = f[i].offset
  <2>1. f[i].offset <= start /\ f[i].offset < size
    <3>1. f[i].offset <= start
      BY <1>1 DEF Fits
    <3> HIDE DEF start
    <3> QED BY <1>1, <1>2, <3>1
  <2>2. \A s \in Nat : f[i].offset <= s /\ s < size /\ (base + s) % alignment = 0
                         => f[i].offset <= start /\ start <= s
    BY <1>2, AlignedOffsetProperties
  <2>3. start <= f[i].offset
    BY <1>2, <1>5, <2>1, <2>2
  <2> HIDE DEF start
  <2> QED BY ONLY <1>1, <1>2, <2>1, <2>3
<1> QED BY <1>3, <1>6 DEF IsSlot

\* The scan turns a buffer away only when each slot has its allocation.
LEMMA NoSlotMeansFull ==
    ASSUME NEW f \in Seq(Block), NEW a \in Seq(Block), NEW size \in Nat,
           Partition(f, a, size),
           NEW base \in Nat, base > 0, base + size <= AddressLimit,
           NEW alignment \in Nat, IsPowerOfTwo(alignment),
           NEW bytes \in Nat, bytes > 0,
           base % alignment = 0, bytes % alignment = 0,
           Slotted(a, bytes), \A j \in DOMAIN a : a[j].size = bytes,
           FirstFit(f, base, bytes, alignment) = 0
    PROVE  size < (Len(a) + 1) * bytes
<1> DEFINE n == Len(a)
<1>1. n \in Nat /\ DOMAIN a = 1 .. n /\ alignment > 0
  BY BlockFacts DEF IsPowerOfTwo
<1>2. SUFFICES ASSUME (n + 1) * bytes <= size  PROVE FALSE
  <2>1. (n + 1) * bytes \in Nat
    BY <1>1
  <2> HIDE DEF n
  <2> QED BY <1>2, <2>1 DEF n
<1> HIDE DEF n
<1>3. ASSUME NEW k \in 1 .. n + 1
      PROVE  \E j \in 1 .. n : a[j].offset = (k - 1) * bytes
  <2> DEFINE start == (k - 1) * bytes
             run == [offset |-> start, size |-> bytes]
  <2>1. k - 1 \in Nat /\ start \in Nat
    BY <1>1
  <2>2. start + bytes <= size
    <3>1. start + bytes = k * bytes /\ k \in Nat /\ k <= n + 1
      BY <1>1
    <3>2. k * bytes <= (n + 1) * bytes
      BY <1>1, <3>1
    <3>3. k * bytes \in Nat /\ (n + 1) * bytes \in Nat
      BY <1>1, <3>1
    <3> HIDE DEF start
    <3> QED BY ONLY <1>2, <3>1, <3>2, <3>3, size \in Nat
  <2>3. (base + start) % alignment = 0
    BY <1>1, <2>1, SlotAligned
  <2>4. PICK j \in DOMAIN a : ~ Disjoint(a[j], run)
    <3> HIDE DEF start
    <3> QED BY <2>1, <2>2, <2>3, FirstFitFindsRoom
  <2>5. PICK l \in Nat : a[j].offset = l * bytes
    BY DEF Slotted, IsSlot
  <2>6. l * bytes < start + bytes /\ start < (l * bytes) + bytes
    <3>1. BlockEnd(a[j]) = (l * bytes) + bytes /\ BlockEnd(run) = start + bytes
      BY <2>5 DEF BlockEnd
    <3>2. ~ (BlockEnd(a[j]) <= start) /\ ~ (BlockEnd(run) <= a[j].offset)
      BY <2>4 DEF Disjoint
    <3>3. l * bytes \in Nat
      OBVIOUS
    <3> HIDE DEF start, run
    <3> QED BY ONLY <2>1, <2>5, <3>1, <3>2, <3>3, bytes \in Nat
  <2>7. l = k - 1
    <3> DEFINE m == k - 1
    <3>1. m \in Nat /\ l * bytes < (m * bytes) + bytes /\ m * bytes < (l * bytes) + bytes
      BY <2>1, <2>6
    <3> HIDE DEF m
    <3>2. ~ (l > m)
      <4>1. l > m => l * bytes >= (m + 1) * bytes
        BY <3>1
      <4> QED BY <3>1, <4>1
    <3>3. ~ (m > l)
      <4>1. m > l => m * bytes >= (l + 1) * bytes
        BY <3>1
      <4> QED BY <3>1, <4>1
    <3> QED BY <3>1, <3>2, <3>3 DEF m
  <2> QED BY <1>1, <2>5, <2>7
<1> DEFINE entry == [k \in 1 .. n + 1 |-> CHOOSE j \in 1 .. n : a[j].offset = (k - 1) * bytes]
<1>4. \A k \in 1 .. n + 1 : entry[k] \in 1 .. n /\ a[entry[k]].offset = (k - 1) * bytes
  BY <1>3
<1>5. entry \in Injection(1 .. n + 1, 1 .. n)
  <2>1. entry \in [1 .. n + 1 -> 1 .. n]
    BY <1>4
  <2> HIDE DEF entry
  <2>2. ASSUME NEW k \in 1 .. n + 1, NEW l \in 1 .. n + 1, entry[k] = entry[l]
        PROVE  k = l
    <3>1. (k - 1) * bytes = (l - 1) * bytes
      BY <1>4, <2>2
    <3>2. k - 1 \in Int /\ l - 1 \in Int /\ k \in Int /\ l \in Int
      BY <1>1
    <3>3. \A x, y \in Int : x * bytes = y * bytes => x = y
      OBVIOUS
    <3>4. k - 1 = l - 1
      BY <3>1, <3>2, <3>3
    <3> QED BY <3>2, <3>4
  <2> QED BY <2>1, <2>2 DEF Injection, IsInjective
<1>6. /\ IsFiniteSet(1 .. n) /\ Cardinality(1 .. n) = IF 1 > n THEN 0 ELSE n
      /\ Cardinality(1 .. n + 1) = IF 1 > n + 1 THEN 0 ELSE n + 1
  BY <1>1, IntervalFrom1
<1>7. Cardinality(1 .. n + 1) <= Cardinality(1 .. n)
  BY <1>5, <1>6, FS_Injection
<1> QED BY <1>1, <1>6, <1>7
============================================================================
