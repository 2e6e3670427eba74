------------------------- MODULE ArenaAndTileProofs -------------------------
(***************************************************************************)
(* The two components in which nothing interleaves: one TCM arena, whose   *)
(* calls are atomic, and one matrix-unit kernel with its adapter.          *)
(*                                                                         *)
(* First the safety of one arena, for every arena, base address and mix of *)
(* requests: TypeOK, Coalesced, NoOverlap and NothingLost together are     *)
(* inductive, FreeListBounded follows from them by counting gaps, and the  *)
(* first-fit scan misses no room.  With that every step is one that        *)
(* RegionAllocator, the header's promise, allows.                          *)
(*                                                                         *)
(* Then the matrix-unit kernels for any shape, depth and number of         *)
(* iterations: that each lane of each accumulator collects the chunks of   *)
(* one cell, is stored where that cell is scaled and unpacked from, and    *)
(* that batches, calls and iterations add every block of a cell once.      *)
(***************************************************************************)
EXTENDS TcmArena, ImeTile, TcmFreeListProofs

----------------------------------------------------------------------------
(* The arena.                                                               *)

\* What every step of the arena preserves.
IInv ==
    /\ TypeOK
    /\ Coalesced
    /\ NoOverlap
    /\ NothingLost
    /\ Len(allocations) <= MaxAllocations

----------------------------------------------------------------------------
LEMMA ConstantTypes ==
    /\ Base \in Nat /\ Base > 0 /\ Size \in Nat /\ Size > 0 /\ Base + Size <= AddressLimit
    /\ AddressLimit \in Nat /\ MaxAllocations \in Nat
    /\ Requests \subseteq Nat /\ Alignments \subseteq Nat /\ Null \notin Nat
BY TcmArenaAssumption, TcmFreeListAssumption

\* IInv is a partition of the arena, in the current state and in the next one.
LEMMA InvIsPartition == IInv <=> TypeOK /\ Partition(free, allocations, Size)
<1>1. CASE TypeOK
  <2>1. free \in Seq(Block) /\ allocations \in Seq(Block)
    BY <1>1 DEF TypeOK
  <2> QED BY <1>1, <2>1, ConstantTypes, PartitionByEntries DEF IInv, Coalesced, NoOverlap, NothingLost
<1>2. CASE ~ TypeOK
  BY <1>2 DEF IInv
<1> QED BY <1>1, <1>2

AnswerType == [bytes : Nat, alignment : Nat, pointer : Nat \cup {Null}]

LEMMA InitPartition == Init => IInv
<1> SUFFICES ASSUME Init PROVE TypeOK /\ Partition(free, allocations, Size)
  BY InvIsPartition
<1>1. free \in Seq(Block) /\ allocations \in Seq(Block) /\ Partition(free, allocations, Size)
  BY ConstantTypes, WholeIsPartition DEF Init
<1>2. result \in AnswerType
  BY DEF Init, Answer, AnswerType
<1> QED BY <1>1, <1>2 DEF TypeOK, AnswerType

\* Each step of the arena keeps the partition.
LEMMA NextPartition == IInv /\ [Next]_vars => IInv'
<1> SUFFICES ASSUME IInv, [Next]_vars PROVE IInv'
  OBVIOUS
<1>1. /\ free \in Seq(Block) /\ allocations \in Seq(Block) /\ result \in AnswerType
      /\ Partition(free, allocations, Size)
  BY InvIsPartition DEF TypeOK, AnswerType
<1>2. SUFFICES TypeOK' /\ Partition(free, allocations, Size)'
  BY InvIsPartition, PTL
<1>3. CASE UNCHANGED <<free, allocations>> /\ result' \in AnswerType
  BY <1>1, <1>3 DEF TypeOK, AnswerType
<1> DEFINE Asked(bytes, alignment) == bytes \in Nat /\ alignment \in Nat
<1>asked. \A bytes \in Requests, alignment \in Alignments : Asked(bytes, alignment)
  BY TcmArenaAssumption
<1>typed. \A bytes, alignment, pointer :
        Asked(bytes, alignment) /\ pointer \in Nat \cup {Null}
          => Answer(bytes, alignment, pointer) \in AnswerType
  BY DEF Answer, AnswerType
<1>4. ASSUME NEW bytes \in Requests, NEW alignment \in Alignments,
             Allocate(bytes, alignment)
      PROVE  TypeOK' /\ Partition(free, allocations, Size)'
  <2> DEFINE i == FirstFit(free, Base, bytes, alignment)
             start == AlignedOffset(Base, free[i].offset, alignment)
             block == [offset |-> start, size |-> bytes]
  <2>1. CASE result' = Answer(bytes, alignment, Null) /\ UNCHANGED <<free, allocations>>
    BY <1>3, <1>asked, <1>typed, <2>1
  <2>2. CASE /\ i # 0
             /\ free' = Carve(free, i, start, bytes)
             /\ allocations' = Append(allocations, block)
             /\ result' = Answer(bytes, alignment, Base + start)
    <3>1. /\ bytes \in Nat /\ bytes > 0 /\ alignment \in Nat /\ IsPowerOfTwo(alignment)
          /\ Len(allocations) # MaxAllocations
      BY <1>4, TcmArenaAssumption DEF Allocate, Rejected
    <3>2. i \in 1 .. Len(free) /\ Fits(free[i], start, bytes)
      <4>1. i \in 0 .. Len(free) /\ (i # 0 => Fits(free[i], start, bytes))
        BY <1>1, FirstFitProperties
      <4>2. Len(free) \in Nat
        BY <1>1
      <4> HIDE DEF i, start
      <4> QED BY ONLY <2>2, <4>1, <4>2
    <3>3. start \in Nat
      <4>1. free[i].offset \in Nat
        <5> HIDE DEF i
        <5> QED BY ONLY <1>1, <3>2, BlockFacts
      <4> QED BY <3>1, <4>1, ConstantTypes, AlignedOffsetProperties
    <3> HIDE DEF i, start
    <3>4. /\ free' \in Seq(Block) /\ allocations' \in Seq(Block)
          /\ Partition(free', allocations', Size)
      BY ONLY <1>1, <2>2, <3>1, <3>2, <3>3, ConstantTypes, CarveKeepsPartition
    <3>5. result' \in AnswerType
      <4>1. Base + start \in Nat
        BY <3>3, TcmArenaAssumption
      <4> QED BY <1>asked, <1>typed, <2>2, <4>1
    <3> QED BY <3>4, <3>5 DEF TypeOK, AnswerType
  <2> QED BY <1>4, <2>1, <2>2 DEF Allocate
<1>5. ASSUME NEW pointer \in Pointers, Deallocate(pointer)
      PROVE  TypeOK' /\ Partition(free, allocations, Size)'
  <2> DEFINE i == FindAllocation(allocations, Base, pointer)
  <2>1. /\ i # 0 /\ allocations' = SwapRemove(allocations, i)
        /\ free' = Reclaim(allocations[i]) /\ result' = result
    BY <1>5 DEF Deallocate
  <2>2. i \in 1 .. Len(allocations)
    <3>1. i \in 0 .. Len(allocations) /\ Len(allocations) \in Nat
      BY <1>1, FindAllocationProperties
    <3> HIDE DEF i
    <3> QED BY ONLY <2>1, <3>1
  <2> HIDE DEF i
  <2>3. Len(free) < MaxFreeBlocks
    <3>1. Len(free) <= Len(allocations) + 1
      BY <1>1, GapsNeedAllocations, TcmArenaAssumption
         DEF IInv, Coalesced, NoOverlap, NothingLost
    <3>2. /\ Len(free) \in Nat /\ Len(allocations) \in Nat /\ MaxAllocations \in Nat
          /\ Len(allocations) <= MaxAllocations
      BY <1>1, TcmFreeListAssumption DEF Partition
    <3> QED BY ONLY <3>1, <3>2 DEF MaxFreeBlocks
  <2>4. free' = InsertFreeBlock(free, allocations[i])
    BY <2>1, <2>3 DEF Reclaim
  <2>5. /\ free' \in Seq(Block) /\ allocations' \in Seq(Block)
        /\ Partition(free', allocations', Size)
    BY ONLY <1>1, <2>1, <2>2, <2>4, ConstantTypes, ReclaimKeepsPartition
  <2> QED BY <1>1, <2>1, <2>5 DEF TypeOK, AnswerType
<1>6. ASSUME NEW bytes \in Requests, NEW alignment \in Alignments,
             AllocateRejected(bytes, alignment)
      PROVE  TypeOK' /\ Partition(free, allocations, Size)'
  BY <1>3, <1>6, <1>asked, <1>typed DEF AllocateRejected
<1>7. CASE UNCHANGED vars
  BY <1>1, <1>3, <1>7 DEF vars
<1> QED BY <1>4, <1>5, <1>6, <1>7 DEF Next

\* Inductiveness: whatever the callers ask for and give back, the free list
\* and the table of allocations partition the arena.
THEOREM Invariance == Spec => []IInv
BY InitPartition, NextPartition, PTL DEF Spec

\* The lists and the answer of allocate() keep their types.
THEOREM TypeCorrectness == Spec => []TypeOK
<1>1. IInv => TypeOK
  BY DEF IInv
<1> QED BY <1>1, Invariance, PTL

\* insert_free_block and the carving of a block keep the free list sorted,
\* without empty blocks and without neighbours that should have been merged.
THEOREM CoalescedAlways == Spec => []Coalesced
<1>1. IInv => Coalesced
  BY DEF IInv
<1> QED BY <1>1, Invariance, PTL

\* allocate_from never gives out a byte that a live allocation holds.
THEOREM NoOverlapAlways == Spec => []NoOverlap
<1>1. IInv => NoOverlap
  BY DEF IInv
<1> QED BY <1>1, Invariance, PTL

\* No sequence of allocate and deallocate calls loses a byte of the arena.
THEOREM NothingLostAlways == Spec => []NothingLost
<1>1. IInv => NothingLost
  BY DEF IInv
<1> QED BY <1>1, Invariance, PTL

\* kMaxFreeBlocks is large enough: allocate_from never gives up for want of an
\* entry, and deallocate never drops a block.
THEOREM FreeListBoundedAlways == Spec => []FreeListBounded
<1>1. IInv => FreeListBounded
  BY GapsNeedAllocations, TcmArenaAssumption
     DEF IInv, TypeOK, Coalesced, NoOverlap, NothingLost, FreeListBounded
<1> QED BY <1>1, Invariance, PTL

\* allocate_from never misses room: while an aligned run of bytes is free of
\* allocations, the first-fit scan finds an entry for it.
THEOREM NoFalseExhaustionAlways == Spec => []NoFalseExhaustion
<1>1. IInv => NoFalseExhaustion
  <2>1. SUFFICES ASSUME IInv,
                        NEW bytes \in Requests \ {0}, NEW alignment \in Alignments,
                        IsPowerOfTwo(alignment),
                        NEW start \in 0 .. Size - bytes,
                        (Base + start) % alignment = 0,
                        \A i \in DOMAIN allocations :
                          Disjoint(allocations[i], [offset |-> start, size |-> bytes])
                 PROVE  FirstFit(free, Base, bytes, alignment) # 0
    BY DEF NoFalseExhaustion
  <2>2. /\ free \in Seq(Block) /\ allocations \in Seq(Block)
        /\ Partition(free, allocations, Size)
    BY <2>1, InvIsPartition DEF TypeOK
  <2>3. /\ bytes \in Nat /\ bytes > 0 /\ alignment \in Nat
        /\ start \in Nat /\ start + bytes <= Size
    BY ConstantTypes
  <2> QED BY ONLY <2>1, <2>2, <2>3, ConstantTypes, FirstFitFindsRoom
<1> QED BY <1>1, Invariance, PTL

----------------------------------------------------------------------------
(* The arena implements what its header promises.                           *)

LEMMA SameCardinality == \A S : Abstract!Cardinality(S) = Cardinality(S)
BY DEF Cardinality, Abstract!Cardinality, IsFiniteSet, Abstract!IsFiniteSet

\* Room for a request, as the header means it and as the table shows it.
LEMMA RoomInTable ==
    ASSUME IInv, NEW bytes \in Nat, bytes > 0, NEW alignment \in Nat, NEW start \in Nat
    PROVE  start \in Abstract!Room(bytes, alignment)
             <=> /\ start + bytes <= Size
                 /\ (Base + start) % alignment = 0
                 /\ \A i \in DOMAIN allocations :
                      Disjoint(allocations[i], [offset |-> start, size |-> bytes])
<1> DEFINE run == [offset |-> start, size |-> bytes]
<1>1. allocations \in Seq(Block) /\ \A i \in DOMAIN allocations : allocations[i].size > 0
  BY DEF IInv, TypeOK, NoOverlap
<1>2. /\ DOMAIN allocations = 1 .. Len(allocations)
      /\ \A i \in 1 .. Len(allocations) :
           /\ allocations[i].offset \in Nat /\ allocations[i].size \in Nat
           /\ allocations[i] \in Block
           /\ BlockEnd(allocations[i]) = allocations[i].offset + allocations[i].size
  BY <1>1, BlockFacts
<1>3. /\ run \in Block /\ run.size > 0
      /\ \A byte : InBlock(run, byte) <=> start <= byte /\ byte < start + bytes
  BY DEF Block, InBlock, BlockEnd
<1> HIDE DEF run
<1>4. ASSUME NEW i \in DOMAIN allocations
      PROVE  Disjoint(allocations[i], run)
               <=> Abstract!Extent(allocations[i]) \cap (start .. start + bytes - 1) = {}
  <2>1. Disjoint(allocations[i], run)
          <=> \A byte \in Nat : ~ (InBlock(allocations[i], byte) /\ InBlock(run, byte))
    BY <1>1, <1>2, <1>3, <1>4, DisjointMeansNoSharedByte
  <2>2. \A byte \in Nat : InBlock(run, byte) <=> byte \in start .. start + bytes - 1
    BY <1>3
  <2>3. \A byte \in Nat :
          InBlock(allocations[i], byte) <=> byte \in Abstract!Extent(allocations[i])
    BY <1>2, <1>4 DEF InBlock, Abstract!Extent
  <2>4. \A byte \in start .. start + bytes - 1 : byte \in Nat
    OBVIOUS
  <2> QED BY <2>1, <2>2, <2>3, <2>4
<1>5. start \in 0 .. Size - bytes <=> start + bytes <= Size
  BY ConstantTypes
<1>6. \A r \in ToSet(allocations) : \E i \in DOMAIN allocations : r = allocations[i]
  BY DEF ToSet
<1>7. \A i \in DOMAIN allocations : allocations[i] \in ToSet(allocations)
  BY DEF ToSet
<1> QED BY <1>4, <1>5, <1>6, <1>7 DEF Abstract!Room, run

LEMMA RefusedAsHeader ==
    ASSUME NEW bytes \in Nat, NEW alignment \in Nat
    PROVE  Abstract!Refused(bytes, alignment) <=> bytes = 0 \/ ~ IsPowerOfTwo(alignment)
<1>1. \A k \in 0 .. alignment : k \in Nat /\ 2^k > 0
  BY PowerDoubles
<1> QED BY <1>1 DEF Abstract!Refused, IsPowerOfTwo

\* A step of the code is a step the header allows.
LEMMA StepRefines == IInv /\ [Next]_vars => [Abstract!Next]_(Abstract!vars)
<1> SUFFICES ASSUME IInv, Next  PROVE [Abstract!Next]_(Abstract!vars)
  BY DEF vars, Abstract!vars
<1>1. /\ free \in Seq(Block) /\ allocations \in Seq(Block)
      /\ Partition(free, allocations, Size)
  BY InvIsPartition DEF TypeOK
<1>2. /\ NonEmpty(allocations) /\ Separate(allocations)
      /\ Len(allocations) \in Nat /\ Len(allocations) <= MaxAllocations
      /\ DOMAIN allocations = 1 .. Len(allocations)
  BY <1>1, BlockFacts DEF Partition
<1>3. Cardinality(ToSet(allocations)) = Len(allocations)
  BY <1>1, <1>2, TableCardinality
<1>answer. \A bytes, alignment, pointer :
        Answer(bytes, alignment, pointer) = Abstract!Answer(bytes, alignment, pointer)
  BY DEF Answer, Abstract!Answer
<1>4. ASSUME NEW bytes \in Requests, NEW alignment \in Alignments,
             AllocateRejected(bytes, alignment)
      PROVE  Abstract!Deny(bytes, alignment)
  <2>1. bytes \in Nat /\ alignment \in Nat
    BY ConstantTypes
  <2>2. \/ bytes = 0 \/ ~ IsPowerOfTwo(alignment)
        \/ Len(allocations) = MaxAllocations
        \/ bytes > Size /\ bytes > 0
    BY <1>4, <2>1, ConstantTypes DEF AllocateRejected, Rejected
  <2>3. bytes > Size => Abstract!Room(bytes, alignment) = {}
    BY <2>1, ConstantTypes DEF Abstract!Room
  <2>4. result' = Abstract!Answer(bytes, alignment, Null) /\ UNCHANGED ToSet(allocations)
    BY <1>4, <1>answer DEF AllocateRejected
  <2> QED BY <1>3, <2>1, <2>2, <2>3, <2>4, RefusedAsHeader, SameCardinality DEF Abstract!Deny
<1>5. ASSUME NEW bytes \in Requests, NEW alignment \in Alignments,
             Allocate(bytes, alignment)
      PROVE  Abstract!Grant(bytes, alignment) \/ Abstract!Deny(bytes, alignment)
  <2> DEFINE i     == FirstFit(free, Base, bytes, alignment)
             start == AlignedOffset(Base, free[i].offset, alignment)
             block == [offset |-> start, size |-> bytes]
  <2>1. /\ bytes \in Nat /\ bytes > 0 /\ alignment \in Nat /\ IsPowerOfTwo(alignment)
        /\ Len(allocations) # MaxAllocations
    BY <1>5, ConstantTypes DEF Allocate, Rejected
  <2>2. CASE i # 0
    <3>1. /\ i \in 1 .. Len(free) /\ start \in Nat /\ start + bytes <= Size
          /\ (Base + start) % alignment = 0
          /\ \A j \in DOMAIN allocations : Disjoint(allocations[j], block)
      BY ONLY <1>1, <2>1, <2>2, ConstantTypes, FirstFitIsRoom
    <3>2. ~ CarveOverflows(free, i, start, bytes)
      <4>1. Len(free) <= Len(allocations) + 1
        BY <1>1, <1>2, ConstantTypes, GapsNeedAllocations
           DEF IInv, Coalesced, NoOverlap, NothingLost
      <4>2. Len(free) # MaxFreeBlocks
        <5>1. Len(free) \in Nat /\ MaxAllocations \in Nat
          BY <1>1, ConstantTypes
        <5> QED BY ONLY <1>2, <4>1, <5>1 DEF MaxFreeBlocks
      <4> QED BY <4>2 DEF CarveOverflows
    <3>3. /\ allocations' = Append(allocations, block)
          /\ result' = Answer(bytes, alignment, Base + start)
      BY <1>5, <2>2, <3>2 DEF Allocate
    <3> HIDE DEF i, start
    <3>4. start \in Abstract!Room(bytes, alignment) /\ start \in 0 .. Size - bytes
      BY <2>1, <3>1, ConstantTypes, RoomInTable
    <3>5. ToSet(allocations)' = ToSet(allocations) \cup {block}
      <4>1. /\ DOMAIN allocations' = 1 .. Len(allocations) + 1
            /\ \A j \in 1 .. Len(allocations) : allocations'[j] = allocations[j]
            /\ allocations'[Len(allocations) + 1] = block
            /\ \A j \in 1 .. Len(allocations) + 1 :
                 j \in 1 .. Len(allocations) \/ j = Len(allocations) + 1
            /\ 1 .. Len(allocations) \subseteq 1 .. Len(allocations) + 1
            /\ Len(allocations) + 1 \in 1 .. Len(allocations) + 1
        <5>1. block \in Block
          BY <2>1, <3>1 DEF Block
        <5> QED BY <1>1, <3>3, <5>1, AppendEntries
      <4>3. ToSet(allocations)' = {allocations'[j] : j \in DOMAIN allocations'}
        BY DEF ToSet
      <4>4. ToSet(allocations) = {allocations[j] : j \in 1 .. Len(allocations)}
        BY <1>2 DEF ToSet
      <4> HIDE DEF block
      <4>5. ASSUME NEW b \in ToSet(allocations)'  PROVE b \in ToSet(allocations) \cup {block}
        BY <4>1, <4>3, <4>4
      <4>7. ASSUME NEW b \in ToSet(allocations) \cup {block}  PROVE b \in ToSet(allocations)'
        BY <4>1, <4>3, <4>4
      <4> QED BY <4>5, <4>7
    <3>6. Cardinality(ToSet(allocations)) < MaxAllocations
      <4>1. Len(allocations) # MaxAllocations /\ MaxAllocations \in Nat
        BY <2>1, ConstantTypes
      <4>2. Len(allocations) \in Nat /\ Len(allocations) <= MaxAllocations
        BY <1>2
      <4>3. \A x, y \in Nat : x <= y /\ x # y => x < y
        OBVIOUS
      <4>4. Len(allocations) < MaxAllocations
        BY ONLY <4>1, <4>2, <4>3, Zenon
      <4> QED BY ONLY <1>3, <4>4
    <3>7. ~ Abstract!Refused(bytes, alignment)
      BY <2>1, RefusedAsHeader
    <3>8. Abstract!Cardinality(ToSet(allocations)) < MaxAllocations
      BY <3>6, SameCardinality
    <3>9. result' = Abstract!Answer(bytes, alignment, Base + start)
      BY <1>answer, <3>3
    <3> QED BY ONLY <3>4, <3>5, <3>7, <3>8, <3>9 DEF Abstract!Grant
  <2>3. CASE i = 0
    <3>1. result' = Answer(bytes, alignment, Null) /\ UNCHANGED allocations
      BY <1>5, <2>3 DEF Allocate
    <3>2. Abstract!Room(bytes, alignment) = {}
      <4>1. SUFFICES ASSUME NEW from \in Abstract!Room(bytes, alignment) PROVE FALSE
        OBVIOUS
      <4>2. from \in Nat
        BY <2>1, ConstantTypes DEF Abstract!Room
      <4>3. /\ from + bytes <= Size /\ (Base + from) % alignment = 0
            /\ \A j \in DOMAIN allocations :
                 Disjoint(allocations[j], [offset |-> from, size |-> bytes])
        BY <2>1, <4>1, <4>2, RoomInTable
      <4> QED BY ONLY <1>1, <2>1, <2>3, <4>2, <4>3, ConstantTypes, FirstFitFindsRoom
    <3> QED BY <1>answer, <3>1, <3>2 DEF Abstract!Deny
  <2> QED BY <2>2, <2>3
<1>6. ASSUME NEW pointer \in Pointers, Deallocate(pointer)
      PROVE  Abstract!Release(pointer)
  <2> DEFINE i == FindAllocation(allocations, Base, pointer)
  <2>1. i # 0 /\ allocations' = SwapRemove(allocations, i) /\ UNCHANGED result
    BY <1>6 DEF Deallocate
  <2>2. i \in 1 .. Len(allocations) /\ Base + allocations[i].offset = pointer
    <3>1. i \in 0 .. Len(allocations) /\ Base + allocations[i].offset = pointer
      BY <1>1, <2>1, FindAllocationProperties
    <3> HIDE DEF i
    <3> QED BY ONLY <1>2, <2>1, <3>1
  <2> HIDE DEF i
  <2>3. ASSUME NEW j \in 1 .. Len(allocations)
        PROVE  Base + allocations[j].offset = pointer <=> j = i
    <3>1. allocations[i].offset \in Nat /\ allocations[j].offset \in Nat
      BY <1>1, <2>2, BlockFacts
    <3>2. allocations[i].offset = allocations[j].offset => i = j
      BY <1>1, <1>2, <2>2, OffsetsDiffer
    <3> QED BY <2>2, <3>1, <3>2, ConstantTypes
  <2>4. ToSet(allocations)' = { r \in ToSet(allocations) : Base + r.offset # pointer }
    <3>1. /\ \A k \in DOMAIN allocations' :
               \E j \in 1 .. Len(allocations) : j # i /\ allocations'[k] = allocations[j]
          /\ \A j \in 1 .. Len(allocations) :
               j # i => \E k \in DOMAIN allocations' : allocations'[k] = allocations[j]
      BY <1>1, <2>1, <2>2, SwapRemoveEntries
    <3>2. /\ ToSet(allocations)' = {allocations'[k] : k \in DOMAIN allocations'}
          /\ ToSet(allocations) = {allocations[j] : j \in 1 .. Len(allocations)}
      BY <1>2 DEF ToSet
    <3> QED BY <2>3, <3>1, <3>2
  <2> QED BY <2>1, <2>4 DEF Abstract!Release
<1> QED BY <1>4, <1>5, <1>6 DEF Next, Abstract!Next

\* The arena does only what tcm_arena.h promises, step by step: an allocation is
\* aligned, inside the arena and disjoint from every live one, nullptr is the
\* answer only when no range would do or the table is full, and a deallocation
\* ends the life of one range.
THEOREM Implementation == Spec => ImplementsRegionAllocator
<1>1. Init => Abstract!Init
  <2>1. ToSet(<<>>) = {}
    BY DEF ToSet
  <2> QED BY <2>1 DEF Init, Abstract!Init, Answer, Abstract!Answer
<1>2. IInv /\ [Next]_vars => [Abstract!Next]_(Abstract!vars)
  BY StepRefines
<1> QED BY <1>1, <1>2, Invariance, PTL DEF Spec, ImplementsRegionAllocator, Abstract!Spec

----------------------------------------------------------------------------
(* The packed operands of the matrix-unit kernels: what lies at each        *)
(* address.                                                                 *)

\* Where a function does not repeat a value, its inverse finds the argument.
LEMMA InverseAt ==
    ASSUME NEW f, NEW x \in DOMAIN f, \A y \in DOMAIN f : f[y] = f[x] => y = x
    PROVE  AntiFunction(f)[f[x]] = x
BY DEF AntiFunction, Inverse, Range

\* The packings of A: chunk c of row r of a strip, and the strips behind each other.
LEMMA FourRowsAt ==
    ASSUME NEW r \in 0 .. 3, NEW c \in 0 .. 3
    PROVE  FourRows[c * 4 + r] = <<r, c>>
BY DEF FourRows

LEMMA A4At ==
    ASSUME NEW r \in 0 .. 3, NEW c \in 0 .. 3
    PROVE  PackedA4[c * 4 + r] = <<r, c>>
BY FourRowsAt DEF PackedA4

LEMMA A8At ==
    ASSUME NEW h \in 0 .. 1, NEW r \in 0 .. 3, NEW c \in 0 .. 3
    PROVE  PackedA8[h * 16 + c * 4 + r] = <<h * 4 + r, c>>
<1>1. PICK x \in 0 .. 31 : x = h * 16 + c * 4 + r
  OBVIOUS
<1>2. x % 16 = c * 4 + r /\ x \div 16 = h
  BY <1>1
<1>3. FourRows[x % 16] = <<r, c>>
  BY <1>2, FourRowsAt
<1>4. PackedA8[x] = << FourRows[x % 16][1] + 4 * (x \div 16), FourRows[x % 16][2] >>
  BY DEF PackedA8
<1>5. PackedA8[x] = <<r + 4 * h, c>>
  BY ONLY <1>2, <1>3, <1>4
<1> QED BY ONLY <1>1, <1>5, r \in 0 .. 3, h \in 0 .. 1

\* Chunk 2 * i + e of row r of the strip h, after the reordering of m8b.
LEMMA InterleavedAt ==
    ASSUME NEW h \in 0 .. 1, NEW r \in 0 .. 3, NEW i \in 0 .. 1, NEW e \in 0 .. 1
    PROVE  InterleavedA8[4 * (4 * i + 2 * h + e) + r] = <<h * 4 + r, 2 * i + e>>
<1>1. PICK x \in 0 .. 31 : x = 4 * (4 * i + 2 * h + e) + r
  OBVIOUS
<1>2. x \div 4 = 4 * i + 2 * h + e /\ x % 4 = r
  BY <1>1
<1>3. kPackedAChunkOrder[4 * i + 2 * h + e + 1] = 4 * h + 2 * i + e
  BY DEF kPackedAChunkOrder
<1>4. InterleavedA8[x] = PackedA8[4 * (4 * h + 2 * i + e) + r]
  BY <1>1, <1>2, <1>3 DEF InterleavedA8
<1>5. 4 * (4 * h + 2 * i + e) + r = h * 16 + (2 * i + e) * 4 + r /\ 2 * i + e \in 0 .. 3
  OBVIOUS
<1> QED BY <1>1, <1>4, <1>5, A8At

LEMMA A32At ==
    ASSUME NEW h \in 0 .. 7, NEW r \in 0 .. 3, NEW c \in 0 .. 3
    PROVE  PackedA32[h * 16 + c * 4 + r] = <<h * 4 + r, c>>
<1>1. PICK x \in 0 .. 127 : x = h * 16 + c * 4 + r
  OBVIOUS
<1>2. x % 16 = c * 4 + r /\ x \div 16 = h
  BY <1>1
<1>3. FourRows[x % 16] = <<r, c>>
  BY <1>2, FourRowsAt
<1>4. PackedA32[x] = << FourRows[x % 16][1] + 4 * (x \div 16), FourRows[x % 16][2] >>
  BY Zenon DEF PackedA32
<1>5. PackedA32[x] = << r + 4 * h, c >>
  BY ONLY <1>2, <1>3, <1>4
<1> QED BY <1>1, <1>5

\* The packings for the A100, whose registers hold eight rows.
LEMMA A16At ==
    ASSUME NEW h \in 0 .. 1, NEW r \in 0 .. 7, NEW w \in 0 .. 1
    PROVE  PackedA16[(h * 2 + w) * 8 + r] = <<h * 8 + r, w>>
<1> DEFINE f == [x \in (0 .. 15) \X (0 .. 1) |-> ((x[1] \div 8) * 2 + x[2]) * 8 + (x[1] % 8)]
<1>1. PackedA16 = AntiFunction(f)
  BY DEF PackedA16, Packed
<1>2. PICK row \in 0 .. 15, c \in 0 .. 1 : row = h * 8 + r /\ c = w
  OBVIOUS
<1>3. \A x \in 0 .. 15, y \in 0 .. 1 : f[<<x, y>>] = ((x \div 8) * 2 + y) * 8 + (x % 8)
  OBVIOUS
<1>4. ((row \div 8) * 2 + c) * 8 + (row % 8) = (h * 2 + w) * 8 + r
  BY <1>2
<1>5. ASSUME NEW x \in 0 .. 15, NEW y \in 0 .. 1, ((x \div 8) * 2 + y) * 8 + (x % 8) = (h * 2 + w) * 8 + r
      PROVE  x = row /\ y = c
  BY <1>2, <1>5
<1>6. DOMAIN f = (0 .. 15) \X (0 .. 1)
  OBVIOUS
<1> HIDE DEF f
<1>7. ASSUME NEW z \in DOMAIN f, f[z] = f[<<row, c>>]
      PROVE  z = <<row, c>>
  <2>1. PICK x \in 0 .. 15, y \in 0 .. 1 : z = <<x, y>>
    BY <1>6
  <2>2. ((x \div 8) * 2 + y) * 8 + (x % 8) = (h * 2 + w) * 8 + r
    BY <1>3, <1>4, <1>7, <2>1
  <2> QED BY <1>5, <2>1, <2>2
<1>8. f[<<row, c>>] = (h * 2 + w) * 8 + r
  BY <1>3, <1>4
<1>9. AntiFunction(f)[f[<<row, c>>]] = <<row, c>>
  BY <1>6, <1>7, InverseAt
<1> QED BY <1>1, <1>2, <1>8, <1>9

LEMMA ARrAt ==
    ASSUME NEW r \in 0 .. 7, NEW w \in 0 .. 1
    PROVE  PackedARr[w * 8 + r] = <<r, w>>
<1> DEFINE f == [x \in (0 .. 7) \X (0 .. 1) |-> x[2] * 8 + x[1]]
<1>1. PackedARr = AntiFunction(f)
  BY DEF PackedARr, Packed
<1>2. PICK row \in 0 .. 7, c \in 0 .. 1 : row = r /\ c = w
  OBVIOUS
<1>3. \A x \in 0 .. 7, y \in 0 .. 1 : f[<<x, y>>] = y * 8 + x
  OBVIOUS
<1>4. c * 8 + row = w * 8 + r
  BY <1>2
<1>5. ASSUME NEW x \in 0 .. 7, NEW y \in 0 .. 1, y * 8 + x = w * 8 + r
      PROVE  x = row /\ y = c
  BY <1>2, <1>5
<1>6. DOMAIN f = (0 .. 7) \X (0 .. 1)
  OBVIOUS
<1> HIDE DEF f
<1>7. ASSUME NEW z \in DOMAIN f, f[z] = f[<<row, c>>]
      PROVE  z = <<row, c>>
  <2>1. PICK x \in 0 .. 7, y \in 0 .. 1 : z = <<x, y>>
    BY <1>6
  <2>2. y * 8 + x = w * 8 + r
    BY <1>3, <1>4, <1>7, <2>1
  <2> QED BY <1>5, <2>1, <2>2
<1>8. f[<<row, c>>] = w * 8 + r
  BY <1>3, <1>4
<1>9. AntiFunction(f)[f[<<row, c>>]] = <<row, c>>
  BY <1>6, <1>7, InverseAt
<1> QED BY <1>1, <1>2, <1>8, <1>9

\* The packings of B: chunk 2 * i + e of a column is in register half e.
LEMMA B16At ==
    ASSUME NEW i \in 0 .. 1, NEW e \in 0 .. 1, NEW column \in 0 .. 15
    PROVE  PackedB16[<< i * 16 + column, e >>] = <<column, 2 * i + e>>
<1> DEFINE f == [x \in (0 .. 15) \X (0 .. 3) |-> << (x[2] \div 2) * 16 + x[1], x[2] % 2 >>]
<1>1. PackedB16 = AntiFunction(f)
  BY DEF PackedB16, Packed
<1>2. PICK row \in 0 .. 15, c \in 0 .. 3 : row = column /\ c = 2 * i + e
  OBVIOUS
<1>3. \A x \in 0 .. 15, y \in 0 .. 3 : f[<<x, y>>] = << (y \div 2) * 16 + x, y % 2 >>
  OBVIOUS
<1>4. << (c \div 2) * 16 + row, c % 2 >> = << i * 16 + column, e >>
  BY <1>2
<1>5. ASSUME NEW x \in 0 .. 15, NEW y \in 0 .. 3, << (y \div 2) * 16 + x, y % 2 >> = << i * 16 + column, e >>
      PROVE  x = row /\ y = c
  BY <1>2, <1>5
<1>6. DOMAIN f = (0 .. 15) \X (0 .. 3)
  OBVIOUS
<1> HIDE DEF f
<1>7. ASSUME NEW z \in DOMAIN f, f[z] = f[<<row, c>>]
      PROVE  z = <<row, c>>
  <2>1. PICK x \in 0 .. 15, y \in 0 .. 3 : z = <<x, y>>
    BY <1>6
  <2>2. << (y \div 2) * 16 + x, y % 2 >> = << i * 16 + column, e >>
    BY <1>3, <1>4, <1>7, <2>1
  <2> QED BY <1>5, <2>1, <2>2
<1>8. f[<<row, c>>] = << i * 16 + column, e >>
  BY <1>3, <1>4
<1>9. AntiFunction(f)[f[<<row, c>>]] = <<row, c>>
  BY <1>6, <1>7, InverseAt
<1> QED BY <1>1, <1>2, <1>8, <1>9

LEMMA B4At ==
    ASSUME NEW i \in 0 .. 1, NEW e \in 0 .. 1, NEW column \in 0 .. 3
    PROVE  PackedB4[<< i * 4 + column, e >>] = <<column, 2 * i + e>>
<1> DEFINE f == [x \in (0 .. 3) \X (0 .. 3) |-> << (x[2] \div 2) * 4 + x[1], x[2] % 2 >>]
<1>1. PackedB4 = AntiFunction(f)
  BY DEF PackedB4, Packed
<1>2. PICK row \in 0 .. 3, c \in 0 .. 3 : row = column /\ c = 2 * i + e
  OBVIOUS
<1>3. \A x \in 0 .. 3, y \in 0 .. 3 : f[<<x, y>>] = << (y \div 2) * 4 + x, y % 2 >>
  OBVIOUS
<1>4. << (c \div 2) * 4 + row, c % 2 >> = << i * 4 + column, e >>
  BY <1>2
<1>5. ASSUME NEW x \in 0 .. 3, NEW y \in 0 .. 3, << (y \div 2) * 4 + x, y % 2 >> = << i * 4 + column, e >>
      PROVE  x = row /\ y = c
  BY <1>2, <1>5
<1>6. DOMAIN f = (0 .. 3) \X (0 .. 3)
  OBVIOUS
<1> HIDE DEF f
<1>7. ASSUME NEW z \in DOMAIN f, f[z] = f[<<row, c>>]
      PROVE  z = <<row, c>>
  <2>1. PICK x \in 0 .. 3, y \in 0 .. 3 : z = <<x, y>>
    BY <1>6
  <2>2. << (y \div 2) * 4 + x, y % 2 >> = << i * 4 + column, e >>
    BY <1>3, <1>4, <1>7, <2>1
  <2> QED BY <1>5, <2>1, <2>2
<1>8. f[<<row, c>>] = << i * 4 + column, e >>
  BY <1>3, <1>4
<1>9. AntiFunction(f)[f[<<row, c>>]] = <<row, c>>
  BY <1>6, <1>7, InverseAt
<1> QED BY <1>1, <1>2, <1>8, <1>9

LEMMA B32At ==
    ASSUME NEW i \in 0 .. 1, NEW e \in 0 .. 1, NEW g \in 0 .. 7, NEW l \in 0 .. 3
    PROVE  PackedB32[<< (i * 8 + g) * 4 + l, e >>] = <<g * 4 + l, 2 * i + e>>
<1> DEFINE f == [x \in (0 .. 31) \X (0 .. 3) |-> << ((x[2] \div 2) * 8 + x[1] \div 4) * 4 + (x[1] % 4), x[2] % 2 >>]
<1>1. PackedB32 = AntiFunction(f)
  BY DEF PackedB32, Packed
<1>2. PICK row \in 0 .. 31, c \in 0 .. 3 : row = g * 4 + l /\ c = 2 * i + e
  OBVIOUS
<1>3. \A x \in 0 .. 31, y \in 0 .. 3 : f[<<x, y>>] = << ((y \div 2) * 8 + x \div 4) * 4 + (x % 4), y % 2 >>
  OBVIOUS
<1>4. << ((c \div 2) * 8 + row \div 4) * 4 + (row % 4), c % 2 >> = << (i * 8 + g) * 4 + l, e >>
  BY <1>2
<1>5. ASSUME NEW x \in 0 .. 31, NEW y \in 0 .. 3, << ((y \div 2) * 8 + x \div 4) * 4 + (x % 4), y % 2 >> = << (i * 8 + g) * 4 + l, e >>
      PROVE  x = row /\ y = c
  BY <1>2, <1>5
<1>6. DOMAIN f = (0 .. 31) \X (0 .. 3)
  OBVIOUS
<1> HIDE DEF f
<1>7. ASSUME NEW z \in DOMAIN f, f[z] = f[<<row, c>>]
      PROVE  z = <<row, c>>
  <2>1. PICK x \in 0 .. 31, y \in 0 .. 3 : z = <<x, y>>
    BY <1>6
  <2>2. << ((y \div 2) * 8 + x \div 4) * 4 + (x % 4), y % 2 >> = << (i * 8 + g) * 4 + l, e >>
    BY <1>3, <1>4, <1>7, <2>1
  <2> QED BY <1>5, <2>1, <2>2
<1>8. f[<<row, c>>] = << (i * 8 + g) * 4 + l, e >>
  BY <1>3, <1>4
<1>9. AntiFunction(f)[f[<<row, c>>]] = <<row, c>>
  BY <1>6, <1>7, InverseAt
<1> QED BY <1>1, <1>2, <1>8, <1>9

LEMMA B32WideAt ==
    ASSUME NEW g \in 0 .. 3, NEW l \in 0 .. 7, NEW e \in 0 .. 1
    PROVE  /\ PackedB32Wide[<< g * 8 + l, e >>] = <<g * 8 + l, e>>
           /\ PackedBRr[<< g * 8 + l, e >>] = <<g * 8 + l, e>>
<1> DEFINE f == [x \in (0 .. 31) \X (0 .. 1) |-> << (x[1] \div 8) * 8 + (x[1] % 8), x[2] >>]
<1>1. PackedB32Wide = AntiFunction(f) /\ PackedBRr = AntiFunction(f)
  BY DEF PackedB32Wide, PackedBRr, Packed
<1>2. PICK row \in 0 .. 31, c \in 0 .. 1 : row = g * 8 + l /\ c = e
  OBVIOUS
<1>3. \A x \in 0 .. 31, y \in 0 .. 1 : f[<<x, y>>] = << (x \div 8) * 8 + (x % 8), y >>
  OBVIOUS
<1>4. << (row \div 8) * 8 + (row % 8), c >> = << g * 8 + l, e >>
  BY <1>2
<1>5. ASSUME NEW x \in 0 .. 31, NEW y \in 0 .. 1, << (x \div 8) * 8 + (x % 8), y >> = << g * 8 + l, e >>
      PROVE  x = row /\ y = c
  BY <1>2, <1>5
<1>6. DOMAIN f = (0 .. 31) \X (0 .. 1)
  OBVIOUS
<1> HIDE DEF f
<1>7. ASSUME NEW z \in DOMAIN f, f[z] = f[<<row, c>>]
      PROVE  z = <<row, c>>
  <2>1. PICK x \in 0 .. 31, y \in 0 .. 1 : z = <<x, y>>
    BY <1>6
  <2>2. << (x \div 8) * 8 + (x % 8), y >> = << g * 8 + l, e >>
    BY <1>3, <1>4, <1>7, <2>1
  <2> QED BY <1>5, <2>1, <2>2
<1>8. f[<<row, c>>] = << g * 8 + l, e >>
  BY <1>3, <1>4
<1>9. AntiFunction(f)[f[<<row, c>>]] = <<row, c>>
  BY <1>6, <1>7, InverseAt
<1> QED BY <1>1, <1>2, <1>8, <1>9

\* Unpacked to bytes: the two halves of a register follow each other.
LEMMA Unpacked16At ==
    ASSUME NEW i \in 0 .. 1, NEW e \in 0 .. 1, NEW column \in 0 .. 15
    PROVE  UnpackedB16[i * 32 + e * 16 + column] = <<column, 2 * i + e>>
<1>1. PICK x \in 0 .. 63 : x = i * 32 + e * 16 + column
  OBVIOUS
<1>2. x \div 32 = i /\ x % 16 = column /\ (x % 32) \div 16 = e
  BY <1>1
<1> QED BY <1>1, <1>2, B16At DEF UnpackedB16

----------------------------------------------------------------------------
(* The lanes of the accumulators: where each is stored, which chunks it     *)
(* collects, and that none is missing, kernel by kernel.                    *)

LaneSet == Lanes(K.accs, K.width)

\* The chunk k of a row and of a column.
ChunkOf(rc, k) == << <<rc[1], k>>, <<rc[2], k>> >>

\* A lane is stored at a position, becomes a cell, is scaled for that cell, and
\* collects in iteration i its chunks 2 * i and 2 * i + 1.
Collects(al, pos, rc, i) ==
    /\ K.store[al] = pos /\ K.cell[pos] = rc /\ K.scales[pos] = rc
    /\ Len(K.dots[i][al[1]]) = 2
    /\ Product(K.dots[i][al[1]][1], al[2]) = ChunkOf(rc, 2 * i)
    /\ Product(K.dots[i][al[1]][2], al[2]) = ChunkOf(rc, 2 * i + 1)

LEMMA Lane4 ==
    ASSUME NEW r \in 0 .. 3, NEW c \in 0 .. 3, NEW lane, lane = 4 * r + c
    PROVE  /\ lane \in 0 .. 15
           /\ lane \div 4 = r /\ lane % 4 = c
           /\ lane \div 8 = r \div 2 /\ lane % 8 = 4 * (r % 2) + c
           /\ r = 2 * (r \div 2) + (r % 2) /\ r \div 2 \in 0 .. 1 /\ r % 2 \in 0 .. 1
OBVIOUS

LEMMA Lane8 ==
    ASSUME NEW r \in 0 .. 7, NEW c \in 0 .. 7, NEW lane, lane = 8 * r + c
    PROVE  /\ lane \in 0 .. 63
           /\ lane \div 8 = r /\ lane % 8 = c
           /\ lane \div 32 = r \div 4 /\ lane % 32 = 8 * (r % 4) + c
           /\ r = 4 * (r \div 4) + (r % 4) /\ r \div 4 \in 0 .. 1 /\ r % 4 \in 0 .. 3
OBVIOUS

\* Where the lanes of m4b are stored, and the cells they become.
Lane_m4b(al, pos, rc) ==
    \E acc \in 0 .. 3, r \in 0 .. 3, c \in 0 .. 3 :
       al = <<acc, 4 * r + c>> /\ pos = 16 * r + 4 * acc + c /\ rc = <<r, 4 * acc + c>>

LEMMA Lanes_m4b ==
    ASSUME kernel = "m4b", NEW al, NEW pos, NEW rc, Lane_m4b(al, pos, rc), NEW i \in 0 .. 1
    PROVE  Collects(al, pos, rc, i)
<1>0. PICK acc \in 0 .. 3, r \in 0 .. 3, c \in 0 .. 3 :
        al = <<acc, 4 * r + c>> /\ pos = 16 * r + 4 * acc + c /\ rc = <<r, 4 * acc + c>>
  BY DEF Lane_m4b
<1>1. PICK lane \in 0 .. 15 : lane = 4 * r + c
  OBVIOUS
<1>2. pos \in 0 .. 63 /\ pos = 16 * r + 4 * acc + c
  BY <1>0
<1>3. K = M4b
  BY DEF K, Kernel
<1>4. /\ K.store[<<acc, lane>>] = StoreM4(acc, lane)
      /\ K.cell[pos] = RowMajor(16, pos) /\ K.scales[pos] = RowMajor(16, pos)
  <2>1. <<acc, lane>> \in Lanes(4, 4)
    BY DEF Lanes
  <2>2. K.store[<<acc, lane>>] = StoreM4(acc, lane)
    BY <1>3, <2>1 DEF M4b
  <2>3. K.cell[pos] = RowMajor(16, pos)
    BY <1>2, <1>3 DEF M4b
  <2>4. K.scales[pos] = RowMajor(16, pos)
    BY <1>2, <1>3 DEF M4b
  <2> QED BY <2>2, <2>3, <2>4
<1>5. StoreM4(acc, lane) = pos
  BY <1>1, <1>2, Lane4 DEF StoreM4
<1>6. RowMajor(16, pos) = <<r, 4 * acc + c>>
  BY <1>2 DEF RowMajor
<1>7. K.dots[i][acc] = << <<2 * i, 4 * i + acc, 0>>, <<2 * i + 1, 4 * i + acc, 1>> >>
  BY <1>3 DEF M4b, DotsM4
<1>8. ASSUME NEW e \in 0 .. 1
      PROVE  Product(<<2 * i + e, 4 * i + acc, e>>, lane) = ChunkOf(<<r, 4 * acc + c>>, 2 * i + e)
  <2>1. K.a = PackedA4 /\ K.b = PackedB16 /\ K.width = 4
    BY <1>3 DEF M4b
  <2>2. K.a[4 * (2 * i + e) + r] = <<r, 2 * i + e>>
    <3>1. PICK k \in 0 .. 3 : k = 2 * i + e
      OBVIOUS
    <3>2. K.a[k * 4 + r] = <<r, k>>
      BY <2>1, A4At
    <3>3. 4 * (2 * i + e) + r = k * 4 + r /\ <<r, k>> = <<r, 2 * i + e>>
      BY <3>1
    <3> QED BY <3>2, <3>3
  <2>3. K.b[<<4 * (4 * i + acc) + c, e>>] = <<4 * acc + c, 2 * i + e>>
    <3>1. PICK column \in 0 .. 15 : column = 4 * acc + c
      OBVIOUS
    <3>2. K.b[<<i * 16 + column, e>>] = <<column, 2 * i + e>>
      BY <2>1, B16At
    <3>3. 4 * (4 * i + acc) + c = i * 16 + column
      BY <3>1
    <3> QED BY <3>1, <3>2, <3>3
  <2>4. lane \div 4 = r /\ lane % 4 = c
    BY <1>1, Lane4
  <2> QED BY <2>1, <2>2, <2>3, <2>4 DEF Product, ChunkOf
<1>9. Product(<<2 * i, 4 * i + acc, 0>>, lane) = ChunkOf(<<r, 4 * acc + c>>, 2 * i)
  BY <1>8
<1>10. Product(<<2 * i + 1, 4 * i + acc, 1>>, lane) = ChunkOf(<<r, 4 * acc + c>>, 2 * i + 1)
  BY <1>8
<1> QED BY <1>0, <1>1, <1>4, <1>5, <1>6, <1>7, <1>9, <1>10 DEF Collects

\* Where the lanes of m4i are stored, and the cells they become.
Lane_m4i(al, pos, rc) ==
    \E acc \in 0 .. 3, r \in 0 .. 3, c \in 0 .. 3 :
       al = <<acc, 4 * r + c>> /\ pos = 16 * acc + 4 * r + c /\ rc = <<r, 4 * acc + c>>

LEMMA Lanes_m4i ==
    ASSUME kernel = "m4i", NEW al, NEW pos, NEW rc, Lane_m4i(al, pos, rc), NEW i \in 0 .. 1
    PROVE  Collects(al, pos, rc, i)
<1>0. PICK acc \in 0 .. 3, r \in 0 .. 3, c \in 0 .. 3 :
        al = <<acc, 4 * r + c>> /\ pos = 16 * acc + 4 * r + c /\ rc = <<r, 4 * acc + c>>
  BY DEF Lane_m4i
<1>1. PICK lane \in 0 .. 15 : lane = 4 * r + c
  OBVIOUS
<1>2. pos \in 0 .. 63 /\ pos = 16 * acc + 4 * r + c
  BY <1>0
<1>3. K = M4i
  BY DEF K, Kernel
<1>4. /\ K.store[<<acc, lane>>] = InRegisters16(acc, lane)
      /\ K.cell[pos] = CellM4i(pos) /\ K.scales[pos] = ScalesM4i(pos)
  <2>1. <<acc, lane>> \in Lanes(4, 4)
    BY DEF Lanes
  <2>2. K.store[<<acc, lane>>] = InRegisters16(acc, lane)
    BY <1>3, <2>1 DEF M4i, M4b
  <2>3. K.cell[pos] = CellM4i(pos)
    BY <1>2, <1>3 DEF M4i, M4b
  <2>4. K.scales[pos] = ScalesM4i(pos)
    BY <1>2, <1>3 DEF M4i, M4b
  <2> QED BY <2>2, <2>3, <2>4
<1>5. InRegisters16(acc, lane) = pos
  BY <1>1, <1>2, Lane4 DEF InRegisters16
<1>6. CellM4i(pos) = <<r, 4 * acc + c>> /\ ScalesM4i(pos) = <<r, 4 * acc + c>>
  BY <1>2 DEF CellM4i, ScalesM4i
<1>7. K.dots[i][acc] = << <<2 * i, 4 * i + acc, 0>>, <<2 * i + 1, 4 * i + acc, 1>> >>
  BY <1>3 DEF M4i, M4b, DotsM4
<1>8. ASSUME NEW e \in 0 .. 1
      PROVE  Product(<<2 * i + e, 4 * i + acc, e>>, lane) = ChunkOf(<<r, 4 * acc + c>>, 2 * i + e)
  <2>1. K.a = PackedA4 /\ K.b = PackedB16 /\ K.width = 4
    BY <1>3 DEF M4i, M4b
  <2>2. K.a[4 * (2 * i + e) + r] = <<r, 2 * i + e>>
    <3>1. PICK k \in 0 .. 3 : k = 2 * i + e
      OBVIOUS
    <3>2. K.a[k * 4 + r] = <<r, k>>
      BY <2>1, A4At
    <3>3. 4 * (2 * i + e) + r = k * 4 + r /\ <<r, k>> = <<r, 2 * i + e>>
      BY <3>1
    <3> QED BY <3>2, <3>3
  <2>3. K.b[<<4 * (4 * i + acc) + c, e>>] = <<4 * acc + c, 2 * i + e>>
    <3>1. PICK column \in 0 .. 15 : column = 4 * acc + c
      OBVIOUS
    <3>2. K.b[<<i * 16 + column, e>>] = <<column, 2 * i + e>>
      BY <2>1, B16At
    <3>3. 4 * (4 * i + acc) + c = i * 16 + column
      BY <3>1
    <3> QED BY <3>1, <3>2, <3>3
  <2>4. lane \div 4 = r /\ lane % 4 = c
    BY <1>1, Lane4
  <2> QED BY <2>1, <2>2, <2>3, <2>4 DEF Product, ChunkOf
<1>9. Product(<<2 * i, 4 * i + acc, 0>>, lane) = ChunkOf(<<r, 4 * acc + c>>, 2 * i)
  BY <1>8
<1>10. Product(<<2 * i + 1, 4 * i + acc, 1>>, lane) = ChunkOf(<<r, 4 * acc + c>>, 2 * i + 1)
  BY <1>8
<1> QED BY <1>0, <1>1, <1>4, <1>5, <1>6, <1>7, <1>9, <1>10 DEF Collects

\* Where the lanes of upstream are stored, and the cells they become.
Lane_upstream(al, pos, rc) ==
    \E acc \in 0 .. 3, r \in 0 .. 3, c \in 0 .. 3 :
       al = <<acc, 4 * r + c>> /\ pos = 16 * acc + 4 * r + c /\ rc = <<r, 4 * acc + c>>

LEMMA Lanes_upstream ==
    ASSUME kernel = "upstream", NEW al, NEW pos, NEW rc, Lane_upstream(al, pos, rc), NEW i \in 0 .. 1
    PROVE  Collects(al, pos, rc, i)
<1>0. PICK acc \in 0 .. 3, r \in 0 .. 3, c \in 0 .. 3 :
        al = <<acc, 4 * r + c>> /\ pos = 16 * acc + 4 * r + c /\ rc = <<r, 4 * acc + c>>
  BY DEF Lane_upstream
<1>1. PICK lane \in 0 .. 15 : lane = 4 * r + c
  OBVIOUS
<1>2. pos \in 0 .. 63 /\ pos = 16 * acc + 4 * r + c
  BY <1>0
<1>3. K = Upstream
  BY DEF K, Kernel
<1>4. /\ K.store[<<acc, lane>>] = InRegisters16(acc, lane)
      /\ K.cell[pos] = CellUpstream(pos) /\ K.scales[pos] = ScalesUpstream(pos)
  <2>1. <<acc, lane>> \in Lanes(4, 4)
    BY DEF Lanes
  <2>2. K.store[<<acc, lane>>] = InRegisters16(acc, lane)
    BY <1>3, <2>1 DEF Upstream, M4b
  <2>3. K.cell[pos] = CellUpstream(pos)
    BY <1>2, <1>3 DEF Upstream, M4b
  <2>4. K.scales[pos] = ScalesUpstream(pos)
    BY <1>2, <1>3 DEF Upstream, M4b
  <2> QED BY <2>2, <2>3, <2>4
<1>5. InRegisters16(acc, lane) = pos
  BY <1>1, <1>2, Lane4 DEF InRegisters16
<1>6. CellUpstream(pos) = <<r, 4 * acc + c>> /\ ScalesUpstream(pos) = <<r, 4 * acc + c>>
  BY <1>2 DEF CellUpstream, ScalesUpstream
<1>7. K.dots[i][acc] = << <<2 * i, 4 * i + acc, 0>>, <<2 * i + 1, 4 * i + acc, 1>> >>
  BY <1>3 DEF Upstream, M4b, DotsUpstream, LoadedB
<1>8. ASSUME NEW e \in 0 .. 1
      PROVE  Product(<<2 * i + e, 4 * i + acc, e>>, lane) = ChunkOf(<<r, 4 * acc + c>>, 2 * i + e)
  <2>1. K.a = PackedA4 /\ K.b = PackedB16 /\ K.width = 4
    BY <1>3 DEF Upstream, M4b
  <2>2. K.a[4 * (2 * i + e) + r] = <<r, 2 * i + e>>
    <3>1. PICK k \in 0 .. 3 : k = 2 * i + e
      OBVIOUS
    <3>2. K.a[k * 4 + r] = <<r, k>>
      BY <2>1, A4At
    <3>3. 4 * (2 * i + e) + r = k * 4 + r /\ <<r, k>> = <<r, 2 * i + e>>
      BY <3>1
    <3> QED BY <3>2, <3>3
  <2>3. K.b[<<4 * (4 * i + acc) + c, e>>] = <<4 * acc + c, 2 * i + e>>
    <3>1. PICK column \in 0 .. 15 : column = 4 * acc + c
      OBVIOUS
    <3>2. K.b[<<i * 16 + column, e>>] = <<column, 2 * i + e>>
      BY <2>1, B16At
    <3>3. 4 * (4 * i + acc) + c = i * 16 + column
      BY <3>1
    <3> QED BY <3>1, <3>2, <3>3
  <2>4. lane \div 4 = r /\ lane % 4 = c
    BY <1>1, Lane4
  <2> QED BY <2>1, <2>2, <2>3, <2>4 DEF Product, ChunkOf
<1>9. Product(<<2 * i, 4 * i + acc, 0>>, lane) = ChunkOf(<<r, 4 * acc + c>>, 2 * i)
  BY <1>8
<1>10. Product(<<2 * i + 1, 4 * i + acc, 1>>, lane) = ChunkOf(<<r, 4 * acc + c>>, 2 * i + 1)
  BY <1>8
<1> QED BY <1>0, <1>1, <1>4, <1>5, <1>6, <1>7, <1>9, <1>10 DEF Collects

\* Where the lanes of m8b are stored, and the cells they become.
Lane_m8b(al, pos, rc) ==
    \E h \in 0 .. 1, a \in 0 .. 3, r \in 0 .. 3, c \in 0 .. 3 :
       al = <<4 * h + a, 4 * r + c>> /\ pos = 64 * h + 16 * r + 4 * a + c /\ rc = <<4 * h + r, 4 * a + c>>

LEMMA Lanes_m8b ==
    ASSUME kernel = "m8b", NEW al, NEW pos, NEW rc, Lane_m8b(al, pos, rc), NEW i \in 0 .. 1
    PROVE  Collects(al, pos, rc, i)
<1>0. PICK h \in 0 .. 1, a \in 0 .. 3, r \in 0 .. 3, c \in 0 .. 3 :
        al = <<4 * h + a, 4 * r + c>> /\ pos = 64 * h + 16 * r + 4 * a + c /\ rc = <<4 * h + r, 4 * a + c>>
  BY DEF Lane_m8b
<1>1. PICK lane \in 0 .. 15 : lane = 4 * r + c
  OBVIOUS
<1>2. pos \in 0 .. 127 /\ pos = 64 * h + 16 * r + 4 * a + c
  BY <1>0
<1>3. K = M8b
  BY DEF K, Kernel
<1>4. /\ K.store[<<4 * h + a, lane>>] = StoreM8(4 * h + a, lane)
      /\ K.cell[pos] = RowMajor(16, pos) /\ K.scales[pos] = RowMajor(16, pos)
  <2>1. <<4 * h + a, lane>> \in Lanes(8, 4)
    BY DEF Lanes
  <2>2. K.store[<<4 * h + a, lane>>] = StoreM8(4 * h + a, lane)
    BY <1>3, <2>1 DEF M8b
  <2>3. K.cell[pos] = RowMajor(16, pos)
    BY <1>2, <1>3 DEF M8b
  <2>4. K.scales[pos] = RowMajor(16, pos)
    BY <1>2, <1>3 DEF M8b
  <2> QED BY <2>2, <2>3, <2>4
<1>5. StoreM8(4 * h + a, lane) = pos
  BY <1>1, <1>2, Lane4 DEF StoreM8
<1>6. RowMajor(16, pos) = <<4 * h + r, 4 * a + c>>
  BY <1>2 DEF RowMajor
<1>7. K.dots[i][4 * h + a] = << <<4 * i + 2 * h, 4 * i + a, 0>>, <<4 * i + 2 * h + 1, 4 * i + a, 1>> >>
  <2>1. 4 * h + a \in 0 .. 7 /\ (4 * h + a) \div 4 = h /\ (4 * h + a) % 4 = a
    OBVIOUS
  <2> QED BY <1>3, <2>1 DEF M8b, DotsM8
<1>8. ASSUME NEW e \in 0 .. 1
      PROVE  Product(<<4 * i + 2 * h + e, 4 * i + a, e>>, lane) = ChunkOf(<<4 * h + r, 4 * a + c>>, 2 * i + e)
  <2>1. K.a = InterleavedA8 /\ K.b = PackedB16 /\ K.width = 4
    BY <1>3 DEF M8b
  <2>2. K.a[4 * (4 * i + 2 * h + e) + r] = <<4 * h + r, 2 * i + e>>
    <3>1. K.a[4 * (4 * i + 2 * h + e) + r] = <<h * 4 + r, 2 * i + e>>
      BY <2>1, InterleavedAt
    <3>2. 4 * (4 * i + 2 * h + e) + r = 4 * (4 * i + 2 * h + e) + r /\ <<h * 4 + r, 2 * i + e>> = <<4 * h + r, 2 * i + e>>
      OBVIOUS
    <3> QED BY <3>1, <3>2
  <2>3. K.b[<<4 * (4 * i + a) + c, e>>] = <<4 * a + c, 2 * i + e>>
    <3>1. PICK column \in 0 .. 15 : column = 4 * a + c
      OBVIOUS
    <3>2. K.b[<<i * 16 + column, e>>] = <<column, 2 * i + e>>
      BY <2>1, B16At
    <3>3. 4 * (4 * i + a) + c = i * 16 + column
      BY <3>1
    <3> QED BY <3>1, <3>2, <3>3
  <2>4. lane \div 4 = r /\ lane % 4 = c
    BY <1>1, Lane4
  <2> QED BY <2>1, <2>2, <2>3, <2>4 DEF Product, ChunkOf
<1>9. Product(<<4 * i + 2 * h, 4 * i + a, 0>>, lane) = ChunkOf(<<4 * h + r, 4 * a + c>>, 2 * i)
  BY <1>8
<1>10. Product(<<4 * i + 2 * h + 1, 4 * i + a, 1>>, lane) = ChunkOf(<<4 * h + r, 4 * a + c>>, 2 * i + 1)
  BY <1>8
<1> QED BY <1>0, <1>1, <1>4, <1>5, <1>6, <1>7, <1>9, <1>10 DEF Collects

\* Where the lanes of m8b_dpu are stored, and the cells they become.
Lane_m8b_dpu(al, pos, rc) ==
    \E h \in 0 .. 1, a \in 0 .. 3, r \in 0 .. 3, c \in 0 .. 3 :
       al = <<4 * h + a, 4 * r + c>> /\ pos = 64 * h + 16 * r + 4 * a + c /\ rc = <<4 * h + r, 4 * a + c>>

LEMMA Lanes_m8b_dpu ==
    ASSUME kernel = "m8b_dpu", NEW al, NEW pos, NEW rc, Lane_m8b_dpu(al, pos, rc), NEW i \in 0 .. 1
    PROVE  Collects(al, pos, rc, i)
<1>0. PICK h \in 0 .. 1, a \in 0 .. 3, r \in 0 .. 3, c \in 0 .. 3 :
        al = <<4 * h + a, 4 * r + c>> /\ pos = 64 * h + 16 * r + 4 * a + c /\ rc = <<4 * h + r, 4 * a + c>>
  BY DEF Lane_m8b_dpu
<1>1. PICK lane \in 0 .. 15 : lane = 4 * r + c
  OBVIOUS
<1>2. pos \in 0 .. 127 /\ pos = 64 * h + 16 * r + 4 * a + c
  BY <1>0
<1>3. K = M8bDpu
  BY DEF K, Kernel
<1>4. /\ K.store[<<4 * h + a, lane>>] = StoreM8(4 * h + a, lane)
      /\ K.cell[pos] = RowMajor(16, pos) /\ K.scales[pos] = RowMajor(16, pos)
  <2>1. <<4 * h + a, lane>> \in Lanes(8, 4)
    BY DEF Lanes
  <2>2. K.store[<<4 * h + a, lane>>] = StoreM8(4 * h + a, lane)
    BY <1>3, <2>1 DEF M8bDpu, M8b
  <2>3. K.cell[pos] = RowMajor(16, pos)
    BY <1>2, <1>3 DEF M8bDpu, M8b
  <2>4. K.scales[pos] = RowMajor(16, pos)
    BY <1>2, <1>3 DEF M8bDpu, M8b
  <2> QED BY <2>2, <2>3, <2>4
<1>5. StoreM8(4 * h + a, lane) = pos
  BY <1>1, <1>2, Lane4 DEF StoreM8
<1>6. RowMajor(16, pos) = <<4 * h + r, 4 * a + c>>
  BY <1>2 DEF RowMajor
<1>7. K.dots[i][4 * h + a] = << <<4 * i + 2 * h, 8 * i + a, 0>>, <<4 * i + 2 * h + 1, 8 * i + 4 + a, 0>> >>
  <2>1. 4 * h + a \in 0 .. 7 /\ (4 * h + a) \div 4 = h /\ (4 * h + a) % 4 = a
    OBVIOUS
  <2> QED BY <1>3, <2>1 DEF M8bDpu, M8b, DotsDpu
<1>8. ASSUME NEW e \in 0 .. 1
      PROVE  Product(<<4 * i + 2 * h + e, 8 * i + 4 * e + a, 0>>, lane) = ChunkOf(<<4 * h + r, 4 * a + c>>, 2 * i + e)
  <2>1. K.a = InterleavedA8 /\ K.b = [key \in (0 .. 63) \X {0} |-> UnpackedB16[key[1]]] /\ K.width = 4
    BY <1>3 DEF M8bDpu, M8b
  <2>2. K.a[4 * (4 * i + 2 * h + e) + r] = <<4 * h + r, 2 * i + e>>
    <3>1. K.a[4 * (4 * i + 2 * h + e) + r] = <<h * 4 + r, 2 * i + e>>
      BY <2>1, InterleavedAt
    <3>2. 4 * (4 * i + 2 * h + e) + r = 4 * (4 * i + 2 * h + e) + r /\ <<h * 4 + r, 2 * i + e>> = <<4 * h + r, 2 * i + e>>
      OBVIOUS
    <3> QED BY <3>1, <3>2
  <2>3. K.b[<<4 * (8 * i + 4 * e + a) + c, 0>>] = <<4 * a + c, 2 * i + e>>
    <3>1. PICK column \in 0 .. 15 : column = 4 * a + c
      OBVIOUS
    <3>2. PICK x \in 0 .. 63 : x = i * 32 + e * 16 + column
      OBVIOUS
    <3>3. UnpackedB16[x] = <<column, 2 * i + e>>
      BY <3>2, Unpacked16At
    <3>4. K.b[<<x, 0>>] = UnpackedB16[x]
      BY <2>1
    <3>5. 4 * (8 * i + 4 * e + a) + c = x
      BY <3>1, <3>2
    <3> QED BY <3>1, <3>3, <3>4, <3>5
  <2>4. lane \div 4 = r /\ lane % 4 = c
    BY <1>1, Lane4
  <2> QED BY <2>1, <2>2, <2>3, <2>4 DEF Product, ChunkOf
<1>9. Product(<<4 * i + 2 * h, 8 * i + a, 0>>, lane) = ChunkOf(<<4 * h + r, 4 * a + c>>, 2 * i)
  BY <1>8
<1>10. Product(<<4 * i + 2 * h + 1, 8 * i + 4 + a, 0>>, lane) = ChunkOf(<<4 * h + r, 4 * a + c>>, 2 * i + 1)
  BY <1>8
<1> QED BY <1>0, <1>1, <1>4, <1>5, <1>6, <1>7, <1>9, <1>10 DEF Collects

\* Where the lanes of m4n32b are stored, and the cells they become.
Lane_m4n32b(al, pos, rc) ==
    \E acc \in 0 .. 7, r \in 0 .. 3, c \in 0 .. 3 :
       al = <<acc, 4 * r + c>> /\ pos = 32 * r + 4 * acc + c /\ rc = <<r, 4 * acc + c>>

LEMMA Lanes_m4n32b ==
    ASSUME kernel = "m4n32b", NEW al, NEW pos, NEW rc, Lane_m4n32b(al, pos, rc), NEW i \in 0 .. 1
    PROVE  Collects(al, pos, rc, i)
<1>0. PICK acc \in 0 .. 7, r \in 0 .. 3, c \in 0 .. 3 :
        al = <<acc, 4 * r + c>> /\ pos = 32 * r + 4 * acc + c /\ rc = <<r, 4 * acc + c>>
  BY DEF Lane_m4n32b
<1>1. PICK lane \in 0 .. 15 : lane = 4 * r + c
  OBVIOUS
<1>2. pos \in 0 .. 127 /\ pos = 32 * r + 4 * acc + c
  BY <1>0
<1>3. K = M4n32b
  BY DEF K, Kernel
<1>4. /\ K.store[<<acc, lane>>] = StoreM4n32(acc, lane)
      /\ K.cell[pos] = RowMajor(32, pos) /\ K.scales[pos] = RowMajor(32, pos)
  <2>1. <<acc, lane>> \in Lanes(8, 4)
    BY DEF Lanes
  <2>2. K.store[<<acc, lane>>] = StoreM4n32(acc, lane)
    BY <1>3, <2>1 DEF M4n32b
  <2>3. K.cell[pos] = RowMajor(32, pos)
    BY <1>2, <1>3 DEF M4n32b
  <2>4. K.scales[pos] = RowMajor(32, pos)
    BY <1>2, <1>3 DEF M4n32b
  <2> QED BY <2>2, <2>3, <2>4
<1>5. StoreM4n32(acc, lane) = pos
  BY <1>1, <1>2, Lane4 DEF StoreM4n32
<1>6. RowMajor(32, pos) = <<r, 4 * acc + c>>
  BY <1>2 DEF RowMajor
<1>7. K.dots[i][acc] = << <<2 * i, 8 * i + acc, 0>>, <<2 * i + 1, 8 * i + acc, 1>> >>
  BY <1>3 DEF M4n32b, DotsM4n32
<1>8. ASSUME NEW e \in 0 .. 1
      PROVE  Product(<<2 * i + e, 8 * i + acc, e>>, lane) = ChunkOf(<<r, 4 * acc + c>>, 2 * i + e)
  <2>1. K.a = PackedA4 /\ K.b = PackedB32 /\ K.width = 4
    BY <1>3 DEF M4n32b
  <2>2. K.a[4 * (2 * i + e) + r] = <<r, 2 * i + e>>
    <3>1. PICK k \in 0 .. 3 : k = 2 * i + e
      OBVIOUS
    <3>2. K.a[k * 4 + r] = <<r, k>>
      BY <2>1, A4At
    <3>3. 4 * (2 * i + e) + r = k * 4 + r /\ <<r, k>> = <<r, 2 * i + e>>
      BY <3>1
    <3> QED BY <3>2, <3>3
  <2>3. K.b[<<4 * (8 * i + acc) + c, e>>] = <<4 * acc + c, 2 * i + e>>
    <3>1. K.b[<<(i * 8 + acc) * 4 + c, e>>] = <<acc * 4 + c, 2 * i + e>>
      BY <2>1, B32At
    <3>2. 4 * (8 * i + acc) + c = (i * 8 + acc) * 4 + c /\ <<acc * 4 + c, 2 * i + e>> = <<4 * acc + c, 2 * i + e>>
      OBVIOUS
    <3> QED BY <3>1, <3>2
  <2>4. lane \div 4 = r /\ lane % 4 = c
    BY <1>1, Lane4
  <2> QED BY <2>1, <2>2, <2>3, <2>4 DEF Product, ChunkOf
<1>9. Product(<<2 * i, 8 * i + acc, 0>>, lane) = ChunkOf(<<r, 4 * acc + c>>, 2 * i)
  BY <1>8
<1>10. Product(<<2 * i + 1, 8 * i + acc, 1>>, lane) = ChunkOf(<<r, 4 * acc + c>>, 2 * i + 1)
  BY <1>8
<1> QED BY <1>0, <1>1, <1>4, <1>5, <1>6, <1>7, <1>9, <1>10 DEF Collects

\* Where the lanes of m32n4 are stored, and the cells they become.
Lane_m32n4(al, pos, rc) ==
    \E acc \in 0 .. 7, r \in 0 .. 3, c \in 0 .. 3 :
       al = <<acc, 4 * r + c>> /\ pos = 16 * acc + 4 * r + c /\ rc = <<4 * acc + r, c>>

LEMMA Lanes_m32n4 ==
    ASSUME kernel = "m32n4", NEW al, NEW pos, NEW rc, Lane_m32n4(al, pos, rc), NEW i \in 0 .. 1
    PROVE  Collects(al, pos, rc, i)
<1>0. PICK acc \in 0 .. 7, r \in 0 .. 3, c \in 0 .. 3 :
        al = <<acc, 4 * r + c>> /\ pos = 16 * acc + 4 * r + c /\ rc = <<4 * acc + r, c>>
  BY DEF Lane_m32n4
<1>1. PICK lane \in 0 .. 15 : lane = 4 * r + c
  OBVIOUS
<1>2. pos \in 0 .. 127 /\ pos = 16 * acc + 4 * r + c
  BY <1>0
<1>3. K = M32n4
  BY DEF K, Kernel
<1>4. /\ K.store[<<acc, lane>>] = StoreM32n4(acc, lane)
      /\ K.cell[pos] = RowMajor(4, pos) /\ K.scales[pos] = RowMajor(4, pos)
  <2>1. <<acc, lane>> \in Lanes(8, 4)
    BY DEF Lanes
  <2>2. K.store[<<acc, lane>>] = StoreM32n4(acc, lane)
    BY <1>3, <2>1 DEF M32n4
  <2>3. K.cell[pos] = RowMajor(4, pos)
    BY <1>2, <1>3 DEF M32n4
  <2>4. K.scales[pos] = RowMajor(4, pos)
    BY <1>2, <1>3 DEF M32n4
  <2> QED BY <2>2, <2>3, <2>4
<1>5. StoreM32n4(acc, lane) = pos
  BY <1>1, <1>2, Lane4 DEF StoreM32n4
<1>6. RowMajor(4, pos) = <<4 * acc + r, c>>
  BY <1>2 DEF RowMajor
<1>7. K.dots[i][acc] = << <<4 * acc + 2 * i, i, 0>>, <<4 * acc + 2 * i + 1, i, 1>> >>
  BY <1>3 DEF M32n4, DotsM32n4
<1>8. ASSUME NEW e \in 0 .. 1
      PROVE  Product(<<4 * acc + 2 * i + e, i, e>>, lane) = ChunkOf(<<4 * acc + r, c>>, 2 * i + e)
  <2>1. K.a = PackedA32 /\ K.b = PackedB4 /\ K.width = 4
    BY <1>3 DEF M32n4
  <2>2. K.a[4 * (4 * acc + 2 * i + e) + r] = <<4 * acc + r, 2 * i + e>>
    <3>1. PICK k \in 0 .. 3 : k = 2 * i + e
      OBVIOUS
    <3>2. K.a[acc * 16 + k * 4 + r] = <<acc * 4 + r, k>>
      BY <2>1, A32At
    <3>3. 4 * (4 * acc + 2 * i + e) + r = acc * 16 + k * 4 + r /\ <<acc * 4 + r, k>> = <<4 * acc + r, 2 * i + e>>
      BY <3>1
    <3> QED BY <3>2, <3>3
  <2>3. K.b[<<4 * (i) + c, e>>] = <<c, 2 * i + e>>
    <3>1. PICK column \in 0 .. 3 : column = c
      OBVIOUS
    <3>2. K.b[<<i * 4 + column, e>>] = <<column, 2 * i + e>>
      BY <2>1, B4At
    <3>3. 4 * (i) + c = i * 4 + column
      BY <3>1
    <3> QED BY <3>1, <3>2, <3>3
  <2>4. lane \div 4 = r /\ lane % 4 = c
    BY <1>1, Lane4
  <2> QED BY <2>1, <2>2, <2>3, <2>4 DEF Product, ChunkOf
<1>9. Product(<<4 * acc + 2 * i, i, 0>>, lane) = ChunkOf(<<4 * acc + r, c>>, 2 * i)
  BY <1>8
<1>10. Product(<<4 * acc + 2 * i + 1, i, 1>>, lane) = ChunkOf(<<4 * acc + r, c>>, 2 * i + 1)
  BY <1>8
<1> QED BY <1>0, <1>1, <1>4, <1>5, <1>6, <1>7, <1>9, <1>10 DEF Collects

\* Where the lanes of m8b_ime2 are stored, and the cells they become.
Lane_m8b_ime2(al, pos, rc) ==
    \E h \in 0 .. 1, a \in 0 .. 3, r \in 0 .. 7, c \in 0 .. 7 :
       al = <<4 * h + a, 8 * r + c>> /\ pos = 256 * h + 32 * r + 8 * a + c /\ rc = <<8 * h + r, 8 * a + c>>

LEMMA Lanes_m8b_ime2 ==
    ASSUME kernel = "m8b_ime2", NEW al, NEW pos, NEW rc, Lane_m8b_ime2(al, pos, rc), NEW i \in {0}
    PROVE  Collects(al, pos, rc, i)
<1>0. PICK h \in 0 .. 1, a \in 0 .. 3, r \in 0 .. 7, c \in 0 .. 7 :
        al = <<4 * h + a, 8 * r + c>> /\ pos = 256 * h + 32 * r + 8 * a + c /\ rc = <<8 * h + r, 8 * a + c>>
  BY DEF Lane_m8b_ime2
<1>1. PICK lane \in 0 .. 63 : lane = 8 * r + c
  OBVIOUS
<1>2. pos \in 0 .. 511 /\ pos = 256 * h + 32 * r + 8 * a + c
  BY <1>0
<1>3. K = M8bIme2
  BY DEF K, Kernel
<1>4. /\ K.store[<<4 * h + a, lane>>] = StoreM16(4 * h + a, lane)
      /\ K.cell[pos] = RowMajor(32, pos) /\ K.scales[pos] = RowMajor(32, pos)
  <2>1. <<4 * h + a, lane>> \in Lanes(8, 8)
    BY DEF Lanes
  <2>2. K.store[<<4 * h + a, lane>>] = StoreM16(4 * h + a, lane)
    BY <1>3, <2>1 DEF M8bIme2
  <2>3. K.cell[pos] = RowMajor(32, pos)
    BY <1>2, <1>3 DEF M8bIme2
  <2>4. K.scales[pos] = RowMajor(32, pos)
    BY <1>2, <1>3 DEF M8bIme2
  <2> QED BY <2>2, <2>3, <2>4
<1>5. StoreM16(4 * h + a, lane) = pos
  BY <1>1, <1>2, Lane8 DEF StoreM16
<1>6. RowMajor(32, pos) = <<8 * h + r, 8 * a + c>>
  BY <1>2 DEF RowMajor
<1>7. K.dots[i][4 * h + a] = << <<2 * h, a, 0>>, <<2 * h + 1, a, 1>> >>
  <2>1. 4 * h + a \in 0 .. 7 /\ (4 * h + a) \div 4 = h /\ (4 * h + a) % 4 = a
    OBVIOUS
  <2> QED BY <1>3, <2>1 DEF M8bIme2, DotsM16
<1>8. ASSUME NEW e \in 0 .. 1
      PROVE  Product(<<2 * h + e, a, e>>, lane) = ChunkOf(<<8 * h + r, 8 * a + c>>, 2 * i + e)
  <2>1. K.a = PackedA16 /\ K.b = PackedB32Wide /\ K.width = 8
    BY <1>3 DEF M8bIme2
  <2>2. K.a[8 * (2 * h + e) + r] = <<8 * h + r, 2 * i + e>>
    <3>1. K.a[(h * 2 + e) * 8 + r] = <<h * 8 + r, e>>
      BY <2>1, A16At
    <3>2. 8 * (2 * h + e) + r = (h * 2 + e) * 8 + r /\ <<h * 8 + r, e>> = <<8 * h + r, 2 * i + e>>
      OBVIOUS
    <3> QED BY <3>1, <3>2
  <2>3. K.b[<<8 * (a) + c, e>>] = <<8 * a + c, 2 * i + e>>
    <3>1. K.b[<<a * 8 + c, e>>] = <<a * 8 + c, e>>
      BY <2>1, B32WideAt
    <3>2. 8 * (a) + c = a * 8 + c /\ <<a * 8 + c, e>> = <<8 * a + c, 2 * i + e>>
      OBVIOUS
    <3> QED BY <3>1, <3>2
  <2>4. lane \div 8 = r /\ lane % 8 = c
    BY <1>1, Lane8
  <2> QED BY <2>1, <2>2, <2>3, <2>4 DEF Product, ChunkOf
<1>9. Product(<<2 * h, a, 0>>, lane) = ChunkOf(<<8 * h + r, 8 * a + c>>, 2 * i)
  BY <1>8
<1>10. Product(<<2 * h + 1, a, 1>>, lane) = ChunkOf(<<8 * h + r, 8 * a + c>>, 2 * i + 1)
  BY <1>8
<1> QED BY <1>0, <1>1, <1>4, <1>5, <1>6, <1>7, <1>9, <1>10 DEF Collects

\* Where the lanes of rr are stored, and the cells they become.
Lane_rr(al, pos, rc) ==
    \E acc \in 0 .. 3, r \in 0 .. 7, c \in 0 .. 7 :
       al = <<acc, 8 * r + c>> /\ pos = 64 * acc + 8 * r + c /\ rc = <<r, 8 * acc + c>>

LEMMA Lanes_rr ==
    ASSUME kernel = "rr", NEW al, NEW pos, NEW rc, Lane_rr(al, pos, rc), NEW i \in {0}
    PROVE  Collects(al, pos, rc, i)
<1>0. PICK acc \in 0 .. 3, r \in 0 .. 7, c \in 0 .. 7 :
        al = <<acc, 8 * r + c>> /\ pos = 64 * acc + 8 * r + c /\ rc = <<r, 8 * acc + c>>
  BY DEF Lane_rr
<1>1. PICK lane \in 0 .. 63 : lane = 8 * r + c
  OBVIOUS
<1>2. pos \in 0 .. 255 /\ pos = 64 * acc + 8 * r + c
  BY <1>0
<1>3. K = Rr
  BY DEF K, Kernel
<1>4. /\ K.store[<<acc, lane>>] = InRegisters64(acc, lane)
      /\ K.cell[pos] = CellRr(pos) /\ K.scales[pos] = ScalesRr(pos)
  <2>1. <<acc, lane>> \in Lanes(4, 8)
    BY DEF Lanes
  <2>2. K.store[<<acc, lane>>] = InRegisters64(acc, lane)
    BY <1>3, <2>1 DEF Rr
  <2>3. K.cell[pos] = CellRr(pos)
    BY <1>2, <1>3 DEF Rr
  <2>4. K.scales[pos] = ScalesRr(pos)
    BY <1>2, <1>3 DEF Rr
  <2> QED BY <2>2, <2>3, <2>4
<1>5. InRegisters64(acc, lane) = pos
  BY <1>1, <1>2, Lane8 DEF InRegisters64
<1>6. CellRr(pos) = <<r, 8 * acc + c>> /\ ScalesRr(pos) = <<r, 8 * acc + c>>
  BY <1>2 DEF CellRr, ScalesRr
<1>7. K.dots[i][acc] = << <<0, acc, 0>>, <<1, acc, 1>> >>
  BY <1>3 DEF Rr, DotsRr
<1>8. ASSUME NEW e \in 0 .. 1
      PROVE  Product(<<e, acc, e>>, lane) = ChunkOf(<<r, 8 * acc + c>>, 2 * i + e)
  <2>1. K.a = PackedARr /\ K.b = PackedBRr /\ K.width = 8
    BY <1>3 DEF Rr
  <2>2. K.a[8 * (e) + r] = <<r, 2 * i + e>>
    <3>1. K.a[e * 8 + r] = <<r, e>>
      BY <2>1, ARrAt
    <3>2. 8 * (e) + r = e * 8 + r /\ <<r, e>> = <<r, 2 * i + e>>
      OBVIOUS
    <3> QED BY <3>1, <3>2
  <2>3. K.b[<<8 * (acc) + c, e>>] = <<8 * acc + c, 2 * i + e>>
    <3>1. K.b[<<acc * 8 + c, e>>] = <<acc * 8 + c, e>>
      BY <2>1, B32WideAt
    <3>2. 8 * (acc) + c = acc * 8 + c /\ <<acc * 8 + c, e>> = <<8 * acc + c, 2 * i + e>>
      OBVIOUS
    <3> QED BY <3>1, <3>2
  <2>4. lane \div 8 = r /\ lane % 8 = c
    BY <1>1, Lane8
  <2> QED BY <2>1, <2>2, <2>3, <2>4 DEF Product, ChunkOf
<1>9. Product(<<0, acc, 0>>, lane) = ChunkOf(<<r, 8 * acc + c>>, 2 * i)
  BY <1>8
<1>10. Product(<<1, acc, 1>>, lane) = ChunkOf(<<r, 8 * acc + c>>, 2 * i + 1)
  BY <1>8
<1> QED BY <1>0, <1>1, <1>4, <1>5, <1>6, <1>7, <1>9, <1>10 DEF Collects

----------------------------------------------------------------------------
\* Every lane collects the chunks of one cell, and every position and every cell
\* have a lane.
Tabled ==
    /\ \A al \in LaneSet :
         /\ K.store[al] \in Positions /\ K.cell[K.store[al]] \in Cells
         /\ \A i \in DOMAIN K.dots : Collects(al, K.store[al], K.cell[K.store[al]], i)
    /\ \A pos \in Positions : \E al \in LaneSet : K.store[al] = pos
    /\ \A rc \in Cells : \E al \in LaneSet : K.cell[K.store[al]] = rc

LEMMA Tabled_m4b ==
    ASSUME kernel = "m4b"
    PROVE  Tabled
<1>1. /\ LaneSet = (0 .. 3) \X (0 .. 15) /\ DOMAIN K.dots = 0 .. 1
      /\ K.mr = 4 /\ K.nr = 16
  <2>1. K = M4b
    BY DEF K, Kernel
  <2>2. K.accs = 4 /\ K.width = 4 /\ DOMAIN K.dots = 0 .. 1 /\ K.mr = 4 /\ K.nr = 16
    BY <2>1 DEF M4b
  <2>3. K.accs - 1 = 3 /\ K.width * K.width - 1 = 15
    BY <2>2
  <2> QED BY <2>2, <2>3 DEF LaneSet, Lanes
<1>2. Positions = 0 .. 63 /\ Cells = (0 .. 3) \X (0 .. 15)
  BY <1>1 DEF Positions, Cells
<1>3. ASSUME NEW al \in LaneSet
      PROVE  \E pos \in Positions, rc \in Cells : Lane_m4b(al, pos, rc)
  <2>1. PICK acc0 \in 0 .. 3, lane \in 0 .. 15 : al = <<acc0, lane>>
    BY <1>1
  <2>2. PICK acc \in 0 .. 3, r \in 0 .. 3, c \in 0 .. 3 : acc0 = acc /\ lane = 4 * r + c
    <3>1. acc0 \in 0 .. 3 /\ lane \div 4 \in 0 .. 3 /\ lane % 4 \in 0 .. 3
      OBVIOUS
    <3>2. acc0 = acc0 /\ lane = 4 * (lane \div 4) + (lane % 4)
      OBVIOUS
    <3> QED BY <3>1, <3>2
  <2>3. Lane_m4b(al, 16 * r + 4 * acc + c, <<r, 4 * acc + c>>)
    BY <2>1, <2>2 DEF Lane_m4b
  <2>4. 16 * r + 4 * acc + c \in 0 .. 63 /\ r \in 0 .. 3 /\ 4 * acc + c \in 0 .. 15
    OBVIOUS
  <2> QED BY <1>2, <2>3, <2>4
<1>4. ASSUME NEW pos \in Positions PROVE \E al \in LaneSet, rc \in Cells : Lane_m4b(al, pos, rc)
  <2>1. PICK acc \in 0 .. 3, r \in 0 .. 3, c \in 0 .. 3 : pos = 16 * r + 4 * acc + c
    <3>1. (pos % 16) \div 4 \in 0 .. 3 /\ pos \div 16 \in 0 .. 3 /\ pos % 4 \in 0 .. 3
      BY <1>2
    <3>2. pos = 16 * (pos \div 16) + 4 * ((pos % 16) \div 4) + (pos % 4)
      BY <1>2
    <3> QED BY <3>1, <3>2
  <2>2. Lane_m4b(<<acc, 4 * r + c>>, pos, <<r, 4 * acc + c>>)
    BY <2>1 DEF Lane_m4b
  <2>3. <<acc, 4 * r + c>> \in LaneSet /\ <<r, 4 * acc + c>> \in Cells
    BY <1>1, <1>2
  <2> QED BY <2>2, <2>3
<1>5. ASSUME NEW rc \in Cells PROVE \E al \in LaneSet, pos \in Positions : Lane_m4b(al, pos, rc)
  <2>1. PICK x \in 0 .. 3, y \in 0 .. 15 : rc = <<x, y>>
    BY <1>2
  <2>2. PICK acc \in 0 .. 3, r \in 0 .. 3, c \in 0 .. 3 : x = r /\ y = 4 * acc + c
    <3>1. y \div 4 \in 0 .. 3 /\ x \in 0 .. 3 /\ y % 4 \in 0 .. 3
      OBVIOUS
    <3> QED BY <3>1
  <2>3. Lane_m4b(<<acc, 4 * r + c>>, 16 * r + 4 * acc + c, rc)
    BY <2>1, <2>2 DEF Lane_m4b
  <2>4. <<acc, 4 * r + c>> \in LaneSet /\ 16 * r + 4 * acc + c \in Positions
    BY <1>1, <1>2
  <2> QED BY <2>3, <2>4
<1>6. \A al, pos, rc : Lane_m4b(al, pos, rc) => \A i \in DOMAIN K.dots : Collects(al, pos, rc, i)
  BY <1>1, Lanes_m4b
<1>7. \A al, pos, rc : Lane_m4b(al, pos, rc) => K.store[al] = pos /\ K.cell[pos] = rc
  BY <1>1, <1>6 DEF Collects
<1> QED BY <1>3, <1>4, <1>5, <1>6, <1>7 DEF Tabled

LEMMA Tabled_m4i ==
    ASSUME kernel = "m4i"
    PROVE  Tabled
<1>1. /\ LaneSet = (0 .. 3) \X (0 .. 15) /\ DOMAIN K.dots = 0 .. 1
      /\ K.mr = 4 /\ K.nr = 16
  <2>1. K = M4i
    BY DEF K, Kernel
  <2>2. K.accs = 4 /\ K.width = 4 /\ DOMAIN K.dots = 0 .. 1 /\ K.mr = 4 /\ K.nr = 16
    BY <2>1 DEF M4i, M4b
  <2>3. K.accs - 1 = 3 /\ K.width * K.width - 1 = 15
    BY <2>2
  <2> QED BY <2>2, <2>3 DEF LaneSet, Lanes
<1>2. Positions = 0 .. 63 /\ Cells = (0 .. 3) \X (0 .. 15)
  BY <1>1 DEF Positions, Cells
<1>3. ASSUME NEW al \in LaneSet
      PROVE  \E pos \in Positions, rc \in Cells : Lane_m4i(al, pos, rc)
  <2>1. PICK acc0 \in 0 .. 3, lane \in 0 .. 15 : al = <<acc0, lane>>
    BY <1>1
  <2>2. PICK acc \in 0 .. 3, r \in 0 .. 3, c \in 0 .. 3 : acc0 = acc /\ lane = 4 * r + c
    <3>1. acc0 \in 0 .. 3 /\ lane \div 4 \in 0 .. 3 /\ lane % 4 \in 0 .. 3
      OBVIOUS
    <3>2. acc0 = acc0 /\ lane = 4 * (lane \div 4) + (lane % 4)
      OBVIOUS
    <3> QED BY <3>1, <3>2
  <2>3. Lane_m4i(al, 16 * acc + 4 * r + c, <<r, 4 * acc + c>>)
    BY <2>1, <2>2 DEF Lane_m4i
  <2>4. 16 * acc + 4 * r + c \in 0 .. 63 /\ r \in 0 .. 3 /\ 4 * acc + c \in 0 .. 15
    OBVIOUS
  <2> QED BY <1>2, <2>3, <2>4
<1>4. ASSUME NEW pos \in Positions PROVE \E al \in LaneSet, rc \in Cells : Lane_m4i(al, pos, rc)
  <2>1. PICK acc \in 0 .. 3, r \in 0 .. 3, c \in 0 .. 3 : pos = 16 * acc + 4 * r + c
    <3>1. pos \div 16 \in 0 .. 3 /\ (pos % 16) \div 4 \in 0 .. 3 /\ pos % 4 \in 0 .. 3
      BY <1>2
    <3>2. pos = 16 * (pos \div 16) + 4 * ((pos % 16) \div 4) + (pos % 4)
      BY <1>2
    <3> QED BY <3>1, <3>2
  <2>2. Lane_m4i(<<acc, 4 * r + c>>, pos, <<r, 4 * acc + c>>)
    BY <2>1 DEF Lane_m4i
  <2>3. <<acc, 4 * r + c>> \in LaneSet /\ <<r, 4 * acc + c>> \in Cells
    BY <1>1, <1>2
  <2> QED BY <2>2, <2>3
<1>5. ASSUME NEW rc \in Cells PROVE \E al \in LaneSet, pos \in Positions : Lane_m4i(al, pos, rc)
  <2>1. PICK x \in 0 .. 3, y \in 0 .. 15 : rc = <<x, y>>
    BY <1>2
  <2>2. PICK acc \in 0 .. 3, r \in 0 .. 3, c \in 0 .. 3 : x = r /\ y = 4 * acc + c
    <3>1. y \div 4 \in 0 .. 3 /\ x \in 0 .. 3 /\ y % 4 \in 0 .. 3
      OBVIOUS
    <3> QED BY <3>1
  <2>3. Lane_m4i(<<acc, 4 * r + c>>, 16 * acc + 4 * r + c, rc)
    BY <2>1, <2>2 DEF Lane_m4i
  <2>4. <<acc, 4 * r + c>> \in LaneSet /\ 16 * acc + 4 * r + c \in Positions
    BY <1>1, <1>2
  <2> QED BY <2>3, <2>4
<1>6. \A al, pos, rc : Lane_m4i(al, pos, rc) => \A i \in DOMAIN K.dots : Collects(al, pos, rc, i)
  BY <1>1, Lanes_m4i
<1>7. \A al, pos, rc : Lane_m4i(al, pos, rc) => K.store[al] = pos /\ K.cell[pos] = rc
  BY <1>1, <1>6 DEF Collects
<1> QED BY <1>3, <1>4, <1>5, <1>6, <1>7 DEF Tabled

LEMMA Tabled_upstream ==
    ASSUME kernel = "upstream"
    PROVE  Tabled
<1>1. /\ LaneSet = (0 .. 3) \X (0 .. 15) /\ DOMAIN K.dots = 0 .. 1
      /\ K.mr = 4 /\ K.nr = 16
  <2>1. K = Upstream
    BY DEF K, Kernel
  <2>2. K.accs = 4 /\ K.width = 4 /\ DOMAIN K.dots = 0 .. 1 /\ K.mr = 4 /\ K.nr = 16
    BY <2>1 DEF Upstream, M4b
  <2>3. K.accs - 1 = 3 /\ K.width * K.width - 1 = 15
    BY <2>2
  <2> QED BY <2>2, <2>3 DEF LaneSet, Lanes
<1>2. Positions = 0 .. 63 /\ Cells = (0 .. 3) \X (0 .. 15)
  BY <1>1 DEF Positions, Cells
<1>3. ASSUME NEW al \in LaneSet
      PROVE  \E pos \in Positions, rc \in Cells : Lane_upstream(al, pos, rc)
  <2>1. PICK acc0 \in 0 .. 3, lane \in 0 .. 15 : al = <<acc0, lane>>
    BY <1>1
  <2>2. PICK acc \in 0 .. 3, r \in 0 .. 3, c \in 0 .. 3 : acc0 = acc /\ lane = 4 * r + c
    <3>1. acc0 \in 0 .. 3 /\ lane \div 4 \in 0 .. 3 /\ lane % 4 \in 0 .. 3
      OBVIOUS
    <3>2. acc0 = acc0 /\ lane = 4 * (lane \div 4) + (lane % 4)
      OBVIOUS
    <3> QED BY <3>1, <3>2
  <2>3. Lane_upstream(al, 16 * acc + 4 * r + c, <<r, 4 * acc + c>>)
    BY <2>1, <2>2 DEF Lane_upstream
  <2>4. 16 * acc + 4 * r + c \in 0 .. 63 /\ r \in 0 .. 3 /\ 4 * acc + c \in 0 .. 15
    OBVIOUS
  <2> QED BY <1>2, <2>3, <2>4
<1>4. ASSUME NEW pos \in Positions PROVE \E al \in LaneSet, rc \in Cells : Lane_upstream(al, pos, rc)
  <2>1. PICK acc \in 0 .. 3, r \in 0 .. 3, c \in 0 .. 3 : pos = 16 * acc + 4 * r + c
    <3>1. pos \div 16 \in 0 .. 3 /\ (pos % 16) \div 4 \in 0 .. 3 /\ pos % 4 \in 0 .. 3
      BY <1>2
    <3>2. pos = 16 * (pos \div 16) + 4 * ((pos % 16) \div 4) + (pos % 4)
      BY <1>2
    <3> QED BY <3>1, <3>2
  <2>2. Lane_upstream(<<acc, 4 * r + c>>, pos, <<r, 4 * acc + c>>)
    BY <2>1 DEF Lane_upstream
  <2>3. <<acc, 4 * r + c>> \in LaneSet /\ <<r, 4 * acc + c>> \in Cells
    BY <1>1, <1>2
  <2> QED BY <2>2, <2>3
<1>5. ASSUME NEW rc \in Cells PROVE \E al \in LaneSet, pos \in Positions : Lane_upstream(al, pos, rc)
  <2>1. PICK x \in 0 .. 3, y \in 0 .. 15 : rc = <<x, y>>
    BY <1>2
  <2>2. PICK acc \in 0 .. 3, r \in 0 .. 3, c \in 0 .. 3 : x = r /\ y = 4 * acc + c
    <3>1. y \div 4 \in 0 .. 3 /\ x \in 0 .. 3 /\ y % 4 \in 0 .. 3
      OBVIOUS
    <3> QED BY <3>1
  <2>3. Lane_upstream(<<acc, 4 * r + c>>, 16 * acc + 4 * r + c, rc)
    BY <2>1, <2>2 DEF Lane_upstream
  <2>4. <<acc, 4 * r + c>> \in LaneSet /\ 16 * acc + 4 * r + c \in Positions
    BY <1>1, <1>2
  <2> QED BY <2>3, <2>4
<1>6. \A al, pos, rc : Lane_upstream(al, pos, rc) => \A i \in DOMAIN K.dots : Collects(al, pos, rc, i)
  BY <1>1, Lanes_upstream
<1>7. \A al, pos, rc : Lane_upstream(al, pos, rc) => K.store[al] = pos /\ K.cell[pos] = rc
  BY <1>1, <1>6 DEF Collects
<1> QED BY <1>3, <1>4, <1>5, <1>6, <1>7 DEF Tabled

LEMMA Tabled_m8b ==
    ASSUME kernel = "m8b"
    PROVE  Tabled
<1>1. /\ LaneSet = (0 .. 7) \X (0 .. 15) /\ DOMAIN K.dots = 0 .. 1
      /\ K.mr = 8 /\ K.nr = 16
  <2>1. K = M8b
    BY DEF K, Kernel
  <2>2. K.accs = 8 /\ K.width = 4 /\ DOMAIN K.dots = 0 .. 1 /\ K.mr = 8 /\ K.nr = 16
    BY <2>1 DEF M8b
  <2>3. K.accs - 1 = 7 /\ K.width * K.width - 1 = 15
    BY <2>2
  <2> QED BY <2>2, <2>3 DEF LaneSet, Lanes
<1>2. Positions = 0 .. 127 /\ Cells = (0 .. 7) \X (0 .. 15)
  BY <1>1 DEF Positions, Cells
<1>3. ASSUME NEW al \in LaneSet
      PROVE  \E pos \in Positions, rc \in Cells : Lane_m8b(al, pos, rc)
  <2>1. PICK acc0 \in 0 .. 7, lane \in 0 .. 15 : al = <<acc0, lane>>
    BY <1>1
  <2>2. PICK h \in 0 .. 1, a \in 0 .. 3, r \in 0 .. 3, c \in 0 .. 3 : acc0 = 4 * h + a /\ lane = 4 * r + c
    <3>1. acc0 \div 4 \in 0 .. 1 /\ acc0 % 4 \in 0 .. 3 /\ lane \div 4 \in 0 .. 3 /\ lane % 4 \in 0 .. 3
      OBVIOUS
    <3>2. acc0 = 4 * (acc0 \div 4) + (acc0 % 4) /\ lane = 4 * (lane \div 4) + (lane % 4)
      OBVIOUS
    <3> QED BY <3>1, <3>2
  <2>3. Lane_m8b(al, 64 * h + 16 * r + 4 * a + c, <<4 * h + r, 4 * a + c>>)
    BY <2>1, <2>2 DEF Lane_m8b
  <2>4. 64 * h + 16 * r + 4 * a + c \in 0 .. 127 /\ 4 * h + r \in 0 .. 7 /\ 4 * a + c \in 0 .. 15
    OBVIOUS
  <2> QED BY <1>2, <2>3, <2>4
<1>4. ASSUME NEW pos \in Positions PROVE \E al \in LaneSet, rc \in Cells : Lane_m8b(al, pos, rc)
  <2>1. PICK h \in 0 .. 1, a \in 0 .. 3, r \in 0 .. 3, c \in 0 .. 3 : pos = 64 * h + 16 * r + 4 * a + c
    <3>1. pos \div 64 \in 0 .. 1 /\ (pos % 16) \div 4 \in 0 .. 3 /\ (pos % 64) \div 16 \in 0 .. 3 /\ pos % 4 \in 0 .. 3
      BY <1>2
    <3>2. pos = 64 * (pos \div 64) + 16 * ((pos % 64) \div 16) + 4 * ((pos % 16) \div 4) + (pos % 4)
      BY <1>2
    <3> QED BY <3>1, <3>2
  <2>2. Lane_m8b(<<4 * h + a, 4 * r + c>>, pos, <<4 * h + r, 4 * a + c>>)
    BY <2>1 DEF Lane_m8b
  <2>3. <<4 * h + a, 4 * r + c>> \in LaneSet /\ <<4 * h + r, 4 * a + c>> \in Cells
    BY <1>1, <1>2
  <2> QED BY <2>2, <2>3
<1>5. ASSUME NEW rc \in Cells PROVE \E al \in LaneSet, pos \in Positions : Lane_m8b(al, pos, rc)
  <2>1. PICK x \in 0 .. 7, y \in 0 .. 15 : rc = <<x, y>>
    BY <1>2
  <2>2. PICK h \in 0 .. 1, a \in 0 .. 3, r \in 0 .. 3, c \in 0 .. 3 : x = 4 * h + r /\ y = 4 * a + c
    <3>1. x \div 4 \in 0 .. 1 /\ y \div 4 \in 0 .. 3 /\ x % 4 \in 0 .. 3 /\ y % 4 \in 0 .. 3
      OBVIOUS
    <3> QED BY <3>1
  <2>3. Lane_m8b(<<4 * h + a, 4 * r + c>>, 64 * h + 16 * r + 4 * a + c, rc)
    BY <2>1, <2>2 DEF Lane_m8b
  <2>4. <<4 * h + a, 4 * r + c>> \in LaneSet /\ 64 * h + 16 * r + 4 * a + c \in Positions
    BY <1>1, <1>2
  <2> QED BY <2>3, <2>4
<1>6. \A al, pos, rc : Lane_m8b(al, pos, rc) => \A i \in DOMAIN K.dots : Collects(al, pos, rc, i)
  BY <1>1, Lanes_m8b
<1>7. \A al, pos, rc : Lane_m8b(al, pos, rc) => K.store[al] = pos /\ K.cell[pos] = rc
  BY <1>1, <1>6 DEF Collects
<1> QED BY <1>3, <1>4, <1>5, <1>6, <1>7 DEF Tabled

LEMMA Tabled_m8b_dpu ==
    ASSUME kernel = "m8b_dpu"
    PROVE  Tabled
<1>1. /\ LaneSet = (0 .. 7) \X (0 .. 15) /\ DOMAIN K.dots = 0 .. 1
      /\ K.mr = 8 /\ K.nr = 16
  <2>1. K = M8bDpu
    BY DEF K, Kernel
  <2>2. K.accs = 8 /\ K.width = 4 /\ DOMAIN K.dots = 0 .. 1 /\ K.mr = 8 /\ K.nr = 16
    BY <2>1 DEF M8bDpu, M8b
  <2>3. K.accs - 1 = 7 /\ K.width * K.width - 1 = 15
    BY <2>2
  <2> QED BY <2>2, <2>3 DEF LaneSet, Lanes
<1>2. Positions = 0 .. 127 /\ Cells = (0 .. 7) \X (0 .. 15)
  BY <1>1 DEF Positions, Cells
<1>3. ASSUME NEW al \in LaneSet
      PROVE  \E pos \in Positions, rc \in Cells : Lane_m8b_dpu(al, pos, rc)
  <2>1. PICK acc0 \in 0 .. 7, lane \in 0 .. 15 : al = <<acc0, lane>>
    BY <1>1
  <2>2. PICK h \in 0 .. 1, a \in 0 .. 3, r \in 0 .. 3, c \in 0 .. 3 : acc0 = 4 * h + a /\ lane = 4 * r + c
    <3>1. acc0 \div 4 \in 0 .. 1 /\ acc0 % 4 \in 0 .. 3 /\ lane \div 4 \in 0 .. 3 /\ lane % 4 \in 0 .. 3
      OBVIOUS
    <3>2. acc0 = 4 * (acc0 \div 4) + (acc0 % 4) /\ lane = 4 * (lane \div 4) + (lane % 4)
      OBVIOUS
    <3> QED BY <3>1, <3>2
  <2>3. Lane_m8b_dpu(al, 64 * h + 16 * r + 4 * a + c, <<4 * h + r, 4 * a + c>>)
    BY <2>1, <2>2 DEF Lane_m8b_dpu
  <2>4. 64 * h + 16 * r + 4 * a + c \in 0 .. 127 /\ 4 * h + r \in 0 .. 7 /\ 4 * a + c \in 0 .. 15
    OBVIOUS
  <2> QED BY <1>2, <2>3, <2>4
<1>4. ASSUME NEW pos \in Positions PROVE \E al \in LaneSet, rc \in Cells : Lane_m8b_dpu(al, pos, rc)
  <2>1. PICK h \in 0 .. 1, a \in 0 .. 3, r \in 0 .. 3, c \in 0 .. 3 : pos = 64 * h + 16 * r + 4 * a + c
    <3>1. pos \div 64 \in 0 .. 1 /\ (pos % 16) \div 4 \in 0 .. 3 /\ (pos % 64) \div 16 \in 0 .. 3 /\ pos % 4 \in 0 .. 3
      BY <1>2
    <3>2. pos = 64 * (pos \div 64) + 16 * ((pos % 64) \div 16) + 4 * ((pos % 16) \div 4) + (pos % 4)
      BY <1>2
    <3> QED BY <3>1, <3>2
  <2>2. Lane_m8b_dpu(<<4 * h + a, 4 * r + c>>, pos, <<4 * h + r, 4 * a + c>>)
    BY <2>1 DEF Lane_m8b_dpu
  <2>3. <<4 * h + a, 4 * r + c>> \in LaneSet /\ <<4 * h + r, 4 * a + c>> \in Cells
    BY <1>1, <1>2
  <2> QED BY <2>2, <2>3
<1>5. ASSUME NEW rc \in Cells PROVE \E al \in LaneSet, pos \in Positions : Lane_m8b_dpu(al, pos, rc)
  <2>1. PICK x \in 0 .. 7, y \in 0 .. 15 : rc = <<x, y>>
    BY <1>2
  <2>2. PICK h \in 0 .. 1, a \in 0 .. 3, r \in 0 .. 3, c \in 0 .. 3 : x = 4 * h + r /\ y = 4 * a + c
    <3>1. x \div 4 \in 0 .. 1 /\ y \div 4 \in 0 .. 3 /\ x % 4 \in 0 .. 3 /\ y % 4 \in 0 .. 3
      OBVIOUS
    <3> QED BY <3>1
  <2>3. Lane_m8b_dpu(<<4 * h + a, 4 * r + c>>, 64 * h + 16 * r + 4 * a + c, rc)
    BY <2>1, <2>2 DEF Lane_m8b_dpu
  <2>4. <<4 * h + a, 4 * r + c>> \in LaneSet /\ 64 * h + 16 * r + 4 * a + c \in Positions
    BY <1>1, <1>2
  <2> QED BY <2>3, <2>4
<1>6. \A al, pos, rc : Lane_m8b_dpu(al, pos, rc) => \A i \in DOMAIN K.dots : Collects(al, pos, rc, i)
  BY <1>1, Lanes_m8b_dpu
<1>7. \A al, pos, rc : Lane_m8b_dpu(al, pos, rc) => K.store[al] = pos /\ K.cell[pos] = rc
  BY <1>1, <1>6 DEF Collects
<1> QED BY <1>3, <1>4, <1>5, <1>6, <1>7 DEF Tabled

LEMMA Tabled_m4n32b ==
    ASSUME kernel = "m4n32b"
    PROVE  Tabled
<1>1. /\ LaneSet = (0 .. 7) \X (0 .. 15) /\ DOMAIN K.dots = 0 .. 1
      /\ K.mr = 4 /\ K.nr = 32
  <2>1. K = M4n32b
    BY DEF K, Kernel
  <2>2. K.accs = 8 /\ K.width = 4 /\ DOMAIN K.dots = 0 .. 1 /\ K.mr = 4 /\ K.nr = 32
    BY <2>1 DEF M4n32b
  <2>3. K.accs - 1 = 7 /\ K.width * K.width - 1 = 15
    BY <2>2
  <2> QED BY <2>2, <2>3 DEF LaneSet, Lanes
<1>2. Positions = 0 .. 127 /\ Cells = (0 .. 3) \X (0 .. 31)
  BY <1>1 DEF Positions, Cells
<1>3. ASSUME NEW al \in LaneSet
      PROVE  \E pos \in Positions, rc \in Cells : Lane_m4n32b(al, pos, rc)
  <2>1. PICK acc0 \in 0 .. 7, lane \in 0 .. 15 : al = <<acc0, lane>>
    BY <1>1
  <2>2. PICK acc \in 0 .. 7, r \in 0 .. 3, c \in 0 .. 3 : acc0 = acc /\ lane = 4 * r + c
    <3>1. acc0 \in 0 .. 7 /\ lane \div 4 \in 0 .. 3 /\ lane % 4 \in 0 .. 3
      OBVIOUS
    <3>2. acc0 = acc0 /\ lane = 4 * (lane \div 4) + (lane % 4)
      OBVIOUS
    <3> QED BY <3>1, <3>2
  <2>3. Lane_m4n32b(al, 32 * r + 4 * acc + c, <<r, 4 * acc + c>>)
    BY <2>1, <2>2 DEF Lane_m4n32b
  <2>4. 32 * r + 4 * acc + c \in 0 .. 127 /\ r \in 0 .. 3 /\ 4 * acc + c \in 0 .. 31
    OBVIOUS
  <2> QED BY <1>2, <2>3, <2>4
<1>4. ASSUME NEW pos \in Positions PROVE \E al \in LaneSet, rc \in Cells : Lane_m4n32b(al, pos, rc)
  <2>1. PICK acc \in 0 .. 7, r \in 0 .. 3, c \in 0 .. 3 : pos = 32 * r + 4 * acc + c
    <3>1. (pos % 32) \div 4 \in 0 .. 7 /\ pos \div 32 \in 0 .. 3 /\ pos % 4 \in 0 .. 3
      BY <1>2
    <3>2. pos = 32 * (pos \div 32) + 4 * ((pos % 32) \div 4) + (pos % 4)
      BY <1>2
    <3> QED BY <3>1, <3>2
  <2>2. Lane_m4n32b(<<acc, 4 * r + c>>, pos, <<r, 4 * acc + c>>)
    BY <2>1 DEF Lane_m4n32b
  <2>3. <<acc, 4 * r + c>> \in LaneSet /\ <<r, 4 * acc + c>> \in Cells
    BY <1>1, <1>2
  <2> QED BY <2>2, <2>3
<1>5. ASSUME NEW rc \in Cells PROVE \E al \in LaneSet, pos \in Positions : Lane_m4n32b(al, pos, rc)
  <2>1. PICK x \in 0 .. 3, y \in 0 .. 31 : rc = <<x, y>>
    BY <1>2
  <2>2. PICK acc \in 0 .. 7, r \in 0 .. 3, c \in 0 .. 3 : x = r /\ y = 4 * acc + c
    <3>1. y \div 4 \in 0 .. 7 /\ x \in 0 .. 3 /\ y % 4 \in 0 .. 3
      OBVIOUS
    <3> QED BY <3>1
  <2>3. Lane_m4n32b(<<acc, 4 * r + c>>, 32 * r + 4 * acc + c, rc)
    BY <2>1, <2>2 DEF Lane_m4n32b
  <2>4. <<acc, 4 * r + c>> \in LaneSet /\ 32 * r + 4 * acc + c \in Positions
    BY <1>1, <1>2
  <2> QED BY <2>3, <2>4
<1>6. \A al, pos, rc : Lane_m4n32b(al, pos, rc) => \A i \in DOMAIN K.dots : Collects(al, pos, rc, i)
  BY <1>1, Lanes_m4n32b
<1>7. \A al, pos, rc : Lane_m4n32b(al, pos, rc) => K.store[al] = pos /\ K.cell[pos] = rc
  BY <1>1, <1>6 DEF Collects
<1> QED BY <1>3, <1>4, <1>5, <1>6, <1>7 DEF Tabled

LEMMA Tabled_m32n4 ==
    ASSUME kernel = "m32n4"
    PROVE  Tabled
<1>1. /\ LaneSet = (0 .. 7) \X (0 .. 15) /\ DOMAIN K.dots = 0 .. 1
      /\ K.mr = 32 /\ K.nr = 4
  <2>1. K = M32n4
    BY DEF K, Kernel
  <2>2. K.accs = 8 /\ K.width = 4 /\ DOMAIN K.dots = 0 .. 1 /\ K.mr = 32 /\ K.nr = 4
    BY <2>1 DEF M32n4
  <2>3. K.accs - 1 = 7 /\ K.width * K.width - 1 = 15
    BY <2>2
  <2> QED BY <2>2, <2>3 DEF LaneSet, Lanes
<1>2. Positions = 0 .. 127 /\ Cells = (0 .. 31) \X (0 .. 3)
  BY <1>1 DEF Positions, Cells
<1>3. ASSUME NEW al \in LaneSet
      PROVE  \E pos \in Positions, rc \in Cells : Lane_m32n4(al, pos, rc)
  <2>1. PICK acc0 \in 0 .. 7, lane \in 0 .. 15 : al = <<acc0, lane>>
    BY <1>1
  <2>2. PICK acc \in 0 .. 7, r \in 0 .. 3, c \in 0 .. 3 : acc0 = acc /\ lane = 4 * r + c
    <3>1. acc0 \in 0 .. 7 /\ lane \div 4 \in 0 .. 3 /\ lane % 4 \in 0 .. 3
      OBVIOUS
    <3>2. acc0 = acc0 /\ lane = 4 * (lane \div 4) + (lane % 4)
      OBVIOUS
    <3> QED BY <3>1, <3>2
  <2>3. Lane_m32n4(al, 16 * acc + 4 * r + c, <<4 * acc + r, c>>)
    BY <2>1, <2>2 DEF Lane_m32n4
  <2>4. 16 * acc + 4 * r + c \in 0 .. 127 /\ 4 * acc + r \in 0 .. 31 /\ c \in 0 .. 3
    OBVIOUS
  <2> QED BY <1>2, <2>3, <2>4
<1>4. ASSUME NEW pos \in Positions PROVE \E al \in LaneSet, rc \in Cells : Lane_m32n4(al, pos, rc)
  <2>1. PICK acc \in 0 .. 7, r \in 0 .. 3, c \in 0 .. 3 : pos = 16 * acc + 4 * r + c
    <3>1. pos \div 16 \in 0 .. 7 /\ (pos % 16) \div 4 \in 0 .. 3 /\ pos % 4 \in 0 .. 3
      BY <1>2
    <3>2. pos = 16 * (pos \div 16) + 4 * ((pos % 16) \div 4) + (pos % 4)
      BY <1>2
    <3> QED BY <3>1, <3>2
  <2>2. Lane_m32n4(<<acc, 4 * r + c>>, pos, <<4 * acc + r, c>>)
    BY <2>1 DEF Lane_m32n4
  <2>3. <<acc, 4 * r + c>> \in LaneSet /\ <<4 * acc + r, c>> \in Cells
    BY <1>1, <1>2
  <2> QED BY <2>2, <2>3
<1>5. ASSUME NEW rc \in Cells PROVE \E al \in LaneSet, pos \in Positions : Lane_m32n4(al, pos, rc)
  <2>1. PICK x \in 0 .. 31, y \in 0 .. 3 : rc = <<x, y>>
    BY <1>2
  <2>2. PICK acc \in 0 .. 7, r \in 0 .. 3, c \in 0 .. 3 : x = 4 * acc + r /\ y = c
    <3>1. x \div 4 \in 0 .. 7 /\ x % 4 \in 0 .. 3 /\ y \in 0 .. 3
      OBVIOUS
    <3> QED BY <3>1
  <2>3. Lane_m32n4(<<acc, 4 * r + c>>, 16 * acc + 4 * r + c, rc)
    BY <2>1, <2>2 DEF Lane_m32n4
  <2>4. <<acc, 4 * r + c>> \in LaneSet /\ 16 * acc + 4 * r + c \in Positions
    BY <1>1, <1>2
  <2> QED BY <2>3, <2>4
<1>6. \A al, pos, rc : Lane_m32n4(al, pos, rc) => \A i \in DOMAIN K.dots : Collects(al, pos, rc, i)
  BY <1>1, Lanes_m32n4
<1>7. \A al, pos, rc : Lane_m32n4(al, pos, rc) => K.store[al] = pos /\ K.cell[pos] = rc
  BY <1>1, <1>6 DEF Collects
<1> QED BY <1>3, <1>4, <1>5, <1>6, <1>7 DEF Tabled

LEMMA Tabled_m8b_ime2 ==
    ASSUME kernel = "m8b_ime2"
    PROVE  Tabled
<1>1. /\ LaneSet = (0 .. 7) \X (0 .. 63) /\ DOMAIN K.dots = {0}
      /\ K.mr = 16 /\ K.nr = 32
  <2>1. K = M8bIme2
    BY DEF K, Kernel
  <2>2. K.accs = 8 /\ K.width = 8 /\ DOMAIN K.dots = {0} /\ K.mr = 16 /\ K.nr = 32
    BY <2>1 DEF M8bIme2
  <2>3. K.accs - 1 = 7 /\ K.width * K.width - 1 = 63
    BY <2>2
  <2> QED BY <2>2, <2>3 DEF LaneSet, Lanes
<1>2. Positions = 0 .. 511 /\ Cells = (0 .. 15) \X (0 .. 31)
  BY <1>1 DEF Positions, Cells
<1>3. ASSUME NEW al \in LaneSet
      PROVE  \E pos \in Positions, rc \in Cells : Lane_m8b_ime2(al, pos, rc)
  <2>1. PICK acc0 \in 0 .. 7, lane \in 0 .. 63 : al = <<acc0, lane>>
    BY <1>1
  <2>2. PICK h \in 0 .. 1, a \in 0 .. 3, r \in 0 .. 7, c \in 0 .. 7 : acc0 = 4 * h + a /\ lane = 8 * r + c
    <3>1. acc0 \div 4 \in 0 .. 1 /\ acc0 % 4 \in 0 .. 3 /\ lane \div 8 \in 0 .. 7 /\ lane % 8 \in 0 .. 7
      OBVIOUS
    <3>2. acc0 = 4 * (acc0 \div 4) + (acc0 % 4) /\ lane = 8 * (lane \div 8) + (lane % 8)
      OBVIOUS
    <3> QED BY <3>1, <3>2
  <2>3. Lane_m8b_ime2(al, 256 * h + 32 * r + 8 * a + c, <<8 * h + r, 8 * a + c>>)
    BY <2>1, <2>2 DEF Lane_m8b_ime2
  <2>4. 256 * h + 32 * r + 8 * a + c \in 0 .. 511 /\ 8 * h + r \in 0 .. 15 /\ 8 * a + c \in 0 .. 31
    OBVIOUS
  <2> QED BY <1>2, <2>3, <2>4
<1>4. ASSUME NEW pos \in Positions PROVE \E al \in LaneSet, rc \in Cells : Lane_m8b_ime2(al, pos, rc)
  <2>1. PICK h \in 0 .. 1, a \in 0 .. 3, r \in 0 .. 7, c \in 0 .. 7 : pos = 256 * h + 32 * r + 8 * a + c
    <3>1. pos \div 256 \in 0 .. 1 /\ (pos % 32) \div 8 \in 0 .. 3 /\ (pos % 256) \div 32 \in 0 .. 7 /\ pos % 8 \in 0 .. 7
      BY <1>2
    <3>2. pos = 256 * (pos \div 256) + 32 * ((pos % 256) \div 32) + 8 * ((pos % 32) \div 8) + (pos % 8)
      BY <1>2
    <3> QED BY <3>1, <3>2
  <2>2. Lane_m8b_ime2(<<4 * h + a, 8 * r + c>>, pos, <<8 * h + r, 8 * a + c>>)
    BY <2>1 DEF Lane_m8b_ime2
  <2>3. <<4 * h + a, 8 * r + c>> \in LaneSet /\ <<8 * h + r, 8 * a + c>> \in Cells
    BY <1>1, <1>2
  <2> QED BY <2>2, <2>3
<1>5. ASSUME NEW rc \in Cells PROVE \E al \in LaneSet, pos \in Positions : Lane_m8b_ime2(al, pos, rc)
  <2>1. PICK x \in 0 .. 15, y \in 0 .. 31 : rc = <<x, y>>
    BY <1>2
  <2>2. PICK h \in 0 .. 1, a \in 0 .. 3, r \in 0 .. 7, c \in 0 .. 7 : x = 8 * h + r /\ y = 8 * a + c
    <3>1. x \div 8 \in 0 .. 1 /\ y \div 8 \in 0 .. 3 /\ x % 8 \in 0 .. 7 /\ y % 8 \in 0 .. 7
      OBVIOUS
    <3> QED BY <3>1
  <2>3. Lane_m8b_ime2(<<4 * h + a, 8 * r + c>>, 256 * h + 32 * r + 8 * a + c, rc)
    BY <2>1, <2>2 DEF Lane_m8b_ime2
  <2>4. <<4 * h + a, 8 * r + c>> \in LaneSet /\ 256 * h + 32 * r + 8 * a + c \in Positions
    BY <1>1, <1>2
  <2> QED BY <2>3, <2>4
<1>6. \A al, pos, rc : Lane_m8b_ime2(al, pos, rc) => \A i \in DOMAIN K.dots : Collects(al, pos, rc, i)
  BY <1>1, Lanes_m8b_ime2
<1>7. \A al, pos, rc : Lane_m8b_ime2(al, pos, rc) => K.store[al] = pos /\ K.cell[pos] = rc
  BY <1>1, <1>6 DEF Collects
<1> QED BY <1>3, <1>4, <1>5, <1>6, <1>7 DEF Tabled

LEMMA Tabled_rr ==
    ASSUME kernel = "rr"
    PROVE  Tabled
<1>1. /\ LaneSet = (0 .. 3) \X (0 .. 63) /\ DOMAIN K.dots = {0}
      /\ K.mr = 8 /\ K.nr = 32
  <2>1. K = Rr
    BY DEF K, Kernel
  <2>2. K.accs = 4 /\ K.width = 8 /\ DOMAIN K.dots = {0} /\ K.mr = 8 /\ K.nr = 32
    BY <2>1 DEF Rr
  <2>3. K.accs - 1 = 3 /\ K.width * K.width - 1 = 63
    BY <2>2
  <2> QED BY <2>2, <2>3 DEF LaneSet, Lanes
<1>2. Positions = 0 .. 255 /\ Cells = (0 .. 7) \X (0 .. 31)
  BY <1>1 DEF Positions, Cells
<1>3. ASSUME NEW al \in LaneSet
      PROVE  \E pos \in Positions, rc \in Cells : Lane_rr(al, pos, rc)
  <2>1. PICK acc0 \in 0 .. 3, lane \in 0 .. 63 : al = <<acc0, lane>>
    BY <1>1
  <2>2. PICK acc \in 0 .. 3, r \in 0 .. 7, c \in 0 .. 7 : acc0 = acc /\ lane = 8 * r + c
    <3>1. acc0 \in 0 .. 3 /\ lane \div 8 \in 0 .. 7 /\ lane % 8 \in 0 .. 7
      OBVIOUS
    <3>2. acc0 = acc0 /\ lane = 8 * (lane \div 8) + (lane % 8)
      OBVIOUS
    <3> QED BY <3>1, <3>2
  <2>3. Lane_rr(al, 64 * acc + 8 * r + c, <<r, 8 * acc + c>>)
    BY <2>1, <2>2 DEF Lane_rr
  <2>4. 64 * acc + 8 * r + c \in 0 .. 255 /\ r \in 0 .. 7 /\ 8 * acc + c \in 0 .. 31
    OBVIOUS
  <2> QED BY <1>2, <2>3, <2>4
<1>4. ASSUME NEW pos \in Positions PROVE \E al \in LaneSet, rc \in Cells : Lane_rr(al, pos, rc)
  <2>1. PICK acc \in 0 .. 3, r \in 0 .. 7, c \in 0 .. 7 : pos = 64 * acc + 8 * r + c
    <3>1. pos \div 64 \in 0 .. 3 /\ (pos % 64) \div 8 \in 0 .. 7 /\ pos % 8 \in 0 .. 7
      BY <1>2
    <3>2. pos = 64 * (pos \div 64) + 8 * ((pos % 64) \div 8) + (pos % 8)
      BY <1>2
    <3> QED BY <3>1, <3>2
  <2>2. Lane_rr(<<acc, 8 * r + c>>, pos, <<r, 8 * acc + c>>)
    BY <2>1 DEF Lane_rr
  <2>3. <<acc, 8 * r + c>> \in LaneSet /\ <<r, 8 * acc + c>> \in Cells
    BY <1>1, <1>2
  <2> QED BY <2>2, <2>3
<1>5. ASSUME NEW rc \in Cells PROVE \E al \in LaneSet, pos \in Positions : Lane_rr(al, pos, rc)
  <2>1. PICK x \in 0 .. 7, y \in 0 .. 31 : rc = <<x, y>>
    BY <1>2
  <2>2. PICK acc \in 0 .. 3, r \in 0 .. 7, c \in 0 .. 7 : x = r /\ y = 8 * acc + c
    <3>1. y \div 8 \in 0 .. 3 /\ x \in 0 .. 7 /\ y % 8 \in 0 .. 7
      OBVIOUS
    <3> QED BY <3>1
  <2>3. Lane_rr(<<acc, 8 * r + c>>, 64 * acc + 8 * r + c, rc)
    BY <2>1, <2>2 DEF Lane_rr
  <2>4. <<acc, 8 * r + c>> \in LaneSet /\ 64 * acc + 8 * r + c \in Positions
    BY <1>1, <1>2
  <2> QED BY <2>3, <2>4
<1>6. \A al, pos, rc : Lane_rr(al, pos, rc) => \A i \in DOMAIN K.dots : Collects(al, pos, rc, i)
  BY <1>1, Lanes_rr
<1>7. \A al, pos, rc : Lane_rr(al, pos, rc) => K.store[al] = pos /\ K.cell[pos] = rc
  BY <1>1, <1>6 DEF Collects
<1> QED BY <1>3, <1>4, <1>5, <1>6, <1>7 DEF Tabled

----------------------------------------------------------------------------
(* The kernels.                                                             *)

Known == kernel \in Kernels /\ blocks \in Nat \ {0}

\* Every kernel has consistent tables.
LEMMA Tables ==
    ASSUME kernel \in KernelNames
    PROVE  Tabled
BY Tabled_m4b, Tabled_m4i, Tabled_upstream, Tabled_m8b, Tabled_m8b_dpu, Tabled_m4n32b,
   Tabled_m32n4, Tabled_m8b_ime2, Tabled_rr DEF KernelNames

\* What the loops need to know of a kernel: that a batch ends where the panel
\* ends, and how many inner iterations a block takes.
LEMMA KernelFacts ==
    ASSUME kernel \in KernelNames
    PROVE  /\ K.batch \in Nat \ {0} /\ K.depth \in Nat
           /\ K.early \/ (K.depth # 0 /\ K.depth <= K.batch)
           /\ K.resumes \in {"never", "later", "always"}
           /\ K.resumes = "never" => K.depth = 0
           /\ (DOMAIN K.dots = {0} /\ K.chunks = 2) \/ (DOMAIN K.dots = 0 .. 1 /\ K.chunks = 4)
<1>1. CASE kernel = "m4b"
  <2>1. K = M4b
    BY <1>1 DEF K, Kernel
  <2>2. /\ K.batch = 32 /\ K.depth = 0 /\ K.early = TRUE /\ K.resumes = "never"
        /\ DOMAIN K.dots = 0 .. 1 /\ K.chunks = 4
    BY <2>1 DEF M4b
  <2> QED BY ONLY <2>2
<1>2. CASE kernel = "m4i"
  <2>1. K = M4i
    BY <1>2 DEF K, Kernel
  <2>2. /\ K.batch = 1 /\ K.depth = 0 /\ K.early = TRUE /\ K.resumes = "never"
        /\ DOMAIN K.dots = 0 .. 1 /\ K.chunks = 4
    BY <2>1 DEF M4i, M4b
  <2> QED BY ONLY <2>2
<1>3. CASE kernel = "upstream"
  <2>1. K = Upstream
    BY <1>3 DEF K, Kernel
  <2>2. /\ K.batch = 1 /\ K.depth = 0 /\ K.early = TRUE /\ K.resumes = "never"
        /\ DOMAIN K.dots = 0 .. 1 /\ K.chunks = 4
    BY <2>1 DEF Upstream, M4b
  <2> QED BY ONLY <2>2
<1>4. CASE kernel = "m8b"
  <2>1. K = M8b
    BY <1>4 DEF K, Kernel
  <2>2. /\ K.batch = 8 /\ K.depth = 0 /\ K.early = TRUE /\ K.resumes = "never"
        /\ DOMAIN K.dots = 0 .. 1 /\ K.chunks = 4
    BY <2>1 DEF M8b
  <2> QED BY ONLY <2>2
<1>5. CASE kernel = "m8b_dpu"
  <2>1. K = M8bDpu
    BY <1>5 DEF K, Kernel
  <2>2. /\ K.batch = 8 /\ K.depth = 0 /\ K.early = TRUE /\ K.resumes = "never"
        /\ DOMAIN K.dots = 0 .. 1 /\ K.chunks = 4
    BY <2>1 DEF M8bDpu, M8b
  <2> QED BY ONLY <2>2
<1>6. CASE kernel = "m4n32b"
  <2>1. K = M4n32b
    BY <1>6 DEF K, Kernel
  <2>2. /\ K.batch = 8 /\ K.depth = 16 /\ K.early = TRUE /\ K.resumes = "later"
        /\ DOMAIN K.dots = 0 .. 1 /\ K.chunks = 4
    BY <2>1 DEF M4n32b
  <2> QED BY ONLY <2>2
<1>7. CASE kernel = "m32n4"
  <2>1. K = M32n4
    BY <1>7 DEF K, Kernel
  <2>2. /\ K.batch = 8 /\ K.depth = 8 /\ K.early = FALSE /\ K.resumes = "always"
        /\ DOMAIN K.dots = 0 .. 1 /\ K.chunks = 4
    BY <2>1 DEF M32n4
  <2> QED BY ONLY <2>2
<1>8. CASE kernel = "m8b_ime2"
  <2>1. K = M8bIme2
    BY <1>8 DEF K, Kernel
  <2>2. /\ K.batch = 8 /\ K.depth = 0 /\ K.early = TRUE /\ K.resumes = "never"
        /\ DOMAIN K.dots = {0} /\ K.chunks = 2
    BY <2>1 DEF M8bIme2
  <2> QED BY ONLY <2>2
<1>9. CASE kernel = "rr"
  <2>1. K = Rr
    BY <1>9 DEF K, Kernel
  <2>2. /\ K.batch = 1 /\ K.depth = 1 /\ K.early = TRUE /\ K.resumes = "later"
        /\ DOMAIN K.dots = {0} /\ K.chunks = 2
    BY <2>1 DEF Rr
  <2> QED BY ONLY <2>2
<1> QED BY <1>1, <1>2, <1>3, <1>4, <1>5, <1>6, <1>7, <1>8, <1>9 DEF KernelNames

----------------------------------------------------------------------------
(* The loops.                                                               *)

\* The panels of a tile start at the multiples of their depth.
LEMMA MultipleBelow ==
    ASSUME NEW D \in Nat \ {0}, NEW a \in Nat, NEW b \in Nat, a % D = 0, b % D = 0, a < b
    PROVE  b - D \in Nat /\ (b - D) % D = 0 /\ a <= b - D
<1>1. PICK p \in Nat : a = D * p
  <2>1. a \div D \in Nat /\ a = D * (a \div D)
    OBVIOUS
  <2> QED BY <2>1
<1>2. PICK q \in Nat : b = D * q
  <2>1. b \div D \in Nat /\ b = D * (b \div D)
    OBVIOUS
  <2> QED BY <2>1
<1>3. p < q
  <2>1. p >= q => D * p >= D * q
    OBVIOUS
  <2> QED BY <1>1, <1>2, <2>1
<1>4. b - D = D * (q - 1)
  BY <1>2
<1>5. p <= q - 1 /\ q - 1 \in Nat
  BY <1>3
<1>6. D * p <= D * (q - 1) /\ D * (q - 1) \in Nat
  BY <1>5
<1>7. (D * (q - 1)) % D = 0
  BY <1>5
<1> QED BY ONLY <1>1, <1>4, <1>6, <1>7

\* The last panel reaches to the end of K.
LEMMA LastMultiple ==
    ASSUME NEW D \in Nat \ {0}, NEW N \in Nat \ {0}
    PROVE  \E f \in 0 .. N - 1 : f % D = 0 /\ N - f <= D
<1>1. PICK q \in Nat, r \in 0 .. D - 1 : N - 1 = D * q + r
  <2>1. (N - 1) \div D \in Nat /\ (N - 1) % D \in 0 .. D - 1 /\ N - 1 = D * ((N - 1) \div D) + ((N - 1) % D)
    OBVIOUS
  <2> QED BY <2>1
<1>2. PICK f \in Nat : f = D * q
  OBVIOUS
<1>3. f % D = 0
  BY <1>2
<1>4. f \in 0 .. N - 1 /\ N - f <= D
  BY ONLY <1>1, <1>2, f \in Nat, D \in Nat \ {0}, N \in Nat \ {0}, r \in 0 .. D - 1
<1> QED BY <1>3, <1>4

LEMMA DepthIs ==
    ASSUME Known
    PROVE  Depth \in Nat \ {0} /\ (K.depth # 0 => Depth = K.depth) /\ (K.depth = 0 => Depth = blocks)
BY KernelFacts, ImeTileAssumption DEF Known, Depth

\* The calls of an iteration: one for each tile and each panel of K.
LEMMA CallFacts ==
    ASSUME Known, NEW c \in Calls
    PROVE  /\ c.m \in 0 .. TilesM - 1 /\ c.n \in 0 .. TilesN - 1 /\ <<c.m, c.n>> \in Tiles
           /\ c.first \in 0 .. blocks - 1 /\ c.first % Depth = 0
           /\ c.depth = Lesser(Depth, blocks - c.first)
           /\ c.depth \in Nat \ {0} /\ c.depth <= Depth /\ c.first + c.depth <= blocks
<1>1. Depth \in Nat \ {0} /\ blocks \in Nat \ {0}
  BY DepthIs DEF Known
<1>2. PICK t \in Tiles, f \in { b \in 0 .. blocks - 1 : b % Depth = 0 } :
        c = [m |-> t[1], n |-> t[2], first |-> f, depth |-> Lesser(Depth, blocks - f)]
  BY ONLY c \in Calls DEF Calls
<1>3. c.m = t[1] /\ c.n = t[2] /\ c.first = f /\ c.depth = Lesser(Depth, blocks - f)
  BY <1>2
<1>4. f \in 0 .. blocks - 1 /\ f % Depth = 0
  OBVIOUS
<1>5. Lesser(Depth, blocks - f) \in Nat \ {0} /\ Lesser(Depth, blocks - f) <= Depth /\ f + Lesser(Depth, blocks - f) <= blocks
  BY <1>1, <1>4 DEF Lesser
<1>6. t[1] \in 0 .. TilesM - 1 /\ t[2] \in 0 .. TilesN - 1 /\ <<t[1], t[2]>> \in Tiles
  BY DEF Tiles
<1> QED BY <1>3, <1>4, <1>5, <1>6

LEMMA CallExists ==
    ASSUME Known, NEW t \in Tiles, NEW f \in 0 .. blocks - 1, f % Depth = 0
    PROVE  \E c \in Calls : c.m = t[1] /\ c.n = t[2] /\ c.first = f
<1>1. [m |-> t[1], n |-> t[2], first |-> f, depth |-> Lesser(Depth, blocks - f)] \in Calls
  BY DEF Calls
<1> QED BY <1>1

SameTile(c, d) == c.m = d.m /\ c.n = d.n

LEMMA CallsDiffer ==
    ASSUME NEW c \in Calls, NEW d \in Calls, SameTile(c, d), c.first = d.first
    PROVE  c = d
BY DEF Calls, SameTile

\* Whatever the loop nest, the panels of a tile come in the order of K.
LEMMA BeforeOnTile ==
    ASSUME Known, NEW c \in Calls, NEW d \in Calls, SameTile(c, d), Before(c, d)
    PROVE  c.first < d.first
<1>0. c.m \in Int /\ c.n \in Int /\ c.m \div McTiles \in Int /\ c.n \div NcTiles \in Int
  <2>1. c.m \in 0 .. TilesM - 1 /\ c.n \in 0 .. TilesN - 1
    BY CallFacts
  <2>2. TilesM \in Nat \ {0} /\ TilesN \in Nat \ {0} /\ McTiles \in Nat \ {0} /\ NcTiles \in Nat \ {0}
    BY ImeTileAssumption
  <2>3. c.m \in Nat /\ c.n \in Nat
    BY ONLY <2>1, <2>2
  <2> QED BY ONLY <2>2, <2>3
<1>1. PICK i \in 1 .. 4 : LoopNest(c)[i] < LoopNest(d)[i]
  BY DEF Before
<1>2. c.m < c.m \/ c.n < c.n \/ 0 < 0 \/ c.m \div McTiles < c.m \div McTiles \/ c.n \div NcTiles < c.n \div NcTiles \/ c.first < d.first
  <2>1. i = 1 \/ i = 2 \/ i = 3 \/ i = 4
    OBVIOUS
  <2> QED BY <1>1, <2>1 DEF LoopNest, SameTile
<1> QED BY <1>0, <1>2

\* The adapter's addresses of a block find the block that was packed there.
LEMMA BlockAt ==
    ASSUME Known, NEW m \in 0 .. TilesM - 1, NEW n \in 0 .. TilesN - 1, NEW b \in 0 .. blocks - 1
    PROVE  BlockOfA(AddressA(m, b)) = <<m, b>> /\ BlockOfB(AddressB(n, b)) = <<n, b>>
<1>1. ASSUME NEW D \in Nat \ {0}, NEW q \in Nat, NEW r \in 0 .. D - 1
      PROVE  (q * D + r) \div D = q /\ (q * D + r) % D = r
  OBVIOUS
<1>2. blocks \in Nat \ {0} /\ TilesM \in Nat \ {0} /\ b \in Nat /\ m \in Nat /\ n \in Nat
  BY ImeTileAssumption DEF Known
<1>3. (m * blocks + b) \div blocks = m /\ (m * blocks + b) % blocks = b
  BY ONLY <1>1, <1>2, b \in 0 .. blocks - 1
<1>4. (n * blocks + b) \div blocks = n /\ (n * blocks + b) % blocks = b
  BY ONLY <1>1, <1>2, b \in 0 .. blocks - 1
<1>5. (b * TilesM + m) \div TilesM = b /\ (b * TilesM + m) % TilesM = m
  BY ONLY <1>1, <1>2, m \in 0 .. TilesM - 1
<1> QED BY <1>3, <1>4, <1>5 DEF BlockOfA, AddressA, BlockOfB, AddressB

----------------------------------------------------------------------------
(* The invariant.                                                           *)

\* The first k chunks of a row and a column; what a position of the component
\* buffer holds of block b; what the first u blocks contribute to a cell.
Chunks(rc, k) == [x \in 1 .. k |-> ChunkOf(rc, x - 1)]
Component(m, n, b, rc) == << <<m, b>>, <<n, b>>, Chunks(rc, K.chunks) >>
Contribution(m, n, b, rc) == << Component(m, n, b, rc), << <<m, b>>, rc[1] >>, << <<n, b>>, rc[2] >> >>
Sums(m, n, u, rc) == [b \in 1 .. u |-> Contribution(m, n, b - 1, rc)]

\* The calls of this iteration that are complete.
Done == IF at = "idle" THEN Calls \ todo ELSE Calls \ (todo \cup {call})

\* The panels of a tile that are still to come are the last ones.
LoopInv ==
    /\ iteration \in Nat
    /\ todo \in SUBSET Calls
    /\ at \in {"idle", "dot", "store", "reduce", "return"}
    /\ at # "idle" => call \in Calls \ todo
    /\ at # "idle" \/ todo # {} => iteration > 0
    /\ \A e \in todo, d \in Calls : SameTile(e, d) /\ e.first < d.first => d \in todo
    /\ at # "idle" => \A d \in Calls : SameTile(call, d) => (call.first < d.first <=> d \in todo)

\* The lanes hold the chunks that the inner loop has passed.
DotInv ==
    /\ at \in {"dot", "store", "reduce"} => DOMAIN accumulator = LaneSet
    /\ at \in {"dot", "reduce"} =>
         /\ inner \in DOMAIN K.dots /\ (at = "reduce" => inner = 0)
         /\ \A al \in LaneSet : accumulator[al] = Chunks(K.cell[K.store[al]], 2 * inner)
    /\ at = "store" =>
         inner = 0 /\ \A al \in LaneSet : accumulator[al] = Chunks(K.cell[K.store[al]], K.chunks)

\* What waits in the component buffer are the blocks before bk.
PendInv ==
    /\ DOMAIN components = 0 .. K.batch - 1
    /\ at # "idle" => count \in Nat /\ bk \in Nat /\ count <= bk
    /\ at \in {"dot", "store"} => bk < call.depth /\ count < K.batch
    /\ at = "reduce" => bk <= call.depth /\ count <= K.batch
    /\ at = "return" => bk = call.depth /\ count = 0
    /\ at \in {"dot", "store", "reduce"} =>
         \A i \in 1 .. count : \A pos \in Positions :
           components[i - 1][pos] = Component(call.m, call.n, call.first + bk - count + i - 1, K.cell[pos])

\* The tile holds all blocks before those.
SumInv ==
    at # "idle" =>
      tile = [pos \in Positions |-> Sums(call.m, call.n, call.first + bk - count, K.cell[pos])]

\* The last complete panel of a tile has left the sums up to its end.
LastOf(c, calls) == c \in calls /\ \A d \in calls : SameTile(d, c) => d.first <= c.first
Holds(c) == output[<<c.m, c.n>>] = [rc \in Cells |-> Sums(c.m, c.n, c.first + c.depth, rc)]

OutputInv ==
    /\ DOMAIN output = Tiles
    /\ iteration > 0 => \A c \in Calls : LastOf(c, Done) => Holds(c)
    /\ iteration > 0 /\ K.resumes = "always" =>
         \A t \in Tiles : (\A d \in Done : <<d.m, d.n>> # t) => output[t] = [rc \in Cells |-> <<>>]

ImeInv == Known /\ LoopInv /\ DotInv /\ PendInv /\ SumInv /\ OutputInv

\* What the kernel and the depth determine does not change with a step.
LEMMA Frame ==
    ASSUME kernel' = kernel, blocks' = blocks
    PROVE  /\ K' = K /\ Known' = Known /\ Depth' = Depth
           /\ Calls' = Calls /\ Positions' = Positions /\ Cells' = Cells /\ LaneSet' = LaneSet
<1>1. K' = K
  BY DEF K
<1>2. Depth' = Depth
  BY <1>1 DEF Depth
<1>3. Calls' = Calls
  BY <1>2 DEF Calls
<1>4. Known' = Known /\ Positions' = Positions /\ Cells' = Cells /\ LaneSet' = LaneSet
  BY <1>1 DEF Known, Positions, Cells, LaneSet
<1> QED BY <1>1, <1>2, <1>3, <1>4

LEMMA KnownFacts ==
    ASSUME Known
    PROVE  /\ kernel \in KernelNames /\ Tabled
           /\ K.batch \in Nat \ {0} /\ K.depth \in Nat
           /\ K.early \/ (K.depth # 0 /\ K.depth <= K.batch)
           /\ (DOMAIN K.dots = {0} /\ K.chunks = 2) \/ (DOMAIN K.dots = 0 .. 1 /\ K.chunks = 4)
<1>1. kernel \in KernelNames
  BY ImeTileAssumption DEF Known
<1> QED BY <1>1, Tables, KernelFacts

LEMMA InitInv == ImeInit => ImeInv
<1> SUFFICES ASSUME ImeInit PROVE ImeInv
  OBVIOUS
<1>1. Known
  BY ImeTileAssumption DEF ImeInit, Known
<1>2. /\ at = "idle" /\ todo = {} /\ iteration = 0 
      /\ components = [slot \in 0 .. K.batch - 1 |-> [pos \in Positions |-> <<>>]]
      /\ output = [t \in Tiles |-> [c \in Cells |-> <<>>]]
  BY DEF ImeInit
<1>3. DOMAIN components = 0 .. K.batch - 1 /\ DOMAIN output = Tiles
  BY <1>2
<1>4. LoopInv /\ DotInv /\ PendInv /\ SumInv /\ OutputInv
  BY <1>2, <1>3 DEF LoopInv, DotInv, PendInv, SumInv, OutputInv
<1> QED BY <1>1, <1>4 DEF ImeInv

\* Within a call the loops and the output are left alone.
LEMMA InCall ==
    ASSUME ImeInv, kernel' = kernel, blocks' = blocks, loop' = loop, output' = output,
           at # "idle", at' \in {"dot", "store", "reduce", "return"}
    PROVE  /\ Known' /\ LoopInv' /\ OutputInv'
           /\ K' = K /\ Positions' = Positions /\ LaneSet' = LaneSet /\ call' = call
<1>1. /\ K' = K /\ Known' = Known /\ Calls' = Calls /\ Cells' = Cells
      /\ Positions' = Positions /\ LaneSet' = LaneSet
  BY Frame
<1>2. iteration' = iteration /\ todo' = todo /\ call' = call
  BY DEF loop
<1>3. Done' = Done
  BY <1>1, <1>2 DEF Done
<1>4. LoopInv'
  BY <1>1, <1>2 DEF ImeInv, LoopInv, SameTile
<1>5. \A c : LastOf(c, Done)' = LastOf(c, Done)
  BY <1>3 DEF LastOf, SameTile
<1>6. \A c : Holds(c)' = Holds(c)
  BY <1>1 DEF Holds, Sums, Contribution, Component
<1>7. Tiles' = Tiles
  BY DEF Tiles
<1>8. OutputInv'
  BY <1>1, <1>2, <1>3, <1>5, <1>6, <1>7 DEF ImeInv, OutputInv
<1>9. Known
  BY DEF ImeInv
<1> QED BY <1>1, <1>2, <1>4, <1>8, <1>9

LEMMA Joined ==
    ASSUME NEW f \in Nat, NEW u \in Nat, NEW x, NEW y,
           x = [i \in 1 .. f |-> x[i]], y = [i \in 1 .. u |-> y[i]]
    PROVE  x \o y = [i \in 1 .. f + u |-> IF i <= f THEN x[i] ELSE y[i - f]]
<1> DEFINE T == { x[i] : i \in 1 .. f } \cup { y[i] : i \in 1 .. u }
<1>1. \A i \in 1 .. f : x[i] \in T
  OBVIOUS
<1>2. \A i \in 1 .. u : y[i] \in T
  OBVIOUS
<1> HIDE DEF T
<1>3. x \in Seq(T) /\ Len(x) = f
  <2>1. x \in [1 .. f -> T]
    BY <1>1
  <2> QED BY ONLY <2>1, f \in Nat
<1>4. y \in Seq(T) /\ Len(y) = u
  <2>1. y \in [1 .. u -> T]
    BY <1>2
  <2> QED BY ONLY <2>1, u \in Nat
<1>5. x \o y \in Seq(T) /\ Len(x \o y) = f + u
  BY ONLY <1>3, <1>4, ConcatProperties
<1>6. \A i \in 1 .. f + u : (x \o y)[i] = IF i <= f THEN x[i] ELSE y[i - f]
  BY ONLY <1>3, <1>4, ConcatProperties
<1>7. x \o y = [i \in 1 .. f + u |-> (x \o y)[i]]
  <2>1. x \o y \in [1 .. f + u -> T]
    BY ONLY <1>5, LenProperties
  <2> QED BY ONLY <2>1
<1> QED BY ONLY <1>6, <1>7

\* The sequences that the steps extend.
LEMMA ChunksAppended ==
    ASSUME NEW rc, NEW i \in Nat
    PROVE  Chunks(rc, 2 * i) \o [d \in 1 .. 2 |-> ChunkOf(rc, 2 * i + d - 1)] = Chunks(rc, 2 * (i + 1))
<1> DEFINE x == Chunks(rc, 2 * i)
           y == [d \in 1 .. 2 |-> ChunkOf(rc, 2 * i + d - 1)]
<1>1. PICK f \in Nat : f = 2 * i
  OBVIOUS
<1>2. x = [k \in 1 .. f |-> x[k]] /\ y = [k \in 1 .. 2 |-> y[k]]
  BY <1>1 DEF Chunks
<1>3. x \o y = [k \in 1 .. f + 2 |-> IF k <= f THEN x[k] ELSE y[k - f]]
  <2> HIDE DEF x, y
  <2> QED BY <1>1, <1>2, Joined
<1>4. ASSUME NEW k \in 1 .. f + 2
      PROVE  (IF k <= f THEN x[k] ELSE y[k - f]) = ChunkOf(rc, k - 1)
  <2>1. CASE k <= f
    BY <1>1, <2>1 DEF Chunks
  <2>2. CASE ~ (k <= f)
    <3>1. k - f \in 1 .. 2 /\ 2 * i + (k - f) - 1 = k - 1
      BY <1>1, <2>2
    <3> QED BY <2>2, <3>1
  <2> QED BY <2>1, <2>2
<1>5. 2 * (i + 1) = f + 2
  BY <1>1
<1> QED BY <1>3, <1>4, <1>5 DEF Chunks

\* One inner iteration adds the next two chunks to every lane.
LEMMA DotStep ==
    ASSUME ImeInv, Dot
    PROVE  ImeInv'
<1>1. /\ at = "dot" /\ kernel' = kernel /\ blocks' = blocks /\ loop' = loop /\ output' = output
      /\ bk' = bk /\ count' = count /\ components' = components /\ tile' = tile
      /\ accumulator' = [al \in DOMAIN accumulator |->
           accumulator[al] \o [d \in 1 .. Len(K.dots[inner][al[1]]) |-> Product(K.dots[inner][al[1]][d], al[2])]]
      /\ IF inner + 1 \in DOMAIN K.dots THEN inner' = inner + 1 /\ at' = "dot" ELSE inner' = 0 /\ at' = "store"
  BY DEF Dot
<1>2. /\ Known' /\ LoopInv' /\ OutputInv'
      /\ K' = K /\ Positions' = Positions /\ LaneSet' = LaneSet /\ call' = call
  BY <1>1, InCall
<1>3. Known /\ DotInv /\ PendInv /\ SumInv
  BY DEF ImeInv
<1>4. inner \in DOMAIN K.dots /\ inner \in Nat
  <2>1. inner \in DOMAIN K.dots
    BY <1>1, <1>3 DEF DotInv
  <2>2. DOMAIN K.dots = {0} \/ DOMAIN K.dots = 0 .. 1
    BY <1>3, KnownFacts
  <2> QED BY ONLY <2>1, <2>2
<1>5. ASSUME NEW al \in LaneSet
      PROVE  accumulator'[al] = Chunks(K.cell[K.store[al]], 2 * (inner + 1))
  <2> DEFINE rc == K.cell[K.store[al]]
             dots == K.dots[inner][al[1]]
  <2>1. Collects(al, K.store[al], rc, inner)
    BY <1>3, <1>4, KnownFacts DEF Tabled
  <2>2. accumulator[al] = Chunks(rc, 2 * inner) /\ DOMAIN accumulator = LaneSet
    BY <1>1, <1>3 DEF DotInv
  <2>3. accumulator'[al] = accumulator[al] \o [d \in 1 .. Len(dots) |-> Product(dots[d], al[2])]
    BY <1>1, <2>2
  <2>4. Len(dots) = 2 /\ Product(dots[1], al[2]) = ChunkOf(rc, 2 * inner) /\ Product(dots[2], al[2]) = ChunkOf(rc, 2 * inner + 1)
    BY <2>1 DEF Collects
  <2> HIDE DEF rc, dots
  <2>5. ASSUME NEW d \in 1 .. 2 PROVE Product(dots[d], al[2]) = ChunkOf(rc, 2 * inner + d - 1)
    <3>1. CASE d = 1
      <4>1. 2 * inner + d - 1 = 2 * inner
        BY <1>4, <3>1
      <4> QED BY <2>4, <3>1, <4>1
    <3>2. CASE d = 2
      <4>1. 2 * inner + d - 1 = 2 * inner + 1
        BY <1>4, <3>2
      <4> QED BY <2>4, <3>2, <4>1
    <3> QED BY <3>1, <3>2
  <2>6. [d \in 1 .. Len(dots) |-> Product(dots[d], al[2])] = [d \in 1 .. 2 |-> ChunkOf(rc, 2 * inner + d - 1)]
    BY <2>4, <2>5
  <2>7. accumulator'[al] = Chunks(rc, 2 * (inner + 1))
    BY <1>4, <2>2, <2>3, <2>6, ChunksAppended
  <2> QED BY <2>7 DEF rc
<1>6. DotInv'
  <2>1. DOMAIN accumulator' = LaneSet
    BY <1>1, <1>3 DEF DotInv
  <2>2. \A rc, k : Chunks(rc, k)' = Chunks(rc, k)
    BY DEF Chunks, ChunkOf
  <2>3. CASE inner + 1 \in DOMAIN K.dots
    BY <1>1, <1>2, <1>5, <2>1, <2>3 DEF DotInv, Chunks, ChunkOf
  <2>4. CASE inner + 1 \notin DOMAIN K.dots
    <3>1. 2 * (inner + 1) = K.chunks
      <4>1. (DOMAIN K.dots = {0} /\ K.chunks = 2) \/ (DOMAIN K.dots = 0 .. 1 /\ K.chunks = 4)
        BY <1>3, KnownFacts
      <4> QED BY ONLY <1>4, <2>4, <4>1
    <3>2. \A al \in LaneSet : accumulator'[al] = Chunks(K.cell[K.store[al]], K.chunks)
      BY <1>5, <3>1
    <3>3. inner' = 0 /\ at' = "store"
      BY <1>1, <2>4
    <3> QED BY <1>2, <2>1, <3>2, <3>3 DEF DotInv, Chunks, ChunkOf
  <2> QED BY <2>3, <2>4
<1>7. PendInv'
  <2>1. at' \in {"dot", "store"}
    BY <1>1
  <2> QED BY <1>1, <1>2, <1>3, <2>1 DEF PendInv, Component, Chunks, ChunkOf
<1>8. SumInv'
  <2>1. tile = [pos \in Positions |-> Sums(call.m, call.n, call.first + bk - count, K.cell[pos])]
    BY <1>1, <1>3 DEF SumInv
  <2> QED BY <1>1, <1>2, <2>1 DEF SumInv, Sums, Contribution, Component, Chunks, ChunkOf
<1> QED BY <1>2, <1>6, <1>7, <1>8 DEF ImeInv

\* The stored lanes cover the tile, so a block's place holds nothing older.
LEMMA StoreStep ==
    ASSUME ImeInv, Store
    PROVE  ImeInv'
<1> DEFINE Stored(pos) == { al \in DOMAIN accumulator : K.store[al] = pos }
           Written(pos) == << BlockOfA(AddressA(call.m, call.first + bk)),
                           BlockOfB(AddressB(call.n, call.first + bk)),
                           accumulator[CHOOSE al \in Stored(pos) : TRUE] >>
<1>1. /\ at = "store" /\ kernel' = kernel /\ blocks' = blocks /\ loop' = loop /\ output' = output
      /\ bk' = bk + 1 /\ count' = count + 1 /\ inner' = inner /\ tile' = tile
      /\ accumulator' = Empty
      /\ components' = [components EXCEPT ![count] =
           [pos \in Positions |-> IF Stored(pos) = {} THEN components[count][pos] ELSE Written(pos)]]
      /\ at' = IF FlushDue(bk', count') THEN "reduce" ELSE IF bk' < call.depth THEN "dot" ELSE "return"
  BY DEF Store
<1>2. Known /\ LoopInv /\ DotInv /\ PendInv /\ SumInv
  BY DEF ImeInv
<1>3. call \in Calls /\ bk \in Nat /\ count \in Nat /\ count <= bk /\ bk < call.depth /\ count < K.batch
  BY <1>1, <1>2 DEF LoopInv, PendInv
<1>4. /\ call.m \in 0 .. TilesM - 1 /\ call.n \in 0 .. TilesN - 1
      /\ call.first \in 0 .. blocks - 1 /\ call.depth \in Nat \ {0}
      /\ call.depth <= Depth /\ call.first + call.depth <= blocks
  BY <1>2, <1>3, CallFacts
<1>5. blocks \in Nat \ {0} /\ K.batch \in Nat \ {0} /\ Depth \in Nat \ {0}
  BY <1>2, KnownFacts, DepthIs DEF Known
<1>6. call.first \in Nat /\ call.first + bk \in 0 .. blocks - 1
  BY ONLY <1>3, <1>4, <1>5
<1>7. at' \in {"dot", "reduce"} /\ (at' = "dot" => bk' < call.depth /\ count' < K.batch)
  <2>1. FlushDue(bk + 1, count + 1) \/ bk + 1 < call.depth
    BY <1>3, <1>4 DEF FlushDue
  <2>2. ~ FlushDue(bk + 1, count + 1) => bk + 1 < call.depth /\ count + 1 < K.batch
    <3>1. K.early \/ (K.depth # 0 /\ K.depth <= K.batch /\ Depth = K.depth)
      BY <1>2, KnownFacts, DepthIs
    <3>2. K.early => (~ FlushDue(bk + 1, count + 1) => count + 1 # K.batch)
      BY DEF FlushDue
    <3>3. ~ FlushDue(bk + 1, count + 1) => bk + 1 < call.depth
      BY <2>1
    <3>4. CASE K.early
      BY <1>3, <1>5, <3>2, <3>3, <3>4
    <3>5. CASE K.depth # 0 /\ K.depth <= K.batch /\ Depth = K.depth
      BY <1>3, <1>4, <1>5, <3>3, <3>5
    <3> QED BY <3>1, <3>4, <3>5
  <2>3. FlushDue(bk', count') <=> FlushDue(bk + 1, count + 1)
    BY <1>1
  <2> QED BY <1>1, <2>1, <2>2, <2>3
<1>8. /\ Known' /\ LoopInv' /\ OutputInv'
      /\ K' = K /\ Positions' = Positions /\ LaneSet' = LaneSet /\ call' = call
  BY <1>1, <1>7, InCall
<1>9. ASSUME NEW pos \in Positions
      PROVE  components'[count][pos] = Component(call.m, call.n, call.first + bk, K.cell[pos])
  <2>1. PICK al \in LaneSet : K.store[al] = pos
    BY <1>2, KnownFacts DEF Tabled
  <2>2. DOMAIN accumulator = LaneSet /\ \A bl \in LaneSet : accumulator[bl] = Chunks(K.cell[K.store[bl]], K.chunks)
    BY <1>1, <1>2 DEF DotInv
  <2>3. al \in Stored(pos)
    BY <2>1, <2>2
  <2>4. (CHOOSE bl \in Stored(pos) : TRUE) \in Stored(pos)
    BY <2>3
  <2>5. accumulator[CHOOSE bl \in Stored(pos) : TRUE] = Chunks(K.cell[pos], K.chunks)
    BY <2>2, <2>4
  <2>6. Written(pos) = Component(call.m, call.n, call.first + bk, K.cell[pos])
    BY <1>2, <1>4, <1>6, <2>5, BlockAt DEF Component
  <2>7. count \in DOMAIN components
    BY <1>2, <1>3, <1>5 DEF PendInv
  <2>8. components'[count] = [p \in Positions |-> IF Stored(p) = {} THEN components[count][p] ELSE Written(p)]
    BY <1>1, <2>7
  <2> QED BY <2>3, <2>6, <2>8
<1>10. DotInv'
  <2>1. accumulator' = [al \in LaneSet |-> <<>>]
    BY <1>1, <1>8 DEF Empty, LaneSet
  <2>2. \A rc : Chunks(rc, 2 * 0) = <<>>
    BY DEF Chunks
  <2>3. inner = 0 /\ 0 \in DOMAIN K.dots
    <3>1. DOMAIN K.dots = {0} \/ DOMAIN K.dots = 0 .. 1
      BY <1>2, KnownFacts
    <3> QED BY <1>1, <1>2, <3>1 DEF DotInv
  <2> QED BY <1>1, <1>7, <1>8, <2>1, <2>2, <2>3 DEF DotInv, Chunks, ChunkOf
<1>11. PendInv'
  <2>1. DOMAIN components' = 0 .. K.batch - 1
    BY <1>1, <1>2 DEF PendInv
  <2>2. count + 1 \in Nat /\ bk + 1 \in Nat /\ count + 1 <= bk + 1 /\ bk + 1 <= call.depth /\ count + 1 <= K.batch
    BY ONLY <1>3, <1>4, <1>5
  <2>3. ASSUME NEW i \in 1 .. count + 1, NEW pos \in Positions
        PROVE  components'[i - 1][pos] =
                 Component(call.m, call.n, call.first + (bk + 1) - (count + 1) + i - 1, K.cell[pos])
    <3>1. CASE i = count + 1
      <4>1. i - 1 = count /\ call.first + (bk + 1) - (count + 1) + i - 1 = call.first + bk
        BY <1>3, <1>6, <3>1
      <4> QED BY <1>9, <4>1
    <3>2. CASE i # count + 1
      <4>1. i \in 1 .. count /\ i - 1 # count /\ i - 1 \in 0 .. K.batch - 1
            /\ call.first + (bk + 1) - (count + 1) + i - 1 = call.first + bk - count + i - 1
        BY <1>3, <1>5, <1>6, <3>2
      <4>2. components'[i - 1] = components[i - 1]
        BY <1>1, <1>2, <4>1 DEF PendInv
      <4> QED BY <1>1, <1>2, <4>1, <4>2 DEF PendInv
    <3> QED BY <3>1, <3>2
  <2> HIDE DEF Stored, ImeNext
  <2>4. \A m, n, b, rc : Component(m, n, b, rc)' = Component(m, n, b, rc)
    BY <1>8 DEF Component, Chunks, ChunkOf
  <2>5. (\A i \in 1 .. count : \A pos \in Positions :
           components[i - 1][pos] = Component(call.m, call.n, call.first + bk - count + i - 1, K.cell[pos]))'
    BY <1>1, <1>8, <2>3, <2>4
  <2>6. /\ DOMAIN components' = 0 .. K'.batch - 1
        /\ count' \in Nat /\ bk' \in Nat /\ count' <= bk' /\ bk' <= call'.depth /\ count' <= K'.batch
    BY <1>1, <1>8, <2>1, <2>2
  <2>7. at' \in {"dot", "reduce"} /\ (at' = "dot" => bk' < call'.depth /\ count' < K'.batch)
    BY <1>7, <1>8
  <2> QED BY <2>5, <2>6, <2>7 DEF PendInv
<1>12. SumInv'
  <2>1. tile = [pos \in Positions |-> Sums(call.m, call.n, call.first + bk - count, K.cell[pos])]
    BY <1>1, <1>2 DEF SumInv
  <2>2. call.first + (bk + 1) - (count + 1) = call.first + bk - count
    BY <1>3, <1>6
  <2> QED BY <1>1, <1>8, <2>1, <2>2 DEF SumInv, Sums, Contribution, Component, Chunks, ChunkOf
<1> QED BY <1>8, <1>10, <1>11, <1>12 DEF ImeInv

\* Sums that continue where the tile is.
Further(m, n, f, u, rc) == [i \in 1 .. u |-> Contribution(m, n, f + i - 1, rc)]

LEMMA SumsAppended ==
    ASSUME NEW m, NEW n, NEW rc, NEW f \in Nat, NEW u \in Nat
    PROVE  Sums(m, n, f, rc) \o Further(m, n, f, u, rc) = Sums(m, n, f + u, rc)
<1> DEFINE x == Sums(m, n, f, rc)
           y == [i \in 1 .. u |-> Contribution(m, n, f + i - 1, rc)]
<1>1. x = [k \in 1 .. f |-> x[k]] /\ y = [k \in 1 .. u |-> y[k]]
  BY DEF Sums
<1>2. x \o y = [k \in 1 .. f + u |-> IF k <= f THEN x[k] ELSE y[k - f]]
  <2> HIDE DEF x, y
  <2> QED BY <1>1, Joined
<1>3. ASSUME NEW k \in 1 .. f + u
      PROVE  (IF k <= f THEN x[k] ELSE y[k - f]) = Contribution(m, n, k - 1, rc)
  <2>1. CASE k <= f
    BY <2>1 DEF Sums
  <2>2. CASE ~ (k <= f)
    <3>1. k - f \in 1 .. u /\ f + (k - f) - 1 = k - 1
      BY <2>2
    <3> QED BY <2>2, <3>1
  <2> QED BY <2>1, <2>2
<1> QED BY <1>2, <1>3 DEF Sums, Further

\* Every position is scaled with the scales of the cell it becomes.
LEMMA ScalesAreTheCells ==
    ASSUME Known, NEW pos \in Positions
    PROVE  K.scales[pos] = K.cell[pos] /\ K.cell[pos] \in Cells
<1>1. PICK al \in LaneSet : K.store[al] = pos
  BY KnownFacts DEF Tabled
<1>2. 0 \in DOMAIN K.dots
  <2>1. DOMAIN K.dots = {0} \/ DOMAIN K.dots = 0 .. 1
    BY KnownFacts
  <2> QED BY <2>1
<1>3. Collects(al, pos, K.cell[pos], 0)
  BY <1>1, <1>2, KnownFacts DEF Tabled
<1> QED BY <1>1, <1>3, KnownFacts DEF Tabled, Collects

\* A batch is added to the sums, which then reach up to bk.
LEMMA ReduceStep ==
    ASSUME ImeInv, Reduce
    PROVE  ImeInv'
<1> DEFINE From == call.first + bk - count
           Terms(pos) == [ i \in 1 .. count |->
               LET block == call.first + bk - count + i - 1
               IN  << components[i - 1][pos],
                      << BlockOfA(AddressA(call.m, block)), K.scales[pos][1] >>,
                      << BlockOfB(AddressB(call.n, block)), K.scales[pos][2] >> >> ]
<1>1. /\ at = "reduce" /\ kernel' = kernel /\ blocks' = blocks /\ loop' = loop /\ output' = output
      /\ bk' = bk /\ count' = 0 /\ inner' = inner /\ accumulator' = accumulator /\ components' = components
      /\ tile' = [pos \in Positions |-> tile[pos] \o Terms(pos)]
      /\ at' = IF bk < call.depth THEN "dot" ELSE "return"
  BY DEF Reduce
<1>2. Known /\ LoopInv /\ DotInv /\ PendInv /\ SumInv
  BY DEF ImeInv
<1>3. call \in Calls /\ bk \in Nat /\ count \in Nat /\ count <= bk /\ bk <= call.depth /\ count <= K.batch
  BY <1>1, <1>2 DEF LoopInv, PendInv
<1>4. /\ call.m \in 0 .. TilesM - 1 /\ call.n \in 0 .. TilesN - 1
      /\ call.first \in 0 .. blocks - 1 /\ call.depth \in Nat \ {0}
      /\ call.first + call.depth <= blocks
  BY <1>2, <1>3, CallFacts
<1>5. blocks \in Nat \ {0} /\ K.batch \in Nat \ {0}
  BY <1>2, KnownFacts DEF Known
<1>6. call.first \in Nat /\ From \in Nat /\ From + count = call.first + bk
  BY <1>3, <1>4, <1>5
<1>7. /\ Known' /\ LoopInv' /\ OutputInv'
      /\ K' = K /\ Positions' = Positions /\ LaneSet' = LaneSet /\ call' = call
  BY <1>1, InCall
<1>8. ASSUME NEW pos \in Positions
      PROVE  tile[pos] \o Terms(pos) = Sums(call.m, call.n, call.first + bk, K.cell[pos])
  <2>1. tile[pos] = Sums(call.m, call.n, From, K.cell[pos])
    BY <1>1, <1>2 DEF SumInv
  <2>2. ASSUME NEW i \in 1 .. count
        PROVE  Terms(pos)[i] = Contribution(call.m, call.n, From + i - 1, K.cell[pos])
    <3>1. PICK b \in 0 .. blocks - 1 : b = From + i - 1
      <4>1. From + i - 1 \in 0 .. blocks - 1
        <5> HIDE DEF From
        <5> QED BY ONLY <1>3, <1>4, <1>5, <1>6, i \in 1 .. count
      <4> QED BY <4>1
    <3>2. components[i - 1][pos] = Component(call.m, call.n, b, K.cell[pos])
      BY <1>1, <1>2, <3>1 DEF PendInv
    <3>3. BlockOfA(AddressA(call.m, b)) = <<call.m, b>> /\ BlockOfB(AddressB(call.n, b)) = <<call.n, b>>
      BY <1>2, <1>4, BlockAt
    <3>4. K.scales[pos] = K.cell[pos]
      BY <1>2, ScalesAreTheCells
    <3>5. Terms(pos)[i] = << components[i - 1][pos],
                             << BlockOfA(AddressA(call.m, b)), K.scales[pos][1] >>,
                             << BlockOfB(AddressB(call.n, b)), K.scales[pos][2] >> >>
      BY <3>1
    <3> HIDE DEF Terms, From
    <3> QED BY <3>1, <3>2, <3>3, <3>4, <3>5 DEF Contribution
  <2>3. Terms(pos) = [i \in 1 .. count |-> Terms(pos)[i]]
    OBVIOUS
  <2> HIDE DEF Terms, From
  <2>4. Terms(pos) = [i \in 1 .. count |-> Contribution(call.m, call.n, From + i - 1, K.cell[pos])]
    BY <2>2, <2>3
  <2>5. tile[pos] \o Terms(pos) = Sums(call.m, call.n, From + count, K.cell[pos])
    <3>1. Terms(pos) = Further(call.m, call.n, From, count, K.cell[pos])
      BY <2>4 DEF Further
    <3>2. Sums(call.m, call.n, From, K.cell[pos]) \o Further(call.m, call.n, From, count, K.cell[pos])
            = Sums(call.m, call.n, From + count, K.cell[pos])
      BY <1>3, <1>6, SumsAppended
    <3> QED BY <2>1, <3>1, <3>2
  <2> QED BY <1>6, <2>5
<1> HIDE DEF Terms, From
<1>9. DotInv'
  BY <1>1, <1>2, <1>7 DEF DotInv, Chunks, ChunkOf
<1>10. PendInv'
  <2>1. DOMAIN components' = 0 .. K'.batch - 1
    BY <1>1, <1>2, <1>7 DEF PendInv
  <2>2. /\ count' = 0 /\ bk' \in Nat /\ count' <= bk' /\ count' < K'.batch
        /\ at' = "dot" \/ (at' = "return" /\ bk' = call'.depth)
        /\ at' = "dot" => bk' < call'.depth
    BY <1>1, <1>3, <1>4, <1>5, <1>7
  <2>3. 1 .. count' = {}
    BY <1>1
  <2> QED BY <2>1, <2>2, <2>3 DEF PendInv
<1>11. SumInv'
  <2>1. call.first + bk - 0 = call.first + bk
    BY <1>3, <1>6
  <2>2. tile' = [pos \in Positions |-> Sums(call.m, call.n, call.first + bk - 0, K.cell[pos])]
    BY <1>1, <1>8, <2>1
  <2>3. \A m, n, u, rc : Sums(m, n, u, rc)' = Sums(m, n, u, rc)
    BY <1>7 DEF Sums, Contribution, Component, Chunks, ChunkOf
  <2>4. (call.first + bk - count)' = call.first + bk - 0
    BY <1>1, <1>7
  <2>5. [pos \in Positions |-> Sums(call.m, call.n, call.first + bk - count, K.cell[pos])]'
          = [pos \in Positions |-> Sums(call.m, call.n, call.first + bk - 0, K.cell[pos])]
    BY <1>7, <2>3, <2>4
  <2> QED BY <2>2, <2>5 DEF SumInv
<1> QED BY <1>7, <1>9, <1>10, <1>11 DEF ImeInv

\* A new iteration starts with nothing complete.
LEMMA IterateStep ==
    ASSUME ImeInv, Iterate
    PROVE  ImeInv'
<1>1. /\ at = "idle" /\ at' = at /\ kernel' = kernel /\ blocks' = blocks
      /\ iteration' = iteration + 1 /\ todo' = Calls /\ components' = components
      /\ output' = IF K.resumes = "always" THEN [t \in Tiles |-> [c \in Cells |-> <<>>]] ELSE output
  BY DEF Iterate
<1>2. K' = K /\ Known' = Known /\ Calls' = Calls /\ Cells' = Cells
  BY <1>1, Frame
<1>3. Known /\ LoopInv /\ PendInv /\ OutputInv
  BY DEF ImeInv
<1>4. LoopInv'
  BY <1>1, <1>2, <1>3 DEF LoopInv, SameTile
<1>5. DotInv' /\ PendInv' /\ SumInv'
  BY <1>1, <1>2, <1>3 DEF DotInv, PendInv, SumInv
<1>6. OutputInv'
  <2>1. Done' = {}
    BY <1>1, <1>2 DEF Done
  <2>2. \A c : ~ LastOf(c, Done)'
    BY <2>1 DEF LastOf
  <2>3. DOMAIN output' = Tiles
    BY <1>1, <1>3 DEF OutputInv
  <2>4. K.resumes = "always" => \A t \in Tiles : output'[t] = [rc \in Cells |-> <<>>]
    BY <1>1
  <2> QED BY <1>2, <2>2, <2>3, <2>4 DEF OutputInv, Tiles
<1> QED BY <1>2, <1>3, <1>4, <1>5, <1>6 DEF ImeInv

\* A call that continues finds what the panel before it has left, the first one of
\* a tile an empty output.
LEMMA Continued ==
    ASSUME ImeInv, at = "idle", NEW c \in todo, \A d \in todo \ {c} : Before(c, d), NEW rc \in Cells
    PROVE  (IF Continues(c) THEN output[<<c.m, c.n>>][rc] ELSE <<>>) = Sums(c.m, c.n, c.first, rc)
<1>1. Known /\ LoopInv /\ OutputInv
  BY DEF ImeInv
<1>2. c \in Calls /\ iteration > 0 /\ Done = Calls \ todo
  BY <1>1 DEF LoopInv, Done
<1>3. /\ <<c.m, c.n>> \in Tiles /\ c.first \in 0 .. blocks - 1 /\ c.first % Depth = 0
      /\ blocks \in Nat \ {0} /\ Depth \in Nat \ {0}
  BY <1>1, <1>2, CallFacts, DepthIs DEF Known
<1>4. c.first \in Nat
  BY <1>3
<1>5. ASSUME NEW d \in Done, SameTile(d, c)
      PROVE  d \in Calls /\ d.first \in Nat /\ d.first % Depth = 0 /\ d.first < c.first
  <2>1. d \in Calls /\ d \notin todo
    BY <1>2
  <2>2. d.first \in 0 .. blocks - 1 /\ d.first % Depth = 0
    BY <1>1, <2>1, CallFacts
  <2>3. d.first \in Nat
    BY <2>2
  <2>4. d.first # c.first
    BY <1>2, <1>5, <2>1, CallsDiffer
  <2>5. ~ (c.first < d.first)
    BY <1>1, <1>5, <2>1 DEF LoopInv, SameTile
  <2> QED BY <1>4, <2>1, <2>2, <2>3, <2>4, <2>5
<1>6. CASE c.first = 0
  <2>1. Sums(c.m, c.n, c.first, rc) = <<>>
    BY <1>6 DEF Sums
  <2>2. ASSUME Continues(c) PROVE output[<<c.m, c.n>>][rc] = <<>>
    <3>1. K.resumes = "always"
      BY <1>6, <2>2 DEF Continues
    <3>2. \A d \in Done : <<d.m, d.n>> # <<c.m, c.n>>
      <4>1. ASSUME NEW d \in Done, <<d.m, d.n>> = <<c.m, c.n>> PROVE FALSE
        <5>1. d.first \in Nat /\ d.first < c.first
          BY <1>5, <4>1 DEF SameTile
        <5> QED BY <1>6, <5>1
      <4> QED BY <4>1
    <3>3. output[<<c.m, c.n>>] = [x \in Cells |-> <<>>]
      BY <1>1, <1>2, <1>3, <3>1, <3>2 DEF OutputInv
    <3> QED BY <3>3
  <2> QED BY <2>1, <2>2
<1>7. CASE c.first # 0
  <2>1. Continues(c)
    <3>1. K.depth # 0
      <4>1. ASSUME K.depth = 0 PROVE FALSE
        <5>1. Depth = blocks
          BY <1>1, <4>1, DepthIs
        <5>2. c.first % blocks = c.first
          BY <1>3
        <5> QED BY <1>3, <1>7, <5>1, <5>2
      <4> QED BY <4>1
    <3>2. K.resumes \in {"later", "always"}
      <4>1. kernel \in KernelNames
        BY <1>1, KnownFacts
      <4> QED BY <3>1, <4>1, KernelFacts
    <3> QED BY <1>7, <3>2 DEF Continues
  <2>2. c.first - Depth \in Nat /\ (c.first - Depth) % Depth = 0
    <3>1. 0 % Depth = 0 /\ 0 < c.first
      BY <1>3, <1>4, <1>7
    <3> QED BY ONLY <1>3, <1>4, <3>1, MultipleBelow
  <2>3. c.first - Depth \in 0 .. blocks - 1
    <3>1. PICK x \in Nat, y \in Nat : x = c.first /\ y = c.first - Depth
      BY <1>4, <2>2
    <3>2. y <= x /\ x \in 0 .. blocks - 1
      BY <1>3, <3>1
    <3>3. y \in 0 .. blocks - 1
      BY ONLY <3>1, <3>2, <1>3
    <3> QED BY <3>1, <3>3
  <2>4. PICK p \in Calls : p.m = c.m /\ p.n = c.n /\ p.first = c.first - Depth
    <3>1. <<c.m, c.n>>[1] = c.m /\ <<c.m, c.n>>[2] = c.n
      OBVIOUS
    <3> QED BY <1>1, <1>3, <2>2, <2>3, <3>1, CallExists
  <2>5. p.first < c.first
    BY <1>3, <1>4, <2>4
  <2>6. p \in Done
    <3>1. p \in todo => Before(c, p)
      BY <2>5, <1>4
    <3>2. Before(c, p) => c.first < p.first
      BY <1>1, <1>2, <2>4, BeforeOnTile DEF SameTile
    <3>3. ~ (c.first < p.first)
      BY <1>3, <1>4, <2>4
    <3> QED BY <1>2, <3>1, <3>2, <3>3
  <2>7. ASSUME NEW d \in Done, SameTile(d, p) PROVE d.first <= p.first
    <3>1. SameTile(d, c)
      BY <2>4, <2>7 DEF SameTile
    <3>2. d.first \in Nat /\ d.first % Depth = 0 /\ d.first < c.first
      BY <1>5, <3>1
    <3>3. d.first <= c.first - Depth
      BY ONLY <1>3, <1>4, <3>2, MultipleBelow
    <3> QED BY <2>4, <3>3
  <2>8. Holds(p)
    BY <1>1, <1>2, <2>6, <2>7 DEF OutputInv, LastOf
  <2>9. p.first + p.depth = c.first
    <3>1. p.depth = Lesser(Depth, blocks - p.first)
      BY <1>1, CallFacts
    <3>2. blocks - p.first > Depth
      BY <1>3, <2>4
    <3>3. p.depth = Depth
      BY <1>3, <2>4, <3>1, <3>2 DEF Lesser
    <3> QED BY <1>3, <1>4, <2>4, <3>3
  <2>10. output[<<c.m, c.n>>][rc] = Sums(c.m, c.n, c.first, rc)
    BY <2>4, <2>8, <2>9 DEF Holds
  <2> QED BY <2>1, <2>10
<1> QED BY <1>6, <1>7

\* A call starts with the sums of the panels before its own.
LEMMA CallStep ==
    ASSUME ImeInv, Call
    PROVE  ImeInv'
<1>1. PICK c \in todo : /\ \A d \in todo \ {c} : Before(c, d)
                        /\ call' = c /\ todo' = todo \ {c}
                        /\ tile' = [pos \in Positions |->
                              IF Continues(c) THEN output[<<c.m, c.n>>][K.cell[pos]] ELSE <<>>]
  BY DEF Call
<1>2. /\ at = "idle" /\ at' = "dot" /\ kernel' = kernel /\ blocks' = blocks /\ iteration' = iteration
      /\ bk' = 0 /\ inner' = 0 /\ count' = 0 /\ accumulator' = Empty
      /\ components' = components /\ output' = output
  BY DEF Call
<1>3. /\ K' = K /\ Known' = Known /\ Calls' = Calls /\ Positions' = Positions
      /\ LaneSet' = LaneSet /\ Cells' = Cells
  BY <1>2, Frame
<1>4. Known /\ LoopInv /\ PendInv /\ OutputInv
  BY DEF ImeInv
<1>5. c \in Calls /\ c \notin todo \ {c} /\ iteration > 0
  BY <1>4 DEF LoopInv
<1>6. c.first \in Nat /\ c.depth \in Nat \ {0} /\ (\A d \in Calls : d.first \in Nat)
  <2>1. blocks \in Nat \ {0}
    BY <1>4 DEF Known
  <2>2. ASSUME NEW d \in Calls PROVE d.first \in Nat
    <3>1. d.first \in 0 .. blocks - 1
      BY <1>4, CallFacts
    <3> QED BY <2>1, <3>1
  <2>3. c.depth \in Nat \ {0}
    BY <1>4, <1>5, CallFacts
  <2> QED BY <1>5, <2>2, <2>3
<1>7. LoopInv'
  <2>1. ASSUME NEW e \in todo \ {c}, NEW d \in Calls, SameTile(e, d), e.first < d.first
        PROVE  d \in todo \ {c}
    <3>1. d \in todo
      BY <1>4, <2>1 DEF LoopInv
    <3>2. d # c
      <4>1. ASSUME d = c PROVE FALSE
        <5>1. Before(c, e) /\ e \in Calls /\ SameTile(c, e)
          BY <1>1, <1>4, <2>1, <4>1 DEF LoopInv, SameTile
        <5>2. c.first < e.first
          BY <1>4, <1>5, <5>1, BeforeOnTile
        <5> QED BY <1>6, <2>1, <4>1, <5>1, <5>2
      <4> QED BY <4>1
    <3> QED BY <3>1, <3>2
  <2>2. ASSUME NEW d \in Calls, SameTile(c, d)
        PROVE  c.first < d.first <=> d \in todo \ {c}
    <3>1. ASSUME c.first < d.first PROVE d \in todo \ {c}
      BY <1>4, <1>6, <2>2, <3>1 DEF LoopInv
    <3>2. ASSUME d \in todo \ {c} PROVE c.first < d.first
      BY <1>1, <1>4, <1>5, <2>2, <3>2, BeforeOnTile
    <3> QED BY <3>1, <3>2
  <2>3. iteration \in Nat /\ todo \ {c} \in SUBSET Calls
    BY <1>4 DEF LoopInv
  <2> QED BY <1>1, <1>2, <1>3, <1>5, <2>1, <2>2, <2>3 DEF LoopInv, SameTile
<1>8. DotInv'
  <2>1. accumulator' = [al \in LaneSet |-> <<>>]
    BY <1>2 DEF Empty, LaneSet
  <2>2. \A rc : Chunks(rc, 2 * 0) = <<>>
    BY DEF Chunks
  <2>3. 0 \in DOMAIN K.dots
    <3>1. DOMAIN K.dots = {0} \/ DOMAIN K.dots = 0 .. 1
      BY <1>4, KnownFacts
    <3> QED BY <3>1
  <2> QED BY <1>2, <1>3, <2>1, <2>2, <2>3 DEF DotInv, Chunks, ChunkOf
<1>9. PendInv'
  <2>1. DOMAIN components' = 0 .. K'.batch - 1
    BY <1>2, <1>3, <1>4 DEF PendInv
  <2>2. K'.batch \in Nat \ {0}
    BY <1>3, <1>4, KnownFacts
  <2>3. 1 .. count' = {} /\ count' = 0 /\ bk' = 0 /\ at' = "dot" /\ bk' < call'.depth /\ count' < K'.batch
    BY <1>1, <1>2, <1>6, <2>2
  <2> QED BY <2>1, <2>3 DEF PendInv
<1>10. SumInv'
  <2>1. c.first + 0 - 0 = c.first
    BY <1>6
  <2>2. tile' = [pos \in Positions |-> Sums(c.m, c.n, c.first + 0 - 0, K.cell[pos])]
    <3>1. \A pos \in Positions : K.cell[pos] \in Cells
      BY <1>4, ScalesAreTheCells
    <3>2. \A rc \in Cells : (IF Continues(c) THEN output[<<c.m, c.n>>][rc] ELSE <<>>) = Sums(c.m, c.n, c.first, rc)
      BY <1>1, <1>2, Continued
    <3> QED BY <1>1, <2>1, <3>1, <3>2
  <2>3. \A m, n, u, rc : Sums(m, n, u, rc)' = Sums(m, n, u, rc)
    BY <1>3 DEF Sums, Contribution, Component, Chunks, ChunkOf
  <2>4. [pos \in Positions |-> Sums(call.m, call.n, call.first + bk - count, K.cell[pos])]'
          = [pos \in Positions |-> Sums(c.m, c.n, c.first + 0 - 0, K.cell[pos])]
    BY <1>1, <1>2, <1>3, <2>3
  <2> QED BY <2>2, <2>4 DEF SumInv
<1>11. OutputInv'
  <2>1. Done' = Done
    BY <1>1, <1>2, <1>3 DEF Done
  <2>2. \A d : LastOf(d, Done)' = LastOf(d, Done)
    BY <2>1 DEF LastOf, SameTile
  <2>3. \A d : Holds(d)' = Holds(d)
    BY <1>2, <1>3 DEF Holds, Sums, Contribution, Component, Chunks, ChunkOf
  <2> QED BY <1>2, <1>3, <1>4, <2>1, <2>2, <2>3 DEF OutputInv, Tiles
<1> QED BY <1>3, <1>4, <1>7, <1>8, <1>9, <1>10, <1>11 DEF ImeInv

\* A call that returns leaves the sums up to the end of its panel.
LEMMA ReturnStep ==
    ASSUME ImeInv, Return
    PROVE  ImeInv'
<1> DEFINE Cell(rc) == tile[CHOOSE pos \in Positions : K.cell[pos] = rc]
<1>1. /\ at = "return" /\ at' = "idle" /\ kernel' = kernel /\ blocks' = blocks /\ loop' = loop
      /\ components' = components
      /\ output' = [output EXCEPT ![<<call.m, call.n>>] = [rc \in Cells |-> Cell(rc)]]
  BY DEF Return
<1>2. iteration' = iteration /\ todo' = todo /\ call' = call
  BY <1>1 DEF loop
<1>3. K' = K /\ Known' = Known /\ Calls' = Calls /\ Positions' = Positions /\ Cells' = Cells /\ Tiles' = Tiles
  BY <1>1, Frame DEF Tiles
<1>4. Known /\ LoopInv /\ PendInv /\ SumInv /\ OutputInv
  BY DEF ImeInv
<1>5. PICK c \in Calls : c = call /\ c \notin todo /\ iteration > 0
  BY <1>1, <1>4 DEF LoopInv
<1>6. /\ <<c.m, c.n>> \in Tiles /\ c.first \in Nat /\ c.depth \in Nat /\ \A d \in Calls : d.first \in Nat
  <2>1. blocks \in Nat \ {0}
    BY <1>4 DEF Known
  <2>2. ASSUME NEW d \in Calls PROVE d.first \in Nat
    <3>1. d.first \in 0 .. blocks - 1
      BY <1>4, CallFacts
    <3> QED BY <2>1, <3>1
  <2>3. <<c.m, c.n>> \in Tiles /\ c.depth \in Nat
    BY <1>4, CallFacts
  <2> QED BY <2>2, <2>3
<1>7. ASSUME NEW rc \in Cells PROVE Cell(rc) = Sums(c.m, c.n, c.first + c.depth, rc)
  <2>1. PICK al \in LaneSet : K.store[al] \in Positions /\ K.cell[K.store[al]] = rc
    BY <1>4, KnownFacts DEF Tabled
  <2>2. PICK pos \in Positions : K.cell[pos] = rc /\ pos = CHOOSE p \in Positions : K.cell[p] = rc
    BY <2>1
  <2>3. tile[pos] = Sums(call.m, call.n, call.first + bk - count, rc)
    BY <1>1, <1>4, <2>2 DEF SumInv
  <2>4. call.first + bk - count = c.first + c.depth
    <3>1. bk = c.depth /\ count = 0
      BY <1>1, <1>4, <1>5 DEF PendInv
    <3> QED BY <1>5, <1>6, <3>1
  <2> QED BY <1>5, <2>2, <2>3, <2>4
<1> HIDE DEF Cell
<1>8. output'[<<c.m, c.n>>] = [rc \in Cells |-> Sums(c.m, c.n, c.first + c.depth, rc)]
  <2>1. output'[<<c.m, c.n>>] = [rc \in Cells |-> Cell(rc)]
    BY <1>1, <1>4, <1>5, <1>6 DEF OutputInv
  <2> QED BY <1>7, <2>1
<1>9. ASSUME NEW t, t # <<c.m, c.n>> PROVE output'[t] = output[t]
  BY <1>1, <1>5, <1>9
<1>10. Done' = Done \cup {c} /\ c \notin Done
  BY <1>1, <1>2, <1>3, <1>5 DEF Done
<1>11. LoopInv'
  BY <1>1, <1>2, <1>3, <1>4 DEF LoopInv, SameTile
<1>12. DotInv' /\ PendInv' /\ SumInv'
  BY <1>1, <1>3, <1>4 DEF DotInv, PendInv, SumInv
<1>13. ASSUME NEW d \in Done, SameTile(d, c) PROVE d.first < c.first
  <2>1. d \in Calls /\ d \notin todo /\ d # c
    BY <1>1, <1>5, <1>13 DEF Done
  <2>2. ~ (c.first < d.first)
    BY <1>1, <1>4, <1>5, <1>13, <2>1 DEF LoopInv, SameTile
  <2>3. d.first # c.first
    BY <1>13, <2>1, CallsDiffer
  <2> QED BY <1>6, <2>1, <2>2, <2>3
<1>14. ASSUME NEW d \in Calls, LastOf(d, Done \cup {c})
       PROVE  output'[<<d.m, d.n>>] = [rc \in Cells |-> Sums(d.m, d.n, d.first + d.depth, rc)]
  <2>1. CASE d = c
    BY <1>8, <2>1
  <2>2. CASE d # c
    <3>1. d \in Done
      BY <1>14, <2>2 DEF LastOf
    <3>2. ~ SameTile(d, c)
      <4>1. SameTile(d, c) => c.first <= d.first /\ d.first < c.first
        BY <1>13, <1>14, <3>1 DEF LastOf, SameTile
      <4> QED BY <1>6, <4>1
    <3>3. Holds(d)
      BY <1>4, <1>5, <1>14, <3>1 DEF OutputInv, LastOf
    <3>4. <<d.m, d.n>> # <<c.m, c.n>>
      BY <3>2 DEF SameTile
    <3> QED BY <1>9, <3>3, <3>4 DEF Holds
  <2> QED BY <2>1, <2>2
<1>15. OutputInv'
  <2>1. DOMAIN output' = Tiles
    BY <1>1, <1>4 DEF OutputInv
  <2>2. \A m, n, u, rc : Sums(m, n, u, rc)' = Sums(m, n, u, rc)
    BY <1>3 DEF Sums, Contribution, Component, Chunks, ChunkOf
  <2>3. \A d : Holds(d)' <=> output'[<<d.m, d.n>>] = [rc \in Cells |-> Sums(d.m, d.n, d.first + d.depth, rc)]
    BY <1>3, <2>2 DEF Holds
  <2>4. \A d : LastOf(d, Done)' <=> LastOf(d, Done \cup {c})
    BY <1>10 DEF LastOf, SameTile
  <2>5. \A d \in Calls : LastOf(d, Done)' => Holds(d)'
    BY <1>14, <2>3, <2>4
  <2>6. ASSUME K.resumes = "always", NEW t \in Tiles, \A d \in Done' : <<d.m, d.n>> # t
        PROVE  output'[t] = [rc \in Cells |-> <<>>]
    <3>1. t # <<c.m, c.n>> /\ \A d \in Done : <<d.m, d.n>> # t
      BY <1>10, <2>6
    <3> QED BY <1>4, <1>5, <1>9, <2>6, <3>1 DEF OutputInv
  <2> QED BY <1>3, <2>1, <2>5, <2>6 DEF OutputInv
<1> QED BY <1>3, <1>4, <1>11, <1>12, <1>15 DEF ImeInv

LEMMA ImeStep == ImeInv /\ [ImeNext]_imeVars => ImeInv'
<1> SUFFICES ASSUME ImeInv, [ImeNext]_imeVars PROVE ImeInv'
  OBVIOUS
<1>1. CASE Iterate
  BY <1>1, IterateStep
<1>2. CASE Call
  BY <1>2, CallStep
<1>3. CASE Dot
  BY <1>3, DotStep
<1>4. CASE Store
  BY <1>4, StoreStep
<1>5. CASE Reduce
  BY <1>5, ReduceStep
<1>6. CASE Return
  BY <1>6, ReturnStep
<1>7. CASE UNCHANGED imeVars
  <2>1. /\ kernel' = kernel /\ blocks' = blocks /\ loop' = loop /\ at' = at /\ bk' = bk
        /\ inner' = inner /\ count' = count /\ accumulator' = accumulator
        /\ components' = components /\ tile' = tile /\ output' = output
    BY <1>7 DEF imeVars
  <2>2. iteration' = iteration /\ todo' = todo /\ call' = call
    BY <2>1 DEF loop
  <2>3. /\ K' = K /\ Known' = Known /\ Calls' = Calls /\ Positions' = Positions
        /\ LaneSet' = LaneSet /\ Cells' = Cells /\ Tiles' = Tiles
    BY <2>1, Frame DEF Tiles
  <2>4. LoopInv'
    BY <2>1, <2>2, <2>3 DEF ImeInv, LoopInv, SameTile
  <2>5. DotInv'
    BY <2>1, <2>3 DEF ImeInv, DotInv, Chunks, ChunkOf
  <2>6. PendInv'
    BY <2>1, <2>2, <2>3 DEF ImeInv, PendInv, Component, Chunks, ChunkOf
  <2>7. SumInv'
    BY <2>1, <2>2, <2>3 DEF ImeInv, SumInv, Sums, Contribution, Component, Chunks, ChunkOf
  <2>8. OutputInv'
    <3>1. Done' = Done
      BY <2>1, <2>2, <2>3 DEF Done
    <3>2. \A d : LastOf(d, Done)' = LastOf(d, Done)
      BY <3>1 DEF LastOf, SameTile
    <3>3. \A d : Holds(d)' = Holds(d)
      BY <2>1, <2>3 DEF Holds, Sums, Contribution, Component, Chunks, ChunkOf
    <3> QED BY <2>1, <2>2, <2>3, <3>1, <3>2, <3>3 DEF ImeInv, OutputInv
  <2> QED BY <2>3, <2>4, <2>5, <2>6, <2>7, <2>8 DEF ImeInv
<1> QED BY <1>1, <1>2, <1>3, <1>4, <1>5, <1>6, <1>7 DEF ImeNext

LEMMA ImeInvariance == ImeSpec => []ImeInv
BY InitInv, ImeStep, PTL DEF ImeSpec

LEMMA RangeIs ==
    ASSUME NEW f, NEW k, NEW T, DOMAIN f = 1 .. k, \A i \in 1 .. k : f[i] \in T,
           \A t \in T : \E i \in 1 .. k : f[i] = t
    PROVE  Range(f) = T
BY DEF Range

\* All chunks of a row and a column, each once, are their dot product.
LEMMA ChunksAreDotProduct ==
    ASSUME Known, NEW rc
    PROVE  IsDotProduct(Chunks(rc, K.chunks), rc[1], rc[2])
<1>1. PICK k \in Nat : k = K.chunks
  BY KnownFacts
<1>2. Len(Chunks(rc, k)) = k /\ DOMAIN Chunks(rc, k) = 1 .. k
  BY DEF Chunks
<1>3. Range(Chunks(rc, k)) = { << <<rc[1], x>>, <<rc[2], x>> >> : x \in 0 .. k - 1 }
  <2>1. ASSUME NEW x \in 0 .. k - 1 PROVE \E y \in 1 .. k : Chunks(rc, k)[y] = << <<rc[1], x>>, <<rc[2], x>> >>
    <3>1. x + 1 \in 1 .. k /\ (x + 1) - 1 = x
      OBVIOUS
    <3>2. Chunks(rc, k)[x + 1] = << <<rc[1], x>>, <<rc[2], x>> >>
      BY <3>1 DEF Chunks, ChunkOf
    <3> QED BY <3>1, <3>2
  <2>2. ASSUME NEW y \in 1 .. k PROVE \E x \in 0 .. k - 1 : Chunks(rc, k)[y] = << <<rc[1], x>>, <<rc[2], x>> >>
    <3>1. y - 1 \in 0 .. k - 1
      OBVIOUS
    <3>2. Chunks(rc, k)[y] = << <<rc[1], y - 1>>, <<rc[2], y - 1>> >>
      BY DEF Chunks, ChunkOf
    <3> QED BY <3>1, <3>2
  <2> DEFINE T == { << <<rc[1], x>>, <<rc[2], x>> >> : x \in 0 .. k - 1 }
  <2>3. \A y \in 1 .. k : Chunks(rc, k)[y] \in T
    BY <2>2
  <2>4. \A t \in T : \E y \in 1 .. k : Chunks(rc, k)[y] = t
    BY <2>1
  <2> HIDE DEF T
  <2>5. Range(Chunks(rc, k)) = T
    BY ONLY <1>2, <2>3, <2>4, RangeIs
  <2> QED BY <2>5 DEF T
<1> QED BY <1>1, <1>2, <1>3 DEF IsDotProduct

\* What waits in the component buffer is the dot product of its block.
LEMMA InvPending == ImeInv => PendingComponents
<1> SUFFICES ASSUME ImeInv, at \in {"dot", "store", "reduce"}
             PROVE  /\ count <= K.batch /\ count <= bk
                    /\ \A i \in 1 .. count : \A pos \in Positions :
                         LET b == call.first + bk - count + i - 1
                             c == components[i - 1][pos]
                         IN  /\ c # <<>> /\ c[1] = <<call.m, b>> /\ c[2] = <<call.n, b>>
                             /\ IsDotProduct(c[3], K.scales[pos][1], K.scales[pos][2])
  BY DEF PendingComponents
<1>1. Known /\ PendInv
  BY DEF ImeInv
<1>2. count <= K.batch /\ count <= bk
  BY <1>1, KnownFacts DEF PendInv
<1>3. ASSUME NEW i \in 1 .. count, NEW pos \in Positions
      PROVE  LET b == call.first + bk - count + i - 1
                 c == components[i - 1][pos]
             IN  /\ c # <<>> /\ c[1] = <<call.m, b>> /\ c[2] = <<call.n, b>>
                 /\ IsDotProduct(c[3], K.scales[pos][1], K.scales[pos][2])
  <2> DEFINE b == call.first + bk - count + i - 1
             c == components[i - 1][pos]
             rc == K.cell[pos]
  <2>1. c = << <<call.m, b>>, <<call.n, b>>, Chunks(rc, K.chunks) >>
    BY <1>1 DEF PendInv, Component
  <2>2. K.scales[pos] = rc
    BY <1>1, ScalesAreTheCells
  <2>3. IsDotProduct(Chunks(rc, K.chunks), rc[1], rc[2])
    BY <1>1, ChunksAreDotProduct
  <2> HIDE DEF b, c, rc
  <2>4. c # <<>> /\ c[1] = <<call.m, b>> /\ c[2] = <<call.n, b>> /\ c[3] = Chunks(rc, K.chunks)
    BY <2>1
  <2> QED BY <2>2, <2>3, <2>4 DEF b, c, rc
<1> QED BY <1>2, <1>3

\* Between two iterations the last panel of every tile is complete.
LEMMA InvOutput == ImeInv => OutputIsProduct
<1> SUFFICES ASSUME ImeInv, at = "idle", todo = {}, iteration > 0, NEW t \in Tiles, NEW rc \in Cells
             PROVE  /\ Len(output[t][rc]) = blocks
                    /\ \A b \in 1 .. blocks : IsContribution(output[t][rc][b], t[1], t[2], rc[1], rc[2], b - 1)
  BY DEF OutputIsProduct
<1>1. Known /\ OutputInv /\ Done = Calls
  BY DEF ImeInv, Done
<1>2. Depth \in Nat \ {0} /\ blocks \in Nat \ {0}
  BY <1>1, DepthIs DEF Known
<1>3. PICK f \in 0 .. blocks - 1 : f % Depth = 0 /\ blocks - f <= Depth
  BY <1>2, LastMultiple
<1>4. PICK c \in Calls : c.m = t[1] /\ c.n = t[2] /\ c.first = f
  BY <1>1, <1>3, CallExists
<1>5. LastOf(c, Done)
  <2>1. ASSUME NEW d \in Calls PROVE d.first <= f
    <3>1. d.first \in 0 .. blocks - 1 /\ d.first % Depth = 0
      BY <1>1, CallFacts
    <3>2. d.first \in Nat /\ f \in Nat
      BY <1>2, <3>1
    <3>3. ~ (f < d.first)
      <4>1. f < d.first => f <= d.first - Depth
        BY ONLY <1>2, <1>3, <3>1, <3>2, MultipleBelow
      <4> QED BY <1>2, <1>3, <3>1, <4>1
    <3> QED BY <3>2, <3>3
  <2> QED BY <1>1, <1>4, <2>1 DEF LastOf
<1>6. Holds(c)
  BY <1>1, <1>4, <1>5 DEF OutputInv
<1>7. c.first + c.depth = blocks
  <2>1. c.depth = Lesser(Depth, blocks - c.first)
    BY <1>1, CallFacts
  <2>2. c.depth = blocks - f
    BY <1>2, <1>3, <1>4, <2>1 DEF Lesser
  <2> QED BY <1>2, <1>4, <2>2
<1>8. t = <<t[1], t[2]>>
  BY DEF Tiles
<1>9. output[t][rc] = Sums(t[1], t[2], blocks, rc)
  BY <1>4, <1>6, <1>7, <1>8 DEF Holds
<1>10. Len(output[t][rc]) = blocks
  BY <1>2, <1>9 DEF Sums
<1>11. ASSUME NEW b \in 1 .. blocks
       PROVE  IsContribution(output[t][rc][b], t[1], t[2], rc[1], rc[2], b - 1)
  <2>1. output[t][rc][b] = << << <<t[1], b - 1>>, <<t[2], b - 1>>, Chunks(rc, K.chunks) >>,
                              << <<t[1], b - 1>>, rc[1] >>, << <<t[2], b - 1>>, rc[2] >> >>
    BY <1>9 DEF Sums, Contribution, Component
  <2>2. IsDotProduct(Chunks(rc, K.chunks), rc[1], rc[2])
    BY <1>1, ChunksAreDotProduct
  <2> QED BY <2>1, <2>2 DEF IsContribution
<1> QED BY <1>10, <1>11

\* After every iteration of run() each cell of the output is the sum over its
\* blocks, each block once and in the order of K, scaled with the scales of its
\* own row and column: for every kernel, shape, depth and number of iterations.
THEOREM ImeOutputAlways == ImeSpec => []OutputIsProduct
BY ImeInvariance, InvOutput, PTL

\* Throughout a call the component buffer has room for the blocks that wait in it,
\* and holds, for each of them and every cell of the tile, the whole dot product.
THEOREM ImePendingAlways == ImeSpec => []PendingComponents
BY ImeInvariance, InvPending, PTL
=============================================================================
