---------------------------- MODULE TcmFreeList ----------------------------
(***************************************************************************)
(* The free-list arithmetic of one TCM arena: the functions of             *)
(* src/kernels/common/tcm_arena.cpp that read or rewrite                   *)
(* Arena::free_blocks and Arena::allocations.  A block is a range of byte  *)
(* offsets in the arena; an array with its count is a sequence.            *)
(***************************************************************************)
EXTENDS Integers, SequencesExt

CONSTANTS
    AddressLimit,    \* 2^w for the w-bit uintptr_t: addresses are 0..AddressLimit-1
    MaxAllocations   \* kMaxAllocations, the length of Arena::allocations

IsPowerOfTwo(value) == value # 0 /\ \E k \in 0..value : value = 2^k

ASSUME TcmFreeListAssumption ==
    /\ AddressLimit \in Nat \ {0}
    /\ IsPowerOfTwo(AddressLimit)
    /\ MaxAllocations \in Nat \ {0}

\* Fault: no room for the transient entry of a free into a full table.
MaxFreeBlocksTight == MaxAllocations + 1

\* kMaxFreeBlocks, the length of Arena::free_blocks.
MaxFreeBlocks == MaxAllocations + 2

Block == [offset : Nat, size : Nat]

BlockEnd(block) == block.offset + block.size

Disjoint(b, c) == BlockEnd(b) <= c.offset \/ BlockEnd(c) <= b.offset

\* Some block of the list holds the byte.
Covers(blocks, byte) ==
    \E i \in DOMAIN blocks : blocks[i].offset <= byte /\ byte < BlockEnd(blocks[i])

\* No block is empty, and there is a gap between any two, in offset order.
CoalescedList(blocks) ==
    /\ \A i \in DOMAIN blocks : blocks[i].size > 0
    /\ \A i, j \in DOMAIN blocks : i < j => BlockEnd(blocks[i]) < blocks[j].offset

----------------------------------------------------------------------------
\* align_up: the sum wraps like uintptr_t, and masking with ~(alignment - 1)
\* clears the remainder because the alignment is a power of two.
AlignUp(value, alignment) ==
    LET sum == (value + alignment - 1) % AddressLimit
    IN  sum - (sum % alignment)

\* Fault: the offset is aligned, not the address.
AlignedOffsetOnly(base, offset, alignment) == AlignUp(offset, alignment)

\* Where an allocation would start in a free block at `offset`: absolute
\* addresses are aligned, and the difference to the base wraps like size_t.
AlignedOffset(base, offset, alignment) ==
    (AlignUp(base + offset, alignment) - base) % AddressLimit

\* Fault: the bytes skipped for alignment are not counted.
FitsIgnoringPrefix(block, start, bytes) ==
    /\ start >= block.offset
    /\ start - block.offset <= block.size
    /\ bytes <= block.size

\* Fault: a block that is just large enough is passed over.
FitsStrictly(block, start, bytes) ==
    /\ start >= block.offset
    /\ start - block.offset <= block.size
    /\ bytes < block.size - (start - block.offset)

\* The test of the first-fit scan.
Fits(block, start, bytes) ==
    /\ start >= block.offset
    /\ start - block.offset <= block.size
    /\ bytes <= block.size - (start - block.offset)

\* The index at which the first-fit scan stops, 0 when it runs off the list.
FirstFit(free, base, bytes, alignment) ==
    SelectInSeq(free, LAMBDA b :
        Fits(b, AlignedOffset(base, b.offset, alignment), bytes))

\* What the chosen block becomes: two blocks, one of them, or none.
Carve(free, i, start, bytes) ==
    LET block  == free[i]
        prefix == [offset |-> block.offset, size |-> start - block.offset]
        suffix == [offset |-> start + bytes,
                   size   |-> BlockEnd(block) - (start + bytes)]
    IN  IF prefix.size # 0 /\ suffix.size # 0
        THEN InsertAt(ReplaceAt(free, i, suffix), i, prefix)
        ELSE IF prefix.size # 0 THEN ReplaceAt(free, i, prefix)
        ELSE IF suffix.size # 0 THEN ReplaceAt(free, i, suffix)
        ELSE RemoveAt(free, i)

\* Carving block i so would need one entry more than the array has.
CarveOverflows(free, i, start, bytes) ==
    /\ start # free[i].offset
    /\ start + bytes # BlockEnd(free[i])
    /\ Len(free) = MaxFreeBlocks

----------------------------------------------------------------------------
\* The position insert_free_block's while loop stops at.
InsertPosition(free, block) ==
    IF \E i \in DOMAIN free : free[i].offset >= block.offset
    THEN SelectInSeq(free, LAMBDA b : b.offset >= block.offset)
    ELSE Len(free) + 1

\* Entries i and i+1 are adjacent in the arena.
Touch(free, i) ==
    /\ i >= 1
    /\ i + 1 <= Len(free)
    /\ BlockEnd(free[i]) = free[i + 1].offset

\* Entry i absorbs entry i+1.
Merge(free, i) ==
    RemoveAt(ReplaceAt(free, i, [offset |-> free[i].offset,
                                 size   |-> free[i].size + free[i + 1].size]),
             i + 1)

\* Fault: neighbours stay apart.
CoalesceNever(free, i) == free

Coalesce(free, i) == IF Touch(free, i) THEN Merge(free, i) ELSE free

\* Faults: only one of the two neighbours is merged.
InsertMergingPrevious(free, block) ==
    LET at == InsertPosition(free, block)
    IN  Coalesce(InsertAt(free, at, block), at - 1)

InsertMergingNext(free, block) ==
    LET at == InsertPosition(free, block)
    IN  Coalesce(InsertAt(free, at, block), at)

\* insert_free_block: insert by offset, then merge with the previous entry
\* (the new block's index moves down with it) and with the next one.
InsertFreeBlock(free, block) ==
    LET at       == InsertPosition(free, block)
        inserted == InsertAt(free, at, block)
        here     == IF Touch(inserted, at - 1) THEN at - 1 ELSE at
    IN  Coalesce(Coalesce(inserted, at - 1), here)

\* The index deallocate's linear search finds for a pointer, 0 when none.
FindAllocation(allocations, base, pointer) ==
    SelectInSeq(allocations, LAMBDA a : base + a.offset = pointer)

\* Fault: the last entry goes, whichever was asked for.
RemoveLast(allocations, i) == Front(allocations)

\* allocations[i] = allocations[--allocation_count]
SwapRemove(allocations, i) == Front(ReplaceAt(allocations, i, Last(allocations)))
============================================================================
