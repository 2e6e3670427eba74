------------------------------ MODULE TcmArena ------------------------------
(***************************************************************************)
(* One TCM arena, as src/kernels/common/tcm_arena.cpp keeps it: a sorted   *)
(* list of free blocks and a table of live allocations.  allocate() and    *)
(* deallocate() hold the arena's mutex for everything they do to these, so *)
(* each is one action here; TcmManager opens the mutex up.                 *)
(***************************************************************************)
EXTENDS TcmFreeList

CONSTANTS
    Base,            \* Arena::base, the address of its first byte
    Size,            \* Arena::bytes
    Requests,        \* byte counts callers ask for
    Alignments,      \* alignments callers ask for
    Pointers,        \* addresses callers give back
    Null             \* nullptr

ASSUME TcmArenaAssumption ==
    /\ Base \in Nat \ {0}
    /\ Size \in Nat \ {0}
    /\ Base + Size < AddressLimit
    /\ Requests \subseteq Nat
    /\ Alignments \subseteq Nat
    /\ Null \notin Nat

VARIABLES
    free,            \* free_blocks[0 .. free_count-1]
    allocations,     \* allocations[0 .. allocation_count-1]; pointer is Base + offset
    result           \* the last allocate(): what was asked, and the pointer returned

vars == <<free, allocations, result>>

Answer(bytes, alignment, pointer) ==
    [bytes |-> bytes, alignment |-> alignment, pointer |-> pointer]

\* Arena::reset on a mapped base.
Init ==
    /\ free = <<[offset |-> 0, size |-> Size]>>
    /\ allocations = <<>>
    /\ result = Answer(0, 0, Null)

\* allocate() answers nullptr before it looks at the free list: a bad
\* argument, a request larger than the arena, or a full table.
Rejected(bytes, alignment) ==
    \/ bytes = 0
    \/ ~ IsPowerOfTwo(alignment)
    \/ bytes > Size
    \/ Len(allocations) = MaxAllocations

AllocateRejected(bytes, alignment) ==
    /\ Rejected(bytes, alignment)
    /\ result' = Answer(bytes, alignment, Null)
    /\ UNCHANGED <<free, allocations>>

\* allocate() runs the first-fit scan.
Allocate(bytes, alignment) ==
    LET i     == FirstFit(free, Base, bytes, alignment)
        start == AlignedOffset(Base, free[i].offset, alignment)
    IN  /\ ~ Rejected(bytes, alignment)
        /\ \/ /\ i # 0
              /\ ~ CarveOverflows(free, i, start, bytes)
              /\ free' = Carve(free, i, start, bytes)
              /\ allocations' = Append(allocations, [offset |-> start, size |-> bytes])
              /\ result' = Answer(bytes, alignment, Base + start)
           \/ \* no block fits, or there is no entry for the second piece
              /\ i # 0 => CarveOverflows(free, i, start, bytes)
              /\ result' = Answer(bytes, alignment, Null)
              /\ UNCHANGED <<free, allocations>>

\* The free-list half of deallocate(): without room for the transient entry
\* the block is dropped.
Reclaim(block) ==
    IF Len(free) < MaxFreeBlocks THEN InsertFreeBlock(free, block) ELSE free

\* deallocate(): nullptr, an address outside the arena and an address that
\* no live allocation starts at are ignored.  The arena's end is uintptr_t
\* arithmetic.
Deallocate(pointer) ==
    LET i == FindAllocation(allocations, Base, pointer)
    IN  /\ pointer # Null
        /\ Base <= pointer /\ pointer < (Base + Size) % AddressLimit
        /\ i # 0
        /\ allocations' = SwapRemove(allocations, i)
        /\ free' = Reclaim(allocations[i])
        /\ UNCHANGED result

Next ==
    \/ \E bytes \in Requests, alignment \in Alignments :
          AllocateRejected(bytes, alignment) \/ Allocate(bytes, alignment)
    \/ \E pointer \in Pointers : Deallocate(pointer)

Spec == Init /\ [][Next]_vars

----------------------------------------------------------------------------
TypeOK ==
    /\ free \in Seq(Block)
    /\ allocations \in Seq(Block)
    /\ result \in [bytes : Nat, alignment : Nat, pointer : Nat \cup {Null}]

\* The free list is sorted by offset, its blocks are not empty, and between
\* two of them there is always an allocated byte: insert_free_block's two
\* merges miss no neighbour and carving leaves no empty block behind.
Coalesced == CoalescedList(free)

\* No byte belongs to two live allocations, or to a live allocation and a
\* free block: allocate_from never hands out memory somebody still uses.
NoOverlap ==
    /\ \A i \in DOMAIN allocations : allocations[i].size > 0
    /\ \A i, j \in DOMAIN allocations :
         i # j => Disjoint(allocations[i], allocations[j])
    /\ \A i \in DOMAIN allocations, j \in DOMAIN free :
         Disjoint(allocations[i], free[j])

\* Every byte of the arena, and no other, is in a free block or in a live
\* allocation: no sequence of calls loses memory, in particular not through
\* the branch of deallocate() that drops a block when the list is full.
NothingLost ==
    /\ \A byte \in 0 .. Size - 1 : Covers(free, byte) \/ Covers(allocations, byte)
    /\ \A i \in DOMAIN free : BlockEnd(free[i]) <= Size
    /\ \A i \in DOMAIN allocations : BlockEnd(allocations[i]) <= Size

\* There are at most as many gaps as allocations, plus one, so the free list
\* always has room for the transient entry that the comment on kMaxFreeBlocks
\* speaks of, and neither fallback for a full list is ever taken.
FreeListBounded ==
    /\ Len(allocations) <= MaxAllocations
    /\ Len(free) <= Len(allocations) + 1

\* The first-fit scan finds room whenever the arena has any: a contiguous
\* aligned run of unallocated bytes is never split over two entries.
NoFalseExhaustion ==
    \A bytes \in Requests \ {0}, alignment \in Alignments :
        /\ IsPowerOfTwo(alignment)
        /\ \E start \in 0 .. Size - bytes :
             /\ (Base + start) % alignment = 0
             /\ \A i \in DOMAIN allocations :
                  Disjoint(allocations[i], [offset |-> start, size |-> bytes])
        => FirstFit(free, Base, bytes, alignment) # 0

\* The arena as RegionAllocator sees it.
Abstract == INSTANCE RegionAllocator WITH live <- ToSet(allocations)

\* Every step is a step the header's promise allows: the returned range is
\* aligned, inside the arena and disjoint from every live one, nullptr comes
\* only when no range would do, and a pointer that is not live changes nothing.
ImplementsRegionAllocator == Abstract!Spec

============================================================================
