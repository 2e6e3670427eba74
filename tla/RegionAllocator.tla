-------------------------- MODULE RegionAllocator --------------------------
(***************************************************************************)
(* What tcm_arena.h promises of one TCM arena, free of any free list: an   *)
(* allocation is an aligned range of the arena that overlaps no live one,  *)
(* nullptr is the answer only when no such range exists (or the table of   *)
(* live allocations is full), and a deallocation ends the life of the      *)
(* range that starts at the pointer, or does nothing.                      *)
(***************************************************************************)
EXTENDS Integers, FiniteSets

CONSTANTS
    Base,            \* address of the arena's first byte
    Size,            \* number of bytes in the arena
    MaxAllocations,  \* number of live allocations the table has room for
    Requests,        \* byte counts callers may ask for
    Alignments,      \* alignments callers may ask for
    Pointers,        \* addresses callers may give back
    Null             \* nullptr

VARIABLES
    live,            \* the live ranges, as [offset, size] records
    result           \* the last allocate(): what was asked, and the pointer returned

vars == <<live, result>>

\* The byte offsets of a range.
Extent(region) == region.offset .. region.offset + region.size - 1

\* The offsets at which an allocation may start.
Room(bytes, alignment) ==
    { offset \in 0 .. Size - bytes :
        /\ (Base + offset) % alignment = 0
        /\ \A r \in live : Extent(r) \cap (offset .. offset + bytes - 1) = {} }

Answer(bytes, alignment, pointer) ==
    [bytes |-> bytes, alignment |-> alignment, pointer |-> pointer]

\* A request allocate() turns away before it looks at the arena.
Refused(bytes, alignment) ==
    \/ bytes = 0
    \/ ~ \E k \in 0..alignment : alignment = 2^k

Init == live = {} /\ result = Answer(0, 0, Null)

Grant(bytes, alignment) ==
    /\ ~ Refused(bytes, alignment)
    /\ Cardinality(live) < MaxAllocations
    /\ \E offset \in 0 .. Size - bytes :
         /\ result' = Answer(bytes, alignment, Base + offset)
         /\ offset \in Room(bytes, alignment)
         /\ live' = live \cup {[offset |-> offset, size |-> bytes]}

Deny(bytes, alignment) ==
    /\ result' = Answer(bytes, alignment, Null)
    /\ \/ Refused(bytes, alignment)
       \/ Cardinality(live) = MaxAllocations
       \/ Room(bytes, alignment) = {}
    /\ UNCHANGED live

Release(pointer) ==
    /\ live' = { r \in live : Base + r.offset # pointer }
    /\ UNCHANGED result

Next ==
    \/ \E bytes \in Requests, alignment \in Alignments :
          Grant(bytes, alignment) \/ Deny(bytes, alignment)
    \/ \E pointer \in Pointers : Release(pointer)

Spec == Init /\ [][Next]_vars
============================================================================
