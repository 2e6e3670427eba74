----------------------------- MODULE TcmManager -----------------------------
(***************************************************************************)
(* The process-wide TCM allocator of src/kernels/common/tcm_arena.cpp with *)
(* the OpenMP workers that use it: the adapters of the RR and the m8b      *)
(* kernels take a scratch buffer for every tile, fall back to the stack    *)
(* when there is none, and give it back after the tile.  Each arena has a  *)
(* mutex; a worker takes it, works on the lists in several steps, and      *)
(* releases it.  What the lists are and do is TcmFreeList's.               *)
(***************************************************************************)
EXTENDS TcmFreeList, FiniteSets

CONSTANTS
    Threads,         \* OpenMP workers
    Cpus,            \* CPUs the scheduler may run a worker on
    FirstCpu,        \* kFirstCpu
    CpuCount,        \* kCpuCount
    ArenaCounts,     \* kArenaCount may be any: 1 (A60, shared), CpuCount (A100, one each)
    MapBase,         \* where mmap put the TCM
    ArenaBytes,      \* Arena::bytes: kCapacity (A60) or kGranule (A100)
    Bytes,           \* the size of a scratch buffer
    Alignment,       \* its alignment
    Share,           \* tiles that schedule(static) gives each worker
    Null             \* nullptr, no arena, no thread

ASSUME TcmManagerAssumption ==
    /\ IsFiniteSet(Threads) /\ Null \notin Threads
    /\ Cpus \subseteq Int
    /\ FirstCpu \in Int
    /\ CpuCount \in Nat \ {0}
    /\ ArenaCounts \subseteq {1, CpuCount}
    /\ MapBase \in Nat \ {0}
    /\ ArenaBytes \in Nat \ {0}
    /\ \A n \in ArenaCounts : MapBase + n * ArenaBytes < AddressLimit
    /\ Bytes \in Nat \ {0}
    /\ Alignment \in Nat /\ IsPowerOfTwo(Alignment)
    /\ Share \in [Threads -> Nat]
    /\ Null \notin Int

VARIABLES
    arena_count,     \* kArenaCount, by the platform of the build
    mapped,          \* Manager::initialization_succeeded
    free,            \* for each arena, its free blocks
    allocations,     \* for each arena, its live allocations
    mutex,           \* for each arena, the worker that holds its mutex
    pc,              \* where each worker is in its tile
    tiles,           \* how many tiles each worker has left
    arena,           \* the arena the call in progress works on
    found,           \* the index the call's search found
    block,           \* the block deallocate() copied out of the table
    buffer,          \* the worker's scratch buffer, Null while it is on the stack
    answer           \* history: for each arena, its last allocate() and the answer

lists == <<free, allocations>>
locals == <<tiles, arena, found, block, buffer>>
platform == <<arena_count, mapped>>
vars == <<platform, lists, mutex, pc, locals, answer>>

Arenas == 0 .. arena_count - 1

Answer(pointer) == [bytes |-> Bytes, alignment |-> Alignment, pointer |-> pointer]

NoBlock == [offset |-> 0, size |-> 0]

\* Fault: consecutive arenas begin half an arena apart.
ArenaBaseOverlapping(a) == MapBase + a * (ArenaBytes \div 2)

\* state.base + index * kGranule
ArenaBase(a) == MapBase + a * ArenaBytes

\* arena_for_cpu: which arena, if any, serves the CPU.
ArenaForCpu(cpu) ==
    IF cpu \notin FirstCpu .. FirstCpu + CpuCount - 1 THEN Null
    ELSE IF arena_count = 1 THEN 0
    ELSE cpu - FirstCpu

\* main() calls initialize() before the first kernel runs, so the workers see
\* its outcome; when the mapping failed no arena is reset.
Init ==
    /\ arena_count \in ArenaCounts
    /\ mapped \in BOOLEAN
    /\ free = [a \in Arenas |->
                 IF mapped THEN <<[offset |-> 0, size |-> ArenaBytes]>> ELSE <<>>]
    /\ allocations = [a \in Arenas |-> <<>>]
    /\ mutex = [a \in Arenas |-> Null]
    /\ pc = [t \in Threads |-> "tile"]
    /\ tiles = Share
    /\ arena = [t \in Threads |-> Null]
    /\ found = [t \in Threads |-> 0]
    /\ block = [t \in Threads |-> NoBlock]
    /\ buffer = [t \in Threads |-> Null]
    /\ answer = [a \in Arenas |-> [bytes |-> 0, alignment |-> 0, pointer |-> Null]]

Goto(t, label) == pc' = [pc EXCEPT ![t] = label]
Unlock(a) == mutex' = [mutex EXCEPT ![a] = Null]

----------------------------------------------------------------------------
\* allocate() before the lock: on whichever CPU sched_getcpu() reports.
Allocate(t) ==
    /\ pc[t] = "tile"
    /\ tiles[t] > 0
    /\ \E cpu \in Cpus :
         LET a == ArenaForCpu(cpu)
         IN  IF mapped /\ a # Null /\ Bytes <= ArenaBytes
             THEN /\ arena' = [arena EXCEPT ![t] = a]
                  /\ Goto(t, "lock_allocate")
             ELSE /\ Goto(t, "compute")
                  /\ UNCHANGED arena
    /\ UNCHANGED <<platform, lists, mutex, tiles, found, block, buffer, answer>>

\* Fault: the mutex is taken whoever holds it.
LockIgnoringHolder(t, label, next) ==
    /\ pc[t] = label
    /\ mutex' = [mutex EXCEPT ![arena[t]] = t]
    /\ Goto(t, next)
    /\ UNCHANGED <<platform, lists, locals, answer>>

\* std::lock_guard lock(arena.mutex)
Lock(t, label, next) ==
    /\ pc[t] = label
    /\ mutex[arena[t]] = Null
    /\ mutex' = [mutex EXCEPT ![arena[t]] = t]
    /\ Goto(t, next)
    /\ UNCHANGED <<platform, lists, locals, answer>>

\* allocate_from searches the free list under the mutex.
Scan(t) ==
    LET a == arena[t]
        i == IF Len(allocations[a]) = MaxAllocations THEN 0
             ELSE FirstFit(free[a], ArenaBase(a), Bytes, Alignment)
    IN  /\ pc[t] = "scan"
        /\ found' = [found EXCEPT ![t] = i]
        /\ Goto(t, IF i = 0 THEN "no_room" ELSE "carve")
        /\ UNCHANGED <<platform, lists, mutex, tiles, arena, block, buffer, answer>>

\* Fault: the early return forgets the mutex.
NoRoomKeepingMutex(t) ==
    /\ pc[t] = "no_room"
    /\ Goto(t, "compute")
    /\ UNCHANGED <<platform, lists, mutex, locals, answer>>

\* allocate_from returns nullptr, and the worker computes on its stack.
NoRoom(t) ==
    /\ pc[t] = "no_room"
    /\ answer' = [answer EXCEPT ![arena[t]] = Answer(Null)]
    /\ Unlock(arena[t])
    /\ Goto(t, "compute")
    /\ UNCHANGED <<platform, lists, locals>>

\* allocate_from carves the block it found, records the allocation and returns.
CarveAndRecord(t) ==
    LET a     == arena[t]
        start == AlignedOffset(ArenaBase(a), free[a][found[t]].offset, Alignment)
    IN  /\ pc[t] = "carve"
        /\ IF CarveOverflows(free[a], found[t], start, Bytes)
           THEN /\ answer' = [answer EXCEPT ![a] = Answer(Null)]
                /\ UNCHANGED <<lists, buffer>>
           ELSE /\ free' = [free EXCEPT ![a] = Carve(@, found[t], start, Bytes)]
                /\ allocations' = [allocations EXCEPT ![a] =
                                     Append(@, [offset |-> start, size |-> Bytes])]
                /\ buffer' = [buffer EXCEPT ![t] = ArenaBase(a) + start]
                /\ answer' = [answer EXCEPT ![a] = Answer(ArenaBase(a) + start)]
        /\ Unlock(a)
        /\ Goto(t, "compute")
        /\ UNCHANGED <<platform, tiles, arena, found, block>>

----------------------------------------------------------------------------
TileDone(t) ==
    /\ Goto(t, "tile")
    /\ tiles' = [tiles EXCEPT ![t] = @ - 1]

\* The tile is computed in the scratch buffer, TCM or stack.
Compute(t) ==
    /\ pc[t] = "compute"
    /\ IF buffer[t] = Null
       THEN TileDone(t)
       ELSE Goto(t, "deallocate") /\ UNCHANGED tiles
    /\ UNCHANGED <<platform, lists, mutex, arena, found, block, buffer, answer>>

\* Fault: the first address of an arena is not recognised.
ArenasHoldingOpen(pointer) ==
    { a \in Arenas : /\ mapped
                     /\ pointer > ArenaBase(a)
                     /\ pointer < (ArenaBase(a) + ArenaBytes) % AddressLimit }

\* The arenas whose address range holds the pointer; none has one if nothing
\* was mapped.  The end of a range is uintptr_t arithmetic.
ArenasHolding(pointer) ==
    { a \in Arenas : /\ mapped
                     /\ pointer >= ArenaBase(a)
                     /\ pointer < (ArenaBase(a) + ArenaBytes) % AddressLimit }

\* deallocate() before the lock: the first arena that holds the address.
Deallocate(t) ==
    /\ pc[t] = "deallocate"
    /\ IF ArenasHolding(buffer[t]) = {}
       THEN /\ TileDone(t)
            /\ buffer' = [buffer EXCEPT ![t] = Null]
            /\ UNCHANGED arena
       ELSE /\ Goto(t, "lock_deallocate")
            /\ arena' = [arena EXCEPT ![t] =
                            CHOOSE a \in ArenasHolding(buffer[t]) :
                              \A b \in ArenasHolding(buffer[t]) : a <= b]
            /\ UNCHANGED <<tiles, buffer>>
    /\ UNCHANGED <<platform, lists, mutex, found, block, answer>>

\* deallocate() takes the entry out of the table, or returns when no entry
\* has the pointer.
Take(t) ==
    LET a == arena[t]
        i == FindAllocation(allocations[a], ArenaBase(a), buffer[t])
    IN  /\ pc[t] = "take"
        /\ buffer' = [buffer EXCEPT ![t] = Null]
        /\ IF i = 0
           THEN /\ TileDone(t)
                /\ Unlock(a)
                /\ UNCHANGED <<allocations, block>>
           ELSE /\ Goto(t, "insert")
                /\ block' = [block EXCEPT ![t] = allocations[a][i]]
                /\ allocations' = [allocations EXCEPT ![a] = SwapRemove(@, i)]
                /\ UNCHANGED <<mutex, tiles>>
        /\ UNCHANGED <<platform, free, arena, found, answer>>

Reclaimed(list, returned) ==
    IF Len(list) < MaxFreeBlocks THEN InsertFreeBlock(list, returned) ELSE list

\* deallocate() returns the block to the free list, when there is room.
Insert(t) ==
    LET a == arena[t]
    IN  /\ pc[t] = "insert"
        /\ free' = [free EXCEPT ![a] = Reclaimed(@, block[t])]
        /\ Unlock(a)
        /\ TileDone(t)
        /\ UNCHANGED <<platform, allocations, arena, found, block, buffer, answer>>

\* The parallel loops are over: every worker has done its tiles.
AllDone == \A t \in Threads : pc[t] = "tile" /\ tiles[t] = 0

Worker(t) ==
    \/ Allocate(t)
    \/ Lock(t, "lock_allocate", "scan")
    \/ Scan(t)
    \/ NoRoom(t)
    \/ CarveAndRecord(t)
    \/ Compute(t)
    \/ Deallocate(t)
    \/ Lock(t, "lock_deallocate", "take")
    \/ Take(t)
    \/ Insert(t)

Finished == AllDone /\ UNCHANGED vars

Next == (\E t \in Threads : Worker(t)) \/ Finished

\* The operating system keeps running a worker that can take a step.
Fairness == \A t \in Threads : WF_vars(Worker(t))

Spec == Init /\ [][Next]_vars

FairSpec == Spec /\ Fairness

----------------------------------------------------------------------------
Labels == {"tile", "lock_allocate", "scan", "no_room", "carve", "compute",
           "deallocate", "lock_deallocate", "take", "insert"}

TypeOK ==
    /\ arena_count \in ArenaCounts
    /\ mapped \in BOOLEAN
    /\ free \in [Arenas -> Seq(Block)]
    /\ allocations \in [Arenas -> Seq(Block)]
    /\ mutex \in [Arenas -> Threads \cup {Null}]
    /\ pc \in [Threads -> Labels]
    /\ tiles \in [Threads -> Nat]
    /\ arena \in [Threads -> Arenas \cup {Null}]
    /\ found \in [Threads -> Nat]
    /\ block \in [Threads -> Block]
    /\ buffer \in [Threads -> Nat \cup {Null}]
    /\ answer \in [Arenas -> [bytes : Nat, alignment : Nat, pointer : Nat \cup {Null}]]

\* Two workers never compute in the same bytes of TCM, whichever arenas and
\* CPUs their buffers came from: the mutex covers search and carving, and the
\* arenas do not reach into each other.
ScratchPrivate ==
    \A t, u \in Threads :
        t # u /\ buffer[t] # Null /\ buffer[u] # Null
          => buffer[t] + Bytes <= buffer[u] \/ buffer[u] + Bytes <= buffer[t]

\* The live allocations of an arena are the buffers the workers hold, one
\* each: deallocate() finds the arena and the entry a pointer came from even
\* after the worker has moved to another CPU, and no entry outlives its owner.
HoldersMatchTable ==
    \A a \in Arenas :
        /\ \A i \in DOMAIN allocations[a] :
             \E t \in Threads : buffer[t] = ArenaBase(a) + allocations[a][i].offset
        /\ Len(allocations[a]) =
             Cardinality({t \in Threads : buffer[t] # Null /\ a \in ArenasHolding(buffer[t])})

\* Once the workers are done the arenas are as after reset(): nothing leaks
\* from one parallel loop to the next.
ReturnedWhole ==
    AllDone /\ mapped =>
        \A a \in Arenas : /\ allocations[a] = <<>>
                          /\ free[a] = <<[offset |-> 0, size |-> ArenaBytes]>>

\* A worker is sent to its stack only when the live buffers leave no room for
\* one more: as long as buffers keep their alignment, tiles that come and go in
\* any order leave no gaps too small for a buffer.
ExhaustedMeansFull ==
    Bytes % Alignment = 0 /\ (\A a \in Arenas : ArenaBase(a) % Alignment = 0)
    => \A t \in Threads :
         pc[t] = "no_room" =>
            \/ Len(allocations[arena[t]]) = MaxAllocations
            \/ ArenaBytes < (Len(allocations[arena[t]]) + 1) * Bytes

\* The free list of an arena as a caller of deallocate() leaves it: the block
\* counts as returned from the moment its entry is out of the table.
FreeAfterCall(a) ==
    IF ~ mapped THEN <<[offset |-> 0, size |-> ArenaBytes]>>
    ELSE IF mutex[a] # Null /\ pc[mutex[a]] = "insert"
    THEN Reclaimed(free[a], block[mutex[a]])
    ELSE free[a]

\* Every worker finishes its tiles: no mutex stays locked and no worker waits
\* for another for ever.
WorkersFinish == <>AllDone
============================================================================
