-------------------------- MODULE TcmManagerProofs --------------------------
(***************************************************************************)
(* The arenas of the process with the workers that share them, for any     *)
(* number of workers, CPUs and arenas.  The invariant says, under each     *)
(* mutex, what the worker inside it may rely on (what its search found is  *)
(* still so when it carves), that each arena is a partition of its bytes   *)
(* whenever a call on it is complete, and that the entries of the tables   *)
(* are the buffers of the workers, one each.                               *)
(***************************************************************************)
EXTENDS TcmManagerArena, TcmFreeListProofs

\* A worker that holds the mutex of its arena, and one that waits for it.
Critical == {"scan", "no_room", "carve", "take", "insert"}
Calling == Critical \cup {"lock_allocate", "lock_deallocate"}

\* What the search of allocate_from finds in arena a.
Searched(a) == FirstFit(free[a], ArenaBase(a), Bytes, Alignment)

\* What worker t may rely on, wherever it is in its tile.
WorkerInv(t) ==
    /\ pc[t] # "tile" => tiles[t] > 0
    /\ pc[t] \in Calling => mapped /\ arena[t] \in Arenas
    /\ pc[t] \in Critical => mutex[arena[t]] = t
    /\ pc[t] \in {"tile", "lock_allocate", "scan", "no_room", "carve", "insert"} =>
         buffer[t] = Null
    /\ pc[t] \in {"deallocate", "lock_deallocate", "take"} => buffer[t] # Null
    /\ pc[t] \in {"lock_deallocate", "take"} =>
         /\ ArenaBase(arena[t]) <= buffer[t]
         /\ buffer[t] < ArenaBase(arena[t]) + ArenaBytes
    /\ pc[t] = "no_room" =>
         \/ Len(allocations[arena[t]]) = MaxAllocations
         \/ Searched(arena[t]) = 0
    /\ pc[t] = "carve" =>
         /\ Len(allocations[arena[t]]) # MaxAllocations
         /\ found[t] = Searched(arena[t])
         /\ found[t] # 0

WorkersInv == \A t \in Threads : WorkerInv(t)

MutexInv ==
    \A a \in Arenas : mutex[a] # Null =>
        mutex[a] \in Threads /\ arena[mutex[a]] = a /\ pc[mutex[a]] \in Critical

\* Each arena, as a complete call leaves it, is a partition of its bytes.
ListsInv ==
    \A a \in Arenas :
        /\ FreeAfterCall(a) \in Seq(Block)
        /\ Partition(FreeAfterCall(a), allocations[a], ArenaBytes)
        /\ \A i \in DOMAIN allocations[a] : allocations[a][i].size = Bytes
        /\ ~ mapped => allocations[a] = <<>>

\* The pointer to entry i of arena a.
Pointer(a, i) == ArenaBase(a) + allocations[a][i].offset

\* The buffers of the workers are the entries of the tables, one each.
HoldersInv ==
    /\ \A t \in Threads : buffer[t] # Null =>
         \E a \in Arenas : \E i \in DOMAIN allocations[a] : buffer[t] = Pointer(a, i)
    /\ \A a \in Arenas : \A i \in DOMAIN allocations[a] :
         \E t \in Threads : buffer[t] = Pointer(a, i)
    /\ \A t, u \in Threads : buffer[t] = buffer[u] /\ buffer[t] # Null => t = u

IInv == TypeOK /\ WorkersInv /\ MutexInv /\ ListsInv /\ HoldersInv

----------------------------------------------------------------------------
(* The arenas in the address space.                                         *)

LEMMA ConstantTypes ==
    /\ MapBase \in Nat /\ MapBase > 0 /\ ArenaBytes \in Nat /\ ArenaBytes > 0
    /\ Bytes \in Nat /\ Bytes > 0 /\ Alignment \in Nat /\ IsPowerOfTwo(Alignment)
    /\ AddressLimit \in Nat /\ MaxAllocations \in Nat
    /\ Cpus \subseteq Int /\ FirstCpu \in Int /\ CpuCount \in Nat /\ CpuCount > 0
    /\ IsFiniteSet(Threads) /\ Null \notin Threads /\ Null \notin Int /\ Null \notin Nat
BY TcmManagerAssumption, TcmFreeListAssumption

\* Every arena lies within the address space, and its end, which deallocate()
\* computes, does not wrap.
LEMMA ArenaEnd ==
    ASSUME arena_count \in ArenaCounts, NEW a \in Arenas
    PROVE  /\ a \in Nat /\ ArenaBase(a) \in Nat /\ ArenaBase(a) > 0
           /\ ArenaBase(a) + ArenaBytes < AddressLimit
           /\ (ArenaBase(a) + ArenaBytes) % AddressLimit = ArenaBase(a) + ArenaBytes
<1>1. arena_count \in Nat /\ MapBase + arena_count * ArenaBytes < AddressLimit
  BY TcmManagerAssumption
<1>2. a \in Nat /\ a + 1 <= arena_count
  BY <1>1 DEF Arenas
<1>3. a * ArenaBytes \in Nat /\ (a + 1) * ArenaBytes = a * ArenaBytes + ArenaBytes
  BY <1>2, ConstantTypes
<1>4. (a + 1) * ArenaBytes <= arena_count * ArenaBytes /\ arena_count * ArenaBytes \in Nat
  BY <1>1, <1>2, ConstantTypes
<1>5. /\ ArenaBase(a) \in Nat /\ ArenaBase(a) > 0
      /\ ArenaBase(a) + ArenaBytes \in Nat /\ ArenaBase(a) + ArenaBytes < AddressLimit
  BY <1>1, <1>2, <1>3, <1>4, ConstantTypes DEF ArenaBase
<1>6. \A x, limit \in Nat : x < limit => x % limit = x
  OBVIOUS
<1>7. (ArenaBase(a) + ArenaBytes) % AddressLimit = ArenaBase(a) + ArenaBytes
  BY ONLY <1>5, <1>6, ConstantTypes
<1> QED BY <1>2, <1>5, <1>7

LEMMA ArenaInAddressSpace ==
    ASSUME arena_count \in ArenaCounts, NEW a \in Arenas
    PROVE  /\ a \in Nat /\ ArenaBase(a) \in Nat /\ ArenaBase(a) > 0
           /\ ArenaBase(a) + ArenaBytes <= AddressLimit
<1>1. /\ a \in Nat /\ ArenaBase(a) \in Nat /\ ArenaBase(a) > 0
      /\ ArenaBase(a) + ArenaBytes < AddressLimit
  BY ArenaEnd
<1> QED BY ONLY <1>1, ConstantTypes

\* Arenas do not reach into each other.
LEMMA ArenasApart ==
    ASSUME NEW a \in Nat, NEW b \in Nat, a < b
    PROVE  ArenaBase(a) + ArenaBytes <= ArenaBase(b)
<1>1. (a + 1) * ArenaBytes <= b * ArenaBytes /\ (a + 1) * ArenaBytes = a * ArenaBytes + ArenaBytes
  BY ConstantTypes
<1>2. a * ArenaBytes \in Nat /\ b * ArenaBytes \in Nat
  BY ConstantTypes
<1> QED BY <1>1, <1>2, ConstantTypes DEF ArenaBase

LEMMA OneArenaHolds ==
    ASSUME NEW a \in Nat, NEW b \in Nat, NEW address \in Nat,
           ArenaBase(a) <= address, address < ArenaBase(a) + ArenaBytes,
           ArenaBase(b) <= address, address < ArenaBase(b) + ArenaBytes
    PROVE  a = b
<1>1. ArenaBase(a) \in Nat /\ ArenaBase(b) \in Nat
  BY ConstantTypes DEF ArenaBase
<1>2. ~ (a < b) /\ ~ (b < a)
  BY <1>1, ArenasApart, ConstantTypes
<1> QED BY <1>2

\* The CPU of a worker has one of the arenas, or none.
LEMMA ArenaForCpuType ==
    ASSUME arena_count \in ArenaCounts, NEW cpu \in Int
    PROVE  ArenaForCpu(cpu) \in Arenas \cup {Null}
BY TcmManagerAssumption DEF ArenaForCpu, Arenas

\* The free list of an arena between calls, and while deallocate() has taken the
\* entry out of the table.
LEMMA FreeAfterCallCases ==
    ASSUME WorkersInv, MutexInv
    PROVE  /\ \A t \in Threads : pc[t] = "insert" =>
                FreeAfterCall(arena[t]) = Reclaimed(free[arena[t]], block[t])
           /\ mapped => \A a \in Arenas :
                (\A t \in Threads : pc[t] = "insert" => arena[t] # a)
                  => FreeAfterCall(a) = free[a]
           /\ ~ mapped => \A a \in Arenas :
                FreeAfterCall(a) = <<[offset |-> 0, size |-> ArenaBytes]>>
<1>1. ASSUME NEW t \in Threads, pc[t] = "insert"
      PROVE  mutex[arena[t]] = t /\ mapped /\ t # Null
  BY <1>1, ConstantTypes DEF WorkersInv, WorkerInv, Critical, Calling
<1> QED BY <1>1 DEF FreeAfterCall, MutexInv

LEMMA ListTypes ==
    ASSUME TypeOK, NEW a \in Arenas
    PROVE  free[a] \in Seq(Block) /\ allocations[a] \in Seq(Block)
BY DEF TypeOK

\* Under the mutex the free list is the one the last complete call left.
LEMMA FreeUnderMutex ==
    ASSUME IInv, NEW t \in Threads, pc[t] \in Critical, pc[t] # "insert"
    PROVE  /\ arena[t] \in Arenas /\ mapped
           /\ FreeAfterCall(arena[t]) = free[arena[t]]
           /\ Partition(free[arena[t]], allocations[arena[t]], ArenaBytes)
<1>1. arena[t] \in Arenas /\ mapped /\ mutex[arena[t]] = t
  BY DEF IInv, WorkersInv, WorkerInv, Calling
<1>2. FreeAfterCall(arena[t]) = free[arena[t]]
  BY <1>1 DEF FreeAfterCall
<1> QED BY <1>1, <1>2 DEF IInv, ListsInv

----------------------------------------------------------------------------
(* What each step of a worker finds.                                        *)

\* The search under the mutex still holds when the worker carves: the block is
\* there, and the run it cuts out is nobody's.
LEMMA CarveFacts ==
    ASSUME IInv, NEW t \in Threads, pc[t] = "carve"
    PROVE  LET a     == arena[t]
               start == AlignedOffset(ArenaBase(a), free[a][found[t]].offset, Alignment)
               run   == [offset |-> start, size |-> Bytes]
           IN  /\ a \in Arenas /\ mapped
               /\ run \in Block /\ start \in Nat /\ start + Bytes <= ArenaBytes
               /\ \A j \in DOMAIN allocations[a] : Disjoint(allocations[a][j], run)
               /\ Carve(free[a], found[t], start, Bytes) \in Seq(Block)
               /\ Append(allocations[a], run) \in Seq(Block)
               /\ Partition(Carve(free[a], found[t], start, Bytes),
                            Append(allocations[a], run), ArenaBytes)
<1> DEFINE a     == arena[t]
           f     == free[a]
           start == AlignedOffset(ArenaBase(a), f[found[t]].offset, Alignment)
           run   == [offset |-> start, size |-> Bytes]
<1>1. a \in Arenas /\ mapped /\ Partition(f, allocations[a], ArenaBytes)
  BY FreeUnderMutex DEF Critical
<1>2. f \in Seq(Block) /\ allocations[a] \in Seq(Block)
  BY <1>1, ListTypes DEF IInv
<1>3. /\ Len(allocations[a]) # MaxAllocations
      /\ found[t] = FirstFit(f, ArenaBase(a), Bytes, Alignment) /\ found[t] # 0
  BY DEF IInv, WorkersInv, WorkerInv, Searched
<1>4. /\ ArenaBase(a) \in Nat /\ ArenaBase(a) > 0
      /\ ArenaBase(a) + ArenaBytes <= AddressLimit
  BY <1>1, ArenaInAddressSpace DEF IInv, TypeOK
<1> HIDE DEF a, f
<1>5. /\ found[t] \in 1 .. Len(f)
      /\ Fits(f[found[t]], start, Bytes)
      /\ start \in Nat /\ start + Bytes <= ArenaBytes
      /\ \A j \in DOMAIN allocations[a] : Disjoint(allocations[a][j], run)
  BY ONLY <1>1, <1>2, <1>3, <1>4, ConstantTypes, FirstFitIsRoom
<1>6. run \in Block
  BY <1>5, ConstantTypes DEF Block
<1> HIDE DEF start
<1>7. /\ Carve(f, found[t], start, Bytes) \in Seq(Block)
      /\ Append(allocations[a], run) \in Seq(Block)
      /\ Partition(Carve(f, found[t], start, Bytes), Append(allocations[a], run), ArenaBytes)
  BY ONLY <1>1, <1>2, <1>3, <1>5, ConstantTypes, CarveKeepsPartition
<1> QED BY <1>1, <1>5, <1>6, <1>7 DEF a, f, start

\* The arena deallocate() finds for a pointer is the one it came from.
LEMMA DeallocateFacts ==
    ASSUME IInv, NEW t \in Threads, pc[t] = "deallocate"
    PROVE  \E a \in Arenas : /\ ArenasHolding(buffer[t]) = {a} /\ mapped
                             /\ ArenaBase(a) <= buffer[t]
                             /\ buffer[t] < ArenaBase(a) + ArenaBytes
<1>1. buffer[t] # Null /\ buffer[t] \in Nat
  BY DEF IInv, TypeOK, WorkersInv, WorkerInv
<1>2. PICK a \in Arenas : \E i \in DOMAIN allocations[a] : buffer[t] = Pointer(a, i)
  BY <1>1 DEF IInv, HoldersInv
<1>3. PICK i \in DOMAIN allocations[a] : buffer[t] = Pointer(a, i)
  BY <1>2
<1>4. /\ allocations[a] \in Seq(Block) /\ FreeAfterCall(a) \in Seq(Block)
      /\ CoalescedList(FreeAfterCall(a))
      /\ NonEmpty(allocations[a]) /\ ByteWise(FreeAfterCall(a), allocations[a], ArenaBytes)
      /\ (~ mapped => allocations[a] = <<>>)
  BY ListTypes DEF IInv, ListsInv, Partition
<1>5. /\ allocations[a][i].offset \in Nat /\ BlockEnd(allocations[a][i]) <= ArenaBytes
      /\ allocations[a][i].offset < BlockEnd(allocations[a][i])
      /\ BlockEnd(allocations[a][i]) \in Nat
  <2>1. BlockEnd(allocations[a][i]) <= ArenaBytes
    BY <1>4, PartitionByteWise, ConstantTypes
  <2> QED BY <1>4, <2>1, NonEmptyFacts
<1>6. a \in Nat /\ ArenaBase(a) \in Nat
  BY ArenaInAddressSpace DEF IInv, TypeOK
<1>7. ArenaBase(a) <= buffer[t] /\ buffer[t] < ArenaBase(a) + ArenaBytes
  BY <1>3, <1>5, <1>6, ConstantTypes DEF Pointer
<1>8. mapped
  BY <1>4
<1>9. ASSUME NEW b \in ArenasHolding(buffer[t])  PROVE b = a
  <2>1. /\ b \in Arenas /\ ArenaBase(b) <= buffer[t]
        /\ buffer[t] < ArenaBase(b) + ArenaBytes
    <3>1. b \in Arenas /\ buffer[t] >= ArenaBase(b) /\ buffer[t] < ArenaBase(b) + ArenaBytes
      BY ArenaEnd DEF ArenasHolding, IInv, TypeOK
    <3>2. ArenaBase(b) \in Nat
      BY <3>1, ArenaInAddressSpace DEF IInv, TypeOK
    <3> QED BY <1>1, <3>1, <3>2
  <2>2. b \in Nat
    BY <2>1, ArenaInAddressSpace DEF IInv, TypeOK
  <2> QED BY <1>1, <1>6, <1>7, <2>1, <2>2, OneArenaHolds
<1>10. a \in ArenasHolding(buffer[t])
  <2>1. (ArenaBase(a) + ArenaBytes) % AddressLimit = ArenaBase(a) + ArenaBytes
    BY ArenaEnd DEF IInv, TypeOK
  <2> QED BY <1>1, <1>6, <1>7, <1>8, <2>1 DEF ArenasHolding
<1> QED BY <1>7, <1>8, <1>9, <1>10

\* deallocate() finds the entry of the pointer, and has room for the block.
LEMMA TakeFacts ==
    ASSUME IInv, NEW t \in Threads, pc[t] = "take"
    PROVE  LET a == arena[t]
               i == FindAllocation(allocations[a], ArenaBase(a), buffer[t])
           IN  /\ a \in Arenas /\ mapped
               /\ i \in 1 .. Len(allocations[a]) /\ i # 0
               /\ DOMAIN allocations[a] = 1 .. Len(allocations[a])
               /\ buffer[t] = Pointer(a, i)
               /\ SwapRemove(allocations[a], i) \in Seq(Block)
               /\ Reclaimed(free[a], allocations[a][i]) \in Seq(Block)
               /\ Partition(Reclaimed(free[a], allocations[a][i]),
                            SwapRemove(allocations[a], i), ArenaBytes)
<1> DEFINE a == arena[t]
           f == free[a]
           i == FindAllocation(allocations[a], ArenaBase(a), buffer[t])
<1>1. a \in Arenas /\ mapped /\ Partition(f, allocations[a], ArenaBytes)
  BY FreeUnderMutex DEF Critical
<1>2. /\ f \in Seq(Block) /\ allocations[a] \in Seq(Block)
      /\ Len(allocations[a]) \in Nat /\ DOMAIN allocations[a] = 1 .. Len(allocations[a])
  BY <1>1, ListTypes, BlockFacts DEF IInv
<1>3. /\ buffer[t] \in Nat
      /\ ArenaBase(a) <= buffer[t] /\ buffer[t] < ArenaBase(a) + ArenaBytes
  BY DEF IInv, TypeOK, WorkersInv, WorkerInv
<1>a. PICK b \in Arenas : \E j \in DOMAIN allocations[b] : buffer[t] = Pointer(b, j)
  BY <1>3, ConstantTypes DEF IInv, HoldersInv
<1>4. PICK j \in DOMAIN allocations[b] : buffer[t] = Pointer(b, j)
  BY <1>a
<1>5. b = a
  <2>1. /\ a \in Nat /\ b \in Nat /\ ArenaBase(b) \in Nat
    BY <1>1, ArenaInAddressSpace DEF IInv, TypeOK
  <2>2. /\ allocations[b] \in Seq(Block) /\ FreeAfterCall(b) \in Seq(Block)
        /\ CoalescedList(FreeAfterCall(b)) /\ NonEmpty(allocations[b])
        /\ ByteWise(FreeAfterCall(b), allocations[b], ArenaBytes)
    BY ListTypes DEF IInv, ListsInv, Partition
  <2>3. BlockEnd(allocations[b][j]) <= ArenaBytes
    BY <2>2, PartitionByteWise, ConstantTypes
  <2>4. /\ allocations[b][j].offset \in Nat /\ BlockEnd(allocations[b][j]) \in Nat
        /\ allocations[b][j].offset < BlockEnd(allocations[b][j])
    BY <2>2, NonEmptyFacts
  <2>5. ArenaBase(b) <= buffer[t] /\ buffer[t] < ArenaBase(b) + ArenaBytes
    BY <1>4, <2>1, <2>3, <2>4, ConstantTypes DEF Pointer
  <2> HIDE DEF a
  <2> QED BY ONLY <1>3, <2>1, <2>5, OneArenaHolds
<1>6. /\ i \in 0 .. Len(allocations[a])
      /\ i # 0 => ArenaBase(a) + allocations[a][i].offset = buffer[t]
      /\ i = 0 => \A k \in 1 .. Len(allocations[a]) :
                    ArenaBase(a) + allocations[a][k].offset # buffer[t]
  BY <1>2, FindAllocationProperties
<1>7. i # 0
  BY <1>2, <1>4, <1>5, <1>6 DEF Pointer
<1> HIDE DEF i
<1>8. i \in 1 .. Len(allocations[a])
  BY ONLY <1>2, <1>6, <1>7
<1> HIDE DEF a, f
<1>9. Reclaimed(f, allocations[a][i]) = InsertFreeBlock(f, allocations[a][i])
  <2>1. /\ CoalescedList(f)
        /\ \A k \in DOMAIN allocations[a], l \in DOMAIN f : Disjoint(allocations[a][k], f[l])
        /\ \A byte \in 0 .. ArenaBytes - 1 : Covers(f, byte) \/ Covers(allocations[a], byte)
        /\ \A l \in DOMAIN f : BlockEnd(f[l]) <= ArenaBytes
        /\ Len(allocations[a]) <= MaxAllocations
    BY <1>1, <1>2, PartitionByEntries, ConstantTypes
  <2>2. Len(f) <= Len(allocations[a]) + 1
    BY <1>2, <2>1, GapsNeedAllocations, ConstantTypes
  <2>3. Len(f) \in Nat
    BY <1>2
  <2>4. Len(f) < MaxFreeBlocks
    BY ONLY <1>2, <2>1, <2>2, <2>3, ConstantTypes DEF MaxFreeBlocks
  <2> QED BY <2>4 DEF Reclaimed
<1>10. /\ InsertFreeBlock(f, allocations[a][i]) \in Seq(Block)
       /\ SwapRemove(allocations[a], i) \in Seq(Block)
       /\ Partition(InsertFreeBlock(f, allocations[a][i]), SwapRemove(allocations[a], i),
                    ArenaBytes)
  BY ONLY <1>1, <1>2, <1>8, ConstantTypes, ReclaimKeepsPartition
<1>11. buffer[t] = Pointer(a, i)
  BY <1>6, <1>7 DEF Pointer, a, i
<1> QED BY <1>1, <1>2, <1>7, <1>8, <1>9, <1>10, <1>11 DEF a, f, i

----------------------------------------------------------------------------
(* The invariant holds initially and is preserved.                          *)

LEMMA InitInv == Init => IInv
<1> SUFFICES ASSUME Init PROVE IInv
  OBVIOUS
<1> DEFINE whole == <<[offset |-> 0, size |-> ArenaBytes]>>
<1>1. whole \in Seq(Block) /\ Partition(whole, <<>>, ArenaBytes)
  BY WholeIsPartition, ConstantTypes
<1> HIDE DEF whole
<1>2. \A a \in Arenas : FreeAfterCall(a) = whole
  BY DEF Init, FreeAfterCall, whole
<1>3. TypeOK
  <2>1. free \in [Arenas -> Seq(Block)] /\ allocations \in [Arenas -> Seq(Block)]
    BY <1>1 DEF Init, whole
  <2>2. answer \in [Arenas -> [bytes : Nat, alignment : Nat, pointer : Nat \cup {Null}]]
    BY DEF Init
  <2>3. block \in [Threads -> Block]
    BY DEF Init, NoBlock, Block
  <2>4. tiles \in [Threads -> Nat]
    BY TcmManagerAssumption DEF Init
  <2> QED BY <2>1, <2>2, <2>3, <2>4 DEF Init, TypeOK, Labels
<1>4. WorkersInv /\ MutexInv
  BY DEF Init, WorkersInv, WorkerInv, MutexInv, Calling, Critical
<1>5. ListsInv
  BY <1>1, <1>2 DEF Init, ListsInv
<1>6. HoldersInv
  BY DEF Init, HoldersInv
<1> QED BY <1>3, <1>4, <1>5, <1>6 DEF IInv

LEMMA TypeNext ==
    ASSUME IInv, NEW t \in Threads, Worker(t)
    PROVE  TypeOK'
<1>1. TypeOK /\ t # Null
  BY ConstantTypes DEF IInv
<1>2. CASE Allocate(t)
  <2>1. arena' \in [Threads -> Arenas \cup {Null}]
    <3>1. \A cpu \in Cpus : ArenaForCpu(cpu) \in Arenas \cup {Null}
      BY <1>1, ConstantTypes, ArenaForCpuType DEF TypeOK
    <3> QED BY <1>1, <1>2, <3>1 DEF Allocate, TypeOK
  <2>2. pc' \in [Threads -> Labels]
    BY <1>1, <1>2 DEF Allocate, Goto, TypeOK, Labels
  <2> QED BY <1>1, <1>2, <2>1, <2>2
          DEF Allocate, TypeOK, Arenas, platform, lists
<1>3. CASE Lock(t, "lock_allocate", "scan") \/ Lock(t, "lock_deallocate", "take")
  <2>1. /\ mutex' = [mutex EXCEPT ![arena[t]] = t]
        /\ pc' = [pc EXCEPT ![t] = "scan"] \/ pc' = [pc EXCEPT ![t] = "take"]
        /\ UNCHANGED <<platform, lists, locals, answer>>
    BY <1>3 DEF Lock, Goto
  <2>2. mutex' \in [Arenas -> Threads \cup {Null}] /\ pc' \in [Threads -> Labels]
    BY <1>1, <2>1 DEF TypeOK, Labels
  <2> QED BY <1>1, <2>1, <2>2 DEF TypeOK, Arenas, platform, lists, locals
<1>4. CASE Scan(t)
  <2>1. /\ arena[t] \in Arenas
        /\ FirstFit(free[arena[t]], ArenaBase(arena[t]), Bytes, Alignment) \in Nat
    <3>1. arena[t] \in Arenas
      BY <1>4 DEF Scan, IInv, WorkersInv, WorkerInv, Calling, Critical
    <3>2. free[arena[t]] \in Seq(Block)
      BY <1>1, <3>1 DEF TypeOK
    <3>3. /\ FirstFit(free[arena[t]], ArenaBase(arena[t]), Bytes, Alignment)
               \in 0 .. Len(free[arena[t]])
          /\ Len(free[arena[t]]) \in Nat
      BY <3>2, FirstFitProperties, BlockFacts
    <3> QED BY <3>1, <3>3
  <2>2. found' \in [Threads -> Nat]
    BY <1>1, <1>4, <2>1 DEF Scan, TypeOK
  <2>3. pc' \in [Threads -> Labels]
    BY <1>1, <1>4 DEF Scan, Goto, TypeOK, Labels
  <2> QED BY <1>1, <1>4, <2>2, <2>3 DEF Scan, TypeOK, Arenas, platform, lists
<1>5. CASE NoRoom(t)
  <2>1. answer' \in [Arenas -> [bytes : Nat, alignment : Nat, pointer : Nat \cup {Null}]]
    BY <1>1, <1>5, ConstantTypes DEF NoRoom, Answer, TypeOK
  <2>2. mutex' \in [Arenas -> Threads \cup {Null}] /\ pc' \in [Threads -> Labels]
    BY <1>1, <1>5 DEF NoRoom, Unlock, Goto, TypeOK, Labels
  <2> QED BY <1>1, <1>5, <2>1, <2>2 DEF NoRoom, TypeOK, Arenas, platform, lists, locals
<1>6. CASE CarveAndRecord(t)
  <2> DEFINE a     == arena[t]
             start == AlignedOffset(ArenaBase(a), free[a][found[t]].offset, Alignment)
             run   == [offset |-> start, size |-> Bytes]
  <2>1. /\ a \in Arenas /\ start \in Nat /\ ArenaBase(a) \in Nat
        /\ Carve(free[a], found[t], start, Bytes) \in Seq(Block)
        /\ Append(allocations[a], run) \in Seq(Block)
    <3>1. pc[t] = "carve"
      BY <1>6 DEF CarveAndRecord
    <3> QED BY <3>1, CarveFacts, ArenaInAddressSpace DEF IInv, TypeOK
  <2>2. ArenaBase(a) + start \in Nat
    BY <2>1
  <2>3. /\ mutex' \in [Arenas -> Threads \cup {Null}] /\ pc' \in [Threads -> Labels]
        /\ UNCHANGED <<platform, tiles, arena, found, block>>
    BY <1>1, <1>6 DEF CarveAndRecord, Unlock, Goto, TypeOK, Labels
  <2> HIDE DEF start
  <2>4. CASE answer' = [answer EXCEPT ![a] = Answer(Null)] /\ UNCHANGED <<lists, buffer>>
    <3>1. answer' \in [Arenas -> [bytes : Nat, alignment : Nat, pointer : Nat \cup {Null}]]
      BY <1>1, <2>4, ConstantTypes DEF Answer, TypeOK
    <3> QED BY <1>1, <2>3, <2>4, <3>1 DEF TypeOK, Arenas, platform, lists
  <2>5. CASE /\ free' = [free EXCEPT ![a] = Carve(@, found[t], start, Bytes)]
             /\ allocations' = [allocations EXCEPT ![a] = Append(@, run)]
             /\ buffer' = [buffer EXCEPT ![t] = ArenaBase(a) + start]
             /\ answer' = [answer EXCEPT ![a] = Answer(ArenaBase(a) + start)]
    <3>1. answer' \in [Arenas -> [bytes : Nat, alignment : Nat, pointer : Nat \cup {Null}]]
      BY <1>1, <2>2, <2>5, ConstantTypes DEF Answer, TypeOK
    <3>2. buffer' \in [Threads -> Nat \cup {Null}]
      BY <1>1, <2>2, <2>5 DEF TypeOK
    <3>3. free' \in [Arenas -> Seq(Block)] /\ allocations' \in [Arenas -> Seq(Block)]
      BY <1>1, <2>1, <2>5 DEF TypeOK
    <3> QED BY <1>1, <2>3, <3>1, <3>2, <3>3 DEF TypeOK, Arenas, platform
  <2> QED BY <1>6, <2>4, <2>5 DEF CarveAndRecord, start
<1> DEFINE TilesLeft == tiles[t] - 1 \in Nat
<1>tiles. pc[t] # "tile" => TilesLeft
  BY <1>1 DEF IInv, WorkersInv, WorkerInv, TypeOK
<1>7. CASE Compute(t)
  <2>1. tiles' \in [Threads -> Nat]
    BY <1>1, <1>7, <1>tiles DEF Compute, TileDone, TypeOK
  <2>2. pc' \in [Threads -> Labels]
    BY <1>1, <1>7 DEF Compute, TileDone, Goto, TypeOK, Labels
  <2> QED BY <1>1, <1>7, <2>1, <2>2 DEF Compute, TypeOK, Arenas, platform, lists
<1>8. CASE Deallocate(t)
  <2>1. PICK a \in Arenas : ArenasHolding(buffer[t]) = {a}
    BY <1>8, DeallocateFacts DEF Deallocate
  <2>2. arena' = [arena EXCEPT ![t] = a] /\ Goto(t, "lock_deallocate")
        /\ UNCHANGED <<tiles, buffer>>
    <3>1. a <= a
      BY <1>1, ArenaInAddressSpace DEF TypeOK
    <3>2. (CHOOSE c \in ArenasHolding(buffer[t]) :
             \A b \in ArenasHolding(buffer[t]) : c <= b) = a
      BY <2>1, <3>1
    <3> QED BY <1>8, <2>1, <3>2 DEF Deallocate
  <2>3. arena' \in [Threads -> Arenas \cup {Null}] /\ pc' \in [Threads -> Labels]
    BY <1>1, <2>1, <2>2 DEF Goto, TypeOK, Labels
  <2> QED BY <1>1, <1>8, <2>2, <2>3 DEF Deallocate, TypeOK, Arenas, platform, lists
<1>9. CASE Take(t)
  <2> DEFINE a == arena[t]
             i == FindAllocation(allocations[a], ArenaBase(a), buffer[t])
  <2>1. /\ a \in Arenas /\ i # 0 /\ i \in 1 .. Len(allocations[a])
        /\ SwapRemove(allocations[a], i) \in Seq(Block)
    BY <1>9, TakeFacts DEF Take
  <2>2. allocations[a][i] \in Block
    <3>1. allocations[a] \in Seq(Block)
      BY <1>1, <2>1 DEF TypeOK
    <3> HIDE DEF i
    <3> QED BY <2>1, <3>1, BlockFacts
  <2>3. /\ buffer' = [buffer EXCEPT ![t] = Null] /\ Goto(t, "insert")
        /\ block' = [block EXCEPT ![t] = allocations[a][i]]
        /\ allocations' = [allocations EXCEPT ![a] = SwapRemove(@, i)]
        /\ UNCHANGED <<platform, free, arena, found, answer, mutex, tiles>>
    BY <1>9, <2>1 DEF Take
  <2> HIDE DEF i
  <2>4. /\ buffer' \in [Threads -> Nat \cup {Null}] /\ pc' \in [Threads -> Labels]
        /\ block' \in [Threads -> Block] /\ allocations' \in [Arenas -> Seq(Block)]
    BY <1>1, <2>1, <2>2, <2>3 DEF Goto, TypeOK, Labels
  <2> QED BY <1>1, <2>3, <2>4 DEF TypeOK, Arenas, platform
<1>10. CASE Insert(t)
  <2>1. arena[t] \in Arenas /\ pc[t] = "insert"
    BY <1>10 DEF Insert, IInv, WorkersInv, WorkerInv, Calling, Critical
  <2>2. Reclaimed(free[arena[t]], block[t]) \in Seq(Block)
    BY <2>1, FreeAfterCallCases DEF IInv, ListsInv
  <2>3. free' \in [Arenas -> Seq(Block)]
    BY <1>1, <1>10, <2>1, <2>2 DEF Insert, TypeOK
  <2>4. tiles' \in [Threads -> Nat]
    BY <1>1, <1>10, <2>1, <1>tiles DEF Insert, TileDone, TypeOK
  <2>5. mutex' \in [Arenas -> Threads \cup {Null}] /\ pc' \in [Threads -> Labels]
    BY <1>1, <1>10 DEF Insert, Unlock, TileDone, Goto, TypeOK, Labels
  <2> QED BY <1>1, <1>10, <2>3, <2>4, <2>5 DEF Insert, TypeOK, Arenas, platform
<1> QED BY <1>2, <1>3, <1>4, <1>5, <1>6, <1>7, <1>8, <1>9, <1>10 DEF Worker

\* A step of one worker leaves the others where they are, and the arenas whose
\* mutex it does not hold as they are.
LEMMA Frame ==
    ASSUME IInv, NEW t \in Threads, Worker(t)
    PROVE  /\ UNCHANGED platform
           /\ \A u \in Threads : u # t =>
                /\ pc'[u] = pc[u] /\ tiles'[u] = tiles[u] /\ arena'[u] = arena[u]
                /\ found'[u] = found[u] /\ block'[u] = block[u] /\ buffer'[u] = buffer[u]
           /\ \A a \in Arenas : mutex[a] \notin {t, Null} => mutex'[a] = mutex[a]
           /\ \A a \in Arenas : mutex[a] # t =>
                /\ free'[a] = free[a] /\ allocations'[a] = allocations[a]
                /\ answer'[a] = answer[a]
<1>1. TypeOK
  BY DEF IInv
<1>2. pc[t] \in Critical => mutex[arena[t]] = t
  BY DEF IInv, WorkersInv, WorkerInv
<1>3. UNCHANGED platform
  BY DEF Worker, Allocate, Lock, Scan, NoRoom, CarveAndRecord, Compute, Deallocate, Take, Insert
<1>4. ASSUME NEW u \in Threads, u # t
      PROVE  /\ pc'[u] = pc[u] /\ tiles'[u] = tiles[u] /\ arena'[u] = arena[u]
             /\ found'[u] = found[u] /\ block'[u] = block[u] /\ buffer'[u] = buffer[u]
  <2>1. CASE Allocate(t)
    BY <1>1, <1>4, <2>1 DEF Allocate, Goto, TypeOK
  <2>2. CASE Lock(t, "lock_allocate", "scan") \/ Lock(t, "lock_deallocate", "take")
    BY <1>1, <1>4, <2>2 DEF Lock, Goto, TypeOK, locals
  <2>3. CASE Scan(t)
    BY <1>1, <1>4, <2>3 DEF Scan, Goto, TypeOK
  <2>4. CASE NoRoom(t)
    BY <1>1, <1>4, <2>4 DEF NoRoom, Goto, TypeOK, locals
  <2>5. CASE CarveAndRecord(t)
    BY <1>1, <1>4, <2>5 DEF CarveAndRecord, Goto, TypeOK
  <2>6. CASE Compute(t)
    BY <1>1, <1>4, <2>6 DEF Compute, TileDone, Goto, TypeOK
  <2>7. CASE Deallocate(t)
    BY <1>1, <1>4, <2>7 DEF Deallocate, TileDone, Goto, TypeOK
  <2>8. CASE Take(t)
    BY <1>1, <1>4, <2>8 DEF Take, TileDone, Goto, TypeOK
  <2>9. CASE Insert(t)
    BY <1>1, <1>4, <2>9 DEF Insert, TileDone, Goto, TypeOK
  <2> QED BY <2>1, <2>2, <2>3, <2>4, <2>5, <2>6, <2>7, <2>8, <2>9 DEF Worker
<1>5. ASSUME NEW a \in Arenas, mutex[a] \notin {t, Null}
      PROVE  mutex'[a] = mutex[a]
  <2>1. CASE \/ Lock(t, "lock_allocate", "scan") \/ Lock(t, "lock_deallocate", "take")
    BY <1>1, <1>5, <2>1 DEF Lock, TypeOK
  <2>2. CASE NoRoom(t) \/ CarveAndRecord(t) \/ Take(t) \/ Insert(t)
    <3>1. pc[t] \in Critical
      BY <2>2 DEF NoRoom, CarveAndRecord, Take, Insert, Critical
    <3>2. UNCHANGED mutex \/ mutex' = [mutex EXCEPT ![arena[t]] = Null]
      BY <2>2 DEF NoRoom, CarveAndRecord, Take, Insert, Unlock
    <3> QED BY <1>1, <1>2, <1>5, <3>1, <3>2 DEF TypeOK
  <2>3. CASE Allocate(t) \/ Scan(t) \/ Compute(t) \/ Deallocate(t)
    BY <2>3 DEF Allocate, Scan, Compute, Deallocate
  <2> QED BY <2>1, <2>2, <2>3 DEF Worker
<1>6. ASSUME NEW a \in Arenas, mutex[a] # t
      PROVE  /\ free'[a] = free[a] /\ allocations'[a] = allocations[a]
             /\ answer'[a] = answer[a]
  <2>1. CASE NoRoom(t)
    BY <1>1, <1>2, <1>6, <2>1 DEF NoRoom, Critical, TypeOK, lists
  <2>2. CASE CarveAndRecord(t)
    BY <1>1, <1>2, <1>6, <2>2 DEF CarveAndRecord, Critical, TypeOK, lists
  <2>3. CASE Take(t)
    BY <1>1, <1>2, <1>6, <2>3 DEF Take, Critical, TypeOK
  <2>4. CASE Insert(t)
    BY <1>1, <1>2, <1>6, <2>4 DEF Insert, Critical, TypeOK
  <2>5. CASE \/ Allocate(t) \/ Lock(t, "lock_allocate", "scan") \/ Scan(t) \/ Compute(t)
             \/ Deallocate(t) \/ Lock(t, "lock_deallocate", "take")
    BY <2>5 DEF Allocate, Lock, Scan, Compute, Deallocate, lists
  <2> QED BY <2>1, <2>2, <2>3, <2>4, <2>5 DEF Worker
<1> QED BY <1>3, <1>4, <1>5, <1>6

\* What another worker relies on is still so.
LEMMA OtherWorkers ==
    ASSUME IInv, NEW t \in Threads, Worker(t), NEW u \in Threads, u # t
    PROVE  WorkerInv(u)'
<1>1. WorkerInv(u) /\ TypeOK /\ u # Null
  BY ConstantTypes DEF IInv, WorkersInv
<1>2. /\ pc'[u] = pc[u] /\ tiles'[u] = tiles[u] /\ arena'[u] = arena[u]
      /\ found'[u] = found[u] /\ buffer'[u] = buffer[u]
      /\ mapped' = mapped /\ Arenas' = Arenas
  BY Frame DEF platform, Arenas
<1>3. ASSUME pc[u] \in Critical
      PROVE  /\ mutex'[arena[u]] = u
             /\ free'[arena[u]] = free[arena[u]]
             /\ allocations'[arena[u]] = allocations[arena[u]]
  <2>1. arena[u] \in Arenas /\ mutex[arena[u]] = u
    BY <1>1, <1>3 DEF WorkerInv, Calling
  <2> QED BY <1>1, <2>1, Frame
<1>4. pc[u] \in Critical => Searched(arena[u])' = Searched(arena[u])
  <2>1. pc[u] \in Critical => (free[arena[u]])' = free[arena[u]]
    BY <1>2, <1>3
  <2> QED BY <1>2, <2>1 DEF Searched, ArenaBase
<1> QED BY <1>1, <1>2, <1>3, <1>4 DEF WorkerInv, Critical, ArenaBase

\* What the worker that took the step relies on next.
LEMMA OwnWorker ==
    ASSUME IInv, NEW t \in Threads, Worker(t)
    PROVE  WorkerInv(t)'
<1>1. WorkerInv(t) /\ TypeOK
  BY DEF IInv, WorkersInv
<1>2. mapped' = mapped /\ Arenas' = Arenas
  BY Frame DEF platform, Arenas
<1>3. CASE Allocate(t)
  <2>1. PICK cpu \in Cpus :
          LET a == ArenaForCpu(cpu)
          IN  IF mapped /\ a # Null /\ Bytes <= ArenaBytes
              THEN arena' = [arena EXCEPT ![t] = a] /\ Goto(t, "lock_allocate")
              ELSE Goto(t, "compute") /\ UNCHANGED arena
    BY <1>3 DEF Allocate
  <2>2. ArenaForCpu(cpu) \in Arenas \cup {Null}
    BY <1>1, ConstantTypes, ArenaForCpuType DEF TypeOK
  <2>3. /\ pc[t] = "tile" /\ tiles[t] > 0 /\ buffer[t] = Null
        /\ tiles'[t] = tiles[t] /\ buffer'[t] = buffer[t]
    BY <1>1, <1>3 DEF Allocate, WorkerInv
  <2>4. \/ pc'[t] = "compute"
        \/ pc'[t] = "lock_allocate" /\ mapped /\ arena'[t] \in Arenas
    BY <1>1, <2>1, <2>2 DEF Goto, TypeOK
  <2> QED BY <1>2, <2>3, <2>4 DEF WorkerInv, Critical, Calling
<1>4. CASE Lock(t, "lock_allocate", "scan")
  <2>1. /\ pc[t] = "lock_allocate" /\ pc'[t] = "scan"
        /\ tiles' = tiles /\ arena' = arena /\ buffer' = buffer
        /\ mutex' = [mutex EXCEPT ![arena[t]] = t]
    BY <1>1, <1>4 DEF Lock, Goto, TypeOK, locals
  <2>2. mapped /\ arena[t] \in Arenas /\ tiles[t] > 0 /\ buffer[t] = Null
    BY <1>1, <2>1 DEF WorkerInv, Calling
  <2>3. mutex'[arena[t]] = t
    BY <1>1, <2>1, <2>2 DEF TypeOK
  <2> QED BY <1>2, <2>1, <2>2, <2>3 DEF WorkerInv, Critical, Calling
<1>5. CASE Lock(t, "lock_deallocate", "take")
  <2>1. /\ pc[t] = "lock_deallocate" /\ pc'[t] = "take"
        /\ tiles' = tiles /\ arena' = arena /\ buffer' = buffer
        /\ mutex' = [mutex EXCEPT ![arena[t]] = t]
    BY <1>1, <1>5 DEF Lock, Goto, TypeOK, locals
  <2>2. /\ mapped /\ arena[t] \in Arenas /\ tiles[t] > 0 /\ buffer[t] # Null
        /\ ArenaBase(arena[t]) <= buffer[t]
        /\ buffer[t] < ArenaBase(arena[t]) + ArenaBytes
    BY <1>1, <2>1 DEF WorkerInv, Calling
  <2>3. mutex'[arena[t]] = t
    BY <1>1, <2>1, <2>2 DEF TypeOK
  <2> QED BY <1>2, <2>1, <2>2, <2>3 DEF WorkerInv, Critical, Calling, ArenaBase
<1>6. CASE Scan(t)
  <2> DEFINE i == IF Len(allocations[arena[t]]) = MaxAllocations THEN 0
                  ELSE Searched(arena[t])
  <2>1. /\ pc[t] = "scan" /\ found'[t] = i
        /\ pc'[t] = IF i = 0 THEN "no_room" ELSE "carve"
        /\ UNCHANGED <<lists, mutex, tiles, arena, buffer>>
    BY <1>1, <1>6 DEF Scan, Goto, TypeOK, Searched
  <2>2. /\ mapped /\ arena[t] \in Arenas /\ tiles[t] > 0 /\ buffer[t] = Null
        /\ mutex[arena[t]] = t
    BY <1>1, <2>1 DEF WorkerInv, Calling, Critical
  <2>3. Searched(arena[t])' = Searched(arena[t])
    BY <2>1 DEF Searched, ArenaBase, lists
  <2>4. /\ i = 0 => \/ Len(allocations[arena[t]]) = MaxAllocations
                    \/ Searched(arena[t]) = 0
        /\ i # 0 => /\ Len(allocations[arena[t]]) # MaxAllocations
                    /\ i = Searched(arena[t])
    OBVIOUS
  <2> HIDE DEF i
  <2> QED BY <1>2, <2>1, <2>2, <2>3, <2>4 DEF WorkerInv, Critical, Calling, lists
<1>7. CASE NoRoom(t)
  <2>1. /\ pc[t] = "no_room" /\ pc'[t] = "compute" /\ tiles'[t] = tiles[t]
        /\ tiles[t] > 0
    BY <1>1, <1>7 DEF NoRoom, Goto, TypeOK, WorkerInv, locals
  <2> QED BY <2>1 DEF WorkerInv, Critical, Calling
<1>8. CASE CarveAndRecord(t)
  <2>1. /\ pc[t] = "carve" /\ pc'[t] = "compute" /\ tiles'[t] = tiles[t]
        /\ tiles[t] > 0
    BY <1>1, <1>8 DEF CarveAndRecord, Goto, TypeOK, WorkerInv
  <2> QED BY <2>1 DEF WorkerInv, Critical, Calling
<1>9. CASE Compute(t)
  <2>1. /\ buffer' = buffer
        /\ \/ pc'[t] = "tile" /\ buffer[t] = Null
           \/ pc'[t] = "deallocate" /\ buffer[t] # Null /\ tiles'[t] = tiles[t] /\ tiles[t] > 0
    BY <1>1, <1>9 DEF Compute, TileDone, Goto, TypeOK, WorkerInv
  <2> QED BY <2>1 DEF WorkerInv, Critical, Calling
<1>10. CASE Deallocate(t)
  <2>1. /\ pc[t] = "deallocate" /\ tiles[t] > 0 /\ buffer[t] # Null
    BY <1>1, <1>10 DEF Deallocate, WorkerInv
  <2>2. PICK a \in Arenas : /\ ArenasHolding(buffer[t]) = {a} /\ mapped
                            /\ ArenaBase(a) <= buffer[t]
                            /\ buffer[t] < ArenaBase(a) + ArenaBytes
    BY <2>1, DeallocateFacts
  <2>3. arena' = [arena EXCEPT ![t] = a] /\ Goto(t, "lock_deallocate")
        /\ UNCHANGED <<tiles, buffer>>
    <3>1. a <= a
      BY <1>1, ArenaInAddressSpace DEF TypeOK
    <3>2. (CHOOSE c \in ArenasHolding(buffer[t]) :
             \A b \in ArenasHolding(buffer[t]) : c <= b) = a
      BY <2>2, <3>1
    <3> QED BY <1>10, <2>2, <3>2 DEF Deallocate
  <2>4. pc'[t] = "lock_deallocate" /\ arena'[t] = a /\ tiles'[t] = tiles[t]
        /\ buffer'[t] = buffer[t]
    BY <1>1, <2>3 DEF Goto, TypeOK
  <2> QED BY <1>2, <2>1, <2>2, <2>4 DEF WorkerInv, Critical, Calling, ArenaBase
<1>11. CASE Take(t)
  <2>1. /\ pc[t] = "take" /\ arena[t] \in Arenas /\ mapped /\ tiles[t] > 0
        /\ mutex[arena[t]] = t
    BY <1>1, <1>11 DEF Take, WorkerInv, Calling, Critical
  <2>2. FindAllocation(allocations[arena[t]], ArenaBase(arena[t]), buffer[t]) # 0
    BY <2>1, TakeFacts
  <2>3. /\ pc'[t] = "insert" /\ buffer'[t] = Null
        /\ arena' = arena /\ mutex' = mutex /\ tiles' = tiles
    BY <1>1, <1>11, <2>2 DEF Take, Goto, TypeOK
  <2> QED BY <1>2, <2>1, <2>3 DEF WorkerInv, Critical, Calling
<1>12. CASE Insert(t)
  <2>1. /\ pc[t] = "insert" /\ pc'[t] = "tile" /\ buffer'[t] = buffer[t]
        /\ buffer[t] = Null
    BY <1>1, <1>12 DEF Insert, TileDone, Goto, TypeOK, WorkerInv
  <2> QED BY <2>1 DEF WorkerInv, Critical, Calling
<1> QED BY <1>3, <1>4, <1>5, <1>6, <1>7, <1>8, <1>9, <1>10, <1>11, <1>12 DEF Worker

\* A mutex is held by the worker inside its critical section, and only by it.
LEMMA MutexNext ==
    ASSUME IInv, NEW t \in Threads, Worker(t)
    PROVE  MutexInv'
<1>1. TypeOK /\ MutexInv /\ WorkerInv(t) /\ t # Null
  BY ConstantTypes DEF IInv, WorkersInv
<1>2. SUFFICES ASSUME NEW a \in Arenas, mutex'[a] # Null
               PROVE  /\ mutex'[a] \in Threads /\ arena'[mutex'[a]] = a
                      /\ pc'[mutex'[a]] \in Critical
  BY Frame DEF MutexInv, platform, Arenas
<1>3. CASE mutex[a] \notin {t, Null}
  <2>1. /\ mutex'[a] = mutex[a] /\ mutex[a] \in Threads /\ mutex[a] # t
        /\ arena[mutex[a]] = a /\ pc[mutex[a]] \in Critical
    BY <1>1, <1>3, Frame DEF MutexInv
  <2> QED BY <2>1, Frame
<1>4. CASE mutex[a] = t
  <2>1. arena[t] = a /\ pc[t] \in Critical
    BY <1>1, <1>4 DEF MutexInv
  <2>2. CASE Scan(t)
    BY <1>1, <1>4, <2>1, <2>2 DEF Scan, Goto, Critical, TypeOK
  <2>3. CASE NoRoom(t) \/ CarveAndRecord(t) \/ Insert(t)
    BY <1>1, <1>2, <2>1, <2>3 DEF NoRoom, CarveAndRecord, Insert, Unlock, TypeOK
  <2>4. CASE Take(t)
    <3>1. FindAllocation(allocations[arena[t]], ArenaBase(arena[t]), buffer[t]) # 0
      BY <2>4, TakeFacts DEF Take
    <3> QED BY <1>1, <1>4, <2>1, <2>4, <3>1 DEF Take, Goto, Critical, TypeOK
  <2>5. CASE \/ Allocate(t) \/ Lock(t, "lock_allocate", "scan") \/ Compute(t)
             \/ Deallocate(t) \/ Lock(t, "lock_deallocate", "take")
    BY <2>1, <2>5 DEF Allocate, Lock, Compute, Deallocate, Critical
  <2> QED BY <2>2, <2>3, <2>4, <2>5 DEF Worker
<1>5. CASE mutex[a] = Null
  <2>1. CASE Lock(t, "lock_allocate", "scan") \/ Lock(t, "lock_deallocate", "take")
    <3>1. /\ mutex' = [mutex EXCEPT ![arena[t]] = t] /\ arena' = arena
          /\ pc'[t] \in Critical
      BY <1>1, <2>1 DEF Lock, Goto, Critical, TypeOK, locals
    <3>2. a = arena[t] /\ mutex'[a] = t
      BY <1>1, <1>2, <1>5, <3>1 DEF TypeOK
    <3> QED BY <3>1, <3>2
  <2>2. CASE NoRoom(t) \/ CarveAndRecord(t) \/ Take(t) \/ Insert(t)
    BY <1>1, <1>2, <1>5, <2>2 DEF NoRoom, CarveAndRecord, Take, Insert, Unlock, TypeOK
  <2>3. CASE Allocate(t) \/ Scan(t) \/ Compute(t) \/ Deallocate(t)
    BY <1>2, <1>5, <2>3 DEF Allocate, Scan, Compute, Deallocate
  <2> QED BY <2>1, <2>2, <2>3 DEF Worker
<1> QED BY <1>3, <1>4, <1>5

\* Only carving and taking an entry out of the table change what an arena is to
\* its callers.
LEMMA QuietLists ==
    ASSUME IInv, NEW t \in Threads, Worker(t), NEW a \in Arenas,
           ~ (pc[t] \in {"carve", "take"} /\ a = arena[t])
    PROVE  /\ FreeAfterCall(a)' = FreeAfterCall(a)
           /\ allocations'[a] = allocations[a]
<1>1. TypeOK /\ WorkersInv /\ MutexInv /\ WorkerInv(t) /\ t # Null
  BY ConstantTypes DEF IInv, WorkersInv
<1>2. mapped' = mapped
  BY Frame DEF platform
<1>3. CASE mutex[a] \notin {t, Null}
  <2>1. /\ mutex'[a] = mutex[a] /\ mutex[a] \in Threads
        /\ pc'[mutex[a]] = pc[mutex[a]] /\ block'[mutex[a]] = block[mutex[a]]
        /\ free'[a] = free[a] /\ allocations'[a] = allocations[a]
    BY <1>1, <1>3, Frame DEF MutexInv
  <2> QED BY <1>2, <2>1 DEF FreeAfterCall
<1>4. CASE mutex[a] = Null
  <2>1. free'[a] = free[a] /\ allocations'[a] = allocations[a]
    BY <1>1, <1>4, Frame
  <2>2. mutex'[a] # Null => pc'[mutex'[a]] # "insert"
    <3>1. CASE Lock(t, "lock_allocate", "scan") \/ Lock(t, "lock_deallocate", "take")
      <4>1. mutex' = [mutex EXCEPT ![arena[t]] = t] /\ pc'[t] \in {"scan", "take"}
        BY <1>1, <3>1 DEF Lock, Goto, TypeOK
      <4>2. mutex'[a] \in {Null, t}
        BY <1>1, <1>4, <4>1 DEF TypeOK
      <4> QED BY <4>1, <4>2
    <3>2. CASE NoRoom(t) \/ CarveAndRecord(t) \/ Take(t) \/ Insert(t)
      BY <1>1, <1>4, <3>2 DEF NoRoom, CarveAndRecord, Take, Insert, Unlock, TypeOK
    <3>3. CASE Allocate(t) \/ Scan(t) \/ Compute(t) \/ Deallocate(t)
      BY <1>4, <3>3 DEF Allocate, Scan, Compute, Deallocate
    <3> QED BY <3>1, <3>2, <3>3 DEF Worker
  <2> QED BY <1>2, <1>4, <2>1, <2>2 DEF FreeAfterCall
<1>5. CASE mutex[a] = t
  <2>1. arena[t] = a /\ pc[t] \in Critical
    BY <1>1, <1>5 DEF MutexInv
  <2>2. pc[t] \in {"scan", "no_room", "insert"} /\ mapped
    BY <1>1, <2>1 DEF Critical, WorkerInv, Calling
  <2>3. CASE Scan(t)
    <3>1. /\ pc[t] = "scan" /\ pc'[t] \in {"no_room", "carve"}
          /\ UNCHANGED <<free, allocations, mutex>>
      BY <1>1, <2>3 DEF Scan, Goto, TypeOK, lists
    <3> QED BY <1>2, <1>5, <2>2, <3>1 DEF FreeAfterCall
  <2>4. CASE NoRoom(t)
    <3>1. pc[t] = "no_room" /\ mutex'[a] = Null /\ UNCHANGED <<free, allocations>>
      BY <1>1, <2>1, <2>4 DEF NoRoom, Unlock, TypeOK, lists
    <3> QED BY <1>2, <1>5, <2>2, <3>1 DEF FreeAfterCall
  <2>5. CASE Insert(t)
    <3>1. /\ pc[t] = "insert" /\ mutex'[a] = Null /\ UNCHANGED allocations
          /\ free'[a] = Reclaimed(free[a], block[t])
      BY <1>1, <2>1, <2>5 DEF Insert, Unlock, TypeOK
    <3> QED BY <1>1, <1>2, <1>5, <2>2, <3>1 DEF FreeAfterCall
  <2> QED BY <2>2, <2>3, <2>4, <2>5
          DEF Worker, Allocate, Lock, CarveAndRecord, Compute, Deallocate, Take
<1> QED BY <1>3, <1>4, <1>5

\* The two steps that do: an allocation, and the first half of a deallocation.
LEMMA CarveStep ==
    ASSUME IInv, NEW t \in Threads, CarveAndRecord(t), NEW a \in Arenas, a = arena[t]
    PROVE  LET start == AlignedOffset(ArenaBase(a), free[a][found[t]].offset, Alignment)
               run   == [offset |-> start, size |-> Bytes]
           IN  /\ pc[t] = "carve"
               /\ FreeAfterCall(a) = free[a]
               /\ \/ /\ CarveOverflows(free[a], found[t], start, Bytes)
                     /\ FreeAfterCall(a)' = free[a] /\ allocations' = allocations
                     /\ answer'[a] = Answer(Null) /\ buffer' = buffer
                  \/ /\ ~ CarveOverflows(free[a], found[t], start, Bytes)
                     /\ FreeAfterCall(a)' = Carve(free[a], found[t], start, Bytes)
                     /\ allocations' = [allocations EXCEPT ![a] = Append(@, run)]
                     /\ allocations'[a] = Append(allocations[a], run)
                     /\ answer'[a] = Answer(ArenaBase(a) + start)
                     /\ buffer' = [buffer EXCEPT ![t] = ArenaBase(a) + start]
<1> DEFINE start == AlignedOffset(ArenaBase(a), free[a][found[t]].offset, Alignment)
           run   == [offset |-> start, size |-> Bytes]
<1>1. TypeOK /\ pc[t] = "carve" /\ t # Null
  BY ConstantTypes DEF IInv, CarveAndRecord
<1>2. a \in Arenas /\ mapped /\ FreeAfterCall(a) = free[a]
  BY <1>1, FreeUnderMutex DEF Critical
<1>3. mapped' = mapped /\ mutex'[a] = Null
  BY <1>1, <1>2 DEF CarveAndRecord, Unlock, TypeOK, platform
<1>4. FreeAfterCall(a)' = free'[a]
  BY <1>2, <1>3 DEF FreeAfterCall
<1> HIDE DEF start
<1>6. CASE CarveOverflows(free[a], found[t], start, Bytes)
  BY <1>1, <1>2, <1>4, <1>6 DEF CarveAndRecord, lists, TypeOK, start
<1>7. CASE ~ CarveOverflows(free[a], found[t], start, Bytes)
  <2>1. /\ free' = [free EXCEPT ![a] = Carve(@, found[t], start, Bytes)]
        /\ allocations' = [allocations EXCEPT ![a] = Append(@, run)]
        /\ buffer' = [buffer EXCEPT ![t] = ArenaBase(a) + start]
        /\ answer' = [answer EXCEPT ![a] = Answer(ArenaBase(a) + start)]
    BY <1>7 DEF CarveAndRecord, start
  <2>2. /\ free'[a] = Carve(free[a], found[t], start, Bytes)
        /\ allocations'[a] = Append(allocations[a], run)
        /\ answer'[a] = Answer(ArenaBase(a) + start)
    BY <1>1, <1>2, <2>1 DEF TypeOK
  <2> QED BY <1>1, <1>2, <1>4, <1>7, <2>1, <2>2 DEF start
<1> QED BY <1>6, <1>7

LEMMA TakeStep ==
    ASSUME IInv, NEW t \in Threads, Take(t), NEW a \in Arenas, a = arena[t]
    PROVE  LET i == FindAllocation(allocations[a], ArenaBase(a), buffer[t])
           IN  /\ pc[t] = "take"
               /\ FreeAfterCall(a) = free[a]
               /\ FreeAfterCall(a)' = Reclaimed(free[a], allocations[a][i])
               /\ allocations' = [allocations EXCEPT ![a] = SwapRemove(@, i)]
               /\ allocations'[a] = SwapRemove(allocations[a], i)
               /\ buffer' = [buffer EXCEPT ![t] = Null]
               /\ answer' = answer
<1> DEFINE i == FindAllocation(allocations[a], ArenaBase(a), buffer[t])
<1>1. TypeOK /\ pc[t] = "take" /\ t # Null
  BY ConstantTypes DEF IInv, Take
<1>2. a \in Arenas /\ mapped /\ FreeAfterCall(a) = free[a] /\ mutex[a] = t
  BY <1>1, FreeUnderMutex DEF Critical, IInv, WorkersInv, WorkerInv
<1>3. i # 0
  BY <1>1, TakeFacts
<1>4. /\ buffer' = [buffer EXCEPT ![t] = Null] /\ pc' = [pc EXCEPT ![t] = "insert"]
      /\ block' = [block EXCEPT ![t] = allocations[a][i]]
      /\ allocations' = [allocations EXCEPT ![a] = SwapRemove(@, i)]
      /\ UNCHANGED <<mapped, free, arena, mutex, answer>>
  BY <1>3 DEF Take, Goto, platform
<1> HIDE DEF i
<1>5. /\ pc'[t] = "insert" /\ block'[t] = allocations[a][i]
      /\ allocations'[a] = SwapRemove(allocations[a], i)
  BY <1>1, <1>2, <1>4 DEF TypeOK
<1>6. FreeAfterCall(a)' = Reclaimed(free[a], allocations[a][i])
  BY <1>1, <1>2, <1>4, <1>5 DEF FreeAfterCall
<1> QED BY <1>1, <1>2, <1>4, <1>5, <1>6 DEF i

LEMMA ListsNext ==
    ASSUME IInv, NEW t \in Threads, Worker(t)
    PROVE  ListsInv'
<1>1. TypeOK /\ ListsInv /\ mapped' = mapped
  BY Frame DEF IInv, platform
<1>2. SUFFICES ASSUME NEW a \in Arenas
               PROVE  /\ FreeAfterCall(a)' \in Seq(Block)
                      /\ Partition(FreeAfterCall(a)', allocations'[a], ArenaBytes)
                      /\ \A i \in DOMAIN allocations'[a] : allocations'[a][i].size = Bytes
                      /\ ~ mapped => allocations'[a] = <<>>
  BY <1>1, Frame DEF ListsInv, platform, Arenas
<1>3. /\ FreeAfterCall(a) \in Seq(Block)
      /\ Partition(FreeAfterCall(a), allocations[a], ArenaBytes)
      /\ \A i \in DOMAIN allocations[a] : allocations[a][i].size = Bytes
      /\ ~ mapped => allocations[a] = <<>>
      /\ allocations[a] \in Seq(Block)
  BY <1>1, ListTypes DEF ListsInv
<1>4. CASE FreeAfterCall(a)' = FreeAfterCall(a) /\ allocations'[a] = allocations[a]
  BY <1>3, <1>4
<1>5. CASE pc[t] = "carve" /\ a = arena[t]
  <2> DEFINE start == AlignedOffset(ArenaBase(a), free[a][found[t]].offset, Alignment)
             run   == [offset |-> start, size |-> Bytes]
  <2>1. CarveAndRecord(t)
    BY <1>5 DEF Worker, Allocate, Lock, Scan, NoRoom, Compute, Deallocate, Take, Insert
  <2>2. CASE FreeAfterCall(a)' = free[a] /\ allocations' = allocations
    BY <1>4, <1>5, <2>1, <2>2, CarveStep
  <2>3. CASE /\ FreeAfterCall(a)' = Carve(free[a], found[t], start, Bytes)
             /\ allocations'[a] = Append(allocations[a], run)
    <3>1. /\ mapped /\ run \in Block
          /\ Carve(free[a], found[t], start, Bytes) \in Seq(Block)
          /\ Partition(Carve(free[a], found[t], start, Bytes),
                       Append(allocations[a], run), ArenaBytes)
      BY <1>5, CarveFacts
    <3>2. run.size = Bytes
      OBVIOUS
    <3> HIDE DEF run, start
    <3>3. /\ DOMAIN Append(allocations[a], run) = 1 .. Len(allocations[a]) + 1
          /\ \A j \in 1 .. Len(allocations[a]) :
               Append(allocations[a], run)[j] = allocations[a][j]
          /\ Append(allocations[a], run)[Len(allocations[a]) + 1] = run
          /\ \A j \in 1 .. Len(allocations[a]) + 1 :
               j \in 1 .. Len(allocations[a]) \/ j = Len(allocations[a]) + 1
      BY <1>3, <3>1, AppendEntries
    <3>4. DOMAIN allocations[a] = 1 .. Len(allocations[a])
      BY <1>3, BlockFacts
    <3> QED BY <1>3, <2>3, <3>1, <3>2, <3>3, <3>4
  <2> QED BY <1>5, <2>1, <2>2, <2>3, CarveStep
<1>6. CASE pc[t] = "take" /\ a = arena[t]
  <2> DEFINE i == FindAllocation(allocations[a], ArenaBase(a), buffer[t])
  <2>1. Take(t)
    BY <1>6 DEF Worker, Allocate, Lock, Scan, NoRoom, CarveAndRecord, Compute, Deallocate, Insert
  <2>2. /\ FreeAfterCall(a)' = Reclaimed(free[a], allocations[a][i])
        /\ allocations'[a] = SwapRemove(allocations[a], i)
    BY <1>6, <2>1, TakeStep
  <2>3. /\ mapped /\ i \in 1 .. Len(allocations[a])
        /\ DOMAIN allocations[a] = 1 .. Len(allocations[a])
        /\ Reclaimed(free[a], allocations[a][i]) \in Seq(Block)
        /\ Partition(Reclaimed(free[a], allocations[a][i]),
                     SwapRemove(allocations[a], i), ArenaBytes)
    BY <1>6, TakeFacts
  <2> HIDE DEF i
  <2>4. \A k \in DOMAIN SwapRemove(allocations[a], i) :
          \E j \in 1 .. Len(allocations[a]) :
            j # i /\ SwapRemove(allocations[a], i)[k] = allocations[a][j]
    BY <1>3, <2>3, SwapRemoveEntries
  <2> QED BY <1>3, <2>2, <2>3, <2>4
<1> QED BY <1>4, <1>5, <1>6, QuietLists

\* Entries and bytes of an arena: an entry ends within the arena, so its pointer
\* is in the address range of its arena and of no other.
LEMMA PointerInArena ==
    ASSUME IInv, NEW a \in Arenas, NEW i \in DOMAIN allocations[a]
    PROVE  /\ a \in Nat /\ allocations[a][i].offset \in Nat
           /\ allocations[a][i].offset + Bytes <= ArenaBytes
           /\ ArenaBase(a) \in Nat /\ Pointer(a, i) \in Nat
           /\ ArenaBase(a) <= Pointer(a, i)
           /\ Pointer(a, i) + Bytes <= ArenaBase(a) + ArenaBytes
           /\ Pointer(a, i) < ArenaBase(a) + ArenaBytes
<1>1. a \in Nat /\ ArenaBase(a) \in Nat
  BY ArenaInAddressSpace DEF IInv, TypeOK
<1>2. /\ allocations[a] \in Seq(Block) /\ FreeAfterCall(a) \in Seq(Block)
      /\ CoalescedList(FreeAfterCall(a)) /\ NonEmpty(allocations[a])
      /\ ByteWise(FreeAfterCall(a), allocations[a], ArenaBytes)
      /\ allocations[a][i].size = Bytes
  BY ListTypes DEF IInv, ListsInv, Partition
<1>3. BlockEnd(allocations[a][i]) <= ArenaBytes
  BY <1>2, PartitionByteWise, ConstantTypes
<1>4. /\ allocations[a][i].offset \in Nat
      /\ BlockEnd(allocations[a][i]) = allocations[a][i].offset + Bytes
  BY <1>2, BlockFacts
<1> QED BY <1>1, <1>3, <1>4, ConstantTypes DEF Pointer

\* Two entries with the same pointer are the same entry.
LEMMA PointersDiffer ==
    ASSUME IInv, NEW a \in Arenas, NEW i \in DOMAIN allocations[a],
           NEW b \in Arenas, NEW j \in DOMAIN allocations[b],
           Pointer(a, i) = Pointer(b, j)
    PROVE  a = b /\ i = j
<1>1. /\ a \in Nat /\ b \in Nat /\ Pointer(a, i) \in Nat
      /\ ArenaBase(a) <= Pointer(a, i) /\ Pointer(a, i) < ArenaBase(a) + ArenaBytes
      /\ ArenaBase(b) <= Pointer(a, i) /\ Pointer(a, i) < ArenaBase(b) + ArenaBytes
      /\ ArenaBase(a) \in Nat
      /\ allocations[a][i].offset \in Nat /\ allocations[b][j].offset \in Nat
  BY PointerInArena
<1>2. a = b
  BY ONLY <1>1, OneArenaHolds
<1>3. allocations[a][i].offset = allocations[a][j].offset
  BY <1>1, <1>2 DEF Pointer
<1>4. /\ allocations[a] \in Seq(Block) /\ NonEmpty(allocations[a])
      /\ Separate(allocations[a]) /\ DOMAIN allocations[a] = 1 .. Len(allocations[a])
  BY ListTypes, BlockFacts DEF IInv, ListsInv, Partition
<1>5. i \in 1 .. Len(allocations[a]) /\ j \in 1 .. Len(allocations[a])
  BY <1>2, <1>4
<1> QED BY ONLY <1>2, <1>3, <1>4, <1>5, OffsetsDiffer

LEMMA HoldersNext ==
    ASSUME IInv, NEW t \in Threads, Worker(t)
    PROVE  HoldersInv'
<1>1. TypeOK /\ HoldersInv /\ WorkerInv(t) /\ Arenas' = Arenas
  BY Frame DEF IInv, platform, WorkersInv, Arenas
<1> DEFINE Next_(a, i) == ArenaBase(a) + allocations'[a][i].offset
<1>2. SUFFICES
        /\ \A u \in Threads : buffer'[u] # Null =>
             \E a \in Arenas : \E i \in DOMAIN allocations'[a] : buffer'[u] = Next_(a, i)
        /\ \A a \in Arenas : \A i \in DOMAIN allocations'[a] :
             \E u \in Threads : buffer'[u] = Next_(a, i)
        /\ \A u, v \in Threads : buffer'[u] = buffer'[v] /\ buffer'[u] # Null => u = v
  BY <1>1 DEF HoldersInv, Pointer
<1>3. /\ \A u \in Threads : buffer[u] # Null =>
           \E a \in Arenas : \E i \in DOMAIN allocations[a] : buffer[u] = Pointer(a, i)
      /\ \A a \in Arenas : \A i \in DOMAIN allocations[a] :
           \E u \in Threads : buffer[u] = Pointer(a, i)
      /\ \A u, v \in Threads : buffer[u] = buffer[v] /\ buffer[u] # Null => u = v
  BY <1>1 DEF HoldersInv
<1>4. CASE buffer' = buffer /\ \A a \in Arenas : allocations'[a] = allocations[a]
  BY <1>3, <1>4 DEF Pointer
<1>5. CASE CarveAndRecord(t)
  <2> DEFINE a     == arena[t]
             start == AlignedOffset(ArenaBase(a), free[a][found[t]].offset, Alignment)
             run   == [offset |-> start, size |-> Bytes]
             old   == allocations[a]
  <2>1. /\ pc[t] = "carve" /\ a \in Arenas /\ run \in Block
        /\ start \in Nat /\ start + Bytes <= ArenaBytes
        /\ \A j \in DOMAIN old : Disjoint(old[j], run)
    <3>1. pc[t] = "carve"
      BY <1>5 DEF CarveAndRecord
    <3> QED BY <3>1, CarveFacts
  <2>2. CASE allocations' = allocations /\ buffer' = buffer
    BY <1>4, <2>2
  <2>3. CASE /\ allocations' = [allocations EXCEPT ![a] = Append(@, run)]
             /\ allocations'[a] = Append(old, run)
             /\ buffer' = [buffer EXCEPT ![t] = ArenaBase(a) + start]
    <3>1. run.offset = start /\ BlockEnd(run) = start + Bytes
      BY DEF BlockEnd
    <3> HIDE DEF run, start
    <3>2. /\ old \in Seq(Block) /\ DOMAIN old = 1 .. Len(old)
      BY <1>1, <2>1, ListTypes, BlockFacts
    <3>3. /\ DOMAIN allocations'[a] = 1 .. Len(old) + 1
          /\ \A j \in 1 .. Len(old) : allocations'[a][j] = old[j]
          /\ allocations'[a][Len(old) + 1] = run
          /\ \A j \in 1 .. Len(old) + 1 : j \in 1 .. Len(old) \/ j = Len(old) + 1
          /\ 1 .. Len(old) \subseteq 1 .. Len(old) + 1 /\ Len(old) + 1 \in 1 .. Len(old) + 1
      BY <2>1, <2>3, <3>2, AppendEntries
    <3>4. \A b \in Arenas : b # a => allocations'[b] = allocations[b]
      BY <1>1, <2>3 DEF TypeOK
    <3>5. /\ buffer'[t] = ArenaBase(a) + start /\ buffer[t] = Null
          /\ \A u \in Threads : u # t => buffer'[u] = buffer[u]
      BY <1>1, <2>1, <2>3 DEF TypeOK, WorkerInv
    <3>6. ArenaBase(a) \in Nat /\ a \in Nat /\ ArenaBase(a) + start \in Nat
      BY <1>1, <2>1, ArenaInAddressSpace DEF TypeOK
    <3>7. ASSUME NEW b \in Arenas, NEW j \in DOMAIN allocations[b]
          PROVE  /\ j \in DOMAIN allocations'[b] /\ Next_(b, j) = Pointer(b, j)
                 /\ Pointer(b, j) # ArenaBase(a) + start
      <4>1. j \in DOMAIN allocations'[b] /\ allocations'[b][j] = allocations[b][j]
        BY <3>2, <3>3, <3>4
      <4>2. Pointer(b, j) # ArenaBase(a) + start
        <5>1. SUFFICES ASSUME Pointer(b, j) = ArenaBase(a) + start PROVE FALSE
          OBVIOUS
        <5>2. /\ b \in Nat /\ Pointer(b, j) \in Nat /\ allocations[b][j].offset \in Nat
              /\ ArenaBase(b) <= Pointer(b, j)
              /\ Pointer(b, j) < ArenaBase(b) + ArenaBytes
          BY PointerInArena
        <5>3. ArenaBase(a) <= Pointer(b, j) /\ Pointer(b, j) < ArenaBase(a) + ArenaBytes
          BY <2>1, <3>6, <5>1, ConstantTypes
        <5>4. b = a
          BY ONLY <3>6, <5>2, <5>3, OneArenaHolds
        <5>5. old[j].offset = start
          BY <2>1, <3>6, <5>1, <5>2, <5>4 DEF Pointer
        <5>6. Disjoint(old[j], run) /\ BlockEnd(old[j]) = start + Bytes
          BY <2>1, <5>4, <5>5 DEF BlockEnd, IInv, ListsInv
        <5> QED BY <2>1, <3>1, <5>5, <5>6, ConstantTypes DEF Disjoint
      <4> QED BY <4>1, <4>2 DEF Pointer
    <3>8. ASSUME NEW u \in Threads, buffer'[u] # Null
          PROVE  \E b \in Arenas : \E i \in DOMAIN allocations'[b] : buffer'[u] = Next_(b, i)
      <4>1. CASE u = t
        BY <2>1, <3>1, <3>3, <3>5, <4>1
      <4>2. CASE u # t
        BY <1>3, <3>5, <3>7, <3>8, <4>2
      <4> QED BY <4>1, <4>2
    <3>9. ASSUME NEW b \in Arenas, NEW i \in DOMAIN allocations'[b]
          PROVE  \E u \in Threads : buffer'[u] = Next_(b, i)
      <4>1. CASE b = a /\ i = Len(old) + 1
        BY <3>1, <3>3, <3>5, <4>1
      <4>2. CASE i \in DOMAIN allocations[b]
        <5>1. PICK u \in Threads : buffer[u] = Pointer(b, i)
          BY <1>3, <4>2
        <5>2. u # t
          BY <3>5, <4>2, <5>1, PointerInArena, ConstantTypes
        <5> QED BY <3>5, <3>7, <4>2, <5>1, <5>2
      <4> QED BY <3>2, <3>3, <3>4, <3>9, <4>1, <4>2
    <3>10. ASSUME NEW u \in Threads, NEW v \in Threads, buffer'[u] = buffer'[v],
                  buffer'[u] # Null
           PROVE  u = v
      <4>1. \A w \in Threads : w # t /\ buffer'[w] # Null => buffer'[w] # buffer'[t]
        BY <1>3, <3>5, <3>7
      <4>2. CASE u = t \/ v = t
        BY <3>10, <4>1, <4>2
      <4>3. CASE u # t /\ v # t
        BY <1>3, <3>5, <3>10, <4>3
      <4> QED BY <4>2, <4>3
    <3> QED BY <3>8, <3>9, <3>10
  <2> QED BY <1>5, <2>1, <2>2, <2>3, CarveStep
<1>6. CASE Take(t)
  <2> DEFINE a == arena[t]
             i == FindAllocation(allocations[a], ArenaBase(a), buffer[t])
             old == allocations[a]
  <2>1. /\ pc[t] = "take" /\ a \in Arenas /\ i \in 1 .. Len(old)
        /\ DOMAIN old = 1 .. Len(old) /\ buffer[t] = Pointer(a, i)
    <3>1. pc[t] = "take"
      BY <1>6 DEF Take
    <3> QED BY <3>1, TakeFacts
  <2>2. /\ allocations' = [allocations EXCEPT ![a] = SwapRemove(@, i)]
        /\ allocations'[a] = SwapRemove(old, i)
        /\ buffer' = [buffer EXCEPT ![t] = Null]
    BY <1>6, <2>1, TakeStep
  <2> HIDE DEF i
  <2>3. /\ \A k \in DOMAIN allocations'[a] :
             \E j \in DOMAIN old : j # i /\ allocations'[a][k] = old[j]
        /\ \A j \in DOMAIN old :
             j # i => \E k \in DOMAIN allocations'[a] : allocations'[a][k] = old[j]
    <3>1. old \in Seq(Block)
      BY <1>1, <2>1, ListTypes
    <3>2. /\ \A k \in DOMAIN SwapRemove(old, i) :
               \E j \in 1 .. Len(old) : j # i /\ SwapRemove(old, i)[k] = old[j]
          /\ \A j \in 1 .. Len(old) :
               j # i => \E k \in DOMAIN SwapRemove(old, i) : SwapRemove(old, i)[k] = old[j]
      BY <2>1, <3>1, SwapRemoveEntries
    <3>3. allocations'[a] = SwapRemove(old, i) /\ DOMAIN old = 1 .. Len(old)
      BY <2>1, <2>2
    <3> HIDE DEF a, old
    <3> QED BY ONLY <3>2, <3>3
  <2>4. \A b \in Arenas : b # a => allocations'[b] = allocations[b]
    BY <1>1, <2>2 DEF TypeOK
  <2>5. /\ buffer'[t] = Null /\ buffer[t] # Null
        /\ \A u \in Threads : u # t => buffer'[u] = buffer[u]
    BY <1>1, <2>1, <2>2 DEF TypeOK, WorkerInv
  <2>6. ASSUME NEW u \in Threads, buffer'[u] # Null
        PROVE  \E b \in Arenas : \E k \in DOMAIN allocations'[b] : buffer'[u] = Next_(b, k)
    <3>1. u # t /\ buffer'[u] = buffer[u]
      BY <2>5, <2>6
    <3>2. PICK b \in Arenas : \E j \in DOMAIN allocations[b] : buffer[u] = Pointer(b, j)
      BY <1>3, <2>6, <3>1
    <3>3. PICK j \in DOMAIN allocations[b] : buffer[u] = Pointer(b, j)
      BY <3>2
    <3>4. ~ (b = a /\ j = i)
      BY <1>3, <2>1, <2>5, <3>1, <3>3
    <3>5. \E k \in DOMAIN allocations'[b] : allocations'[b][k] = allocations[b][j]
      BY <2>3, <2>4, <3>4
    <3> QED BY <3>1, <3>3, <3>5 DEF Pointer
  <2>7. ASSUME NEW b \in Arenas, NEW k \in DOMAIN allocations'[b]
        PROVE  \E u \in Threads : buffer'[u] = Next_(b, k)
    <3>1. PICK j \in DOMAIN allocations[b] :
            allocations'[b][k] = allocations[b][j] /\ ~ (b = a /\ j = i)
      BY <2>3, <2>4
    <3>2. PICK u \in Threads : buffer[u] = Pointer(b, j)
      BY <1>3
    <3>3. i \in DOMAIN allocations[a]
      BY <2>1
    <3>4. u # t
      BY <2>1, <3>1, <3>2, <3>3, PointersDiffer
    <3> QED BY <2>5, <3>1, <3>2, <3>4 DEF Pointer
  <2>8. ASSUME NEW u \in Threads, NEW v \in Threads, buffer'[u] = buffer'[v],
               buffer'[u] # Null
        PROVE  u = v
    BY <1>3, <2>5, <2>8
  <2> QED BY <2>6, <2>7, <2>8
<1>7. CASE pc[t] \notin {"carve", "take"}
  <2>1. \A a \in Arenas : allocations'[a] = allocations[a]
    BY <1>7, QuietLists
  <2>2. buffer' = buffer
    <3>1. CASE Deallocate(t)
      <4>1. ArenasHolding(buffer[t]) # {}
        BY <3>1, DeallocateFacts DEF Deallocate
      <4> QED BY <3>1, <4>1 DEF Deallocate
    <3>2. CASE ~ Deallocate(t)
      BY <1>7, <3>2 DEF Worker, Allocate, Lock, Scan, NoRoom, CarveAndRecord, Compute,
                        Take, Insert, locals
    <3> QED BY <3>1, <3>2
  <2> QED BY <1>4, <2>1, <2>2
<1>8. pc[t] = "carve" => CarveAndRecord(t)
  BY DEF Worker, Allocate, Lock, Scan, NoRoom, Compute, Deallocate, Take, Insert
<1>9. pc[t] = "take" => Take(t)
  BY DEF Worker, Allocate, Lock, Scan, NoRoom, CarveAndRecord, Compute, Deallocate, Insert
<1> QED BY <1>5, <1>6, <1>7, <1>8, <1>9

LEMMA StutterInv == IInv /\ UNCHANGED vars => IInv'
<1> SUFFICES ASSUME IInv, UNCHANGED vars PROVE IInv'
  OBVIOUS
<1> USE DEF vars, platform, lists, locals
<1>1. TypeOK'
  BY DEF IInv, TypeOK, Arenas
<1>2. WorkersInv'
  BY DEF IInv, WorkersInv, WorkerInv, Arenas, Searched
<1>3. MutexInv'
  BY DEF IInv, MutexInv, Arenas
<1>4. ListsInv'
  <2>1. \A a : FreeAfterCall(a)' = FreeAfterCall(a)
    BY DEF FreeAfterCall
  <2> QED BY <2>1 DEF IInv, ListsInv, Arenas
<1>5. HoldersInv'
  BY DEF IInv, HoldersInv, Arenas, Pointer
<1> QED BY <1>1, <1>2, <1>3, <1>4, <1>5 DEF IInv

\* Inductiveness: wherever the workers are, on whichever CPUs.
THEOREM Invariance == Spec => []IInv
<1>1. ASSUME IInv, [Next]_vars  PROVE IInv'
  <2>1. CASE UNCHANGED vars
    BY <1>1, <2>1, StutterInv
  <2>2. CASE Finished
    BY <1>1, <2>2, StutterInv DEF Finished
  <2>3. ASSUME NEW t \in Threads, Worker(t)  PROVE IInv'
    <3>1. WorkersInv'
      <4>1. ASSUME NEW u \in Threads  PROVE WorkerInv(u)'
        BY <1>1, <2>3, OwnWorker, OtherWorkers
      <4> QED BY <4>1 DEF WorkersInv
    <3> QED BY <1>1, <2>3, <3>1, TypeNext, MutexNext, ListsNext, HoldersNext DEF IInv
  <2> QED BY <1>1, <2>1, <2>2, <2>3 DEF Next
<1> QED BY <1>1, InitInv, PTL DEF Spec

\* The variables keep their types.
THEOREM TypeCorrectness == Spec => []TypeOK
<1>1. IInv => TypeOK
  BY DEF IInv
<1> QED BY <1>1, Invariance, PTL

\* Two workers never compute in the same bytes of TCM: the mutex makes search
\* and carving one, a partition gives no byte twice, and arenas are apart.
THEOREM ScratchPrivateAlways == Spec => []ScratchPrivate
<1>1. IInv => ScratchPrivate
  <2>1. SUFFICES ASSUME IInv, NEW t \in Threads, NEW u \in Threads, t # u,
                        buffer[t] # Null, buffer[u] # Null
                 PROVE  buffer[t] + Bytes <= buffer[u] \/ buffer[u] + Bytes <= buffer[t]
    BY DEF ScratchPrivate
  <2>2. PICK a \in Arenas : \E i \in DOMAIN allocations[a] : buffer[t] = Pointer(a, i)
    BY <2>1 DEF IInv, HoldersInv
  <2>3. PICK i \in DOMAIN allocations[a] : buffer[t] = Pointer(a, i)
    BY <2>2
  <2>4. PICK b \in Arenas : \E j \in DOMAIN allocations[b] : buffer[u] = Pointer(b, j)
    BY <2>1 DEF IInv, HoldersInv
  <2>5. PICK j \in DOMAIN allocations[b] : buffer[u] = Pointer(b, j)
    BY <2>4
  <2>6. /\ a \in Nat /\ ArenaBase(a) \in Nat /\ buffer[t] \in Nat
        /\ allocations[a][i].offset \in Nat
        /\ ArenaBase(a) <= buffer[t] /\ buffer[t] + Bytes <= ArenaBase(a) + ArenaBytes
    BY <2>1, <2>3, PointerInArena
  <2>7. /\ b \in Nat /\ ArenaBase(b) \in Nat /\ buffer[u] \in Nat
        /\ allocations[b][j].offset \in Nat
        /\ ArenaBase(b) <= buffer[u] /\ buffer[u] + Bytes <= ArenaBase(b) + ArenaBytes
    BY <2>1, <2>5, PointerInArena
  <2>8. CASE a = b
    <3>1. i # j
      BY <2>1, <2>3, <2>5, <2>8 DEF IInv, HoldersInv
    <3>2. Disjoint(allocations[a][i], allocations[a][j])
      BY <2>1, <2>8, <3>1 DEF IInv, ListsInv, Partition, Separate
    <3>3. allocations[a][i].size = Bytes /\ allocations[a][j].size = Bytes
      BY <2>1, <2>8 DEF IInv, ListsInv
    <3> QED BY <2>3, <2>5, <2>6, <2>7, <2>8, <3>2, <3>3, ConstantTypes
            DEF Disjoint, BlockEnd, Pointer
  <2>9. CASE a < b
    <3>1. ArenaBase(a) + ArenaBytes <= ArenaBase(b)
      BY <2>6, <2>7, <2>9, ArenasApart
    <3> QED BY <2>6, <2>7, <3>1, ConstantTypes
  <2>10. CASE b < a
    <3>1. ArenaBase(b) + ArenaBytes <= ArenaBase(a)
      BY <2>6, <2>7, <2>10, ArenasApart
    <3> QED BY <2>6, <2>7, <3>1, ConstantTypes
  <2> QED BY <2>6, <2>7, <2>8, <2>9, <2>10
<1> QED BY <1>1, Invariance, PTL

\* The entries of an arena's table are the buffers the workers hold in it.
THEOREM HoldersMatchTableAlways == Spec => []HoldersMatchTable
<1>1. IInv => HoldersMatchTable
  <2>1. SUFFICES ASSUME IInv, NEW a \in Arenas
                 PROVE  /\ \A i \in DOMAIN allocations[a] :
                             \E t \in Threads : buffer[t] = Pointer(a, i)
                        /\ Len(allocations[a]) =
                             Cardinality({t \in Threads :
                               buffer[t] # Null /\ a \in ArenasHolding(buffer[t])})
    BY DEF HoldersMatchTable, Pointer
  <2>2. \A i \in DOMAIN allocations[a] : \E t \in Threads : buffer[t] = Pointer(a, i)
    BY <2>1 DEF IInv, HoldersInv
  <2> DEFINE H == {t \in Threads : buffer[t] # Null /\ a \in ArenasHolding(buffer[t])}
             n == Len(allocations[a])
             holder == [i \in 1 .. n |-> CHOOSE t \in Threads : buffer[t] = Pointer(a, i)]
  <2>3. n \in Nat /\ DOMAIN allocations[a] = 1 .. n
    BY <2>1, ListTypes, BlockFacts DEF IInv
  <2>4. \A i \in 1 .. n : holder[i] \in Threads /\ buffer[holder[i]] = Pointer(a, i)
    BY <2>2, <2>3
  <2> HIDE DEF holder, n
  <2>5. ASSUME NEW i \in 1 .. n  PROVE holder[i] \in H
    <3>1. /\ Pointer(a, i) \in Nat /\ ArenaBase(a) \in Nat
          /\ ArenaBase(a) <= Pointer(a, i) /\ Pointer(a, i) < ArenaBase(a) + ArenaBytes
      BY <2>1, <2>3, PointerInArena
    <3>2. mapped
      <4>1. allocations[a] # <<>>
        BY <2>3
      <4> QED BY <2>1, <4>1 DEF IInv, ListsInv
    <3>3. a \in ArenasHolding(Pointer(a, i))
      <4>1. (ArenaBase(a) + ArenaBytes) % AddressLimit = ArenaBase(a) + ArenaBytes
        BY <2>1, ArenaEnd DEF IInv, TypeOK
      <4> QED BY <3>1, <3>2, <4>1 DEF ArenasHolding
    <3> QED BY <2>4, <3>1, <3>3, ConstantTypes
  <2>6. ASSUME NEW i \in 1 .. n, NEW j \in 1 .. n, holder[i] = holder[j]  PROVE i = j
    <3>1. Pointer(a, i) = Pointer(a, j)
      BY <2>4, <2>6
    <3> QED BY <2>1, <2>3, <3>1, PointersDiffer
  <2>7. ASSUME NEW t \in H  PROVE \E i \in 1 .. n : holder[i] = t
    <3>1. PICK b \in Arenas : \E j \in DOMAIN allocations[b] : buffer[t] = Pointer(b, j)
      BY <2>1, <2>7 DEF IInv, HoldersInv
    <3>2. PICK j \in DOMAIN allocations[b] : buffer[t] = Pointer(b, j)
      BY <3>1
    <3>3. /\ b \in Nat /\ buffer[t] \in Nat
          /\ ArenaBase(b) <= buffer[t] /\ buffer[t] < ArenaBase(b) + ArenaBytes
      BY <2>1, <3>2, PointerInArena
    <3>4. a \in Nat /\ ArenaBase(a) \in Nat
      BY <2>1, ArenaInAddressSpace DEF IInv, TypeOK
    <3>5. ArenaBase(a) <= buffer[t] /\ buffer[t] < ArenaBase(a) + ArenaBytes
      <4>1. (ArenaBase(a) + ArenaBytes) % AddressLimit = ArenaBase(a) + ArenaBytes
        BY <2>1, ArenaEnd DEF IInv, TypeOK
      <4> QED BY <2>7, <3>3, <3>4, <4>1 DEF ArenasHolding
    <3>6. b = a
      BY ONLY <3>3, <3>4, <3>5, OneArenaHolds
    <3>7. j \in 1 .. n /\ buffer[holder[j]] = buffer[t] /\ holder[j] \in Threads
      BY <2>3, <2>4, <3>2, <3>6
    <3>8. holder[j] = t
      BY <2>1, <2>7, <3>7 DEF IInv, HoldersInv
    <3> QED BY <3>7, <3>8
  <2>8. holder \in [1 .. n -> H]
    BY <2>5 DEF holder
  <2> HIDE DEF H
  <2>9. holder \in Bijection(1 .. n, H)
    BY <2>6, <2>7, <2>8 DEF Bijection, Injection, IsInjective, Surjection
  <2>10. IsFiniteSet(1 .. n) /\ Cardinality(1 .. n) = IF 1 > n THEN 0 ELSE n
    BY <2>3, IntervalFrom1
  <2>11. Cardinality(H) = Cardinality(1 .. n)
    BY <2>9, <2>10, FS_Bijection DEF ExistsBijection
  <2>12. Cardinality(H) = n
    BY <2>3, <2>10, <2>11
  <2> QED BY <2>2, <2>12 DEF H, n
<1> QED BY <1>1, Invariance, PTL

\* Once every worker is done each arena is as reset() left it.
THEOREM ReturnedWholeAlways == Spec => []ReturnedWhole
<1>1. IInv => ReturnedWhole
  <2>1. SUFFICES ASSUME IInv, AllDone, mapped, NEW a \in Arenas
                 PROVE  /\ allocations[a] = <<>>
                        /\ free[a] = <<[offset |-> 0, size |-> ArenaBytes]>>
    BY DEF ReturnedWhole
  <2>2. \A t \in Threads : pc[t] = "tile" /\ buffer[t] = Null
    BY <2>1 DEF AllDone, IInv, WorkersInv, WorkerInv
  <2>3. allocations[a] \in Seq(Block) /\ free[a] \in Seq(Block)
    BY <2>1, ListTypes DEF IInv
  <2>4. allocations[a] = <<>>
    <3>1. ASSUME NEW i \in DOMAIN allocations[a]  PROVE FALSE
      BY <2>1, <2>2, PointerInArena, ConstantTypes DEF IInv, HoldersInv
    <3>2. Len(allocations[a]) \in Nat /\ DOMAIN allocations[a] = 1 .. Len(allocations[a])
      BY <2>3, BlockFacts
    <3>3. ~ (1 \in 1 .. Len(allocations[a]))
      BY <3>1, <3>2
    <3>4. Len(allocations[a]) = 0
      BY ONLY <3>2, <3>3
    <3> QED BY <2>3, <3>4
  <2>5. FreeAfterCall(a) = free[a]
    BY <2>1, <2>2, FreeAfterCallCases DEF IInv
  <2>6. Partition(free[a], <<>>, ArenaBytes)
    BY <2>1, <2>4, <2>5 DEF IInv, ListsInv
  <2> QED BY <2>3, <2>4, <2>6, EmptyTableMeansWhole, ConstantTypes
<1> QED BY <1>1, Invariance, PTL
----------------------------------------------------------------------------
(* Buffers whose size keeps the alignment stay in slots of their size.      *)

Aligned == Bytes % Alignment = 0 /\ \A a \in Arenas : ArenaBase(a) % Alignment = 0

SlotsInv == Aligned => \A a \in Arenas : Slotted(allocations[a], Bytes)

LEMMA SlotsNext ==
    ASSUME IInv, SlotsInv, NEW t \in Threads, Worker(t)
    PROVE  SlotsInv'
<1>1. TypeOK /\ Arenas' = Arenas /\ Aligned' = Aligned
  BY Frame DEF IInv, platform, Arenas, Aligned, ArenaBase
<1>2. SUFFICES ASSUME Aligned, NEW a \in Arenas, Slotted(allocations[a], Bytes)
               PROVE  Slotted(allocations'[a], Bytes)
  BY <1>1 DEF SlotsInv
<1>3. allocations[a] \in Seq(Block) /\ DOMAIN allocations[a] = 1 .. Len(allocations[a])
  BY <1>1, ListTypes, BlockFacts
<1>4. CASE allocations'[a] = allocations[a]
  BY <1>2, <1>4
<1>5. CASE pc[t] = "carve" /\ a = arena[t] /\ allocations'[a] # allocations[a]
  <2> DEFINE start == AlignedOffset(ArenaBase(a), free[a][found[t]].offset, Alignment)
             run   == [offset |-> start, size |-> Bytes]
  <2>1. CarveAndRecord(t)
    BY <1>5 DEF Worker, Allocate, Lock, Scan, NoRoom, Compute, Deallocate, Take, Insert
  <2>2. allocations'[a] = Append(allocations[a], run)
    BY <1>5, <2>1, CarveStep
  <2>3. run \in Block
    BY <1>5, CarveFacts
  <2>4. IsSlot(start, Bytes)
    <3>1. /\ Partition(free[a], allocations[a], ArenaBytes)
          /\ \A j \in DOMAIN allocations[a] : allocations[a][j].size = Bytes
      BY <1>5, FreeUnderMutex DEF Critical, IInv, ListsInv
    <3>2. /\ found[t] = FirstFit(free[a], ArenaBase(a), Bytes, Alignment)
          /\ FirstFit(free[a], ArenaBase(a), Bytes, Alignment) # 0
      BY <1>5 DEF IInv, WorkersInv, WorkerInv, Searched
    <3>3. /\ ArenaBase(a) \in Nat /\ ArenaBase(a) > 0
          /\ ArenaBase(a) + ArenaBytes <= AddressLimit
      BY <1>1, ArenaInAddressSpace DEF TypeOK
    <3>4. free[a] \in Seq(Block)
      BY <1>1, ListTypes
    <3>5. Bytes % Alignment = 0 /\ ArenaBase(a) % Alignment = 0
      BY <1>2 DEF Aligned
    <3>6. found[t] # 0
      BY <3>2
    <3> DEFINE base == ArenaBase(a)
               f    == free[a]
               old  == allocations[a]
               i    == found[t]
    <3> HIDE DEF base, f, old, i
    <3>7. /\ f \in Seq(Block) /\ old \in Seq(Block) /\ Partition(f, old, ArenaBytes)
          /\ base \in Nat /\ base > 0 /\ base + ArenaBytes <= AddressLimit
          /\ base % Alignment = 0 /\ Bytes % Alignment = 0
          /\ Slotted(old, Bytes) /\ \A j \in DOMAIN old : old[j].size = Bytes
          /\ i = FirstFit(f, base, Bytes, Alignment) /\ i # 0
      BY <1>2, <1>3, <3>1, <3>2, <3>3, <3>4, <3>5, <3>6 DEF base, f, old, i
    <3>8. IsSlot(AlignedOffset(base, f[i].offset, Alignment), Bytes)
      BY ONLY <3>7, ConstantTypes, FirstFitIsSlot
    <3> QED BY <3>8 DEF base, f, i
  <2>5. run.offset = start
    OBVIOUS
  <2> HIDE DEF start, run
  <2>6. /\ DOMAIN Append(allocations[a], run) = 1 .. Len(allocations[a]) + 1
        /\ \A j \in 1 .. Len(allocations[a]) :
             Append(allocations[a], run)[j] = allocations[a][j]
        /\ Append(allocations[a], run)[Len(allocations[a]) + 1] = run
        /\ \A j \in 1 .. Len(allocations[a]) + 1 :
             j \in 1 .. Len(allocations[a]) \/ j = Len(allocations[a]) + 1
    BY <1>3, <2>3, AppendEntries
  <2> QED BY <1>2, <1>3, <2>2, <2>4, <2>5, <2>6 DEF Slotted
<1>6. CASE pc[t] = "take" /\ a = arena[t]
  <2> DEFINE i == FindAllocation(allocations[a], ArenaBase(a), buffer[t])
  <2>1. Take(t)
    BY <1>6 DEF Worker, Allocate, Lock, Scan, NoRoom, CarveAndRecord, Compute, Deallocate, Insert
  <2>2. allocations'[a] = SwapRemove(allocations[a], i) /\ i \in 1 .. Len(allocations[a])
    BY <1>6, <2>1, TakeStep, TakeFacts
  <2> HIDE DEF i
  <2>3. \A k \in DOMAIN SwapRemove(allocations[a], i) :
          \E j \in 1 .. Len(allocations[a]) :
            j # i /\ SwapRemove(allocations[a], i)[k] = allocations[a][j]
    BY <1>3, <2>2, SwapRemoveEntries
  <2> QED BY <1>2, <1>3, <2>2, <2>3 DEF Slotted
<1> QED BY <1>4, <1>5, <1>6, QuietLists

\* A worker is sent to its stack only when every slot of the arena is taken.
THEOREM ExhaustedMeansFullAlways == Spec => []ExhaustedMeansFull
<1>1. Init => SlotsInv
  BY DEF Init, SlotsInv, Slotted
<1>2. ASSUME IInv, SlotsInv, [Next]_vars  PROVE SlotsInv'
  <2>1. CASE UNCHANGED vars \/ Finished
    BY <1>2, <2>1 DEF Finished, SlotsInv, Aligned, Arenas, ArenaBase, vars, platform, lists
  <2> QED BY <1>2, <2>1, SlotsNext DEF Next
<1>3. ASSUME IInv, SlotsInv  PROVE ExhaustedMeansFull
  <2>1. SUFFICES ASSUME Aligned, NEW t \in Threads, pc[t] = "no_room",
                        Len(allocations[arena[t]]) # MaxAllocations
                 PROVE  ArenaBytes < (Len(allocations[arena[t]]) + 1) * Bytes
    BY DEF ExhaustedMeansFull, Aligned
  <2> DEFINE a == arena[t]
  <2>2. /\ a \in Arenas /\ Partition(free[a], allocations[a], ArenaBytes)
        /\ \A j \in DOMAIN allocations[a] : allocations[a][j].size = Bytes
    BY <1>3, <2>1, FreeUnderMutex DEF Critical, IInv, ListsInv
  <2>3. FirstFit(free[a], ArenaBase(a), Bytes, Alignment) = 0
    BY <1>3, <2>1 DEF IInv, WorkersInv, WorkerInv, Searched
  <2>4. /\ ArenaBase(a) \in Nat /\ ArenaBase(a) > 0
        /\ ArenaBase(a) + ArenaBytes <= AddressLimit
        /\ free[a] \in Seq(Block) /\ allocations[a] \in Seq(Block)
    BY <1>3, <2>2, ArenaInAddressSpace, ListTypes DEF IInv, TypeOK
  <2>5. /\ Bytes % Alignment = 0 /\ ArenaBase(a) % Alignment = 0
        /\ Slotted(allocations[a], Bytes)
    BY <1>3, <2>1, <2>2 DEF Aligned, SlotsInv
  <2> HIDE DEF a
  <2>6. ArenaBytes < (Len(allocations[a]) + 1) * Bytes
    BY ONLY <2>2, <2>3, <2>4, <2>5, ConstantTypes, NoSlotMeansFull
  <2> QED BY <2>6 DEF a
<1>4. IInv /\ SlotsInv => ExhaustedMeansFull
  BY <1>3
<1>5. IInv /\ SlotsInv /\ [Next]_vars => SlotsInv'
  BY <1>2
<1> QED BY <1>1, <1>4, <1>5, Invariance, PTL DEF Spec
----------------------------------------------------------------------------
(* The arena as TcmArena has it.  The operators of the lists are the same.  *)

LEMMA SameOperators ==
    /\ \A n : Arena!IsPowerOfTwo(n) <=> IsPowerOfTwo(n)
    /\ \A base, offset, alignment :
         Arena!AlignedOffset(base, offset, alignment) = AlignedOffset(base, offset, alignment)
    /\ \A list, i, start, bytes :
         Arena!CarveOverflows(list, i, start, bytes) <=> CarveOverflows(list, i, start, bytes)
    /\ \A list, i, start, bytes :
         Arena!Carve(list, i, start, bytes) = Carve(list, i, start, bytes)
    /\ \A list, i : Arena!SwapRemove(list, i) = SwapRemove(list, i)
<1>1. \A n : Arena!IsPowerOfTwo(n) <=> IsPowerOfTwo(n)
  BY DEF Arena!IsPowerOfTwo, IsPowerOfTwo
<1>2. \A base, offset, alignment :
        Arena!AlignedOffset(base, offset, alignment) = AlignedOffset(base, offset, alignment)
  BY DEF Arena!AlignedOffset, AlignedOffset, Arena!AlignUp, AlignUp
<1>3. \A list, i, start, bytes :
        Arena!CarveOverflows(list, i, start, bytes) <=> CarveOverflows(list, i, start, bytes)
  BY DEF Arena!CarveOverflows, CarveOverflows, Arena!BlockEnd, BlockEnd,
         Arena!MaxFreeBlocks, MaxFreeBlocks
<1>4. \A s, i, e : Arena!InsertAt(s, i, e) = InsertAt(s, i, e)
  BY DEF Arena!InsertAt, InsertAt
<1>5. \A s, i, e : Arena!ReplaceAt(s, i, e) = ReplaceAt(s, i, e)
  BY DEF Arena!ReplaceAt, ReplaceAt
<1>6. \A s, i : Arena!RemoveAt(s, i) = RemoveAt(s, i)
  BY DEF Arena!RemoveAt, RemoveAt
<1>7. \A list, i, start, bytes :
        Arena!Carve(list, i, start, bytes) = Carve(list, i, start, bytes)
  BY <1>4, <1>5, <1>6 DEF Arena!Carve, Carve, Arena!BlockEnd, BlockEnd
<1>8. \A list, i : Arena!SwapRemove(list, i) = SwapRemove(list, i)
  BY <1>5 DEF Arena!SwapRemove, SwapRemove, Arena!Front, Front, Arena!Last, Last
<1> QED BY <1>1, <1>2, <1>3, <1>7, <1>8

LEMMA SameSearches ==
    /\ \A list, base, bytes, alignment :
         Arena!FirstFit(list, base, bytes, alignment) = FirstFit(list, base, bytes, alignment)
    /\ \A list, base, pointer :
         Arena!FindAllocation(list, base, pointer) = FindAllocation(list, base, pointer)
    /\ \A list, returned :
         Arena!InsertPosition(list, returned) = InsertPosition(list, returned)
<1>1. \A S : Arena!Min(S) = Min(S)
  BY DEF Arena!Min, Min
<1>2. \A b, start, bytes : Arena!Fits(b, start, bytes) <=> Fits(b, start, bytes)
  BY DEF Arena!Fits, Fits
<1>3. \A list, base, bytes, alignment :
        Arena!FirstFit(list, base, bytes, alignment) = FirstFit(list, base, bytes, alignment)
  <2> TAKE list, base, bytes, alignment
  <2>1. {i \in 1 .. Len(list) :
           Arena!Fits(list[i], Arena!AlignedOffset(base, list[i].offset, alignment), bytes)}
        = {i \in 1 .. Len(list) :
             Fits(list[i], AlignedOffset(base, list[i].offset, alignment), bytes)}
    BY <1>2, SameOperators
  <2> QED BY <1>1, <2>1 DEF Arena!FirstFit, FirstFit, Arena!SelectInSeq, SelectInSeq
<1>4. \A list, base, pointer :
        Arena!FindAllocation(list, base, pointer) = FindAllocation(list, base, pointer)
  BY <1>1 DEF Arena!FindAllocation, FindAllocation, Arena!SelectInSeq, SelectInSeq
<1>5. \A list, returned :
        Arena!InsertPosition(list, returned) = InsertPosition(list, returned)
  BY <1>1 DEF Arena!InsertPosition, InsertPosition, Arena!SelectInSeq, SelectInSeq
<1> QED BY <1>3, <1>4, <1>5

LEMMA SameInsertFreeBlock ==
    /\ Arena!MaxFreeBlocks = MaxFreeBlocks
    /\ \A list, returned :
         Arena!InsertFreeBlock(list, returned) = InsertFreeBlock(list, returned)
<1>1. \A s, i, e : Arena!InsertAt(s, i, e) = InsertAt(s, i, e)
  BY DEF Arena!InsertAt, InsertAt
<1>2. \A s, i, e : Arena!ReplaceAt(s, i, e) = ReplaceAt(s, i, e)
  BY DEF Arena!ReplaceAt, ReplaceAt
<1>3. \A s, i : Arena!RemoveAt(s, i) = RemoveAt(s, i)
  BY DEF Arena!RemoveAt, RemoveAt
<1>4. \A list, i : Arena!Touch(list, i) <=> Touch(list, i)
  BY DEF Arena!Touch, Touch, Arena!BlockEnd, BlockEnd
<1>5. \A list, i : Arena!Merge(list, i) = Merge(list, i)
  BY <1>2, <1>3 DEF Arena!Merge, Merge
<1>6. \A list, i : Arena!Coalesce(list, i) = Coalesce(list, i)
  BY <1>4, <1>5 DEF Arena!Coalesce, Coalesce
<1>7. \A list, returned :
        Arena!InsertFreeBlock(list, returned) = InsertFreeBlock(list, returned)
  BY <1>1, <1>4, <1>6, SameSearches DEF Arena!InsertFreeBlock, InsertFreeBlock
<1> QED BY <1>7 DEF Arena!MaxFreeBlocks, MaxFreeBlocks

LEMMA SameActions ==
    /\ \A bytes, alignment :
         Arena!Rejected(bytes, alignment)
           <=> \/ bytes = 0
               \/ ~ IsPowerOfTwo(alignment)
               \/ bytes > ArenaBytes
               \/ Len(allocations[Observed]) = MaxAllocations
    /\ \A bytes, alignment, pointer :
         Arena!Answer(bytes, alignment, pointer)
           = [bytes |-> bytes, alignment |-> alignment, pointer |-> pointer]
    /\ \A returned :
         Arena!Reclaim(returned) = Reclaimed(FreeAfterCall(Observed), returned)
BY SameOperators, SameInsertFreeBlock
   DEF Arena!Rejected, Arena!Answer, Arena!Reclaim, Reclaimed

\* A worker's step is a call on the observed arena, or leaves it as it is.
LEMMA StepIsCall ==
    ASSUME IInv, NEW t \in Threads, Worker(t), Observed \in Arenas
    PROVE  [Arena!Next]_(Arena!vars)
<1> DEFINE a == Observed
           f == FreeAfterCall(a)
<1>1. TypeOK /\ WorkerInv(t) /\ MutexInv
  BY DEF IInv, WorkersInv
<1>2. ASSUME Arena!AllocateRejected(Bytes, Alignment) \/ Arena!Allocate(Bytes, Alignment)
      PROVE  Arena!Next
  BY <1>2 DEF Arena!Next
<1>3. CASE pc[t] = "carve" /\ a = arena[t]
  <2> DEFINE start == AlignedOffset(ArenaBase(a), free[a][found[t]].offset, Alignment)
             run   == [offset |-> start, size |-> Bytes]
  <2>1. CarveAndRecord(t)
    BY <1>3 DEF Worker, Allocate, Lock, Scan, NoRoom, Compute, Deallocate, Take, Insert
  <2>2. f = free[a] /\ found[t] = FirstFit(f, ArenaBase(a), Bytes, Alignment) /\ found[t] # 0
    BY <1>1, <1>3, FreeUnderMutex DEF WorkerInv, Searched, Critical
  <2>3. ~ Arena!Rejected(Bytes, Alignment)
    <3>1. start \in Nat /\ start + Bytes <= ArenaBytes
      BY <1>3, CarveFacts
    <3>2. ~ (Bytes > ArenaBytes)
      <4> HIDE DEF start
      <4> QED BY <3>1, ConstantTypes
    <3>3. Len(allocations[a]) # MaxAllocations
      BY <1>1, <1>3 DEF WorkerInv
    <3> QED BY <3>2, <3>3, ConstantTypes, SameActions
  <2>4. /\ Arena!FirstFit(f, ArenaBase(a), Bytes, Alignment) = found[t]
        /\ Arena!AlignedOffset(ArenaBase(a), f[found[t]].offset, Alignment) = start
    BY <2>2, SameSearches, SameOperators
  <2>5. \/ /\ CarveOverflows(free[a], found[t], start, Bytes)
           /\ f' = free[a] /\ allocations' = allocations
           /\ answer'[a] = Answer(Null)
        \/ /\ ~ CarveOverflows(free[a], found[t], start, Bytes)
           /\ f' = Carve(free[a], found[t], start, Bytes)
           /\ allocations'[a] = Append(allocations[a], run)
           /\ answer'[a] = Answer(ArenaBase(a) + start)
    BY <1>3, <2>1, CarveStep
  <2> HIDE DEF start, f
  <2>6. Arena!Allocate(Bytes, Alignment)
    BY <2>2, <2>3, <2>4, <2>5, SameOperators, SameActions
       DEF Arena!Allocate, Answer, f
  <2> QED BY <1>2, <2>6
<1>4. CASE pc[t] = "no_room" /\ a = arena[t]
  <2>1. NoRoom(t)
    BY <1>4 DEF Worker, Allocate, Lock, Scan, CarveAndRecord, Compute, Deallocate, Take, Insert
  <2>2. f' = f /\ allocations'[a] = allocations[a]
    BY <1>4, QuietLists
  <2>3. answer'[a] = Answer(Null)
    BY <1>1, <1>4, <2>1 DEF NoRoom, TypeOK
  <2>4. f = free[a]
    BY <1>4, FreeUnderMutex DEF Critical
  <2>5. CASE Arena!Rejected(Bytes, Alignment)
    BY <1>2, <2>2, <2>3, <2>5, SameActions DEF Arena!AllocateRejected, Answer
  <2>6. CASE ~ Arena!Rejected(Bytes, Alignment)
    <3>1. Arena!FirstFit(f, ArenaBase(a), Bytes, Alignment) = 0
      BY <1>1, <1>4, <2>4, <2>6, SameActions, SameSearches DEF WorkerInv, Searched
    <3> QED BY <1>2, <2>2, <2>3, <2>6, <3>1, SameActions DEF Arena!Allocate, Answer
  <2> QED BY <2>5, <2>6
<1>5. CASE pc[t] = "take" /\ a = arena[t]
  <2> DEFINE i == FindAllocation(allocations[a], ArenaBase(a), buffer[t])
  <2>1. Take(t)
    BY <1>5 DEF Worker, Allocate, Lock, Scan, NoRoom, CarveAndRecord, Compute, Deallocate, Insert
  <2>2. /\ f = free[a] /\ f' = Reclaimed(free[a], allocations[a][i])
        /\ allocations'[a] = SwapRemove(allocations[a], i)
        /\ answer' = answer
    BY <1>5, <2>1, TakeStep
  <2>3. i # 0
    BY <1>5, TakeFacts
  <2>4. /\ buffer[t] # Null
        /\ buffer[t] \in ArenaBase(a) .. ArenaBase(a) + ArenaBytes - 1
    <3>1. /\ buffer[t] # Null /\ buffer[t] \in Nat /\ ArenaBase(a) \in Nat
          /\ ArenaBase(a) <= buffer[t] /\ buffer[t] < ArenaBase(a) + ArenaBytes
      BY <1>1, <1>5, ArenaInAddressSpace DEF WorkerInv, TypeOK
    <3> QED BY <3>1, ConstantTypes
  <2>end. /\ ArenaBase(a) <= buffer[t]
          /\ buffer[t] < (ArenaBase(a) + ArenaBytes) % AddressLimit
    <3>1. /\ ArenaBase(a) <= buffer[t] /\ buffer[t] < ArenaBase(a) + ArenaBytes
      BY <1>1, <1>5 DEF WorkerInv
    <3>2. (ArenaBase(a) + ArenaBytes) % AddressLimit = ArenaBase(a) + ArenaBytes
      BY <1>1, <1>5, ArenaEnd DEF TypeOK
    <3> QED BY <3>1, <3>2
  <2>5. Arena!FindAllocation(allocations[a], ArenaBase(a), buffer[t]) = i
    BY SameSearches
  <2> HIDE DEF i, f
  <2>6. Arena!Deallocate(buffer[t])
    BY <2>2, <2>3, <2>4, <2>end, <2>5, SameActions, SameOperators DEF Arena!Deallocate, f
  <2> QED BY <2>4, <2>6 DEF Arena!Next
<1>6. CASE ~ (pc[t] \in {"carve", "no_room", "take"} /\ a = arena[t])
  <2>1. f' = f /\ allocations'[a] = allocations[a]
    BY <1>6, QuietLists
  <2>2. answer'[a] = answer[a]
    <3>1. CASE mutex[a] # t
      BY <3>1, Frame
    <3>2. CASE mutex[a] = t
      <4>1. pc[t] \notin {"carve", "no_room", "take"}
        BY <1>1, <1>6, <3>2, ConstantTypes DEF MutexInv
      <4>2. answer' = answer
        BY <4>1 DEF Worker, Allocate, Lock, Scan, NoRoom, CarveAndRecord, Compute, Deallocate,
                    Take, Insert
      <4> QED BY <4>2
    <3> QED BY <3>1, <3>2
  <2> QED BY <2>1, <2>2 DEF Arena!vars
<1> QED BY <1>3, <1>4, <1>5, <1>6

\* Whatever the workers do between taking and releasing the mutex of an arena,
\* the arena behaves as if each call on it were one step.
THEOREM Implementation == Spec => ImplementsArena
<1>1. Init => (Observed \in Arenas => Arena!Init)
  BY DEF Init, Arena!Init, Arena!Answer, FreeAfterCall
<1>2. ASSUME IInv, [Next]_vars, Observed \in Arenas  PROVE [Arena!Next]_(Arena!vars)
  <2>1. CASE UNCHANGED vars \/ Finished
    <3>1. UNCHANGED vars
      BY <2>1 DEF Finished
    <3>2. FreeAfterCall(Observed)' = FreeAfterCall(Observed)
      BY <3>1 DEF FreeAfterCall, vars, platform, lists, locals
    <3> QED BY <3>1, <3>2 DEF Arena!vars, vars, lists
  <2> QED BY <1>2, <2>1, StepIsCall DEF Next
<1>3. IInv /\ [Next]_vars => (Observed \in Arenas => [Arena!Next]_(Arena!vars))
  BY <1>2
<1> QED BY <1>1, <1>3, Invariance, PTL DEF Spec, ImplementsArena
============================================================================
