# A verification development of qgemm-perf-framework-ng

This directory holds TLA+ models of the repository's own control logic, TLC
runs that check them on small instances, and theorems about them whose proofs
TLAPS checks.  `PROJECT.json` is the index: which definition models which lines
(`map`), which run checks which properties, which faulty variant of the code
breaks each of them (`mutants`), and which hazards of the code the properties
are aimed at.

    tlc -workers 2 -config MCTcmArena.cfg MCTcmArena      # one run
    tlapm ArenaAndTileProofs.tla                          # one proof module

## 1. The system

`pfng_perf_run` is a micro-benchmark for quantised GEMM kernels on SpacemiT
RISC-V boards.  Around it are stand-alone machine benchmarks for the boards, a
script that builds, copies and runs the program remotely, and a Python tool that
stores and compares baselines.

| part | state | operations | behaviour that is hard |
|---|---|---|---|
| TCM arena (`kernels/common/tcm_arena.cpp`) | per arena a sorted free list, a table of live allocations, a mutex; for the process the mapping and a once flag | `initialize`, `allocate`, `deallocate` | fragmentation, list limits, addresses that wrap, concurrent callers that move between CPUs, a failed mapping |
| Benchmark runner (`bench/framework/benchmark.cpp`) | the result being built, the kernel's opaque state | `run_benchmark` | the order of prepare, verify, warm up, calibrate and sample; every error path must destroy the state and leave a message |
| Perf event group (`bench/perf.h`) | an fd per event | `open`, `start`, `stop_and_read`, `close_all`, move | partial failure of `open`; groups that compete for counters |
| Driver (`bench/main.cpp`) | the argument loop's request, the input in memory, the failed flag | `main` | options that come again or stand alone, the order of the checks, one input for several kernels, the exit status over many kernels |
| Kernel registry, platform detection | the table of kernels; the platform found | `register_kernel`, `find_kernel`, `platform_supports` | duplicates, ambiguous detection |
| Kernel adapters (`kernels/*/implementations/*/adapter.cpp`) | packed operands, the output, a scratch buffer in TCM or on the stack | `prepare`, `run`, `destroy` | parallel loops over tiles, phases that read what others wrote, short panels, chunks and batches, buffers nobody clears |
| Micro kernels (`kernel.cpp` beside the adapters) | registers, a component buffer | one call per tile | packing, dot products, stores and unpacking must agree lane by lane; sums of 16 bits |
| Machine benchmarks (`machine-benchmarks/spacemit-k3-a100/`) | a spin barrier, one result per worker, buffers in TCM and in memory | worker loops, sample loops, mapping and unmapping | reuse of the barrier, workers that fail early, windows that do not overlap, TCM that is only partly to be had |
| Remote test script (`compile-and-test.sh`) | a remote directory, the exit status | build, copy, run, clean up | a failing step must still clean up |
| Performance tool (`tools/pfng_perf/pfng_perf.py`) | stored baselines | compare, record | partial writes, incompatible baselines |

How they interact: `main` calls `initialize` of the TCM once and then
`run_benchmark` for each selected kernel; that calls the adapter through a table
of function pointers and brackets it with the perf event group.  The adapters'
OpenMP workers share packed operands and outputs and call `allocate` and
`deallocate` on the arenas concurrently.  The machine benchmarks are programs of
their own; their threads share a barrier and an array of results.

What makes each part correct is listed with its module below.  The full list of
components, with what is modelled of each, is in `PROJECT.json`; the hazards
there name the lines where each can go wrong.

## 2. Modules

    TcmFreeList --- TcmArena --- RegionAllocator      (TcmArena refines RegionAllocator)
         \------- TcmManager --- TcmManagerArena      (TcmManager refines one TcmArena per arena)
    SpinBarrier --- BarrierContract                   (SpinBarrier refines BarrierContract)
         MeasureRun --/                               (MeasureRun uses the contract as its barrier)
    TcmBandwidth                                      (the main thread around such workers)
    CommandLine --- BenchRun                          (the driver: arguments, then kernels)
    CacheBlockedGemm                                  (parallel loops, tiles as values)
    BatchGemm --- KernelSequence --- OuterProductGemm (two kernels on one set of arenas)
    ImeTile   RvvTile                                 (one worker; chunks and lanes)

`MC*.tla` and `MC*.cfg` instantiate them.  Definitions whose comment begins with
`Fault:` are plausible bugs; they are used by nothing but the mutants.

### The TCM allocator

`TcmFreeList` has the list algorithms as operators: `FirstFit`, `Carve` (the four
cases of `allocate_from`), `InsertFreeBlock` (position, merge with the
predecessor, merge with the successor, drop when the list is full),
`FindAllocation` and `SwapRemove`.  Addresses wrap at `AddressLimit` as
`uintptr_t` does: in `align_up` (by masking), in the difference of two addresses and
in the end of an arena, `begin + bytes`.

`TcmArena` is one arena used by one thread.  `Allocate` is `allocate` followed
by `allocate_from`, with its early returns in order; `Deallocate` is `deallocate`.
`result` keeps the last answer.  `RegionAllocator` says the same without lists:
a grant is an aligned range disjoint from the live ones, a denial means there is
no such range or no table entry, a release ends a range or does nothing.

`TcmManager` is the process: `Arenas` of the A60 (one, shared) or the A100 (one
per CPU), a mutex for each, and OpenMP workers that take a buffer per tile,
compute, and give it back, as the RR and m8b adapters do.  The calls are several
steps: `Allocate` reads the CPU, `Lock`, `Scan`, `CarveAndRecord` or `NoRoom`,
and `Deallocate`, `Lock`, `Take`, `Insert`.  A worker may be on another CPU each
time it asks, so the arena it allocates from next is not the one it frees to.
The mapping may have failed in `Init`.

`TcmManagerArena` looks at one arena, the constant `Observed`, through the mapping
of a refinement: the arena's lists are `TcmArena`'s, with a block counted as
returned from the moment its entry is out of the table.  Nothing else depends on
`Observed`, so what holds of it holds of every arena.

### The barrier and its users

`SpinBarrier` is `arrive_and_wait`, which seven programs copy: one action for each access to
an atomic.  The generation counter wraps at `GenerationLimit` (2^32 or 2^64 in
the code; two in the run, the hardest case).  The atomics are modelled as
sequentially consistent.  That is what the code's orders give here: the release
`fetch_add` on `generation` and the acquire load that leaves the loop order the
relaxed reset of `count` before any later use of it.

`MeasureRun` is a point of the programs that time several workers, with the
barrier of `BarrierContract`: a worker pins itself, maps, opens its two
counters, warms up, waits, measures, waits, releases.  Each step may fail,
`open()` after its first descriptor, the start of the counters, the reading.
A measurement is four steps: the clock is read (`ReadBegin`), the counters are
started, they are stopped after the kernel, the clock is read again (`ReadEnd`);
the workers' steps interleave between any two of them.  A program is a record of
`Programs`: whether its worker maps a `buffer`, how often it `waits`, whether it is
`tidy` (one that failed unmaps like any other, and counters that do not start
skip the kernel), and whether a sample needs an `overlap` of the windows and
counters that ran all the time (`share`):

| `program` | file | a worker that failed | accepts |
|---|---|---|---|
| `ProgramBandwidth` | `k3_bandwidth_diagnose` | goes on with `prepared = false` | all workers in order, overlapping windows |
| `ProgramPmu` | `k3_pmu_diagnose` | the same | all workers in order; there is no clock |
| `ProgramPath`, `ProgramLoadSharing` | `k3_path_bandwidth`, `k3_load_sharing` | waits twice and returns | all workers in order, overlapping windows |
| `ProgramMem` | `k3_mem_bandwidth` | waits twice and returns | any reading that succeeded: counters that ran part of the time, or were never started, only mark the line `[pmu]`; the overlap is printed |
| `ProgramScaling` | `k3_scaling` | waits once and returns | all workers in order; no buffer and no second wait |
| `ProgramTcm` | `k3_tcm_bandwidth` | waits twice and returns | all workers in order; the buffers are the main thread's, and a poor overlap is marked, not refused |

`QuietMeasurement` and `AcceptedMeansTogether` say of each program what it can
promise: with one wait, counters are closed while others still measure; without
the test of the share, an accepted worker may have counted part of the time or
nothing at all.

`TcmBandwidth` is `k3_tcm_bandwidth.cpp` from its options to its last `munmap`:
TCM by one mapping that is cut in slices or block by block until one fails,
ordinary memory for comparison, every case with every list of CPUs, skipped
when it needs more blocks than there are, several samples of a point of which
one is kept, and the release.  What the workers do between the barriers is
`MeasureRun`; here a sample is rejected or has an overlap and two rates.  The
kernels are the offsets that they load.  `WorkersReadTheirOwn` is stated for all
lists of A100 CPUs in any order.  `needed` is computed from the last CPU of the
list alone (line 546), so a worker whose CPU is larger than that and whose block does
not exist is given one past the end of `blocks`: with `--cpus 12,8` and fewer than five
blocks the worker on CPU 12 reads `blocks[4]`.  The property says that this happens to
those workers (`BeyondNeeded`) and to no others.  The page that
`--req-id` maps (line 399) is in `mapped` and not among what the end unmaps, as in
the code: `ReleasedOnce` says that it is all that is left.

### The benchmark runner

`CommandLine` is `main` up to its loops: the argument loop one option at a
time (`IsCut`: an option that wants a value takes the next word, whatever it is),
each parser with what it refuses, then the modes that print and leave,
the platform check against the Device Tree, the completeness of the shape and
the search for the kernel asked for, in the code's order.  Texts are strings
and their meaning (a number, a list split at commas, `raw:NAME:CONFIG`) is a
constant function; sizes are decimal (`NumberOf`), the configuration of a raw event is a
number of any base (`RawNumbers`).  `RunsAsAsked` compares what is run with a reading of the
whole command line at once: the last value of every option, all event lists
together, the default list only without one.

`BenchRun` extends it with `main`'s two loops and `run_benchmark` in full, one
action for each stage between two calls that can fail, with `at` naming the
stage.  The input is created per type and shape (`CreatedInput`); a kernel of another
platform is an error (`kernel_supports_platform`), and a kernel
refuses shapes it was not written for (`validate_shape`).  `open` is the
set of perf groups that exist, `content` whether the output was reset or touched
last, and `window` what has happened while the counters were enabled.  Resetting,
starting, running and reading are actions of their own, each with its effect on
both, so that their order is checked and not assumed.  `times` are the two times of the
group since it was opened: `PERF_EVENT_IOC_RESET` clears the counts and leaves the
times, so the 99 % test of a sample (`RanEnough`) is about it and all samples before
it.  Output elements are classed by how they compare to the
reference (`exact`, off by one tolerance, off by both, NaN); times and cycle
counts come from small sets.  Timing statistics, random inputs and formatting are
left out.

### The GEMM kernels

A sum of block products is the *sequence* of its terms in the order of the
additions, because floating-point addition is not associative.  A tile of an
operand is named by its coordinates, so the product of two wrong blocks is never
mistaken for the right one.

`CacheBlockedGemm` is `prepare` and `run` of m4i-CB, m8b-CB and m8b-DPU-CB with
their address arithmetic: K panels, chunks of M tiles limited by a byte budget,
a parallel loop over N in each chunk, parallel loops to expand B and to copy C
out.  A worker fills, loads and stores a tile in separate steps, so a tile that
two workers touched would lose additions.

`BatchGemm` is the m8b kernel with batched reduction (smt-ime1 and smt-ime2):
components of up to `kRedBatchSize` blocks wait in a buffer that no one clears
and that comes from the TCM or from the stack.  `OuterProductGemm` is the RR
adapter: chunks of M tiles, resident weights, activation scales loaded by groups.
It assumes that `kMTilesPerChunk` is a multiple of the group, as 128 is of 8; no
assertion in the code states this, so the module does (`OuterProductGemmAssumption`).

`KernelSequence` runs them one after the other on the same arenas, as `main`
does: each finds what the other left in the buffers.

`ImeTile` goes down to the register lane for nine matrix-unit kernels (m4b,
m4i, m8b, m8b-DPU, m4n32b, m32n4, m8b for smt-ime2, RR, and the upstream
kernel of the A60 for four rows): where `prepare` puts each
chunk of K, which registers an iteration multiplies, where each lane is stored
(the masked stores from a base that is pulled back), which scales a stored
position is multiplied by, which output cell it becomes, when a batch is
flushed, and whether a call continues from what the output holds.  `vmadot` is
external: lane `r * width + c` gets the product of row chunk `r` and column
chunk `c`.  A chunk (8 or 16 K values that one `vmadot` takes together) is the
unit; the order of the bytes inside it is not modelled.  Parallel tile loops run
in order here, since each tile is a call's own; the interleavings are the business
of the three modules above.

`RvvTile` does the same for the vector kernels: Q4_0 (`my`, `group`, `upstream`),
Q4_K (`my`, `group`, `upstream` with 256 and with 128 bits), IQ2_XXS (`my-br`,
`my-ir`, `upstream`), and for the upstream matrix-unit kernel of the A100.  The
lanes of a vector are columns and never mix, so the initial state chooses
a row and a lane and the run goes through all of them.  A packed operand is given by the place
where `prepare` puts a value and the place where the kernel reads it; a value is
named by where `llama_reference` finds it.  The two branches of the upstream Q4_K
kernel unpack their scales and minima each in its own way, in C words (`Utmp4`) and in
the assembly's vector registers (`Utmp128`).  The reads of a subblock, its scale,
its minimum and its sum of activations are each compared with those of the
reference; blocks are then added in the order of the loops, and the width of the
16 bit sums is kept (`Wrap16`).

## 3. Runs

| run | bounds | shows |
|---|---|---|
| `tcm_arena` | 7 bytes at odd address 7, address space of 16, 3 table entries; requests 0, 1, 2, 3, 7, 8; alignments 0 to 4 | `Coalesced`, `NoOverlap`, `NothingLost`, `FreeListBounded`, `NoFalseExhaustion`, and that the arena refines `RegionAllocator` |
| `tcm_manager` | 3 workers with 4 tiles, one arena (A60) or two (A100), each with room for two buffers, CPUs below, in and above the TCM range | `ScratchPrivate`, `HoldersMatchTable`, `ReturnedWhole`, `ExhaustedMeansFull`, `ImplementsArena` (arena 0 refines `TcmArena` under its mutex; the arenas differ only in their base), `WorkersFinish` |
| `spin_barrier` | 4 threads, 5 waits, 2 generation values | `NoEarlyLeave`, `NoGenerationReuse`, refinement of `BarrierContract`, `EveryonePasses` |
| `measure` | 3 workers, 2 samples, failures anywhere, all programs | `QuietMeasurement`, `AcceptedMeansTogether`, `NobodyLeftBehind`, `EverySampleEnds` |
| `tcm_bandwidth` | all eight blocks and fewer, 3 samples with two values for each rate, the default lists of CPUs and five others, ascending and not; with and without `--req-id` | `WorkersReadTheirOwn`, `BestIsReported`, `ReleasedOnce` |
| `bench_run` | command lines of all options alone, in pairs and behind a shape, 3 Device Trees; 3 kernels in 2 of 3 types, 0, 1 or 2 fixed repetitions, 1, 2 or 10 samples, any call failing | `RunsAsAsked`, `InputIsComplete`, `TimedRunIsPure`, `NothingHeld`, `FiguresAreSound`, `ExitTellsAll`, `Terminates` |
| `bench_nan` | 1 kernel | a violation, see the findings |
| `gemm` | 3 x 4 tiles, 5 blocks, 3 workers, 2 iterations, two adapters | `OneWriter`, `PartialSums`, `OutputIsProduct`, `RunEnds` |
| `kernel_sequence` | 7 x 3 tiles, 2 blocks, chunks of 4, groups of 2, then 3 x 2 tiles, 3 blocks, batch of 2; 2 workers, 1 TCM buffer, 2 iterations each | `ProductsAreRight`, `BuffersReturned` |
| `ime_tile` | all 9 kernels, 2 x 2 tiles, 1 block and one more than a batch or a call takes, 2 iterations | `OutputIsProduct`, `PendingComponents` |
| `rvv_tile` | all 11 kernels and branches, every row and lane, 2 x 2 tiles, 3 blocks, 2 iterations | `OutputIsProduct`, `SumsAreExact` |
| `rvv_tile_sums` | the five kernels that `SumsAreExact` leaves out, one block | a violation, see the findings |

Why the bounds are enough to be interesting:

- *Arena.*  The odd base makes prefixes for alignments 2 and 4; the arena ends so
  near the top of the address space that `align_up` wraps; three entries leave
  every shape of free list the four cases of carving and merging can meet
  (a gap before, between and after two live ranges), and fill the table.
- *Manager.*  Three workers are one more than fits in an arena of the run, and
  one of them has two tiles, so that a worker that was refused asks again.
  CPUs outside the range have no arena.
- *Barrier.*  Five waits go round the two generation values more than twice.
- *Runner.*  Kernel types with two, none and one kernel; a failure can precede
  or follow a pass; the target of 4 cycles is above, equal to and below multiples
  of the elapsed counts, which include zero;
  a sample is enabled all the time it runs, 98 % of it or never, so that with ten
  samples a short one is hidden by full ones, and with two it is not.
- *Measurement.*  Three workers are the fewest of which one can fail, one be late
  and one measure; the second sample shows what the first one leaves behind.
- *TCM bandwidth.*  Sizes and numbers of CPUs and blocks are the code's own; two
  values of a rate and three samples make every order of better, equal and worse.
- *Command lines.*  An option can meet itself, any other one, and the end of the
  line; every parser gets a text it takes and one it refuses.
- *GEMM.*  Workers have unequal shares; last panels, chunks, batches and scale
  groups are short; two iterations show what is left over from the first.  In
  one adapter the chunks of the short last panel are longer than those of a full one.
- *RvvTile.*  Formats, tile shapes and lane counts are the code's own.  Three blocks
  are a full panel and a short one for the kernel with panels of K, scaled to two
  blocks.
- *ImeTile.*  Register widths, tile shapes, batches (8 and 32) and depths (8 and
  16) are the code's own; the K depths to run are one block and one more than the
  kernel's batch or panel; only `MC` of m4n32b and `kNc` of m32n4 are scaled
  to one tile, so that the loops around them go round twice.

Deadlock is checked in every run; finished systems stutter explicitly.

### Fairness

Liveness is checked under weak fairness of each worker and of the main thread.
Workers are OpenMP or pthread threads that the operating system keeps scheduling
(the machine benchmarks pin each to a CPU of its own), and no callback or system
call they make blocks for ever.  The runner has one thread: `WF_vars(Next)`.  In
`tcm_manager` a worker waiting for a mutex has only weak fairness too; the
property holds because each of finitely many tiles takes each mutex at most
twice.

### Findings

`bench_nan`: an output element that is NaN passes the verification
(`benchmark.cpp:149`).  Both comparisons with the tolerances are false for a NaN,
so `main` prints `verify: PASS`.  `FiguresAreSound` therefore says only that no
element off by both tolerances passes.

`rvv_tile_sums`: five kernels add the 32 products of a subblock in 16 bits
(`q4_K-q8_K-RVV-my/.../kernel.cpp:62`; `-group`, the 256 bit branch of
`-upstream`, and both tile kernels of IQ2_XXS likewise).  32 products of 15 and
127 are 60960; the reference adds in 32 bits.  The benchmark's random inputs stay
far from that, so verification passes.  `SumsAreExact` holds for all the others.

`k3_tcm_bandwidth.cpp:546` has no run of its own, because `WorkersReadTheirOwn` states it in a
passing one, and its theorem for all arguments: the number of blocks that a point is said
to need (`:541`) is right for lists that end with their largest CPU and too small for
others, whose workers then read past the blocks.

Observed, modelled, and not findings since nothing in the repository says otherwise: a
worker of `k3_path_bandwidth`, `k3_mem_bandwidth` and `k3_load_sharing` whose counters
do not open keeps its buffer mapped (`NobodyLeftBehind` asks for unmapped buffers of
`tidy` programs only); `k3_mem_bandwidth` accepts a sample whose counters never started
(`AcceptedMeansTogether`); the page of `--req-id` is never unmapped (`ReleasedOnce`); a
short sample can pass the 99 % test behind full ones (`FiguresAreSound`).  Observed and
not modelled: `m8b-DPU-CB` allocates in a `noexcept` function, where a failed allocation
ends the process.

## 4. Proofs

| module | theorems |
|---|---|
| `ArenaAndTileProofs` | of `TcmArena`: `TypeCorrectness`, `CoalescedAlways`, `NoOverlapAlways`, `NothingLostAlways`, `FreeListBoundedAlways`, `NoFalseExhaustionAlways`, `Implementation`; of `ImeTile`: `ImeOutputAlways`, `ImePendingAlways` |
| `TcmManagerProofs` | `TypeCorrectness`, `ScratchPrivateAlways`, `HoldersMatchTableAlways`, `ReturnedWholeAlways`, `ExhaustedMeansFullAlways`, `Implementation` |
| `MachineBenchmarkProofs` | of `SpinBarrier`: `TypeCorrectness`, `NoEarlyLeaveAlways`, `NoGenerationReuseAlways`, `Implementation`; of `TcmBandwidth`: `WorkersReadTheirOwnAlways`, `BestIsReportedAlways`, `ReleasedOnceAlways` |
| `WorkerProofs` | of `MeasureRun`: `QuietMeasurementAlways`, `AcceptedMeansTogetherAlways`, `NobodyLeftBehindAlways`; of `RvvTile`: `TileOutputAlways`, `SumsAreExactAlways`, `SumsWrapAlways` |
| `BenchRunProofs` | `TypeCorrectness`, `TimedRunIsPureAlways`, `NothingHeldAlways`, `FiguresAreSoundAlways`, `InputIsCompleteAlways`, `RunsAsAskedAlways`, `ExitTellsAllAlways` |
| `CacheBlockedGemmProofs` | `InductiveInvariant`, `OneWriterAlways`, `PartialSumsAlways`, `OutputIsProductAlways` |
| `KernelSequenceProofs` | `InductiveInvariant`, `ProductsAreRightAlways`, `BuffersReturnedAlways` |
| `TcmFreeListProofs` | lemmas on sequences, on what each list operator keeps, and on free blocks and allocations that partition an arena |

*Arena.*  For every base, size, table limit, set of requests, alignments and
pointers allowed by `TcmArenaAssumption` (the arena is not empty and ends
below `AddressLimit`, so that its end does not wrap).  None of the properties is inductive alone:
that the entry `InsertFreeBlock` adds fits between its neighbours needs that
live ranges and free blocks are disjoint; that a list has room for a split needs
that the gaps are no more than the live allocations plus one, which needs that
the gaps are maximal.  The invariant `IInv` is the type invariant together with
`Coalesced`, `NoOverlap`, `NothingLost` and the bound on the table: free blocks and
live allocations partition the arena, and the free list is coalesced.  `TcmFreeListProofs` shows for each operator what it
keeps: `MergeKeeps` and `InsertInGapProperties` for the return of a block,
`CarveProperties` for the four cases of carving.  `GapsNeedAllocations` counts: each gap between two free blocks begins with an
allocation of its own.  `FreeListBoundedAlways` is what makes the two fallbacks
of the code for a full list unreachable, and with that `NothingLostAlways` true.

`NoFalseExhaustionAlways` needs that an unallocated run lies in *one* free block (the
list is coalesced) and that `align_up` of that block's start is no later than the
aligned run (`FirstFitFindsRoom`); the wrap of `align_up` past the top of the
address space is excluded by the run itself.  With it a denial is justified, and
`Implementation` maps each call to `Grant`, `Deny`, `Release` or a stutter of
`RegionAllocator`.

*Manager.*  For any finite set of workers, any set of CPUs, any map of tiles, and
the arena counts and addresses of `TcmManagerAssumption` (the arenas fit below
`AddressLimit`).  A worker's call is several steps, so the invariant says for every
label what may be relied on there.  `WorkersInv`: between `Lock` and its end a
call holds the mutex of its arena, and at `carve` the index found is still what
the search of the *current* list gives.  `MutexInv`: a mutex is held only by the
worker that is inside.  `ListsInv`: each arena, with a block being returned
counted as free, is a partition of its bytes, and all entries have the size of a
buffer; this is where the lemmas of the single arena are used again.
`HoldersInv`: buffers and table entries correspond one to one.  Disjointness of
buffers follows from the partition in one arena and from the arithmetic of the
bases between two.  `HoldersMatchTable` also counts, so it goes through a bijection
from indices to workers.  `ExhaustedMeansFullAlways` adds `SlotsInv`, under the
property's own condition on alignment: all allocations begin at multiples of
`Bytes`, so an arena of which no slot is free is full.  `Implementation` proves
`ImplementsArena` for an arbitrary arena: `CarveAndRecord` and `NoRoom` are the
whole of `TcmArena`'s `Allocate`, `Take` its `Deallocate`, all other steps stutter.

*Barrier.*  For every finite non-empty set of threads, number of waits, and two or more
generation values (`SpinBarrierAssumption`).  `IInv` adds two things to the types.
`Phase(p)`: all threads are in or around the `p`-th wait, nobody is more than one
wait ahead, and those still spinning in the previous one hold the previous
generation.  `Counting`: `count` is the number of threads that wait, except
between the reset and the advance.  `NoEarlyLeave` and `NoGenerationReuse` follow
from the phase; `Implementation` maps each step to `Arrive`, `Leave` or a stutter
of the contract, with `Leave` enabled because of the phase.

*Measurement.*  For any finite non-empty set of workers and any positive number of
samples (`MeasureRunAssumption`), and all programs.  `WaitsInv` gives for each stage
the waits begun and finished, `BarrierInv` is the barrier's promise (nobody is
through a wait that somebody has not reached): together they keep workers of
different phases apart, which is `QuietMeasurement`.  `ResultInv` says what a worker
holds and has measured at each stage, that it is in order only with a reading
its program accepts (`Fine`), and that an end of a window is in the past.
`TogetherInv` is the reason why the programs' test of the windows suffices: when the
last window that begins does so, every other worker whose window reaches past that
moment is between its two readings of the clock.  It would be false with a clock of each
worker's own.

*TCM bandwidth.*  For any arguments of `--span`, `--blocks` and `--cpus`, any positive number
of samples and any positive rates (`TcmBandwidthAssumption`; a rate is a positive number
of bytes over a positive time).  `OptionsInv` keeps what the argument loop has let through.
`MemoryInv` says what is mapped at each stage, and that block `i` of the vector is
region `i` of TCM, owned if it was mapped by itself: after a failed mapping the vector
is a prefix, and only a complete one passes `CheckBlocks`.  It needs the same of a mapping
that was cut, whose number of slices replaces `nblocks`.  `UnmapsOnce` follows: the two
loops and the span at the end reach every mapped region once (`AnonUnmapsOnce`,
`BlockUnmapsOnce`) and no other, and not the page of `--req-id` (`ReqSet`).  `PointInv` says that the workers were given the
buffers of the point in progress, and that it was not skipped.  `BuffersByKind` turns
`needed <= nblocks` into indices that are in the vector, but for the CPUs of
`BeyondNeeded`, whatever the order of the list; `CaseFacts` goes through the seven cases for what a
kernel loads and how much room it has.  `BestInv` is about the samples so far: the best
one has the largest aggregate of those that overlapped, or the largest sum if none did.
That a rate is positive matters there: the first sample must beat an empty best.

*Runner.*  For any kernels, command lines and Device Trees; `CommandLineAssumption`
and `BenchRunAssumption` say that parsed numbers are natural and that no type is in
the enumeration twice, that an event list has a name in it, and that the command line
is cut as the loop cuts it.  `run_benchmark` is straight-line code that may leave at every
call, so the invariant says for each stage what is open (`HeldInv`), counted
(`TimedInv`) and found (`FiguresInv`, which has that the times add up to a share of 99 %
after each sample kept).  `LoopInv` says which kernels have been
reported when `main`'s loops are at a type: those asked for of all earlier types, and
those of this one that are no longer to do.  A second entry of a type would report
kernels twice, hence the assumption.  `InputIsCompleteAlways` has a hypothesis,
`AsksForWholeBlocks`: every adapter instantiates `validate_shape` with a multiple of
its type's block for K.

The argument loop is proved by an induction over the words it consumes.  `ReadInv`
says that the request, the modes and the event lists built so far are those of
`HeardTo(cursor)`, the reading of the words up to the loop's place; `ReadOption`
extends it by one option, with one lemma for each kind (`HeardFlag`, `HeardKernel`,
`HeardSize`, `HeardEvents`).  `PlacesAppend` is their core: a word behind the prefix
adds a place where an option is said, or none.  A word may also be an option's
value, and look like an option (`--kernel --list`): a command line is therefore cut
in options with their values (`IsCut`), which can be done to any sequence of words,
and in one way only.  The event lists are joined by a recursive function
(`FlattenSeq`), which the library defines by a choice; `Runs`, `RunsUnique` and
`RunsExist` show by an induction on natural numbers that there is one such function,
`FlattenAppend` what it does with one list more.  With the loop read,
`RunsAsAskedAlways` and `ExitTellsAllAlways` speak of the command line itself and no
longer of what the program has stored.

*Cache-blocked kernels.*  For any shape, number of threads and iterations, any panel
length, block size and budget, and both layouts (`CacheBlockedGemmAssumption`: all
of them positive, the budget perhaps 0).  The proof has four layers.  Shares:
`SharesApart` and `SharesCover` say that the static schedule gives every index to
exactly one worker.  Addresses: `PlacesApart` and `PlaceInBuffer` say that no two
blocks of the activations have the same place and that all places are in the buffer,
also for a short last panel, so `PrepareFills` finds at each place `run` reads from
the block it wants; `TilesApart` and `WeightPlaces` say the same of the accumulator
and the weights.  Progress: `Past(n, i)` is that whoever has index `n` is beyond its
inner index `i`.  `Advance` says that a worker's step makes one more tile past,
`ForkStarts` that after a fork none is, `JoinedPast` that after the barrier all are.
Contents: `SumsInv` says of the tiles this panel has reached that they hold one panel
more than the others; `WorkersInv` says what a worker has in registers, `OperandsInv`
what the buffers hold, `CopyInv` what has been copied out.  `OutputIsProduct` is not inductive without
all of them: a tile that was stored twice or not at all would be seen only after
the last panel.

*Vector kernels.*  For the eleven kernels of the code, each selection of them, any
shape, number of blocks, panel lengths and iterations, and every row and lane of a
tile (`RvvTileAssumption`).  There are two halves.  Layouts: an instruction sequence reads a
weight, an activation, a scale, a minimum or a sum at a place computed in the kernel,
`prepare` put it at a place computed in the adapter.  `IndexSplit` divides an index in
the parts that the layouts are built from, a lemma for each kernel (`Reads_...`,
`..._Pairs`) compares the two places, and `ReadsAre`, `IndexOfIs` and `TakenIs` join them to
`DotIsAll`: an inner iteration takes every element of the block exactly once, and each
meets the activation of the same index.  `ScaleIsOwn` and `MinimumIsOwn` say the same of
scales and minima, packed in 6 bits or unpacked.  Loops: `TileInv` says which micro
kernel calls are over (`LoopInv`: exactly those before the current one in the order of
`LoopOrder`), which weights lie unpacked (`PanelInv`: those of this call, or of the
preceding panel until the next is unpacked), what the registers hold (`SumInv`,
`MinimaInv`), and that each tile's output is the sum up to the end of the last panel it was through
(`OutputInv`).  That the short last panel continues where the one before has ended
is `PanelAppended`.  `SumsAreExactAlways` is arithmetic on the extremes: 32 products of 8 and
127 fit in 16 bits, 32 of 15 and 127 or of 43 and 127 do not.  Its hypothesis, that
the kernels listed as wrapping are left out, cannot be dropped: `SumsWrapAlways`
shows that of each kernel on the list the sum does wrap, and of no other.

*Matrix-unit kernels.*  For the nine kernels of the code, each selection of them, any
shape, K depths, loop tiles and number of iterations (`ImeTileAssumption`).  Again
there are two halves.  Tables: a kernel is given by where its packing puts a chunk, which
operands each accumulator takes, where a lane is stored, which cell the position becomes
and whose scales it is multiplied by.  `Collects` says that for one lane these agree: in
inner iteration `i` it takes the chunks `2 * i` and `2 * i + 1` of the row and the column
of the cell it is stored for, and is scaled for that cell.  The packing lemmas (`A4At` to
`Unpacked16At`) find the chunk at an address, for layouts given by their destinations by
showing that no two chunks share one; with them there is a lemma for each kernel's
lanes (`Lanes_...`), and `Tabled` adds that every position and every cell has a lane.
That is the point where the arrangements, different in each kernel, are done with:
the rest is one proof.  Loops: `ImeInv` says which calls are
over, what the lanes hold after `inner` iterations (`DotInv`), that the `count` components
that wait are those of the blocks before `bk` (`PendInv`), that the tile holds all blocks
before those (`SumInv`), and that a tile's output is the sum up to the end of the last
panel it was through (`OutputInv`).  `StoreStep` needs that the lanes cover the tile: a
position that no lane is stored to would keep what an earlier batch left there.
`BeforeOnTile` shows that in each of the loop nests the panels of one tile come in the
order of K, so that a panel resumes from the one before (`Continued`).
`MultipleBelow` and `LastMultiple` say that panels leave no block out.  The first panel does
not resume, except in the kernel that always does: there the invariant says in
addition that a tile nobody has been through in this iteration is empty, because the
adapter clears the output at its beginning.  `PendingComponents` also bounds
`count` by the batch; for m32n4, which has no test of its own in the loop, that is because
its panel is no longer than its batch (`KernelFacts`).

*Kernels that borrow TCM.*  For all shapes, chunk lengths, groups of scales, batches,
threads, iterations and sets of buffers, also the empty one; `RrAssumption` asks that a
chunk is a whole number of groups, as 128 is of 8.  The invariant has a part for each
kernel and one for the buffers, `BuffersInv`, which speaks of the first kernel until
it ends and of the second one then.  `Holders`: a worker at work has its stack or a
granted buffer, no two the same, and everything granted is somebody's.  So what a worker
writes into its buffer is not in another's, and once all workers are through nothing is
granted (`AllReturned`), which is the state the second kernel starts from.  `RrSumsInv` says
that the buffer holds the first `block` terms of each tile of the chunk, whatever it
held before `Clear`; `TermIs` that the micro kernel finds quants, scales and weights
of the same tile and block, where the scales need `MultipleOfMultiple` (a chunk
begins with a group) and `GroupAndLane` (also for an incomplete last group).
`WorkerSums` divides a sum of the second kernel in what has been added and what waits
in the buffer, `count` components of the *last* `count` blocks: whatever lies beyond
them is never read.  `RrPast` and `Past` say which output tiles are final; that
somebody is responsible for each tile is `SharesCover`.

### What is only model-checked

- Liveness (`WorkersFinish`, `EveryonePasses`, `EverySampleEnds`, `Terminates`,
  `RunEnds`): outside the prover's reach.
- What recursive or folded data computes for every input is out of reach; none of
  the modules with theorems declares a RECURSIVE operator.

## 5. Not modelled

- Of the upstream kernels: the A60's wrapper and its kernels for fewer rows, other
  scale strides and floating-point operands, and the branches for zero points and
  bias, which this repository's adapters never reach; the A100's kernels other
  than that of four rows.  `quantize_a_row_i8` is not called: `validate_shape`
  wants a multiple of four rows.
- `register_kernel`, which aborts before `main` on a mistake in an adapter, and the
  model string of the platform.
- The shell script and the performance tool.  Their state is files on two machines
  and child processes; they run one step after the other and clean up in `trap` and
  `finally`.
- The numeric values of kernels, the reference implementation, the data
  generators: floating-point arithmetic; only the order of the additions and the
  verdict of the comparison matter to the models.
- `k3_insn_throughput`, `k3_l1d_peak` and the benchmarks of other boards: loops around
  an assembly block whose state does not outlive an iteration.
- The move operations of `PerfEventGroup`: nothing moves an opened group.
- CMake, the aligned `operator new`, and vendored ggml code.

## 6. Plan

Order of the work, the most important behaviour first.  Done: every module of
section 2; the proofs of section 4.

Models that could follow:

1. `PfngPerf` (`tools/pfng_perf`): profiling on a remote machine, recording and
   comparing baselines; a failure between two steps leaves nothing behind that is
   accepted later.
2. `RemoteRun` (`compile-and-test.sh`): steps, trap and cleanup under a failure of
   any step.

Every safety invariant and every refinement that a passing run checks is proved; a new
module would start with its own.
