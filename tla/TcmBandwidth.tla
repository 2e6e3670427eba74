----------------------------- MODULE TcmBandwidth -----------------------------
(***************************************************************************)
(* k3_tcm_bandwidth.cpp: the main thread maps TCM, by one mapping that it   *)
(* cuts in slices (--span) or block by block (--blocks), and ordinary      *)
(* memory to compare with, gives every worker of a point the buffers of    *)
(* its CPU, takes several samples of the point, keeps the best one, and    *)
(* unmaps everything in the end.  What a worker does between the barriers  *)
(* is MeasureRun; here it is the outcome of a sample.                      *)
(*                                                                         *)
(* Sizes are in KiB.                                                       *)
(***************************************************************************)
EXTENDS Integers, FiniteSets, Sequences, SequencesExt, FiniteSetsExt

CONSTANTS
    SpanArguments,     \* arguments of --span; 0 stands for none
    BlocksArguments,   \* arguments of --blocks
    CpuLists,          \* arguments of --cpus; <<>> stands for none
    samples,           \* the argument of --samples
    Figures            \* the values that a rate can take

ASSUME TcmBandwidthAssumption ==
    /\ samples \in Nat \ {0}
    /\ Figures \subseteq Nat \ {0} /\ Figures # {}
    /\ SpanArguments \subseteq Int /\ BlocksArguments \subseteq Int
    /\ CpuLists \subseteq Seq(Int)

kBlockBytes == 384
kBlocksPerCluster == 4
kBlockCount == 8
kA100Cpus == 8 .. 15

VARIABLES
    span_kb, nblocks, share, with_anon, cpu_override,   \* the options
    req_id,            \* --req-id with a number that is not negative
    pc,                \* where main() is
    code,              \* what it returned
    blocks,            \* the vector of TcmBlock: region and raw_len # 0
    mapped,            \* regions that are mapped
    released,          \* how often each region was passed to munmap()
    point,             \* which case and which configuration
    per_worker,        \* the buffers of every worker
    taken,             \* samples taken of this point
    best,              \* Point best
    rated              \* history: the rates of the samples that were not rejected

options == <<span_kb, share, with_anon, cpu_override, req_id>>
memory == <<blocks, mapped, released>>
measuring == <<point, per_worker, taken, best, rated>>
vars == <<options, nblocks, pc, code, memory, measuring>>

----------------------------------------------------------------------------
(* The kernels: the offsets that one pass loads, one vector of 1 KiB each.  *)

\* READ_FULL: groups of four loads, each followed by an addi.
Full(NGROUP) == [i \in 1 .. 4 * NGROUP |-> i - 1]

f_48k == Full(12)
f_384k == Full(96)

\* Fault: the registers are set up one by one, but the last one is not read.
z_24kShort == [i \in 1 .. 16 * 23 |-> (i - 1) % 23]

\* 24 registers with a base each, read in turn, sixteen times over.
z_24k == [i \in 1 .. 16 * 24 |-> (i - 1) % 24]

\* which: 0 one block of TCM, 1 and 2 ordinary memory of 48 and 384 KiB, 3 and 4
\* the four blocks of a cluster in TCM and in ordinary memory.
Case(fn, fn4, bytes_per_pass, which) ==
    [fn |-> fn, fn4 |-> fn4, bytes_per_pass |-> bytes_per_pass, which |-> which]

\* f_cluster4 calls f_384k for each base.
TcmCases ==
    << Case(f_384k, FALSE, kBlockBytes, 0),
       Case(z_24k, FALSE, 16 * 24, 0),
       Case(f_384k, TRUE, 4 * kBlockBytes, 3) >>

AnonCases ==
    << Case(f_48k, FALSE, 48, 1),
       Case(z_24k, FALSE, 16 * 24, 1),
       Case(f_384k, FALSE, kBlockBytes, 2),
       Case(f_384k, TRUE, 4 * kBlockBytes, 4) >>

AllCases == TcmCases \o AnonCases
CaseCount == IF with_anon THEN Len(AllCases) ELSE Len(TcmCases)
which == AllCases[point.case].which

DefaultConfigs == << <<8>>, <<8, 12>>, <<8, 9, 10, 11>>, <<8, 9, 10, 11, 12, 13, 14, 15>> >>
configs == IF cpu_override = <<>> THEN DefaultConfigs ELSE << cpu_override >>
cpus == configs[point.config]

----------------------------------------------------------------------------
(* Regions of memory, the span and the blocks of TCM by their number.       *)

Tcm(i) == <<"tcm", i>>
Span == <<"span", 0>>
A48(i) == <<"a48", i>>
A384(i) == <<"a384", i>>

\* The page that --req-id writes its number in.
ReqPage == <<"req", 0>>

\* How much of it can be read.
Room(buffer) == IF buffer[1] = "a48" THEN 48 ELSE kBlockBytes

Numbers == 0 .. kBlockCount - 1

Regions == {Span, ReqPage} \union UNION { {Tcm(i), A48(i), A384(i)} : i \in Numbers }

----------------------------------------------------------------------------
(* Options, domain, device.                                                 *)

NoPoint == [ok |-> FALSE, overlap_ok |-> FALSE, aggregate |-> 0, sum |-> 0]

MainInit ==
    /\ span_kb \in SpanArguments /\ nblocks \in BlocksArguments
    /\ span_kb = 0 \/ nblocks = kBlockCount
    /\ share \in BOOLEAN /\ with_anon \in BOOLEAN /\ req_id \in BOOLEAN /\ cpu_override \in CpuLists
    /\ pc = "options" /\ code = 0
    /\ blocks = <<>> /\ mapped = {} /\ released = [region \in Regions |-> 0]
    /\ point = [case |-> 1, config |-> 1]
    /\ per_worker = <<>> /\ taken = 0 /\ best = NoPoint /\ rated = {}

Exit(value) == pc' = "returned" /\ code' = value
GoOn(label) == pc' = label /\ UNCHANGED code

\* The argument loop checks --blocks and --span as it meets them.
Options ==
    /\ pc = "options"
    /\ IF nblocks \notin 1 .. kBlockCount \/ span_kb < 0 \/ span_kb % kBlockBytes # 0
       THEN Exit(2)
       ELSE GoOn("device")
    /\ UNCHANGED <<options, nblocks, memory, measuring>>

\* enter_a100_domain(), open("/dev/tcm"), the page of --req-id.
Device ==
    /\ pc = "device"
    /\ \/ Exit(1) /\ UNCHANGED mapped
       \/ GoOn("allocate") /\ mapped' = mapped \union (IF req_id THEN {ReqPage} ELSE {})
    /\ UNCHANGED <<options, nblocks, blocks, released, measuring>>

----------------------------------------------------------------------------
(* Memory.                                                                  *)

\* One mapping, cut in slices; the blocks do not own their memory.
MapSpan ==
    /\ pc = "allocate" /\ span_kb > 0
    /\ LET slices == span_kb \div kBlockBytes
       IN  IF slices > kBlockCount
           THEN Exit(2) /\ UNCHANGED <<blocks, mapped, nblocks>>
           ELSE \/ Exit(1) /\ UNCHANGED <<blocks, mapped, nblocks>>
                \/ /\ GoOn("check")
                   /\ mapped' = mapped \union {Span}
                   /\ blocks' = [i \in 1 .. slices |-> [base |-> Tcm(i - 1), owned |-> FALSE]]
                   /\ nblocks' = slices
    /\ UNCHANGED <<options, released, measuring>>

\* One mapping for each block, until one fails.
MapBlock ==
    /\ pc = "allocate" /\ span_kb = 0
    /\ \/ GoOn("check") /\ UNCHANGED <<blocks, mapped>>
       \/ /\ Len(blocks) < nblocks
          /\ LET region == Tcm(Len(blocks))
             IN  /\ blocks' = Append(blocks, [base |-> region, owned |-> TRUE])
                 /\ mapped' = mapped \union {region}
          /\ UNCHANGED <<pc, code>>
    /\ UNCHANGED <<options, nblocks, released, measuring>>

CheckBlocks ==
    /\ pc = "check"
    /\ IF Len(blocks) # nblocks
       THEN Exit(1)
       ELSE GoOn(IF with_anon THEN "anon" ELSE "choose")
    /\ UNCHANGED <<options, nblocks, memory, measuring>>

\* alloc_thp(): a small and a large buffer for every CPU.
MapAnon ==
    /\ pc = "anon"
    /\ \/ Exit(1) /\ UNCHANGED mapped
       \/ /\ mapped' = mapped \union UNION { {A48(i), A384(i)} : i \in Numbers }
          /\ GoOn("choose")
    /\ UNCHANGED <<options, nblocks, blocks, released, measuring>>

----------------------------------------------------------------------------
(* The points: every case with every configuration.                         *)

\* Fault: a cluster asks for as many blocks as it has.
NeededForOneCluster ==
    CASE which = 3 -> kBlocksPerCluster
      [] which = 0 -> IF share THEN 1 ELSE Last(cpus) - 8 + 1
      [] OTHER -> 0

needed ==
    CASE which = 3 -> kBlockCount
      [] which = 0 -> IF share THEN 1 ELSE Last(cpus) - 8 + 1
      [] OTHER -> 0

Skipped == needed > nblocks \/ (share /\ which = 3)

\* blocks[i].base; past the vector it is whatever lies there.
BaseOf(i) == IF i \in 0 .. Len(blocks) - 1 THEN blocks[i + 1].base ELSE <<"outside", i>>

first(cpu) == IF cpu <= 11 THEN 0 ELSE kBlocksPerCluster

\* The buffers that the worker on this CPU reads.
BuffersOf(cpu) ==
    LET idx == cpu - 8
    IN  CASE which = 3 -> [k \in 1 .. kBlocksPerCluster |-> BaseOf(first(cpu) + k - 1)]
          [] which = 4 -> [k \in 1 .. kBlocksPerCluster |-> A384(first(cpu) + k - 1)]
          [] which = 0 -> << BaseOf(IF share THEN idx % nblocks ELSE idx) >>
          [] which = 1 -> << A48(idx) >>
          [] which = 2 -> << A384(idx) >>

\* Both loops, the configurations in the cases.
NextPoint ==
    IF point.config < Len(configs)
    THEN pc' = "choose" /\ point' = [point EXCEPT !.config = @ + 1]
    ELSE IF point.case < CaseCount
    THEN pc' = "choose" /\ point' = [case |-> point.case + 1, config |-> 1]
    ELSE pc' = "release" /\ UNCHANGED point

Skip ==
    /\ pc = "choose" /\ Skipped
    /\ NextPoint
    /\ UNCHANGED <<options, nblocks, code, memory, per_worker, taken, best, rated>>

Choose ==
    /\ pc = "choose" /\ ~ Skipped
    /\ per_worker' = [i \in 1 .. Len(cpus) |-> BuffersOf(cpus[i])]
    /\ taken' = 0 /\ best' = NoPoint /\ rated' = {}
    /\ GoOn("sample")
    /\ UNCHANGED <<options, nblocks, memory, point>>

rep(bytes_per_pass) == Max({(256 * 1024) \div bytes_per_pass, 4})

\* The worker's out.bytes, and what its calls load.
Counted == AllCases[point.case].bytes_per_pass * rep(AllCases[point.case].bytes_per_pass)

Loaded(buffers) ==
    LET c == AllCases[point.case]
    IN  (IF c.fn4 THEN Len(buffers) ELSE 1) * Len(c.fn) * rep(c.bytes_per_pass)

\* Some worker failed, was moved or was not counted all the time.
RejectSample ==
    /\ pc = "sample" /\ taken < samples
    /\ taken' = taken + 1
    /\ UNCHANGED <<options, nblocks, pc, code, memory, point, per_worker, best, rated>>

\* Fault: an overlapping sample must beat the best one whatever that is.
BetterAlways(ov_ok, agg, sum) ==
    IF ov_ok THEN agg > best.aggregate ELSE ~ best.overlap_ok /\ sum > best.sum

\* Samples that overlapped go before all others, by their aggregate; the others
\* by the sum of the rates.
Better(ov_ok, agg, sum) ==
    IF ov_ok THEN ~ best.overlap_ok \/ agg > best.aggregate
             ELSE ~ best.overlap_ok /\ sum > best.sum

TakeSample ==
    /\ pc = "sample" /\ taken < samples
    /\ taken' = taken + 1
    /\ \E ov_ok \in BOOLEAN, agg \in Figures, sum \in Figures :
         /\ best' = IF Better(ov_ok, agg, sum)
                    THEN [ok |-> TRUE, overlap_ok |-> ov_ok, aggregate |-> agg, sum |-> sum]
                    ELSE best
         /\ rated' = rated \union { <<ov_ok, agg, sum>> }
    /\ UNCHANGED <<options, nblocks, pc, code, memory, point, per_worker>>

\* The line of the point: invalid, with a star, or without one.
Report ==
    /\ pc = "sample" /\ taken = samples
    /\ NextPoint
    /\ UNCHANGED <<options, nblocks, code, memory, per_worker, taken, best, rated>>

----------------------------------------------------------------------------
(* The end.                                                                 *)

AnonRegions == [i \in 1 .. kBlockCount |-> A48(i - 1)] \o [i \in 1 .. kBlockCount |-> A384(i - 1)]

\* Fault: slices are unmapped like blocks.
AllBlocks == DOMAIN blocks

OwnedBlocks == { i \in DOMAIN blocks : blocks[i].owned }

\* The loop over ordinary memory, the loop over the blocks, and the span.
AnonUnmaps(region) ==
    IF with_anon THEN Cardinality({ i \in DOMAIN AnonRegions : AnonRegions[i] = region }) ELSE 0

BlockUnmaps(region) == Cardinality({ i \in OwnedBlocks : blocks[i].base = region })

\* Fault: the mapping that was cut in slices is forgotten.
NoSpanUnmaps(region) == 0

SpanUnmaps(region) == IF span_kb > 0 /\ region = Span THEN 1 ELSE 0

Unmaps(region) == AnonUnmaps(region) + BlockUnmaps(region) + SpanUnmaps(region)

Release ==
    /\ pc = "release"
    /\ mapped' = { region \in mapped : Unmaps(region) = 0 }
    /\ released' = [region \in Regions |-> released[region] + Unmaps(region)]
    /\ Exit(0)
    /\ UNCHANGED <<options, nblocks, blocks, measuring>>

MainNext ==
    \/ Options \/ Device \/ MapSpan \/ MapBlock \/ CheckBlocks \/ MapAnon
    \/ Skip \/ Choose \/ RejectSample \/ TakeSample \/ Report \/ Release
    \/ pc = "returned" /\ UNCHANGED vars

MainSpec == MainInit /\ [][MainNext]_vars

----------------------------------------------------------------------------
Buffers == UNION { ToSet(per_worker[i]) : i \in DOMAIN per_worker }

IsMapped(buffer) ==
    \/ buffer \in mapped
    \/ buffer[1] = "tcm" /\ Span \in mapped /\ buffer[2] < span_kb \div kBlockBytes

\* The rates are computed from the bytes that the kernels load, and no kernel
\* loads beyond the end of its buffer.
BytesAreLoaded ==
    \A i \in DOMAIN per_worker :
      /\ Loaded(per_worker[i]) = Counted
      /\ \A buffer \in ToSet(per_worker[i]) : IsMapped(buffer) =>
           \A k \in DOMAIN AllCases[point.case].fn : AllCases[point.case].fn[k] < Room(buffer)

\* The CPUs of a point are CPUs of the A100 domain.
OnA100 == ToSet(cpus) \subseteq kA100Cpus

\* The worker on this CPU is given a block that does not exist: `needed` looks at
\* the last CPU of the list alone, and this one is larger than that.
BeyondNeeded(cpu) == which = 0 /\ ~ share /\ cpu > Last(cpus) /\ cpu - 8 >= nblocks

\* However the TCM was mapped, whatever part of it was to be had, whatever the case
\* and the order of the CPUs: a worker reads memory that is mapped, all but those
\* that `needed` overlooks, which do read past the blocks; no more than there is and
\* as much as the rates are computed from; and the four blocks of its own cluster or
\* else a block that no worker on another CPU reads, unless sharing is asked for.
WorkersReadTheirOwn ==
    (pc = "sample" /\ taken = 0 /\ OnA100) =>
        /\ \A i \in DOMAIN cpus :
             (\A buffer \in ToSet(per_worker[i]) : IsMapped(buffer)) <=> ~ BeyondNeeded(cpus[i])
        /\ BytesAreLoaded
        /\ \A i \in DOMAIN cpus :
             IF which \in {3, 4}
             THEN LET own == { cpu \in kA100Cpus : (cpu <= 11) = (cpus[i] <= 11) }
                  IN  ToSet(per_worker[i]) = { IF which = 3 THEN Tcm(cpu - 8) ELSE A384(cpu - 8) : cpu \in own }
             ELSE \A j \in DOMAIN cpus :
                    (per_worker[i] = per_worker[j] /\ ~ (share /\ which = 0)) => cpus[i] = cpus[j]

\* The line of a point is that of its best sample: of those that overlapped if
\* there is one, and then without a star; of the others, with a star, if there
\* is none; and invalid only if every sample was rejected.
BestIsReported ==
    (pc = "sample" /\ taken = samples) =>
        LET overlapping == { s \in rated : s[1] }
        IN  /\ best.ok <=> rated # {}
            /\ best.overlap_ok <=> overlapping # {}
            /\ IF overlapping # {} THEN best.aggregate = Max({ s[2] : s \in overlapping })
               ELSE rated # {} => best.sum = Max({ s[3] : s \in rated })

\* The blocks, slices and buffers that the options make it map.
Mapped(region) ==
    \/ with_anon /\ region \in { AnonRegions[i] : i \in DOMAIN AnonRegions }
    \/ span_kb > 0 /\ region = Span
    \/ span_kb = 0 /\ region \in { Tcm(i) : i \in 0 .. nblocks - 1 }

\* When the program ends well, every block, slice and buffer it mapped was
\* unmapped, once, and nothing else was; only the page of --req-id, for which there
\* is no munmap(), is left to the exit of the process.
ReleasedOnce ==
    (pc = "returned" /\ code = 0) =>
        /\ mapped = IF req_id THEN {ReqPage} ELSE {}
        /\ \A region \in Regions : released[region] = IF Mapped(region) THEN 1 ELSE 0
===============================================================================
