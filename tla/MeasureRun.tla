----------------------------- MODULE MeasureRun -----------------------------
(***************************************************************************)
(* One measured point of the seven multi-threaded machine benchmarks: a      *)
(* worker per CPU prepares itself, meets the others, measures, meets them  *)
(* again and tidies up; the main thread joins them, judges the sample and  *)
(* takes the next one.  The programs differ in what they do when a worker  *)
(* fails and in what they ask of a sample:                                 *)
(* k3_bandwidth_diagnose.cpp carries a flag `prepared` through one body and *)
(* asks the windows to overlap; k3_pmu_diagnose.cpp has the same body and   *)
(* no clock; in k3_path_bandwidth.cpp and k3_load_sharing.cpp a worker that *)
(* fails waits twice and returns; so in k3_mem_bandwidth.cpp, where poor    *)
(* counters and a poor overlap are printed, not refused; k3_scaling.cpp has *)
(* one wait only, and no buffer; in k3_tcm_bandwidth.cpp the main thread has *)
(* the buffers (TcmBandwidth), and a poor overlap is marked, not refused.   *)
(* The barrier is used through its contract, which SpinBarrier implements: *)
(* two waits at one barrier, or one at each of two, are the same to it.    *)
(***************************************************************************)
EXTENDS Integers, FiniteSets

CONSTANTS
    Cpus,            \* the CPUs of the point, one worker pinned to each
    Samples          \* how many samples of the point are taken

ASSUME MeasureRunAssumption ==
    /\ IsFiniteSet(Cpus) /\ Cpus # {}
    /\ Samples \in Nat \ {0}

VARIABLES
    program,         \* the program that runs, a record of Programs
    stage,           \* where each worker is
    prepared,        \* whether nothing has failed for it so far
    mapped,          \* whether it holds a buffer
    counters,        \* the descriptors its counter object holds
    arrived, passed, \* the barrier's view: waits begun and finished
    begin, end,      \* its two readings of the wall clock, its window
    clock,           \* CLOCK_MONOTONIC: it ticks at every reading
    reading,         \* what its counters and its CPU said of the measurement
    ok,              \* Sample::ok, what the main thread reads
    sample, verdict, \* the main thread's loop, and what it says of this sample
    together         \* history: one moment lay in the windows of all workers

worker == <<stage, prepared, mapped, counters, begin, end, clock, reading, ok, together>>
vars == <<program, worker, arrived, passed, sample, verdict>>

Barrier == INSTANCE BarrierContract WITH Threads <- Cpus, Waits <- 2

(* A program, by what its worker does and what is asked of a sample: whether *)
(* it maps a buffer; how often it waits; whether one that failed unmaps like *)
(* any other, and a measurement whose counters do not start is skipped; and  *)
(* whether the windows must overlap and the counters run all the time.       *)

ProgramBandwidth == [ buffer |-> TRUE, waits |-> 2, tidy |-> TRUE, overlap |-> TRUE, share |-> TRUE ]
ProgramPmu == [ ProgramBandwidth EXCEPT !.overlap = FALSE ]
ProgramPath == [ ProgramBandwidth EXCEPT !.tidy = FALSE ]
ProgramLoadSharing == [ buffer |-> TRUE, waits |-> 2, tidy |-> FALSE, overlap |-> TRUE, share |-> TRUE ]
ProgramMem == [ ProgramPath EXCEPT !.overlap = FALSE, !.share = FALSE ]
ProgramScaling == [ ProgramPath EXCEPT !.buffer = FALSE, !.waits = 1, !.overlap = FALSE ]
ProgramTcm == [ ProgramScaling EXCEPT !.waits = 2 ]

\* Two of them are the same in all of this.
Programs ==
    {ProgramBandwidth, ProgramPmu, ProgramPath, ProgramLoadSharing, ProgramMem, ProgramScaling, ProgramTcm}

Tidy == program.tidy
AsksOverlap == program.overlap
WaitsTwice == program.waits = 2

Fresh(value) == [w \in Cpus |-> value]

Init ==
    /\ program \in Programs
    /\ stage = Fresh("pin") /\ prepared = Fresh(TRUE) /\ mapped = Fresh(FALSE)
    /\ counters = Fresh({}) /\ Barrier!Init
    /\ begin = Fresh(0) /\ end = Fresh(0) /\ clock = 1
    /\ reading = Fresh("none") /\ ok = Fresh(FALSE) /\ together = FALSE
    /\ sample = 1 /\ verdict = "none"

Go(w, label) == stage' = [stage EXCEPT ![w] = label]

\* A step of the set-up: it succeeds, or the worker goes straight to the barrier.
SetUp(w, here, next) ==
    /\ stage[w] = here
    /\ \E good \in BOOLEAN :
         /\ prepared' = [prepared EXCEPT ![w] = good]
         /\ Go(w, IF good THEN next ELSE "ready")
    /\ UNCHANGED <<arrived, passed, begin, end, clock, reading, ok, together, sample, verdict>>

\* pin_to_a100(cpu) && verify_cpu(cpu): the CPU is one of the range, the kernel
\* lets the thread in, the mask is set, and the thread runs there.
Pin(w) ==
    /\ SetUp(w, "pin", IF program.buffer THEN "map" ELSE "open")
    /\ UNCHANGED <<mapped, counters>>

\* What comes of mapping a buffer.  One that refuses huge pages is unmapped at
\* once; the diagnosis programs also give up on one that was filled and turns
\* out to have none, which stays mapped.
Buffers ==
    { [held |-> TRUE, usable |-> TRUE], [held |-> FALSE, usable |-> FALSE] }
    \cup IF Tidy THEN { [held |-> TRUE, usable |-> FALSE] } ELSE {}

Map(w) ==
    /\ SetUp(w, "map", "open")
    /\ \E buffer \in Buffers :
         /\ mapped' = [mapped EXCEPT ![w] = buffer.held]
         /\ prepared'[w] = buffer.usable
    /\ UNCHANGED counters

\* The cycles are opened first and lead the group the second event joins; what
\* a failing open() has opened stays with the counter object.
Descriptors == {{}, {"leader"}, {"leader", "member"}}

OpenCounters(w) ==
    /\ SetUp(w, "open", "warm")
    /\ \E opened \in Descriptors :
         /\ counters' = [counters EXCEPT ![w] = opened]
         /\ prepared'[w] = (opened = {"leader", "member"})
    /\ UNCHANGED mapped

\* The untimed passes over the buffer.
WarmUp(w) ==
    /\ stage[w] = "warm"
    /\ Go(w, "ready")
    /\ UNCHANGED <<prepared, mapped, counters, begin, end, clock, reading, ok, together>>
    /\ UNCHANGED <<arrived, passed, sample, verdict>>

\* The worker is counted at the barrier in front of it.
Arrive(w) ==
    /\ \/ stage[w] = "ready" /\ arrived[w] = 0
       \/ stage[w] = "done" /\ arrived[w] = 1
    /\ Barrier!Arrive(w)
    /\ UNCHANGED <<worker, sample, verdict>>

Leave(w, here, next) ==
    /\ stage[w] = here
    /\ Barrier!Leave(w)
    /\ Go(w, next)
    /\ UNCHANGED <<prepared, mapped, counters, begin, end, clock, reading, ok, together, sample, verdict>>

LeaveReady(w) == prepared[w] /\ Leave(w, "ready", "begin")

\* Fault: a worker that failed waits once only.
GiveUpForGood(w) == ~ prepared[w] /\ Leave(w, "ready", "release")

\* A worker that failed goes from the first wait to the second.
GiveUp(w) == ~ prepared[w] /\ Leave(w, "ready", IF WaitsTwice THEN "done" ELSE "release")

\* Between its two readings of the clock a worker starts its counters, runs the
\* kernel and stops them.
Window == {"start", "measuring", "uncounted", "stopped"}

\* wall_seconds(), kept only where the verdict depends on it.
Read(times, w) == IF AsksOverlap THEN [times EXCEPT ![w] = clock] ELSE times
Tick == clock' = IF AsksOverlap THEN clock + 1 ELSE clock

\* The window opens.  k3_pmu_diagnose.cpp reads no clock.
ReadBegin(w) ==
    /\ stage[w] = "begin"
    /\ begin' = Read(begin, w) /\ Tick
    /\ Go(w, "start")
    /\ together' = (together \/ \A u \in Cpus : stage'[u] \in Window)
    /\ UNCHANGED <<prepared, mapped, counters, end, reading, ok, arrived, passed, sample, verdict>>

\* start(): the group is reset and enabled, and either call may fail.  The
\* diagnosis programs then skip the kernel; the others do not look.
StartOutcomes == {"measuring", "uncounted"}

Start(w) ==
    /\ stage[w] = "start"
    /\ \E next \in StartOutcomes : Go(w, next)
    /\ UNCHANGED <<prepared, mapped, counters, begin, end, clock, reading, ok, together>>
    /\ UNCHANGED <<arrived, passed, sample, verdict>>

\* stop(): stopping or reading the group failed ("bad"), or it counted only part
\* of the time, or all of it.  A group that was never enabled has no time at all:
\* it is read well, with a share of 0 ("empty").
Readings(w) ==
    IF stage[w] = "uncounted"
    THEN IF Tidy THEN {"bad"} ELSE {"bad", "empty"}
    ELSE {"bad", "multiplexed", "good"}

Stop(w) ==
    /\ stage[w] \in {"measuring", "uncounted"}
    /\ \E r \in Readings(w) : reading' = [reading EXCEPT ![w] = r]
    /\ Go(w, "stopped")
    /\ UNCHANGED <<prepared, mapped, counters, begin, end, clock, ok, together>>
    /\ UNCHANGED <<arrived, passed, sample, verdict>>

\* The window closes.
ReadEnd(w) ==
    /\ stage[w] = "stopped"
    /\ end' = Read(end, w) /\ Tick
    /\ Go(w, IF WaitsTwice THEN "done" ELSE "release")
    /\ UNCHANGED <<prepared, mapped, counters, begin, reading, ok, together>>
    /\ UNCHANGED <<arrived, passed, sample, verdict>>

LeaveDone(w) == Leave(w, "done", "release")

\* The destructor of the counter object.
CloseCounters(w) == counters' = [counters EXCEPT ![w] = {}]

\* k3_mem_bandwidth.cpp asks only that stop() succeeded: it takes a reading whose
\* share is too small, even one of counters that were never started, and marks the
\* line "[pmu]".
Fine(r) == r = "good" \/ (~ program.share /\ r \in {"multiplexed", "empty"})

\* The result of a worker that measured: its reading counts for nothing if the
\* thread has been moved to another CPU.  (The diagnosis programs ask for the CPU
\* before the second wait.)
Result(w) ==
    \E stayed \in BOOLEAN :
      /\ reading' = [reading EXCEPT ![w] = IF prepared[w] /\ ~ stayed THEN "bad" ELSE @]
      /\ ok' = [ok EXCEPT ![w] = IF prepared[w] THEN stayed /\ Fine(reading[w]) ELSE @]

\* Fault: only a worker that measured unmaps its buffer.
ReleaseIfPrepared(w) ==
    /\ stage[w] = "release"
    /\ Result(w)
    /\ mapped' = [mapped EXCEPT ![w] = @ /\ ~ prepared[w]]
    /\ CloseCounters(w)
    /\ Go(w, "gone")
    /\ UNCHANGED <<prepared, begin, end, clock, together, arrived, passed, sample, verdict>>

\* The result is in place, the buffer is unmapped, the counter object is
\* destroyed and the thread ends.
Release(w) ==
    /\ stage[w] = "release"
    /\ Result(w)
    /\ mapped' = [mapped EXCEPT ![w] = @ /\ ~ (Tidy \/ prepared[w])]
    /\ CloseCounters(w)
    /\ Go(w, "gone")
    /\ UNCHANGED <<prepared, begin, end, clock, together, arrived, passed, sample, verdict>>

AllOk == \A w \in Cpus : ok[w]

\* Fault: the overlap is reckoned from the first window that opened.
OverlapFromFirst == \A w \in Cpus : \E u \in Cpus : end[w] > begin[u]

\* first_end - last_begin > 0
Overlap == \A w, u \in Cpus : end[w] > begin[u]

\* After the joins: every worker must be in order and, where the program asks
\* for it, the windows must overlap enough and the frequencies agree.
Judge ==
    /\ \A w \in Cpus : stage[w] = "gone"
    /\ verdict = "none"
    /\ \E agreed \in BOOLEAN :
         /\ ~ AsksOverlap => agreed
         /\ verdict' = IF /\ AllOk
                          /\ AsksOverlap => agreed /\ Overlap
                        THEN "accepted" ELSE "rejected"
    /\ UNCHANGED <<worker, arrived, passed, sample>>

\* Fault: the results of the sample before are kept.
NextSampleKeepsResults ==
    /\ verdict # "none" /\ sample < Samples
    /\ sample' = sample + 1 /\ verdict' = "none"
    /\ stage' = Fresh("pin") /\ prepared' = Fresh(TRUE) /\ mapped' = Fresh(FALSE)
    /\ counters' = Fresh({})
    /\ arrived' = Fresh(0) /\ passed' = Fresh(0)
    /\ clock' = 1 /\ together' = FALSE /\ UNCHANGED <<begin, end, ok, reading>>

\* The next sample has a barrier, results and threads of its own.
NextSample ==
    /\ verdict # "none" /\ sample < Samples
    /\ sample' = sample + 1 /\ verdict' = "none"
    /\ stage' = Fresh("pin") /\ prepared' = Fresh(TRUE) /\ mapped' = Fresh(FALSE)
    /\ counters' = Fresh({})
    /\ arrived' = Fresh(0) /\ passed' = Fresh(0)
    /\ begin' = Fresh(0) /\ end' = Fresh(0) /\ clock' = 1
    /\ reading' = Fresh("none") /\ ok' = Fresh(FALSE) /\ together' = FALSE

\* The worker's thread.
Work(w) ==
    \/ Pin(w) \/ Map(w) \/ OpenCounters(w) \/ WarmUp(w)
    \/ Arrive(w) \/ LeaveReady(w) \/ GiveUp(w)
    \/ ReadBegin(w) \/ Start(w) \/ Stop(w) \/ ReadEnd(w)
    \/ LeaveDone(w) \/ Release(w)

AllSampled == verdict # "none" /\ sample = Samples

Next ==
    \/ /\ (\E w \in Cpus : Work(w)) \/ Judge \/ NextSample
       /\ UNCHANGED program
    \/ AllSampled /\ UNCHANGED vars

Spec == Init /\ [][Next]_vars

\* Every worker has a CPU to itself, and every call it makes returns.
FairSpec ==
    /\ Spec
    /\ \A w \in Cpus : WF_vars(Work(w) /\ UNCHANGED program)
    /\ WF_vars((Judge \/ NextSample) /\ UNCHANGED program)

----------------------------------------------------------------------------
SettingUp == {"pin", "map", "open", "warm"}

\* While the window of anybody is open, nobody binds threads, maps memory, opens
\* counters or warms caches, whoever failed and however late the slowest is; and
\* where the workers meet again before they tidy up, nobody unmaps or closes
\* anything.
QuietMeasurement ==
    \A w, u \in Cpus :
        stage[w] \in Window =>
            /\ stage[u] \notin SettingUp
            /\ WaitsTwice => stage[u] \notin {"release", "gone"}

\* A sample is accepted only if, in this sample, every worker was set up and read
\* its counters, on its CPU to the end, and, where the program asks for an overlap,
\* one moment lay in the windows of all of them.  All but k3_mem_bandwidth.cpp ask
\* that the counters ran all the time; that one also takes counters that were
\* multiplexed or could not be started.
AcceptedMeansTogether ==
    verdict = "accepted" =>
        /\ AsksOverlap => together
        /\ \A w \in Cpus :
             /\ prepared[w]
             /\ reading[w] \in {"good"} \cup (IF program.share THEN {} ELSE {"multiplexed", "empty"})

\* When the main thread is past the joins nobody uses the barrier or the
\* results any more, no counter is open, and a tidy program has no buffer left.
NobodyLeftBehind ==
    verdict # "none" =>
        \A w \in Cpus : /\ stage[w] = "gone" /\ counters[w] = {}
                        /\ arrived[w] = passed[w] /\ passed[w] = IF WaitsTwice THEN 2 ELSE 1
                        /\ mapped[w] => ~ Tidy /\ ~ prepared[w]

\* Whoever fails and wherever, every sample comes to a verdict.
EverySampleEnds == <>AllSampled
============================================================================
