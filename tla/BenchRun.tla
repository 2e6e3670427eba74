------------------------------ MODULE BenchRun ------------------------------
(***************************************************************************)
(* The benchmark driver and runner: main() once its arguments are read     *)
(* (CommandLine), run_benchmark (bench/framework/benchmark.cpp) and the    *)
(* perf event groups it opens (bench/perf.h).  One thread; what is hard is *)
(* that every call may fail and that everything opened must be closed on   *)
(* every way out.  The kernels' callbacks and perf_event_open are external *)
(* and may answer anything their signatures allow.                         *)
(***************************************************************************)
EXTENDS CommandLine, FiniteSets

CONSTANTS
    Types,           \* the quantization types, in the order of the enum
    TypeOf,          \* kernel->quantization
    BuildTarget,     \* build_target_platform()
    BlockOf,         \* the weights in a block of a type
    MultipleOf,      \* the multiples of M, N and K that a kernel asks for
    Elements,        \* the elements of the output matrix
    Deviations,      \* how an element may differ from the reference
    Elapsed,         \* cycles the calibration run may take
    TargetCycles,    \* request.target_cycles
    Times,           \* what a sample may add to a group's times: [enabled, running]
    None             \* no kernel, no group

ASSUME BenchRunAssumption ==
    /\ Types \in Seq(STRING) /\ IsInjective(Types)
    /\ TypeOf \in [Kernels -> { Types[i] : i \in DOMAIN Types }]
    /\ None \notin Kernels
    /\ BlockOf \in [{ Types[i] : i \in DOMAIN Types } -> Nat \ {0}]
    /\ \A k \in Kernels : MultipleOf[k] \in (Nat \ {0}) \X (Nat \ {0}) \X (Nat \ {0})
    /\ BuildTarget # "unknown"
    /\ Times \subseteq [enabled : Nat, running : Nat]
    /\ Elapsed \subseteq Nat
    /\ Deviations \subseteq {"exact", "absolute", "relative", "both", "nan"}
    /\ TargetCycles \in Nat

VARIABLES
    type,            \* index of the type the loop is at
    input,           \* the operands in memory: their type, and the blocks of weights
    todo,            \* kernels of this type the inner loop still has to see
    outcome,         \* what main() has printed of each kernel
    failed,          \* main()'s flag
    kernel,          \* the kernel run_benchmark is called for
    at,              \* where run_benchmark is
    state,           \* its prepared.state: "none", "live" or "destroyed"
    open,            \* the perf event groups that are open
    content,         \* history: the output is as reset() left it, or was touched since
    window,          \* the group: does it count, and what has it counted; a history
    iterations,      \* repetitions per timed run
    taken,           \* samples read so far
    times,           \* how long the counters were enabled and ran since they were opened
    output,          \* how each exported element compares with the reference
    result           \* BenchmarkResult: skipped, failed (a message), verified

driver == <<command, type, input, todo, outcome, failed>>
trial == <<state, open, content, window, iterations, taken, times, output>>
vars == <<driver, kernel, at, trial, result>>

NoWindow == [enabled |-> FALSE, fresh |-> FALSE, resets |-> 0, runs |-> 0]

NoTimes == [enabled |-> 0, running |-> 0]

NoInput == [type |-> None, blocks |-> 0]

Init ==
    /\ CommandInit
    /\ type = 0 /\ input = NoInput /\ todo = {}
    /\ outcome = [k \in Kernels |-> "unseen"] /\ failed = FALSE
    /\ kernel = None /\ at = "idle"
    /\ state = "none" /\ open = {} /\ content = "touched" /\ window = NoWindow
    /\ iterations = 0 /\ taken = 0 /\ times = NoTimes
    /\ output = [e \in Elements |-> "exact"]
    /\ result = [skipped |-> FALSE, failed |-> FALSE, verified |-> FALSE]

\* The selected kernels of a type.
KernelsOf(i) == { k \in Chosen : TypeOf[k] = Types[i] }

\* create_q4_0_input and its like: every row is cut in whole blocks.
CreatedInput(t) == [type |-> t, blocks |-> request.n * (request.k \div BlockOf[t])]

----------------------------------------------------------------------------
\* The arguments, and what they ask for.
Command ==
    /\ CommandNext
    /\ UNCHANGED <<type, input, todo, outcome, failed, kernel, at, trial, result>>

\* Fault: the operands are made once, for the first type that has kernels.
NextTypeOldInput ==
    /\ stage = "run" /\ at = "idle" /\ todo = {} /\ type < Len(Types)
    /\ type' = type + 1
    /\ todo' = KernelsOf(type + 1)
    /\ input' = IF todo' = {} \/ input # NoInput THEN input ELSE CreatedInput(Types[type + 1])
    /\ UNCHANGED <<command, outcome, failed, kernel, at, trial, result>>

\* The outer loop of main(): a type with selected kernels gets its input.
NextType ==
    /\ stage = "run" /\ at = "idle" /\ todo = {} /\ type < Len(Types)
    /\ type' = type + 1
    /\ todo' = KernelsOf(type + 1)
    /\ input' = IF todo' = {} THEN NoInput ELSE CreatedInput(Types[type + 1])
    /\ UNCHANGED <<command, outcome, failed, kernel, at, trial, result>>

\* The inner loop: run_benchmark(kernel, request, input) begins.
NextKernel ==
    /\ at = "idle"
    /\ \E k \in todo : kernel' = k /\ todo' = todo \ {k}
    /\ at' = "check"
    /\ UNCHANGED <<command, type, input, outcome, failed, trial, result>>

Fail == at' = "return" /\ result' = [result EXCEPT !.failed = TRUE]

Proceed(label) == at' = label /\ UNCHANGED result

\* validate_shape
Supported(k) ==
    /\ request.m % MultipleOf[k][1] = 0
    /\ request.n % MultipleOf[k][2] = 0
    /\ request.k % MultipleOf[k][3] = 0

\* register_kernel() writes the build platform into what it registers.
PlatformOf(k) == BuildTarget

kernel_supports_platform(k, platform) == platform # "unknown" /\ PlatformOf(k) = platform

\* The platform is checked, then validate().
Validate ==
    /\ at = "check"
    /\ IF ~ kernel_supports_platform(kernel, BuildTarget) THEN Fail
       ELSE IF Supported(kernel) THEN Proceed("prepare")
       ELSE at' = "return" /\ result' = [result EXCEPT !.skipped = TRUE]
    /\ UNCHANGED <<driver, kernel, trial>>

\* prepare() hands over a state, or an error and none.
Prepare ==
    /\ at = "prepare"
    /\ \/ Fail /\ UNCHANGED state
       \/ /\ state' = "live"
          /\ Proceed(IF request.verify THEN "verify" ELSE "warm")
    /\ UNCHANGED <<driver, kernel, open, content, window, iterations, taken, times, output>>

\* An element is wrong if it is off by both tolerances; no comparison with a
\* NaN is true.
Wrong(deviation) == deviation = "both"

\* reset(), run(1), export_output(), and every element is compared.
Verify ==
    /\ at = "verify"
    /\ content' = "touched"
    /\ \/ Fail /\ UNCHANGED output
       \/ \E answer \in [Elements -> Deviations] :
            /\ output' = answer
            /\ LET bad == \E e \in Elements : Wrong(answer[e])
               IN  /\ result' = [result EXCEPT !.verified = TRUE, !.failed = bad]
                   /\ at' = IF bad THEN "return" ELSE "warm"
    /\ UNCHANGED <<driver, kernel, state, open, window, iterations, taken, times>>

\* reset() and the warm-up iterations; an empty event list is an error (main()
\* lets --perf-events '' through).
WarmUp ==
    /\ at = "warm"
    /\ content' = "touched"
    /\ IF request.samples = 0 \/ request.perf_events = <<>> THEN Fail /\ UNCHANGED iterations
       ELSE IF request.iterations = 0 THEN Proceed("calibrate") /\ UNCHANGED iterations
       ELSE Proceed("open") /\ iterations' = request.iterations
    /\ UNCHANGED <<driver, kernel, state, open, window, taken, times, output>>

----------------------------------------------------------------------------
\* callbacks.reset(); a group that is enabled counts it.
Reset ==
    /\ content' = "reset"
    /\ window' = IF window.enabled THEN [window EXCEPT !.resets = @ + 1] ELSE window

\* start() resets the counts of the group and enables it; the times it was
\* enabled and ran are not reset by PERF_EVENT_IOC_RESET.
Enable ==
    /\ window' = [NoWindow EXCEPT !.enabled = TRUE, !.fresh = (content = "reset")]
    /\ UNCHANGED content

\* callbacks.run(); a group that is enabled counts it.
Count(repetitions) ==
    /\ content' = "touched"
    /\ window' = IF window.enabled THEN [window EXCEPT !.runs = @ + repetitions] ELSE window

\* The destructor of a group.
close_all(groups) == open' = open \ groups

\* The calibration group is opened.
CalibrateOpen ==
    /\ at = "calibrate"
    /\ \/ Fail /\ UNCHANGED open
       \/ Proceed("calibrate reset") /\ open' = open \cup {"calibration"}
    /\ UNCHANGED <<driver, kernel, state, content, window, iterations, taken, times, output>>

CalibrateReset ==
    /\ at = "calibrate reset"
    /\ Reset
    /\ Proceed("calibrate start")
    /\ UNCHANGED <<driver, kernel, state, open, iterations, taken, times, output>>

CalibrateStart ==
    /\ at = "calibrate start"
    /\ \/ Fail /\ UNCHANGED <<content, window>>
       \/ Proceed("calibrating") /\ Enable
    /\ UNCHANGED <<driver, kernel, state, open, iterations, taken, times, output>>

\* Fault: a kernel slower than the target gets no repetition.
RepetitionsUnbounded(elapsed) == TargetCycles \div (IF elapsed > 1 THEN elapsed ELSE 1)

\* How many repetitions come to the target.
Repetitions(elapsed) ==
    LET fit == TargetCycles \div (IF elapsed > 1 THEN elapsed ELSE 1)
    IN  IF fit > 1 THEN fit ELSE 1

\* Fault: the calibration group lives as long as the counters.
CalibrateHoldingGroup ==
    /\ at = "calibrating"
    /\ content' = "touched" /\ window' = NoWindow
    /\ \/ Fail /\ UNCHANGED iterations
       \/ Proceed("open") /\ \E elapsed \in Elapsed : iterations' = Repetitions(elapsed)
    /\ UNCHANGED <<driver, kernel, state, open, taken, times, output>>

\* run(1), stop_and_read(): a read error, or a counter that ran less than 99%
\* of this one window, is fatal.  The group is closed at the end of its block.
Calibrate ==
    /\ at = "calibrating"
    /\ content' = "touched" /\ window' = NoWindow
    /\ close_all({"calibration"})
    /\ \/ Fail /\ UNCHANGED iterations
       \/ Proceed("open") /\ \E elapsed \in Elapsed : iterations' = Repetitions(elapsed)
    /\ UNCHANGED <<driver, kernel, state, taken, times, output>>

\* counters.open(): all events or none.
OpenCounters ==
    /\ at = "open"
    /\ \/ Fail /\ UNCHANGED open
       \/ Proceed("sample") /\ open' = open \cup {"counters"}
    /\ UNCHANGED <<driver, kernel, state, content, window, iterations, taken, times, output>>

\* Fault: the kernel is reset once its events are counted.
SampleResetLate ==
    /\ at = "sample"
    /\ \/ taken = request.samples /\ Proceed("report") /\ UNCHANGED <<content, window>>
       \/ /\ taken < request.samples /\ Proceed("counting")
          /\ content' = "reset"
          /\ window' = [NoWindow EXCEPT !.enabled = TRUE, !.fresh = (content = "reset"), !.resets = 1]
    /\ UNCHANGED <<driver, kernel, state, open, iterations, taken, times, output>>

\* reset() for the next sample; after the last the report is made.
SampleReset ==
    /\ at = "sample"
    /\ \/ taken = request.samples /\ Proceed("report") /\ UNCHANGED <<content, window>>
       \/ taken < request.samples /\ Proceed("start") /\ Reset
    /\ UNCHANGED <<driver, kernel, state, open, iterations, taken, times, output>>

\* counters.start()
SampleStart ==
    /\ at = "start"
    /\ \/ Fail /\ UNCHANGED <<content, window>>
       \/ Proceed("counting") /\ Enable
    /\ UNCHANGED <<driver, kernel, state, open, iterations, taken, times, output>>

\* run(iterations)
SampleRun ==
    /\ at = "counting"
    /\ Count(iterations)
    /\ Proceed("read")
    /\ UNCHANGED <<driver, kernel, state, open, iterations, taken, times, output>>

\* The group is disabled and tells how long it has been enabled and has run in
\* all its samples.
Disable ==
    /\ window' = [window EXCEPT !.enabled = FALSE]
    /\ \E t \in Times : times' = [enabled |-> times.enabled + t.enabled,
                                 running |-> times.running + t.running]

\* time_running / time_enabled is at least 99%.
RanEnough(t) == t.enabled > 0 /\ t.running * 100 >= t.enabled * 99

\* Fault: the sample is taken but not counted.
SampleReadUncounted ==
    /\ at = "read"
    /\ \/ Fail /\ UNCHANGED <<window, times>>
       \/ Disable /\ Proceed("sample")
    /\ UNCHANGED <<driver, kernel, state, open, content, iterations, taken, output>>

\* Fault: nobody looks at the share of the time an event ran.
SampleReadUnchecked ==
    /\ at = "read"
    /\ \/ Fail /\ UNCHANGED <<window, taken, times>>
       \/ Disable /\ Proceed("sample") /\ taken' = taken + 1
    /\ UNCHANGED <<driver, kernel, state, open, content, iterations, output>>

\* stop_and_read(): a call may fail; an event that was never enabled, or that
\* ran less than 99% of the time it was enabled so far, condemns the result.
\* The events of a group are scheduled together: one pair of times stands for all.
SampleRead ==
    /\ at = "read"
    /\ \/ Fail /\ UNCHANGED <<window, taken, times>>
       \/ /\ Disable
          /\ IF RanEnough(times') THEN Proceed("sample") /\ taken' = taken + 1
             ELSE Fail /\ UNCHANGED taken
    /\ UNCHANGED <<driver, kernel, state, open, content, iterations, output>>

\* Medians and checksum(); if cycles were counted, peak_performance(), whose
\* model may be invalid.
Report ==
    /\ at = "report"
    /\ \/ "cycles" \in ToSet(Names(request.perf_events)) /\ Fail
       \/ Proceed("return")
    /\ UNCHANGED <<driver, kernel, trial>>

\* The destructors: the groups are closed and the state is destroyed.
Return ==
    /\ at = "return"
    /\ Proceed("returned")
    /\ close_all(open)
    /\ state' = IF state = "live" THEN "destroyed" ELSE state
    /\ UNCHANGED <<driver, kernel, content, window, iterations, taken, times, output>>

\* Back in main(): SKIP, FAIL or the figures are printed.
Verdict(r) == IF r.skipped THEN "skip" ELSE IF r.failed THEN "fail" ELSE "pass"

\* Fault: the flag tells of the last kernel only.
PrintForgetting ==
    /\ at = "returned"
    /\ outcome' = [outcome EXCEPT ![kernel] = Verdict(result)]
    /\ failed' = (Verdict(result) = "fail")
    /\ kernel' = None /\ at' = "idle"
    /\ state' = "none" /\ open' = {} /\ content' = "touched" /\ window' = NoWindow
    /\ iterations' = 0 /\ taken' = 0 /\ times' = NoTimes
    /\ output' = [e \in Elements |-> "exact"]
    /\ result' = [skipped |-> FALSE, failed |-> FALSE, verified |-> FALSE]
    /\ UNCHANGED <<command, type, input, todo>>

PrintResult ==
    /\ at = "returned"
    /\ outcome' = [outcome EXCEPT ![kernel] = Verdict(result)]
    /\ failed' = (failed \/ Verdict(result) = "fail")
    /\ kernel' = None /\ at' = "idle"
    /\ state' = "none" /\ open' = {} /\ content' = "touched" /\ window' = NoWindow
    /\ iterations' = 0 /\ taken' = 0 /\ times' = NoTimes
    /\ output' = [e \in Elements |-> "exact"]
    /\ result' = [skipped |-> FALSE, failed |-> FALSE, verified |-> FALSE]
    /\ UNCHANGED <<command, type, input, todo>>

\* return failed ? 1 : 0
Finish ==
    /\ stage = "run" /\ at = "idle" /\ todo = {} /\ type = Len(Types)
    /\ Leave(IF failed THEN 1 ELSE 0)
    /\ UNCHANGED <<type, input, todo, outcome, failed, kernel, at, trial, result>>

Exited == stage = "exit"

Next ==
    \/ Command \/ Finish
    \/ NextType \/ NextKernel \/ Validate \/ Prepare \/ Verify \/ WarmUp
    \/ CalibrateOpen \/ CalibrateReset \/ CalibrateStart \/ Calibrate \/ OpenCounters
    \/ SampleReset \/ SampleStart \/ SampleRun \/ SampleRead \/ Report
    \/ Return \/ PrintResult
    \/ Exited /\ UNCHANGED vars

Spec == Init /\ [][Next]_vars

\* One thread; every callback and system call returns.
FairSpec == Spec /\ WF_vars(Next)

----------------------------------------------------------------------------
\* What is counted is the kernel and nothing but the kernel: the output was reset
\* before the group was enabled and not touched until then, the reset is not
\* counted, and the repetitions are those the value is divided by, at least one.
TimedRunIsPure ==
    at = "read" =>
        /\ window = [enabled |-> TRUE, fresh |-> TRUE, resets |-> 0, runs |-> iterations]
        /\ iterations > 0

\* Two pinned groups never compete for the hardware counters, and on every
\* way out the groups are closed and the kernel's state is destroyed.
NothingHeld ==
    /\ Cardinality(open) <= 1
    /\ at = "returned" => open = {} /\ state # "live"

\* Figures are printed only of a kernel that was verified, if that was asked for,
\* and from as many samples as were asked for; and whenever a sample was kept,
\* the events had run 99% of the time they were enabled in it and all samples
\* before it.  Of one sample alone that is not said: the times are never reset,
\* and a short sample can hide behind full ones.
FiguresAreSound ==
    /\ at = "sample" /\ taken > 0 => RanEnough(times)
    /\ at = "returned" /\ Verdict(result) = "pass" =>
         /\ result.verified = request.verify
         /\ \A e \in Elements : output[e] # "both"
         /\ taken = request.samples /\ taken > 0
         /\ RanEnough(times)

\* What the exit status tells of the kernels, if the options asked for were given.
ExitTells(asked) ==
    LET seen == { k \in Kernels : outcome[k] # "unseen" }
        here == ToSet(compatibles) \intersect BuildCompatibles # {}
    IN  /\ kernel # None => outcome[kernel] = "unseen"
        /\ Exited =>
             /\ exit = 1 <=> \E k \in Kernels : outcome[k] = "fail"
             /\ exit \in {0, 1} => seen = IF asked = {} THEN Chosen ELSE {}
             /\ exit = 0 => here \/ "--build-info" \in asked
             /\ exit = 3 => ~ here
             /\ exit \in {2, 3} => seen = {}

\* The exit status tells what happened: 1 that some kernel failed, wherever in
\* the sequence; 0 that every kernel asked for was run and reported, none twice
\* and none that was not asked for, or that what was asked for was information,
\* which only --build-info gets on a wrong platform; 3 that the platform is
\* wrong; and with 2 or 3 nothing was run.
ExitTellsAll == ExitTells({ option[1] : option \in ToSet(given) } \intersect ModeOptions)

\* A kernel that is prepared gets operands of its own type, and all of them:
\* what the input leaves out of a row that is no whole number of blocks is never
\* asked for.
InputIsComplete ==
    at \notin {"idle", "check"} /\ ~ result.skipped =>
        /\ input.type = TypeOf[kernel]
        /\ input.blocks * BlockOf[input.type] = request.n * request.k

\* The program comes to its exit whatever fails.
Terminates == <>Exited

\* A kernel that passed the check against the reference is within a tolerance
\* of it everywhere.
PassMeansMatches ==
    at = "returned" /\ Verdict(result) = "pass" /\ result.verified =>
        \A e \in Elements : output[e] \in {"exact", "absolute", "relative"}
=============================================================================
